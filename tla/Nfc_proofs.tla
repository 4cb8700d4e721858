----------------------------- MODULE Nfc_proofs -----------------------------
(***************************************************************************)
(* Proofs about the NFC transport.                                         *)
(*                                                                         *)
(* NfcSession: the three threads of the transport share the exchange; a    *)
(* request belongs to it by its generation.  The inductive invariant says  *)
(* that a worker whose generation is the one of the exchange serves the    *)
(* request accepted last (Owning), that every other worker has an older    *)
(* generation, which a reset can not bring back (Working), and that a      *)
(* request that was voided has left a mark that the next poll sees: the    *)
(* transport is stopping, or its session is the cancelled one (Voided).    *)
(* The first part is about the exchange as a record, the second shows each *)
(* action to keep the invariant, and the theorems come last.               *)
(*                                                                         *)
(* NfcIsoDep: that a command is carried out at most once needs no          *)
(* assumption: once it was, its answer is kept, and the block that the     *)
(* reader may repeat is the one whose answer that is (OnceInv).  For the   *)
(* order of the response, reader and card take turns, so that a command is *)
(* in one of five stages, each with what is on the air and what the card   *)
(* keeps to be sent again, until something is spoilt (LinkInv).            *)
(***************************************************************************)
EXTENDS NfcSession, NfcIsoDep, TLAPS

\* The positions at which a thread has a request in hand.
Serving == {"run", "prompt", "approved", "commit", "answer"}

\* The records that the exchange may be, with session numbers up to m.
ExSet(m) == [pend : BOOLEAN, proc : BOOLEAN, cflag : BOOLEAN, psid : 0..m, gen : Gen,
             req : Id, ready : BOOLEAN, err : BOOLEAN, large : BOOLEAN, page : Page,
             gr : BOOLEAN, tx : {"none", "active", "done"}]

\* The worker serves the request that the exchange is about.
Own == wk.pc \in Serving /\ wk.gen = ex.gen

\* A request that waits for the worker is the one accepted last, and carries the
\* newest request generation.
Pending == ex.pend => /\ ex.proc /\ ~ex.ready /\ ex.gen = rgen /\ ex.req = last
                      /\ ex.psid # 0 /\ last # 0

\* A request that the callback serves itself is the one accepted last, and the
\* worker is not serving one for the same exchange.
Calling == cb.pc \in Serving => cb.id = last /\ ~ex.pend /\ ~Own

\* The generation of the worker's request is never ahead of the exchange, and is
\* older than that of a request that waits.
Working == wk.pc \in Serving => /\ wk.gen <= rgen /\ wk.gen <= ex.gen
                                /\ ex.pend => wk.gen < ex.gen
                                /\ wk.kind = "queued" /\ wk.id # 0

\* While the worker's generation is the one of the exchange, its request is the
\* one accepted last and no response is there yet.
Owning == Own => /\ ex.proc /\ ~ex.pend /\ ~ex.ready
                 /\ ex.psid = wk.sid /\ last = wk.id

\* A voided request stays recognisable until the next selection or request: the
\* applet is not selected, or the transport stops, and the session of the request
\* is the one marked as cancelled.
Voided == /\ void # 0 => stopping \/ (~sel /\ ex.psid = 0)
          /\ wk.pc \in Serving /\ void = wk.id => stopping \/ canceled = wk.sid

\* The applet is selected only under a session number of its own.
Selected == sel => sid # 0

\* Only requests that were accepted are served.
Counted == wk.id <= n /\ cb.id <= n

\* The inductive invariant.
IInv == /\ TypeOK /\ Selected /\ Counted /\ Pending /\ Calling /\ Working /\ Owning
        /\ ResponseOfLastRequest /\ Voided

\* The variables that the rest of the invariant does not read.
Others == /\ cool \in BOOLEAN /\ listening \in BOOLEAN /\ auto \in BOOLEAN
          /\ evt \subseteq {"stop", "request"}
          /\ got \in [id : Id, from : Page, upto : Page]

\* What the invariant reads of the exchange.
SameEx(e, f) == /\ f.pend = e.pend /\ f.proc = e.proc /\ f.gen = e.gen /\ f.req = e.req
                /\ f.psid = e.psid /\ f.ready = e.ready

\* f is the exchange e after a reset.
ClearEx(e, f) == /\ ~f.pend /\ ~f.proc /\ ~f.ready /\ f.psid = 0
                 /\ f.gen = e.gen + 1

\* The parts of the type invariant, in the form that the steps below use.
LEMMA Types ==
    ASSUME TypeOK
    PROVE  /\ sid \in Nat /\ canceled \in 0..sid /\ rgen \in Gen /\ n \in Id
           /\ last \in 0..n /\ void \in 0..n /\ ex \in ExSet(sid)
           /\ wk \in Thread /\ cb \in Thread /\ sel \in BOOLEAN /\ stopping \in BOOLEAN
           /\ Others
  BY DEF TypeOK, ExSet, Others

\* The fields of an exchange.
LEMMA ExTypes ==
    ASSUME NEW m \in Nat, NEW e \in ExSet(m)
    PROVE  /\ e.pend \in BOOLEAN /\ e.proc \in BOOLEAN /\ e.cflag \in BOOLEAN
           /\ e.psid \in 0..m /\ e.gen \in Gen /\ e.req \in Id /\ e.ready \in BOOLEAN
           /\ e.err \in BOOLEAN /\ e.large \in BOOLEAN /\ e.page \in Page
           /\ e.gr \in BOOLEAN /\ e.tx \in {"none", "active", "done"}
  BY DEF ExSet

\* The fields of a thread.
LEMMA ThreadTypes ==
    ASSUME NEW t \in Thread
    PROVE  /\ t.id \in Id /\ t.sid \in Nat /\ t.gen \in Gen /\ t.old \in BOOLEAN
           /\ t.kind \in AnyApdu \cup {"none"}
  BY DEF Thread

\* A thread with nothing to do, and one that has ended, serve no request.
LEMMA IdleThread ==
    /\ Idle \in Thread /\ Idle.pc = "idle" /\ Idle.id = 0
    /\ Idle.pc \notin Serving
    /\ [Idle EXCEPT !.pc = "gone"] \in Thread
    /\ [Idle EXCEPT !.pc = "gone"].pc = "gone"
    /\ [Idle EXCEPT !.pc = "gone"].id = 0
  <1>1. 0 \in Id /\ 0 \in Gen /\ 0 \in Nat /\ FALSE \in BOOLEAN
    BY NfcAssumption DEF Id, Gen
  <1>2. Idle \in Thread
    BY <1>1, Zenon DEF Idle, Thread
  <1>3. [Idle EXCEPT !.pc = "gone"] \in Thread
    BY <1>2 DEF Thread
  <1>4. /\ Idle.pc = "idle" /\ Idle.id = 0
        /\ [Idle EXCEPT !.pc = "gone"].pc = "gone" /\ [Idle EXCEPT !.pc = "gone"].id = 0
    BY DEF Idle
  <1>5. "idle" \notin Serving
    BY DEF Serving
  <1> QED
    BY <1>2, <1>3, <1>4, <1>5

\* An exchange that was reset holds neither a request nor a response.
LEMMA NoExType ==
    ASSUME NEW m \in Nat, NEW g \in Gen
    PROVE  LET f == [NoEx EXCEPT !.gen = g] IN
           /\ f \in ExSet(m) /\ f.gen = g
           /\ ~f.pend /\ ~f.proc /\ ~f.ready /\ ~f.err /\ f.psid = 0
  <1>1. /\ 0 \in 0..m /\ 0 \in Gen /\ 0 \in Id /\ 0 \in Page /\ FALSE \in BOOLEAN
        /\ "none" \in {"none", "active", "done"}
    BY NfcAssumption DEF Id, Page, Gen
  <1>2. NoEx \in ExSet(m)
    BY <1>1, Zenon DEF NoEx, ExSet
  <1>3. [NoEx EXCEPT !.gen = g] \in ExSet(m)
    BY <1>2 DEF ExSet
  <1>4. LET f == [NoEx EXCEPT !.gen = g] IN
        f.gen = g /\ ~f.pend /\ ~f.proc /\ ~f.ready /\ ~f.err /\ f.psid = 0
    BY DEF NoEx
  <1> QED
    BY <1>3, <1>4

\* The state of the chain of blocks is not read by the invariant.
LEMMA TxType ==
    ASSUME NEW m \in Nat, NEW e \in ExSet(m), NEW x \in {"none", "active", "done"}
    PROVE  [e EXCEPT !.tx = x] \in ExSet(m) /\ SameEx(e, [e EXCEPT !.tx = x])
  BY DEF ExSet, SameEx

\* The cancel flag of the exchange is not read by the invariant.
LEMMA FlagType ==
    ASSUME NEW m \in Nat, NEW e \in ExSet(m)
    PROVE  [e EXCEPT !.cflag = TRUE] \in ExSet(m) /\ SameEx(e, [e EXCEPT !.cflag = TRUE])
  BY DEF ExSet, SameEx

\* reset_exchange empties the exchange and moves its generation on by one.
LEMMA ResetFacts ==
    ASSUME TypeOK, ResetExchange
    PROVE  /\ ClearEx(ex, ex') /\ ex.gen \in Nat
           /\ \A m \in Nat : ex' \in ExSet(m)
  <1>1. ex.gen \in Gen /\ ex.gen < MaxGen
    BY Types, ExTypes DEF ResetExchange
  <1>2. ex.gen + 1 \in Gen /\ ex.gen \in Nat
    BY <1>1, NfcAssumption DEF Gen
  <1>3. ex' = [NoEx EXCEPT !.gen = ex.gen + 1]
    BY DEF ResetExchange
  <1>4. \A m \in Nat : ex' \in ExSet(m)
    BY <1>2, <1>3, NoExType, Zenon
  <1>5. ClearEx(ex, ex')
    <2>1. 0 \in Nat
      OBVIOUS
    <2> QED
      BY <1>2, <1>3, <2>1, NoExType, Zenon DEF ClearEx
  <1> QED
    BY <1>2, <1>4, <1>5

\* A step that leaves what the invariant reads of the exchange, the worker and
\* the numbers alone.
LEMMA SameKeeps ==
    ASSUME IInv, ex' \in ExSet(sid'), SameEx(ex, ex'),
           UNCHANGED <<sid, canceled, rgen, wk, n, last, void>>,
           sel' \in BOOLEAN, sel' => sel, stopping' \in BOOLEAN, stopping => stopping',
           cb' \in Thread, cb'.id <= n, cb'.pc \in Serving => cb.pc \in Serving /\ cb'.id = cb.id,
           Others'
    PROVE  IInv'
  <1>1. TypeOK'
    BY SMT DEF IInv, TypeOK, ExSet, Others
  <1>2. Own' <=> Own
    BY Zenon DEF Own, SameEx
  <1>3. Selected' /\ Counted' /\ Pending' /\ ResponseOfLastRequest'
    BY Zenon DEF IInv, Selected, Counted, Pending, ResponseOfLastRequest, SameEx
  <1>4. Calling'
    BY <1>2, Zenon DEF IInv, Calling, SameEx
  <1>5. Working'
    BY Zenon DEF IInv, Working, SameEx
  <1>6. Owning'
    BY <1>2, Zenon DEF IInv, Owning, SameEx
  <1>7. Voided'
    BY Zenon DEF IInv, Voided, SameEx
  <1> QED
    BY <1>1, <1>3, <1>4, <1>5, <1>6, <1>7, Zenon DEF IInv

\* A step that resets the exchange: the request of the worker is no longer the
\* one of the exchange.
LEMMA ResetKeeps ==
    ASSUME IInv, ClearEx(ex, ex'), ex' \in ExSet(sid'), ex.gen \in Nat,
           UNCHANGED <<rgen, wk, n, stopping>>,
           sid' \in Nat, canceled' \in 0..sid', last' \in 0..n, void' \in 0..n,
           sel' \in BOOLEAN, sel' => sid' # 0,
           cb' \in Thread, cb'.id <= n, cb'.pc \notin Serving,
           Others',
           void' # 0 => stopping \/ ~sel',
           wk.pc \in Serving /\ void' = wk.id => stopping \/ canceled' = wk.sid
    PROVE  IInv'
  <1>1. TypeOK'
    BY SMT DEF IInv, TypeOK, ExSet, Others
  <1>2. wk.pc \in Serving => wk.gen < ex'.gen
    <2>1. wk.gen \in Nat
      BY Types, ThreadTypes, NfcAssumption DEF IInv, Gen
    <2> QED
      BY <2>1, SMT DEF IInv, Working, ClearEx
  <1>3. ~Own'
    <2>1. wk.gen \in Nat /\ ex'.gen \in Nat
      BY Types, ThreadTypes, NfcAssumption DEF IInv, Gen, ClearEx
    <2> QED
      BY <1>2, <2>1 DEF Own
  <1>4. Selected' /\ Counted' /\ Pending' /\ ResponseOfLastRequest' /\ Calling' /\ Owning'
    BY <1>3, Zenon
       DEF IInv, Selected, Counted, Pending, ResponseOfLastRequest, ClearEx, Calling, Owning
  <1>5. Working'
    <2>1. wk.gen \in Nat
      BY Types, ThreadTypes, NfcAssumption DEF IInv, Gen
    <2>2. wk.pc \in Serving => wk.gen <= ex'.gen
      BY <1>2, <2>1 DEF ClearEx
    <2> QED
      BY <2>2, Zenon DEF IInv, Working, ClearEx
  <1>6. Voided'
    BY Zenon DEF Voided, ClearEx
  <1> QED
    BY <1>1, <1>4, <1>5, <1>6, Zenon DEF IInv

\* An event that is served in one critical section leaves the callback idle.
LEMMA EventFacts ==
    ASSUME IInv, Event
    PROVE  /\ cb' \in Thread /\ cb'.id <= n /\ cb'.pc \notin Serving
           /\ UNCHANGED <<stopping, listening, auto, wk>>
  <1>1. 0 <= n
    BY Types, NfcAssumption DEF IInv, Id
  <1> QED
    BY <1>1, IdleThread DEF Event, stop

\* cancel_current_request marks the session of the request that it voids.
LEMMA CancelFacts ==
    ASSUME IInv, CancelSession
    PROVE  /\ canceled' \in 0..sid /\ void' \in 0..n
           /\ wk.pc \in Serving /\ void' = wk.id => stopping \/ canceled' = wk.sid
  <1>1. ex.psid \in 0..sid /\ canceled \in 0..sid /\ void \in 0..n
    BY Types, ExTypes DEF IInv
  <1>2. wk.id \in 0..n
    BY Types, ThreadTypes, NfcAssumption DEF IInv, Counted, Id
  <1>3. canceled' \in 0..sid /\ void' \in 0..n
    BY <1>1, <1>2, Zenon DEF CancelSession
  <1>4. ASSUME wk.pc \in Serving, void' = wk.id
        PROVE  stopping \/ canceled' = wk.sid
    <2>1. CASE ex.psid = 0
      BY <1>4, <2>1, Zenon DEF CancelSession, IInv, Voided
    <2>2. CASE ex.psid # 0 /\ wk.gen = ex.gen
      BY <1>4, <2>2, Zenon DEF CancelSession, IInv, Owning, Own
    <2>3. CASE ex.psid # 0 /\ wk.gen # ex.gen
      <3>1. void = wk.id
        BY <1>4, <2>3, Zenon DEF CancelSession
      <3>2. wk.id # 0
        BY <1>4, Zenon DEF IInv, Working
      <3> QED
        BY <2>3, <3>1, <3>2, Zenon DEF IInv, Voided
    <2> QED
      BY <2>1, <2>2, <2>3, Zenon
  <1> QED
    BY <1>3, <1>4

-----------------------------------------------------------------------------

\* Field off, a new activation and END keep the invariant.
LEMMA TeardownKeeps ==
    ASSUME IInv, FieldOff \/ Reactivate \/ (\E via \in {"block", "bare"} : ControlEnd(via))
    PROVE  IInv'
  <1>1. /\ Event /\ ResetExchange /\ CancelSession
        /\ sel' = FALSE /\ last' = 0 /\ UNCHANGED <<sid, rgen, evt, n, got>>
        /\ cool' = cool \/ cool' = (cool \/ ex.tx = "done")
    BY DEF FieldOff, Reactivate, ControlEnd
  <1>2. Others'
    BY <1>1, EventFacts, Types DEF IInv, Others
  <1>3. ClearEx(ex, ex') /\ ex.gen \in Nat /\ ex' \in ExSet(sid') /\ sid' \in Nat
    BY <1>1, ResetFacts, Types DEF IInv
  <1>4. 0 \in 0..n /\ FALSE \in BOOLEAN
    BY Types, NfcAssumption DEF IInv, Id
  <1>5. canceled' \in 0..sid' /\ last' \in 0..n
    BY <1>1, <1>4, CancelFacts
  <1>6. sel' \in BOOLEAN /\ ~sel' /\ UNCHANGED <<rgen, wk, n, stopping>>
    BY <1>1, EventFacts
  <1> QED
    BY <1>1, <1>2, <1>3, <1>5, <1>6, CancelFacts, EventFacts, ResetKeeps, Zenon

\* A selection keeps the invariant: it forgets the last request and the cancelled
\* session, and the worker's generation is left behind.
LEMMA SelectKeeps ==
    ASSUME IInv, NEW via, Select(via) \/ VersionFallback(via)
    PROVE  IInv'
  <1>1. /\ Event /\ NextSession /\ ResetExchange /\ UNCHANGED <<rgen, evt, n, got>>
        /\ cool' \in BOOLEAN
    BY Types DEF Select, VersionFallback, NextSession, IInv, TypeOK
  <1>2. /\ sel' = TRUE /\ sid' = sid + 1 /\ canceled' = 0 /\ last' = 0 /\ void' = 0
    BY <1>1 DEF NextSession
  <1>3. Others'
    BY <1>1, EventFacts, Types DEF IInv, Others
  <1>4. sid' \in Nat /\ sid' # 0 /\ canceled' \in 0..sid'
    BY <1>2, Types DEF IInv
  <1>5. ClearEx(ex, ex') /\ ex.gen \in Nat /\ ex' \in ExSet(sid')
    BY <1>1, <1>4, ResetFacts DEF IInv
  <1>6. last' \in 0..n /\ void' \in 0..n /\ sel' \in BOOLEAN
    BY <1>2, Types, NfcAssumption DEF IInv, Id
  <1>7. ~(wk.pc \in Serving /\ void' = wk.id)
    BY <1>2, Zenon DEF IInv, Working
  <1>8. UNCHANGED <<rgen, wk, n, stopping>>
    BY <1>1, EventFacts
  <1> QED
    BY <1>1, <1>2, <1>3, <1>4, <1>5, <1>6, <1>7, <1>8, EventFacts, ResetKeeps, Zenon

\* A reset that cancels nothing and leaves the selection, or drops it.
LEMMA PlainResetKeeps ==
    ASSUME IInv, Event, ResetExchange, UNCHANGED <<sid, canceled, rgen, cool, evt, n, void>>,
           sel' \in {sel, FALSE}, last' \in {last, 0},
           got' \in [id : Id, from : Page, upto : Page]
    PROVE  IInv'
  <1>1. Others'
    BY EventFacts, Types DEF IInv, Others
  <1>2. ClearEx(ex, ex') /\ ex.gen \in Nat /\ ex' \in ExSet(sid') /\ sid' \in Nat
    BY ResetFacts, Types DEF IInv
  <1>3. canceled' \in 0..sid' /\ last' \in 0..n /\ void' \in 0..n /\ sel' \in BOOLEAN
    <2>1. sel \in BOOLEAN /\ canceled \in 0..sid /\ void \in 0..n /\ last \in 0..n
      BY Types, Zenon DEF IInv
    <2>2. 0 \in 0..n
      BY Types, NfcAssumption DEF IInv, Id
    <2> QED
      BY <2>1, <2>2, Zenon
  <1>4. sel' => sid' # 0
    BY Zenon DEF IInv, Selected
  <1>5. void' # 0 => stopping \/ ~sel'
    BY Zenon DEF IInv, Voided
  <1>6. wk.pc \in Serving /\ void' = wk.id => stopping \/ canceled' = wk.sid
    BY Zenon DEF IInv, Voided
  <1>7. UNCHANGED <<rgen, wk, n, stopping>>
    BY EventFacts
  <1> QED
    BY <1>1, <1>2, <1>3, <1>4, <1>5, <1>6, <1>7, EventFacts, ResetKeeps, Zenon

\* An event that touches the chain of blocks only.
LEMMA PlainAnswerKeeps ==
    ASSUME IInv, Event, ex' \in ExSet(sid), SameEx(ex, ex'), sel' \in {sel, FALSE},
           UNCHANGED <<sid, canceled, rgen, cool, evt, n, last, void>>,
           got' \in [id : Id, from : Page, upto : Page]
    PROVE  IInv'
  <1>1. Others'
    BY EventFacts, Types DEF IInv, Others
  <1>2. sel' \in BOOLEAN /\ (sel' => sel) /\ ex' \in ExSet(sid')
    <2>1. sel \in BOOLEAN
      BY Types, Zenon DEF IInv
    <2>2. ex' \in ExSet(sid')
      OBVIOUS
    <2>3. CASE sel' = sel
      BY <2>1, <2>2, <2>3, Zenon
    <2>4. CASE sel' = FALSE
      BY <2>2, <2>4, Zenon
    <2> QED
      BY <2>3, <2>4, Zenon
  <1>3. stopping' \in BOOLEAN /\ (stopping => stopping')
    BY EventFacts, Types DEF IInv
  <1>4. UNCHANGED <<sid, canceled, rgen, wk, n, last, void>>
    BY EventFacts
  <1>5. cb'.pc \in Serving => cb.pc \in Serving /\ cb'.id = cb.id
    BY EventFacts, Zenon
  <1> QED
    BY <1>1, <1>2, <1>3, <1>4, <1>5, EventFacts, SameKeeps, Zenon

\* What the reader is sent of a response is a range of its pages.
LEMMA GotType ==
    ASSUME TypeOK
    PROVE  /\ got \in [id : Id, from : Page, upto : Page]
           /\ \A a, b \in Page : [id |-> ex.req, from |-> a, upto |-> b]
                                    \in [id : Id, from : Page, upto : Page]
  BY Types, ExTypes DEF Others

\* An answer that is not a chain touches the chain of blocks only.
LEMMA AnswerFacts ==
    ASSUME TypeOK, Answer
    PROVE  ex' \in ExSet(sid) /\ SameEx(ex, ex')
  BY Types, TxType, Zenon DEF Answer

\* R(ACK), the busy answer, the refusal of NDEF and the immediate answers keep the
\* invariant.
LEMMA QuietKeeps ==
    ASSUME IInv, NEW via,
           \/ RAck \/ BusyBlock \/ SelectNdef(via) \/ AnswerAtOnce(via)
    PROVE  IInv'
  <1>1. /\ Event /\ sel' \in {sel, FALSE}
        /\ UNCHANGED <<sid, canceled, rgen, cool, evt, n, last, void, got>>
        /\ Answer \/ \E x \in {"none", "active", "done"} : ex' = [ex EXCEPT !.tx = x]
    BY DEF RAck, BusyBlock, SelectNdef, AnswerAtOnce, hist
  <1>2. ex' \in ExSet(sid) /\ SameEx(ex, ex')
    <2>1. sid \in Nat /\ ex \in ExSet(sid) /\ TypeOK
      BY Types, Zenon DEF IInv
    <2>2. CASE Answer
      BY <2>1, <2>2, AnswerFacts, Zenon
    <2>3. CASE \E x \in {"none", "active", "done"} : ex' = [ex EXCEPT !.tx = x]
      <3>1. PICK x \in {"none", "active", "done"} : ex' = [ex EXCEPT !.tx = x]
        BY <2>3
      <3>2. [ex EXCEPT !.tx = x] \in ExSet(sid) /\ SameEx(ex, [ex EXCEPT !.tx = x])
        BY <2>1, TxType, Zenon
      <3> QED
        BY <3>1, <3>2, Zenon
    <2> QED
      BY <1>1, <2>2, <2>3, Zenon
  <1>3. got' \in [id : Id, from : Page, upto : Page]
    BY <1>1, GotType, Zenon DEF IInv
  <1> QED
    BY <1>1, <1>2, <1>3, PlainAnswerKeeps, Zenon

\* A sleep probe and a message with bad parameters, which reset the exchange
\* without cancelling anything, keep the invariant.
LEMMA ProbeKeeps ==
    ASSUME IInv, SleepProbe \/ (\E via \in {"block", "bare"} : BadMsg(via))
    PROVE  IInv'
  <1>1. /\ Event /\ ResetExchange /\ sel' \in {sel, FALSE} /\ last' \in {last, 0}
        /\ UNCHANGED <<sid, canceled, rgen, cool, evt, n, void, got>>
    BY DEF SleepProbe, BadMsg
  <1>2. got' \in [id : Id, from : Page, upto : Page]
    BY <1>1, GotType, Zenon DEF IInv
  <1> QED
    BY <1>1, <1>2, PlainResetKeeps, Zenon

\* Sending a page resets the exchange or moves it on to its second page.
LEMMA SendPageFacts ==
    ASSUME TypeOK, SendPage(ex)
    PROVE  /\ ResetExchange \/ (ex' \in ExSet(sid) /\ SameEx(ex, ex'))
           /\ got' \in [id : Id, from : Page, upto : Page]
  <1>1. 0 \in Page /\ 1 \in Page /\ 2 \in Page /\ ex.page \in Page
    BY Types, ExTypes DEF Page
  <1>2. CASE ~ex.large \/ ex.page = 2
    <2>1. /\ ex.gen < MaxGen /\ ex' = [NoEx EXCEPT !.gen = ex.gen + 1]
          /\ got' = [id |-> ex.req, from |-> ex.page, upto |-> 2]
      BY <1>2, Zenon DEF SendPage
    <2>2. ResetExchange
      BY <2>1, Zenon DEF ResetExchange
    <2>3. got' \in [id : Id, from : Page, upto : Page]
      BY <1>1, <2>1, GotType, Zenon
    <2> QED
      BY <2>2, <2>3
  <1>3. CASE ~(~ex.large \/ ex.page = 2)
    <2>1. /\ ex' = [ex EXCEPT !.page = 2, !.tx = "none"]
          /\ got' = [id |-> ex.req, from |-> 1, upto |-> 1]
      BY <1>3, Zenon DEF SendPage
    <2>2. ex \in ExSet(sid)
      BY Types, Zenon
    <2>3. ex' \in ExSet(sid) /\ SameEx(ex, ex')
      BY <1>1, <2>1, <2>2 DEF ExSet, SameEx
    <2> QED
      BY <1>1, <2>1, <2>3, GotType, Zenon
  <1> QED
    BY <1>2, <1>3

\* GET RESPONSE and the deferred response keep the invariant.
LEMMA FetchKeeps ==
    ASSUME IInv, NEW via, GetResponse(via) \/ SendDeferred
    PROVE  IInv'
  <1>1. /\ Event /\ sel' \in {sel, FALSE} /\ last' \in {last, 0}
        /\ UNCHANGED <<sid, canceled, rgen, cool, evt, n, last, void>>
    BY DEF GetResponse, SendDeferred
  <1>2. /\ ResetExchange \/ (ex' \in ExSet(sid) /\ SameEx(ex, ex'))
        /\ got' \in [id : Id, from : Page, upto : Page]
    <2>1. CASE SendDeferred
      <3>1. /\ ResetExchange \/ ex' = [ex EXCEPT !.tx = "active"]
            /\ got' = got \/ got' = [id |-> ex.req, from |-> 1, upto |-> 2]
        BY <2>1 DEF SendDeferred
      <3>2. 1 \in Page /\ 2 \in Page
        BY DEF Page
      <3>3. sid \in Nat /\ ex \in ExSet(sid) /\ TypeOK
        BY Types, Zenon DEF IInv
      <3>4. got' \in [id : Id, from : Page, upto : Page]
        BY <3>1, <3>2, <3>3, GotType, Zenon
      <3>5. LET f == [ex EXCEPT !.tx = "active"] IN f \in ExSet(sid) /\ SameEx(ex, f)
        BY <3>3, TxType, Zenon
      <3> QED
        BY <3>1, <3>4, <3>5, Zenon
    <2>2. CASE GetResponse(via)
      <3>1. (Answer /\ got' = got) \/ (ResetExchange /\ got' = got) \/ SendPage(ex)
        BY <2>2, Types, ExTypes DEF GetResponse, IInv
      <3> QED
        BY <3>1, AnswerFacts, GotType, SendPageFacts, Zenon DEF IInv
    <2> QED
      BY <2>1, <2>2
  <1> QED
    BY <1>1, <1>2, PlainResetKeeps, PlainAnswerKeeps, Zenon

-----------------------------------------------------------------------------

\* The type invariant from its parts, after a step.
LEMMA TypesBack ==
    ASSUME sid' \in Nat, canceled' \in 0..sid', rgen' \in Gen, n' \in Id,
           last' \in 0..n', void' \in 0..n', ex' \in ExSet(sid'),
           wk' \in Thread, cb' \in Thread, sel' \in BOOLEAN, stopping' \in BOOLEAN,
           Others'
    PROVE  TypeOK'
  BY Zenon DEF TypeOK, ExSet, Others

\* A step of a thread: the exchange keeps what the invariant reads of it, and
\* a thread that serves a request goes on serving it or leaves it.
LEMMA ThreadKeeps ==
    ASSUME IInv, TypeOK', Selected', Counted', Voided', SameEx(ex, ex'),
           UNCHANGED <<rgen, last>>,
           cb'.pc \in Serving => cb.pc \in Serving /\ cb'.id = cb.id,
           wk'.pc \in Serving => /\ wk.pc \in Serving /\ wk'.gen = wk.gen /\ wk'.id = wk.id
                                 /\ wk'.sid = wk.sid /\ wk'.kind = wk.kind
    PROVE  IInv'
  <1>1. Own' => Own
    BY Zenon DEF Own, SameEx
  <1>2. Pending' /\ ResponseOfLastRequest'
    BY Zenon DEF IInv, Pending, ResponseOfLastRequest, SameEx
  <1>3. Calling'
    BY <1>1, Zenon DEF IInv, Calling, SameEx
  <1>4. Working'
    BY Zenon DEF IInv, Working, SameEx
  <1>5. Owning'
    <2>1. Own' => wk.pc \in Serving /\ wk'.id = wk.id /\ wk'.sid = wk.sid
      BY Zenon DEF Own
    <2> QED
      BY <1>1, <2>1, Zenon DEF IInv, Owning, SameEx
  <1> QED
    BY <1>2, <1>3, <1>4, <1>5, Zenon DEF IInv

\* A step after which no thread serves a request and the exchange is empty.
LEMMA FreshKeeps ==
    ASSUME TypeOK', Selected', Counted', Voided',
           wk'.pc \notin Serving, cb'.pc \notin Serving, ~ex'.pend, ~ex'.ready
    PROVE  IInv'
  BY Zenon DEF IInv, Pending, Calling, Working, Owning, Own, ResponseOfLastRequest

\* The steps of a thread that serves a request change its position only.
LEMMA ServeFacts ==
    ASSUME NEW t \in Thread, NEW u, NEW x,
           x \in Serving, u = [t EXCEPT !.pc = x]
    PROVE  /\ u \in Thread /\ u.pc \in Serving /\ u.id = t.id /\ u.sid = t.sid
           /\ u.gen = t.gen /\ u.kind = t.kind
  BY DEF Thread, Serving

\* The callback is entered, or asks for the status, or the cooldown ends: the
\* invariant is kept.
LEMMA EnterKeeps ==
    ASSUME IInv, Enter \/ GetStatus \/ CooldownEnds
    PROVE  IInv'
  <1>1. /\ UNCHANGED <<sid, canceled, rgen, wk, n, last, void, ex, sel, stopping,
                       listening, auto, evt, got>>
    BY DEF Enter, GetStatus, CooldownEnds, shared, stop, hist
  <1>2. cool' \in BOOLEAN
    BY Types DEF Enter, GetStatus, CooldownEnds, shared, IInv, TypeOK
  <1>3. Others'
    BY <1>1, <1>2, Types DEF IInv, Others
  <1>4. cb \in Thread /\ cb.id <= n
    BY Types DEF IInv, Counted
  <1>5. cb' = cb \/ cb' = [cb EXCEPT !.pc = "called"] \/ cb' = [cb EXCEPT !.pc = "status"]
    BY DEF Enter, GetStatus, CooldownEnds
  <1>6. /\ cb' \in Thread /\ cb'.id <= n
        /\ cb'.pc \in Serving => cb.pc \in Serving /\ cb'.id = cb.id
    BY <1>4, <1>5 DEF Thread, Serving
  <1>7. ex' \in ExSet(sid') /\ SameEx(ex, ex')
    BY <1>1, Types, Zenon DEF IInv, SameEx
  <1>8. sel' \in BOOLEAN /\ (sel' => sel) /\ stopping' \in BOOLEAN /\ (stopping => stopping')
    BY <1>1, Types, Zenon DEF IInv
  <1>9. UNCHANGED <<sid, canceled, rgen, wk, n, last, void>>
    BY <1>1, Zenon
  <1> QED
    BY <1>3, <1>6, <1>7, <1>8, <1>9, SameKeeps, Zenon

\* A step of the command that the callback runs keeps the invariant.
LEMMA CallbackServesKeeps ==
    ASSUME IInv, CallbackServes
    PROVE  IInv'
  <1>1. UNCHANGED <<sid, canceled, rgen, wk, n, last, void, ex, sel, stopping, cool,
                    listening, auto, evt, got>>
    BY DEF CallbackServes, shared, stop, hist
  <1>2. Others'
    BY <1>1, Types DEF IInv, Others
  <1>3. cb \in Thread /\ cb.id <= n
    BY Types DEF IInv, Counted
  <1>4. cb.pc \in Serving /\ \E x \in Serving : cb' = [cb EXCEPT !.pc = x]
    BY DEF CallbackServes, Serve, Approve, Accepted, Decide, Poll, Commit, Serving
  <1>5. /\ cb' \in Thread /\ cb'.id <= n
        /\ cb'.pc \in Serving => cb.pc \in Serving /\ cb'.id = cb.id
    <2>1. PICK x \in Serving : cb' = [cb EXCEPT !.pc = x]
      BY <1>4
    <2>2. cb' \in Thread /\ cb'.id = cb.id
      BY <1>3, <2>1, ServeFacts, Zenon
    <2> QED
      BY <1>3, <1>4, <2>2, Zenon
  <1>6. ex' \in ExSet(sid') /\ SameEx(ex, ex')
    BY <1>1, Types, Zenon DEF IInv, SameEx
  <1>7. sel' \in BOOLEAN /\ (sel' => sel) /\ stopping' \in BOOLEAN /\ (stopping => stopping')
    BY <1>1, Types, Zenon DEF IInv
  <1>8. UNCHANGED <<sid, canceled, rgen, wk, n, last, void>>
    BY <1>1, Zenon
  <1> QED
    BY <1>2, <1>5, <1>6, <1>7, <1>8, SameKeeps, Zenon

\* A step of the command that the worker runs leaves the request that it serves.
LEMMA WorkerServesFacts ==
    ASSUME IInv, WorkerServes
    PROVE  /\ wk.pc \in Serving /\ wk' \in Thread /\ wk'.pc \in Serving
           /\ wk'.id = wk.id /\ wk'.sid = wk.sid /\ wk'.gen = wk.gen /\ wk'.kind = wk.kind
  <1>1. wk \in Thread
    BY Types DEF IInv
  <1>2. wk.pc \in Serving /\ \E x \in Serving : wk' = [wk EXCEPT !.pc = x]
    BY DEF WorkerServes, Serve, Approve, Accepted, Decide, Poll, Commit, Serving
  <1>3. PICK x \in Serving : wk' = [wk EXCEPT !.pc = x]
    BY <1>2
  <1> QED
    BY <1>1, <1>2, <1>3, ServeFacts, Zenon

\* A step of the command that the worker runs keeps the invariant.
LEMMA WorkerServesKeeps ==
    ASSUME IInv, WorkerServes
    PROVE  IInv'
  <1>1. UNCHANGED <<sid, canceled, rgen, cb, n, last, void, ex, sel, stopping, cool,
                    listening, auto, evt, got>>
    BY DEF WorkerServes, shared, stop, hist
  <1>2. TypeOK'
    <2>1. Others'
      BY <1>1, Types DEF IInv, Others
    <2>2. /\ sid \in Nat /\ canceled \in 0..sid /\ rgen \in Gen /\ n \in Id
          /\ last \in 0..n /\ void \in 0..n /\ ex \in ExSet(sid)
          /\ cb \in Thread /\ sel \in BOOLEAN /\ stopping \in BOOLEAN
      BY Types, Zenon DEF IInv
    <2> QED
      BY <1>1, <2>1, <2>2, WorkerServesFacts, TypesBack, Zenon
  <1>3. Selected' /\ Counted' /\ Voided'
    BY <1>1, WorkerServesFacts, Zenon DEF IInv, Selected, Counted, Voided
  <1>4. SameEx(ex, ex') /\ UNCHANGED <<rgen, last>>
        /\ (cb'.pc \in Serving => cb.pc \in Serving /\ cb'.id = cb.id)
    BY <1>1, Zenon DEF SameEx
  <1> QED
    BY <1>2, <1>3, <1>4, WorkerServesFacts, ThreadKeeps, Zenon

-----------------------------------------------------------------------------

\* The exchange as queue_request_locked leaves it: session m, generation g,
\* request i.
Queued(m, g, i) == [NoEx EXCEPT !.pend = TRUE, !.proc = TRUE, !.psid = m,
                               !.gen = g, !.req = i, !.gr = TRUE]

\* What the invariant needs to know of a queued request.
IsQueued(e, m, g, i) == /\ e \in ExSet(m) /\ e.gen = g /\ e.pend /\ e.proc /\ ~e.ready
                        /\ e.psid = m /\ e.req = i

\* queue_request_locked leaves a pending request and no response.
LEMMA QueuedFacts ==
    ASSUME NEW m \in Nat, NEW g \in Gen, NEW i \in Id
    PROVE  IsQueued(Queued(m, g, i), m, g, i)
  <1> DEFINE e == [NoEx EXCEPT !.gen = g]
             f == [e EXCEPT !.pend = TRUE, !.proc = TRUE]
             h == [f EXCEPT !.psid = m, !.req = i, !.gr = TRUE]
  <1>1. e \in ExSet(m) /\ e.gen = g /\ ~e.ready
    BY NoExType, Zenon
  <1>2. Queued(m, g, i) = h
    BY Zenon DEF Queued, NoEx
  <1> HIDE DEF e
  <1>3. f \in ExSet(m) /\ f.gen = g /\ ~f.ready /\ f.pend /\ f.proc
    BY <1>1 DEF ExSet
  <1> HIDE DEF f
  <1>4. m \in 0..m
    OBVIOUS
  <1>5. /\ h \in ExSet(m) /\ h.gen = g /\ ~h.ready /\ h.pend /\ h.proc
        /\ h.psid = m /\ h.req = i
    BY <1>3, <1>4 DEF ExSet
  <1> HIDE DEF h
  <1> QED
    BY <1>2, <1>5, Zenon DEF IsQueued

\* A request refused because the transport stops leaves an error only.
LEMMA RefusedType ==
    ASSUME NEW m \in Nat, NEW e \in ExSet(m)
    PROVE  LET f == [e EXCEPT !.err = TRUE, !.gr = TRUE, !.tx = "none"] IN
           f \in ExSet(m) /\ SameEx(e, f)
  BY DEF ExSet, SameEx

\* Queueing a request keeps the invariant: its generation is newer than that of
\* any request that the worker is still serving.
LEMMA QueueKeeps ==
    ASSUME IInv, NEW via, QueueMsg(via)
    PROVE  IInv'
  <1>1. Event /\ sel /\ UNCHANGED <<sel, sid, cool, got>>
    BY DEF QueueMsg
  <1>2. /\ sid \in Nat /\ rgen \in Gen /\ n \in Id /\ ex \in ExSet(sid)
        /\ sel \in BOOLEAN /\ stopping \in BOOLEAN /\ wk \in Thread /\ TypeOK
    BY Types, Zenon DEF IInv
  <1>3. CASE stopping
    <2>1. /\ ex' = [ex EXCEPT !.err = TRUE, !.gr = TRUE, !.tx = "none"]
          /\ UNCHANGED <<canceled, rgen, evt, n, last, void>>
      BY <1>3, Zenon DEF QueueMsg
    <2>2. ex' \in ExSet(sid) /\ SameEx(ex, ex')
      BY <1>2, <2>1, RefusedType, Zenon
    <2>3. got' \in [id : Id, from : Page, upto : Page] /\ sel' \in {sel, FALSE}
      BY <1>1, <1>2, GotType, Zenon
    <2>4. UNCHANGED <<sid, canceled, rgen, cool, evt, n, last, void>>
      BY <1>1, <2>1, Zenon
    <2> QED
      BY <1>1, <2>2, <2>3, <2>4, PlainAnswerKeeps, Zenon
  <1>4. CASE ~stopping
    <2>1. /\ n < MaxRequests /\ rgen < MaxGen /\ n' = n + 1 /\ last' = n' /\ void' = 0
          /\ rgen' = rgen + 1 /\ canceled' = 0 /\ evt' = evt \cup {"request"}
          /\ ex' = [NoEx EXCEPT !.pend = TRUE, !.proc = TRUE, !.psid = sid,
                                !.gen = rgen', !.req = n', !.gr = TRUE]
      BY <1>4, Zenon DEF QueueMsg
    <2>2. /\ rgen' \in Gen /\ rgen < rgen' /\ n' \in Id /\ n' # 0 /\ n <= n' /\ rgen \in Nat
          /\ n \in Nat /\ n' \in Nat /\ rgen' \in Nat
      BY <1>2, <2>1, NfcAssumption DEF Gen, Id
    <2>3. /\ ex' \in ExSet(sid) /\ ex'.gen = rgen' /\ ex'.pend /\ ex'.proc /\ ~ex'.ready
          /\ ex'.psid = sid /\ ex'.req = n'
      <3>1. sid \in Nat /\ rgen' \in Gen /\ n' \in Id
        BY <1>2, <2>2, Zenon
      <3>2. ex' = Queued(sid, rgen', n')
        BY <2>1, Zenon DEF Queued
      <3>3. IsQueued(Queued(sid, rgen', n'), sid, rgen', n')
        BY <3>1, QueuedFacts, Zenon
      <3> QED
        BY <3>2, <3>3, Zenon DEF IsQueued
    <2>4. /\ cb' \in Thread /\ cb'.id <= n /\ cb'.pc \notin Serving
          /\ UNCHANGED <<stopping, listening, auto, wk>>
      BY <1>1, EventFacts, Zenon
    <2>5. wk.gen \in Nat /\ wk.id \in Nat /\ cb'.id \in Nat
      BY <1>2, <2>4, ThreadTypes, NfcAssumption DEF Gen, Id
    <2>6. wk.pc \in Serving => wk.gen < rgen' /\ wk.gen <= rgen'
      <3>1. wk.pc \in Serving => wk.gen <= rgen
        BY Zenon DEF IInv, Working
      <3> QED
        BY <2>2, <2>5, <3>1
    <2>7. ~Own'
      BY <2>2, <2>3, <2>4, <2>5, <2>6 DEF Own
    <2>8. TypeOK'
      <3>1. Others'
        BY <1>1, <2>1, <2>4, Types DEF IInv, Others
      <3>2. sid' \in Nat /\ canceled' \in 0..sid' /\ last' \in 0..n' /\ void' \in 0..n'
        BY <1>1, <1>2, <2>1, <2>2
      <3> QED
        BY <1>1, <1>2, <2>2, <2>3, <2>4, <3>1, <3>2, TypesBack, Zenon
    <2>9. Counted'
      <3>1. wk.id <= n
        BY Zenon DEF IInv, Counted
      <3>2. wk.id <= n' /\ cb'.id <= n'
        BY <2>2, <2>4, <2>5, <3>1
      <3> QED
        BY <2>4, <3>2, Zenon DEF Counted
    <2>10. Selected' /\ sid # 0
      BY <1>1, Zenon DEF IInv, Selected
    <2>11. Pending' /\ Calling' /\ Owning' /\ ResponseOfLastRequest'
      BY <1>1, <2>1, <2>2, <2>3, <2>4, <2>7, <2>10, Zenon
         DEF Pending, Calling, Owning, ResponseOfLastRequest
    <2>12. Working'
      BY <2>3, <2>4, <2>6, Zenon DEF IInv, Working
    <2>13. Voided'
      BY <2>1, <2>4, Zenon DEF IInv, Working, Voided
    <2> QED
      BY <2>8, <2>9, <2>10, <2>11, <2>12, <2>13, Zenon DEF IInv
  <1> QED
    BY <1>2, <1>3, <1>4, Zenon

\* A step of the callback while the worker serves no request of the exchange:
\* its generation and its owner are left, and a response in it is the last one.
LEMMA HereKeeps ==
    ASSUME IInv, TypeOK', Counted', ~Own, ex'.gen = ex.gen, ~ex.pend, ~ex'.pend,
           ex'.psid \in {ex.psid, 0} \/ stopping \/ void = 0,
           ex'.ready => ex'.req = last',
           cb'.pc \in Serving => cb'.id = last',
           UNCHANGED <<sel, sid, canceled, rgen, stopping, wk, void>>
    PROVE  IInv'
  <1>1. ~Own'
    BY Zenon DEF Own
  <1>2. Selected' /\ Pending' /\ Calling' /\ Owning' /\ ResponseOfLastRequest'
    BY <1>1, Zenon DEF IInv, Selected, Pending, Calling, Owning, ResponseOfLastRequest
  <1>3. Working'
    BY Zenon DEF IInv, Working
  <1>4. Voided'
    BY Zenon DEF IInv, Voided
  <1> QED
    BY <1>2, <1>3, <1>4, Zenon DEF IInv

\* The exchange with another owner.
Owner(e, b, q) == [e EXCEPT !.proc = b, !.psid = q]

\* Changing the owner leaves the generation, the request and the response.
LEMMA OwnerFacts ==
    ASSUME NEW m \in Nat, NEW e \in ExSet(m), NEW q \in 0..m, NEW b \in BOOLEAN
    PROVE  /\ Owner(e, b, q) \in ExSet(m) /\ Owner(e, b, q).gen = e.gen
           /\ Owner(e, b, q).pend = e.pend /\ Owner(e, b, q).ready = e.ready
           /\ Owner(e, b, q).req = e.req /\ Owner(e, b, q).psid = q
  BY DEF ExSet, Owner

\* The cancel flag and the GET RESPONSE flag are not read by the invariant.
LEMMA FlagsType ==
    ASSUME NEW m \in Nat, NEW e \in ExSet(m)
    PROVE  LET f == [e EXCEPT !.cflag = FALSE, !.gr = FALSE] IN
           f \in ExSet(m) /\ SameEx(e, f)
  BY DEF ExSet, SameEx

\* The callback starts to serve a request itself: no other request is in the
\* exchange, so the worker's is not the one of the exchange.
LEMMA ServeHereKeeps ==
    ASSUME IInv, NEW via, NEW kind \in {"extended", "short", "u2f"}, ServeHere(via, kind)
    PROVE  IInv'
  <1>1. /\ cb.pc = "called" /\ sel /\ ~ex.proc /\ ~ex.pend /\ ~ex.ready
        /\ n < MaxRequests /\ n' = n + 1 /\ last' = n' /\ auto' = TRUE
        /\ cb' = [pc |-> "run", id |-> n', sid |-> sid, gen |-> ex.gen, old |-> auto,
                  kind |-> kind]
        /\ ex' = ex \/ ex' = [ex EXCEPT !.proc = TRUE, !.cflag = FALSE, !.psid = sid,
                                        !.gr = FALSE]
        /\ UNCHANGED <<sel, sid, canceled, rgen, cool, stopping, listening, evt, wk, void, got>>
    BY DEF ServeHere, Busy, WorkerActive, stop
  <1>2. /\ sid \in Nat /\ canceled \in 0..sid /\ rgen \in Gen /\ n \in Id /\ ex \in ExSet(sid)
        /\ sel \in BOOLEAN /\ stopping \in BOOLEAN /\ wk \in Thread /\ auto \in BOOLEAN
        /\ void \in 0..n
    BY Types, Zenon DEF IInv, Others
  <1>3. n' \in Id /\ n <= n' /\ n \in Nat /\ n' \in Nat /\ last' \in 0..n'
    BY <1>1, <1>2, NfcAssumption DEF Id
  <1>4. cb' \in Thread /\ cb'.id = n' /\ cb'.pc = "run"
    <2>1. /\ ex.gen \in Gen /\ kind \in AnyApdu \cup {"none"}
          /\ "run" \in {"idle", "called", "run", "prompt", "approved", "commit", "answer",
                        "restore", "stopListener", "gone"}
      BY <1>2, ExTypes DEF AnyApdu
    <2>2. cb' \in Thread
      BY <1>1, <1>2, <1>3, <2>1, Zenon DEF Thread
    <2> QED
      BY <1>1, <2>2
  <1>5. ex' \in ExSet(sid) /\ ex'.gen = ex.gen /\ ~ex'.pend /\ ~ex'.ready
    <2>1. CASE ex' = ex
      BY <1>1, <1>2, <2>1, Zenon
    <2>2. CASE ex' = [ex EXCEPT !.proc = TRUE, !.cflag = FALSE, !.psid = sid, !.gr = FALSE]
      <3> DEFINE e == Owner(ex, TRUE, sid)
                 f == [e EXCEPT !.cflag = FALSE, !.gr = FALSE]
      <3>1. sid \in Nat /\ ex \in ExSet(sid) /\ sid \in 0..sid /\ TRUE \in BOOLEAN
        BY <1>2
      <3>2. /\ e \in ExSet(sid) /\ e.gen = ex.gen /\ e.pend = ex.pend /\ e.ready = ex.ready
            /\ e.req = ex.req /\ e.psid = sid
        BY <3>1, OwnerFacts, Zenon
      <3>3. ex' = f
        BY <1>2, <2>2 DEF ExSet, Owner
      <3> HIDE DEF e
      <3>4. f \in ExSet(sid) /\ SameEx(e, f)
        BY <1>2, <3>2, FlagsType, Zenon
      <3> HIDE DEF f
      <3> QED
        BY <1>1, <3>2, <3>3, <3>4, Zenon DEF SameEx
    <2> QED
      BY <1>1, <2>1, <2>2, Zenon
  <1>6. TypeOK'
    <2>1. Others'
      BY <1>1, Types DEF IInv, Others
    <2>2. void' \in 0..n'
      BY <1>1, <1>2, <1>3
    <2> QED
      BY <1>1, <1>2, <1>3, <1>4, <1>5, <2>1, <2>2, TypesBack, Zenon
  <1>7. Counted'
    <2>1. wk.id \in Nat /\ wk.id <= n
      BY <1>2, ThreadTypes, NfcAssumption DEF IInv, Counted, Id
    <2>2. wk.id <= n' /\ n' <= n'
      BY <1>3, <2>1
    <2> QED
      BY <1>1, <1>4, <2>2, Zenon DEF Counted
  <1>8. ~Own
    BY <1>1, Zenon DEF IInv, Owning
  <1>9. stopping \/ void = 0
    BY <1>1, Zenon DEF IInv, Voided
  <1>10. UNCHANGED <<sel, sid, canceled, rgen, stopping, wk, void>>
    BY <1>1, Zenon
  <1> QED
    BY <1>1, <1>4, <1>5, <1>6, <1>7, <1>8, <1>9, <1>10, HereKeeps, Zenon

\* What the invariant needs to know of an exchange r in which a response is put.
IsReady(r, e, m, i, big) ==
    /\ r \in ExSet(m) /\ r.gen = e.gen /\ ~r.pend /\ r.psid = 0 /\ r.req = i
    /\ r.large = big /\ r.page = 1

\* A response that is put into the exchange is at its first page and carries the
\* number of its request.
LEMMA ReadyFacts ==
    ASSUME NEW m \in Nat, NEW e \in ExSet(m), NEW i \in Id, NEW big \in BOOLEAN
    PROVE  IsReady(Ready(e, i, big), e, m, i, big)
  <1> DEFINE f == [e EXCEPT !.ready = TRUE, !.err = FALSE, !.req = i]
             g == [f EXCEPT !.large = big, !.page = 1]
             h == [g EXCEPT !.proc = FALSE, !.pend = FALSE, !.psid = 0]
  <1>1. Ready(e, i, big) = h
    BY Zenon DEF Ready
  <1>2. f \in ExSet(m) /\ f.gen = e.gen /\ f.req = i
    BY DEF ExSet
  <1> HIDE DEF f
  <1>3. 1 \in Page /\ 0 \in 0..m
    BY DEF Page
  <1>4. g \in ExSet(m) /\ g.gen = e.gen /\ g.req = i /\ g.large = big /\ g.page = 1
    BY <1>2, <1>3 DEF ExSet
  <1> HIDE DEF g
  <1>5. /\ h \in ExSet(m) /\ h.gen = e.gen /\ h.req = i /\ h.large = big /\ h.page = 1
        /\ ~h.pend /\ h.psid = 0
    BY <1>3, <1>4 DEF ExSet
  <1> HIDE DEF h
  <1> QED
    BY <1>1, <1>5, Zenon DEF IsReady

\* What AnswerHere and Store leave in the exchange: its generation, no pending
\* request, its session or none, and no response but that of request i.
Kept(e, f, m, i) == /\ f \in ExSet(m) /\ f.gen = e.gen /\ ~f.pend
                    /\ f.psid \in {e.psid, 0} /\ (f.ready => f.req = i)

\* The first page of a large response is sent; the second waits in the exchange.
LEMMA FirstPage ==
    ASSUME NEW m \in Nat, NEW e \in ExSet(m), NEW i \in Id,
           SendPage([Ready(e, i, TRUE) EXCEPT !.gr = FALSE])
    PROVE  /\ Kept(e, ex', m, i)
           /\ got' = [id |-> i, from |-> 1, upto |-> 1]
  <1> DEFINE r == Ready(e, i, TRUE)
             w == [r EXCEPT !.gr = FALSE]
             f == [w EXCEPT !.page = 2, !.tx = "none"]
  <1>1. SendPage(w)
    OBVIOUS
  <1>2. /\ r \in ExSet(m) /\ r.gen = e.gen /\ ~r.pend /\ r.psid = 0 /\ r.req = i
        /\ r.large = TRUE /\ r.page = 1
    BY ReadyFacts, Zenon DEF IsReady
  <1> HIDE DEF r
  <1>3. /\ w \in ExSet(m) /\ w.gen = e.gen /\ ~w.pend /\ w.psid = 0 /\ w.req = i
        /\ w.large = TRUE /\ w.page = 1
    BY <1>2 DEF ExSet
  <1> HIDE DEF w
  <1>4. ex' = f /\ got' = [id |-> i, from |-> 1, upto |-> 1]
    BY <1>1, <1>3 DEF SendPage
  <1>5. 2 \in Page
    BY DEF Page
  <1>6. f \in ExSet(m) /\ f.gen = e.gen /\ ~f.pend /\ f.psid = 0 /\ f.req = i
    BY <1>3, <1>5 DEF ExSet
  <1> HIDE DEF f
  <1> QED
    BY <1>4, <1>6, Zenon DEF Kept

\* The callback answers the request that it served: the response that it may leave
\* for GET RESPONSE is that of the last request.
LEMMA AnswerHereKeeps ==
    ASSUME IInv, AnswerHere
    PROVE  IInv'
  <1> DEFINE e == IF cb.kind = "u2f" THEN ex ELSE Owner(ex, FALSE, 0)
  <1>1. /\ cb.pc = "answer" /\ auto' = cb.old /\ cb' = Idle
        /\ UNCHANGED <<sel, sid, canceled, rgen, cool, stopping, listening, evt, wk, n,
                       last, void>>
    BY DEF AnswerHere, stop
  <1>2. /\ sid \in Nat /\ canceled \in 0..sid /\ rgen \in Gen /\ n \in Id /\ ex \in ExSet(sid)
        /\ sel \in BOOLEAN /\ stopping \in BOOLEAN /\ wk \in Thread /\ cb \in Thread
        /\ last \in 0..n /\ void \in 0..n
    BY Types, Zenon DEF IInv
  <1>3. cb.id = last /\ ~ex.pend /\ ~Own
    <2>1. cb.pc \in Serving
      BY <1>1 DEF Serving
    <2> QED
      BY <2>1, Zenon DEF IInv, Calling
  <1>4. cb.id \in Id /\ cb.old \in BOOLEAN
    BY <1>2, ThreadTypes
  <1>5. e \in ExSet(sid) /\ Kept(ex, e, sid, last)
    <2>1. 0 \in 0..sid /\ FALSE \in BOOLEAN
      BY <1>2
    <2>2. Kept(ex, ex, sid, last)
      BY <1>2, <1>3, Zenon DEF Kept, IInv, ResponseOfLastRequest
    <2>3. Kept(ex, Owner(ex, FALSE, 0), sid, last)
      <3>1. sid \in Nat /\ ex \in ExSet(sid)
        BY <1>2, Zenon
      <3>2. LET f == Owner(ex, FALSE, 0) IN
            /\ f \in ExSet(sid) /\ f.gen = ex.gen /\ f.pend = ex.pend /\ f.ready = ex.ready
            /\ f.req = ex.req /\ f.psid = 0
        BY <2>1, <3>1, OwnerFacts, Zenon
      <3> QED
        BY <1>3, <3>2, Zenon DEF Kept, IInv, ResponseOfLastRequest
    <2> QED
      BY <2>2, <2>3, Zenon DEF Kept
  <1>6. PICK big \in BOOLEAN :
          CASE ~big -> /\ ex' = [e EXCEPT !.tx = "none"]
                       /\ got' = [id |-> cb.id, from |-> 1, upto |-> 2]
            [] big /\ cb.kind = "extended" ->
                       /\ ex' = [e EXCEPT !.tx = "active"]
                       /\ got' = [id |-> cb.id, from |-> 1, upto |-> 2]
            [] big /\ cb.kind # "extended" ->
                       SendPage([Ready(e, cb.id, TRUE) EXCEPT !.gr = FALSE])
    BY Zenon DEF AnswerHere, Owner
  <1> HIDE DEF e
  <1>7. \/ (\E x \in {"none", "active", "done"} : ex' = [e EXCEPT !.tx = x])
           /\ got' = [id |-> cb.id, from |-> 1, upto |-> 2]
        \/ SendPage([Ready(e, cb.id, TRUE) EXCEPT !.gr = FALSE])
    BY <1>6
  <1>8. 1 \in Page /\ 2 \in Page
    BY DEF Page
  <1>9. Kept(ex, ex', sid, last) /\ got' \in [id : Id, from : Page, upto : Page]
    <2>1. ASSUME NEW x \in {"none", "active", "done"}, ex' = [e EXCEPT !.tx = x],
                 got' = [id |-> cb.id, from |-> 1, upto |-> 2]
          PROVE  Kept(ex, ex', sid, last) /\ got' \in [id : Id, from : Page, upto : Page]
      <3>1. ex' \in ExSet(sid) /\ SameEx(e, ex')
        BY <1>2, <1>5, <2>1, TxType, Zenon
      <3>2. Kept(ex, ex', sid, last)
        BY <1>5, <3>1, Zenon DEF Kept, SameEx
      <3> QED
        BY <1>4, <1>8, <2>1, <3>2, Zenon
    <2>2. ASSUME SendPage([Ready(e, cb.id, TRUE) EXCEPT !.gr = FALSE])
          PROVE  Kept(ex, ex', sid, last) /\ got' \in [id : Id, from : Page, upto : Page]
      <3>1. Kept(e, ex', sid, cb.id) /\ got' = [id |-> cb.id, from |-> 1, upto |-> 1]
        BY <1>2, <1>4, <1>5, <2>2, FirstPage, Zenon
      <3>2. Kept(ex, ex', sid, last)
        BY <1>3, <1>5, <3>1, Zenon DEF Kept
      <3> QED
        BY <1>4, <1>8, <3>1, <3>2, Zenon
    <2> QED
      BY <1>7, <2>1, <2>2, Zenon
  <1>10. cb' \in Thread /\ cb'.id = 0 /\ cb'.pc \notin Serving
    BY <1>1, IdleThread, Zenon
  <1>11. TypeOK'
    <2>1. Others'
      BY <1>1, <1>4, <1>9, Types DEF IInv, Others
    <2> QED
      BY <1>1, <1>2, <1>9, <1>10, <2>1, TypesBack, Zenon DEF Kept
  <1>12. Counted'
    <2>1. 0 <= n
      BY <1>2, NfcAssumption DEF Id
    <2> QED
      BY <1>1, <1>10, <2>1, Zenon DEF IInv, Counted
  <1>13. UNCHANGED <<sel, sid, canceled, rgen, stopping, wk, void>> /\ last' = last
    BY <1>1, Zenon
  <1> QED
    BY <1>3, <1>9, <1>10, <1>11, <1>12, <1>13, HereKeeps, Zenon DEF Kept

-----------------------------------------------------------------------------

\* The worker takes the pending request, and from then on owns the exchange.
LEMMA TakeKeeps ==
    ASSUME IInv, Take
    PROVE  IInv'
  <1>1. /\ wk.pc = "idle" /\ evt' = evt \ {"request"}
        /\ UNCHANGED <<sel, sid, canceled, rgen, cool, stopping, listening, cb, n, last,
                       void, got>>
    BY DEF Take, stop, hist
  <1>2. /\ sid \in Nat /\ canceled \in 0..sid /\ rgen \in Gen /\ n \in Id /\ ex \in ExSet(sid)
        /\ sel \in BOOLEAN /\ stopping \in BOOLEAN /\ wk \in Thread /\ cb \in Thread
        /\ last \in 0..n /\ void \in 0..n /\ auto \in BOOLEAN
    BY Types, Zenon DEF IInv, Others
  <1>3. /\ ex.pend \in BOOLEAN /\ ex.gen \in Gen /\ ex.req \in Id /\ ex.psid \in 0..sid
        /\ cb.id <= n
    BY <1>2, ExTypes, Zenon DEF IInv, Counted
  <1>4. CASE ex.pend
    <2>1. /\ wk' = [pc |-> "run", id |-> ex.req, sid |-> ex.psid, gen |-> ex.gen,
                    old |-> auto, kind |-> "queued"]
          /\ ex' = [ex EXCEPT !.pend = FALSE] /\ auto' = TRUE
      BY <1>4, Zenon DEF Take
    <2>2. /\ ex' \in ExSet(sid) /\ ex'.gen = ex.gen /\ ~ex'.pend /\ ex'.ready = ex.ready
          /\ ex'.req = ex.req /\ ex'.psid = ex.psid /\ ex'.proc = ex.proc
      BY <1>2, <2>1 DEF ExSet
    <2>3. /\ wk' \in Thread /\ wk'.pc = "run" /\ wk'.id = ex.req /\ wk'.sid = ex.psid
          /\ wk'.gen = ex.gen /\ wk'.kind = "queued"
      <3>1. /\ ex.psid \in Nat /\ "queued" \in AnyApdu \cup {"none"}
            /\ "run" \in {"idle", "called", "run", "prompt", "approved", "commit", "answer",
                          "restore", "stopListener", "gone"}
        BY <1>2, <1>3 DEF AnyApdu
      <3>2. wk' \in Thread
        BY <1>2, <1>3, <2>1, <3>1, Zenon DEF Thread
      <3> QED
        BY <2>1, <3>2
    <2>4. /\ ex.proc /\ ~ex.ready /\ ex.gen = rgen /\ ex.req = last /\ ex.psid # 0 /\ last # 0
      BY <1>4, Zenon DEF IInv, Pending
    <2>5. cb.pc \notin Serving
      BY <1>4, Zenon DEF IInv, Calling
    <2>6. TypeOK'
      <3>1. Others'
        BY <1>1, <2>1, Types DEF IInv, Others
      <3> QED
        BY <1>1, <1>2, <2>2, <2>3, <3>1, TypesBack, Zenon
    <2>7. Selected' /\ Counted'
      <3>1. last <= n
        BY <1>2, NfcAssumption DEF Id
      <3> QED
        BY <1>1, <1>3, <2>3, <2>4, <3>1, Zenon DEF IInv, Selected, Counted
    <2>8. Pending' /\ Calling' /\ ResponseOfLastRequest'
      BY <1>1, <2>2, <2>4, <2>5, Zenon DEF Pending, Calling, ResponseOfLastRequest
    <2>9. Working'
      <3>1. ex.gen <= ex.gen
        BY <1>3, NfcAssumption DEF Gen
      <3> QED
        BY <1>1, <2>2, <2>3, <2>4, <3>1, Zenon DEF Working
    <2>10. Owning'
      BY <1>1, <2>2, <2>3, <2>4, Zenon DEF Owning
    <2>11. Voided'
      <3>1. void # 0 => stopping
        BY <2>4, Zenon DEF IInv, Voided
      <3> QED
        BY <1>1, <2>2, <2>3, <2>4, <3>1, Zenon DEF IInv, Voided
    <2> QED
      BY <2>6, <2>7, <2>8, <2>9, <2>10, <2>11, Zenon DEF IInv
  <1>5. CASE ~ex.pend
    <2>1. UNCHANGED <<wk, ex, auto>>
      BY <1>5, Zenon DEF Take
    <2>2. Others'
      BY <1>1, <2>1, Types DEF IInv, Others
    <2>3. ex' \in ExSet(sid') /\ SameEx(ex, ex')
      BY <1>1, <1>2, <2>1, Zenon DEF SameEx
    <2>4. /\ UNCHANGED <<sid, canceled, rgen, wk, n, last, void>>
          /\ sel' \in BOOLEAN /\ (sel' => sel) /\ stopping' \in BOOLEAN /\ (stopping => stopping')
          /\ cb' \in Thread /\ cb'.id <= n
          /\ cb'.pc \in Serving => cb.pc \in Serving /\ cb'.id = cb.id
      BY <1>1, <1>2, <1>3, <2>1, Zenon
    <2> QED
      BY <2>2, <2>3, <2>4, SameKeeps, Zenon
  <1> QED
    BY <1>3, <1>4, <1>5, Zenon

\* An error that is stored leaves no response.
LEMMA FailedFacts ==
    ASSUME NEW m \in Nat, NEW e \in ExSet(m), NEW i \in Id
    PROVE  Kept(e, [e EXCEPT !.err = TRUE, !.ready = FALSE, !.req = i,
                             !.proc = FALSE, !.pend = FALSE, !.psid = 0], m, i)
  <1> DEFINE f == [e EXCEPT !.err = TRUE, !.ready = FALSE, !.req = i]
             h == [f EXCEPT !.proc = FALSE, !.pend = FALSE, !.psid = 0]
  <1>1. 0 \in 0..m
    OBVIOUS
  <1>2. f \in ExSet(m) /\ f.gen = e.gen /\ ~f.ready
    BY DEF ExSet
  <1>3. h = [e EXCEPT !.err = TRUE, !.ready = FALSE, !.req = i,
                      !.proc = FALSE, !.pend = FALSE, !.psid = 0]
    OBVIOUS
  <1> HIDE DEF f
  <1>4. h \in ExSet(m) /\ h.gen = e.gen /\ ~h.ready /\ ~h.pend /\ h.psid = 0
    BY <1>1, <1>2 DEF ExSet
  <1>5. Kept(e, h, m, i)
    <2> HIDE DEF h
    <2> QED
      BY <1>4, Zenon DEF Kept
  <1> QED
    BY <1>3, <1>5, Zenon

\* store_response keeps the invariant: with session and generation equal the worker
\* owns the exchange, and otherwise nothing is stored.
LEMMA StoreKeeps ==
    ASSUME IInv, Store
    PROVE  IInv'
  <1>1. /\ wk.pc = "answer" /\ wk' = [wk EXCEPT !.pc = "restore"]
        /\ UNCHANGED <<sel, sid, canceled, rgen, cool, stopping, listening, auto, evt, cb, n,
                       last, void, got>>
    BY DEF Store, stop, hist
  <1>2. /\ sid \in Nat /\ canceled \in 0..sid /\ rgen \in Gen /\ n \in Id /\ ex \in ExSet(sid)
        /\ sel \in BOOLEAN /\ stopping \in BOOLEAN /\ wk \in Thread /\ cb \in Thread
        /\ last \in 0..n /\ void \in 0..n
    BY Types, Zenon DEF IInv
  <1>3. /\ wk' \in Thread /\ wk'.pc \notin Serving /\ wk'.id = wk.id /\ wk.pc \in Serving
        /\ wk.id \in Id
    BY <1>1, <1>2 DEF Thread, Serving
  <1>4. Others'
    BY <1>1, Types DEF IInv, Others
  <1>5. Selected' /\ Counted'
    BY <1>1, <1>3, Zenon DEF IInv, Selected, Counted
  <1>6. CASE Owned(wk)
    <2>1. Own /\ last = wk.id
      BY <1>3, <1>6, Zenon DEF Owned, Own, IInv, Owning
    <2>2. cb.pc \notin Serving
      BY <2>1, Zenon DEF IInv, Calling
    <2>3. Kept(ex, ex', sid, last)
      <3>1. PICK big \in BOOLEAN, err \in BOOLEAN :
              ex' = IF err THEN [ex EXCEPT !.err = TRUE, !.ready = FALSE, !.req = wk.id,
                                           !.proc = FALSE, !.pend = FALSE, !.psid = 0]
                    ELSE Ready(ex, wk.id, big)
        BY <1>6, Zenon DEF Store
      <3>2. CASE err
        <4>1. ex' = [ex EXCEPT !.err = TRUE, !.ready = FALSE, !.req = wk.id,
                               !.proc = FALSE, !.pend = FALSE, !.psid = 0]
          BY <3>1, <3>2, Zenon
        <4>2. Kept(ex, [ex EXCEPT !.err = TRUE, !.ready = FALSE, !.req = wk.id,
                                  !.proc = FALSE, !.pend = FALSE, !.psid = 0], sid, wk.id)
          BY <1>2, <1>3, FailedFacts, Zenon
        <4> QED
          BY <2>1, <4>1, <4>2, Zenon
      <3>3. CASE ~err
        <4>1. ex' = Ready(ex, wk.id, big)
          BY <3>1, <3>3, Zenon
        <4>2. IsReady(Ready(ex, wk.id, big), ex, sid, wk.id, big)
          BY <1>2, <1>3, ReadyFacts, Zenon
        <4> QED
          BY <2>1, <4>1, <4>2, Zenon DEF IsReady, Kept
      <3> QED
        BY <3>2, <3>3, Zenon
    <2>4. TypeOK'
      BY <1>1, <1>2, <1>3, <1>4, <2>3, TypesBack, Zenon DEF Kept
    <2>5. Pending' /\ Calling' /\ Working' /\ Owning' /\ ResponseOfLastRequest'
      BY <1>1, <1>3, <2>2, <2>3, Zenon
         DEF Kept, Pending, Calling, Working, Owning, Own, ResponseOfLastRequest
    <2>6. Voided'
      BY <1>1, <1>3, <2>3, Zenon DEF Kept, IInv, Voided
    <2> QED
      BY <1>5, <2>4, <2>5, <2>6, Zenon DEF IInv
  <1>7. CASE ~Owned(wk)
    <2>1. ex' = ex
      BY <1>7, Zenon DEF Store
    <2>2. TypeOK'
      BY <1>1, <1>2, <1>3, <1>4, <2>1, TypesBack, Zenon
    <2>3. Voided'
      BY <1>1, <1>3, <2>1, Zenon DEF IInv, Voided
    <2>4. SameEx(ex, ex') /\ UNCHANGED <<rgen, last>>
          /\ (cb'.pc \in Serving => cb.pc \in Serving /\ cb'.id = cb.id)
      BY <1>1, <2>1, Zenon DEF SameEx
    <2> QED
      BY <1>3, <1>5, <2>2, <2>3, <2>4, ThreadKeeps, Zenon
  <1> QED
    BY <1>6, <1>7

\* The end of process_request keeps the invariant.
LEMMA RestoreKeeps ==
    ASSUME IInv, Restore
    PROVE  IInv'
  <1>1. /\ auto' = wk.old /\ wk' = Idle
        /\ UNCHANGED <<sel, sid, canceled, ex, rgen, cool, stopping, listening, evt, cb, n,
                       last, void, got>>
    BY DEF Restore, shared, stop, hist
  <1>2. /\ sid \in Nat /\ canceled \in 0..sid /\ rgen \in Gen /\ n \in Id /\ ex \in ExSet(sid)
        /\ sel \in BOOLEAN /\ stopping \in BOOLEAN /\ wk \in Thread /\ cb \in Thread
        /\ last \in 0..n /\ void \in 0..n
    BY Types, Zenon DEF IInv
  <1>3. wk' \in Thread /\ wk'.id = 0 /\ wk'.pc \notin Serving
    BY <1>1, IdleThread, Zenon
  <1>4. Others'
    <2>1. wk.old \in BOOLEAN
      BY <1>2, ThreadTypes
    <2> QED
      BY <1>1, <2>1, Types DEF IInv, Others
  <1>5. TypeOK'
    BY <1>1, <1>2, <1>3, <1>4, TypesBack, Zenon
  <1>6. Selected' /\ Counted' /\ Voided'
    <2>1. 0 <= n
      BY <1>2, NfcAssumption DEF Id
    <2> QED
      BY <1>1, <1>3, <2>1, Zenon DEF IInv, Selected, Counted, Voided
  <1>7. SameEx(ex, ex') /\ UNCHANGED <<rgen, last>>
        /\ (cb'.pc \in Serving => cb.pc \in Serving /\ cb'.id = cb.id)
    BY <1>1, Zenon DEF SameEx
  <1> QED
    BY <1>3, <1>5, <1>6, <1>7, ThreadKeeps, Zenon

\* zf_transport_nfc_stop and the end of the worker's loop keep the invariant.
LEMMA StopKeeps ==
    ASSUME IInv, Stop \/ LeaveLoop
    PROVE  IInv'
  <1>1. /\ stopping' = TRUE /\ CancelSession /\ ex' = [ex EXCEPT !.cflag = TRUE]
        /\ UNCHANGED <<sel, sid, rgen, cool, auto, cb, n, last, got>>
        /\ evt' = evt \/ evt' = evt \cup {"stop"}
        /\ listening' = listening \/ listening' = FALSE
        /\ wk' = wk \/ wk' = [wk EXCEPT !.pc = "stopListener"]
    BY DEF Stop, LeaveLoop
  <1>2. /\ sid \in Nat /\ canceled \in 0..sid /\ rgen \in Gen /\ n \in Id /\ ex \in ExSet(sid)
        /\ sel \in BOOLEAN /\ stopping \in BOOLEAN /\ wk \in Thread /\ cb \in Thread
        /\ last \in 0..n /\ void \in 0..n
    BY Types, Zenon DEF IInv
  <1>3. wk' \in Thread /\ wk'.id = wk.id
        /\ (wk'.pc \in Serving => /\ wk.pc \in Serving /\ wk'.gen = wk.gen /\ wk'.id = wk.id
                                  /\ wk'.sid = wk.sid /\ wk'.kind = wk.kind)
    <2>1. CASE wk' = wk
      BY <1>2, <2>1, Zenon
    <2>2. CASE wk' = [wk EXCEPT !.pc = "stopListener"]
      BY <1>2, <2>2 DEF Thread, Serving
    <2> QED
      BY <1>1, <2>1, <2>2, Zenon
  <1>4. ex' \in ExSet(sid) /\ SameEx(ex, ex')
    BY <1>1, <1>2, FlagType, Zenon
  <1>5. Others'
    BY <1>1, Types DEF IInv, Others
  <1>6. canceled' \in 0..sid /\ void' \in 0..n
    BY <1>1, CancelFacts, Zenon
  <1>7. stopping' \in BOOLEAN
    BY <1>1
  <1>8. TypeOK'
    BY <1>1, <1>2, <1>3, <1>4, <1>5, <1>6, <1>7, TypesBack, Zenon
  <1>9. Selected' /\ Counted' /\ Voided'
    BY <1>1, <1>3, Zenon DEF IInv, Selected, Counted, Voided
  <1>10. UNCHANGED <<rgen, last>>
         /\ (cb'.pc \in Serving => cb.pc \in Serving /\ cb'.id = cb.id)
    BY <1>1, Zenon
  <1> QED
    BY <1>3, <1>4, <1>8, <1>9, <1>10, ThreadKeeps, Zenon

\* A new exchange is empty.
LEMMA NoExFacts ==
    ASSUME NEW m \in Nat
    PROVE  NoEx \in ExSet(m) /\ ~NoEx.pend /\ ~NoEx.ready /\ NoEx.psid = 0
  <1>1. /\ 0 \in 0..m /\ 0 \in Gen /\ 0 \in Id /\ 0 \in Page /\ FALSE \in BOOLEAN
        /\ "none" \in {"none", "active", "done"}
    BY NfcAssumption DEF Id, Page, Gen
  <1>2. NoEx \in ExSet(m)
    BY <1>1, Zenon DEF NoEx, ExSet
  <1> QED
    BY <1>2 DEF NoEx

\* The start and the end of a worker keep the invariant.
LEMMA FreshStepKeeps ==
    ASSUME IInv, Start \/ Exit
    PROVE  IInv'
  <1>1. /\ sel' = FALSE /\ ex' = NoEx /\ last' = 0 /\ cb.pc = "idle"
        /\ wk' = Idle \/ wk' = [Idle EXCEPT !.pc = "gone"]
        /\ void' = void \/ void' = 0
        /\ (sid' = 0 /\ canceled' = 0 /\ rgen' = 0) \/ UNCHANGED <<sid, canceled, rgen>>
        /\ cool' = FALSE \/ cool' = cool
        /\ stopping' = FALSE \/ stopping' = stopping
        /\ listening' = TRUE \/ listening' = listening
        /\ evt' = {} \/ evt' = evt
        /\ UNCHANGED <<auto, cb, n, got>>
    BY DEF Start, Exit, stop
  <1>2. /\ sid \in Nat /\ canceled \in 0..sid /\ rgen \in Gen /\ n \in Id
        /\ sel \in BOOLEAN /\ stopping \in BOOLEAN /\ cb \in Thread
        /\ last \in 0..n /\ void \in 0..n
    BY Types, Zenon DEF IInv
  <1>3. /\ sid' \in Nat /\ canceled' \in 0..sid' /\ rgen' \in Gen /\ last' \in 0..n'
        /\ void' \in 0..n' /\ 0 <= n
    BY <1>1, <1>2, NfcAssumption DEF Gen, Id
  <1>4. sel' \in BOOLEAN /\ ~sel' /\ stopping' \in BOOLEAN
    BY <1>1, <1>2
  <1>5. Others'
    BY <1>1, Types DEF IInv, Others
  <1>6. wk' \in Thread /\ wk'.id = 0 /\ wk'.pc \notin Serving
    <2>1. "gone" \notin Serving
      BY DEF Serving
    <2> QED
      BY <1>1, <2>1, IdleThread, Zenon
  <1>7. ex' \in ExSet(sid') /\ ~ex'.pend /\ ~ex'.ready /\ ex'.psid = 0
    BY <1>1, <1>3, NoExFacts, Zenon
  <1>8. cb' \in Thread /\ cb'.pc \notin Serving /\ n' \in Id
    BY <1>1, <1>2 DEF Serving
  <1>9. TypeOK'
    BY <1>3, <1>4, <1>5, <1>6, <1>7, <1>8, TypesBack, Zenon
  <1>10. Selected' /\ Counted' /\ Voided'
    BY <1>1, <1>3, <1>4, <1>6, <1>7, Zenon DEF IInv, Selected, Counted, Voided
  <1> QED
    BY <1>6, <1>7, <1>8, <1>9, <1>10, FreshKeeps, Zenon

-----------------------------------------------------------------------------

\* The invariant holds before the transport is started.
LEMMA InitInv == Init => IInv
  <1> SUFFICES ASSUME Init PROVE IInv
    OBVIOUS
  <1>1. NoEx \in ExSet(0) /\ ~NoEx.pend /\ ~NoEx.ready
    BY NoExFacts
  <1>2. NoData \in [id : Id, from : Page, upto : Page]
    BY NfcAssumption DEF NoData, Id, Page
  <1>3. TypeOK
    <2>1. 0 \in Nat /\ 0 \in 0..0 /\ 0 \in Gen /\ 0 \in Id
      BY NfcAssumption DEF Id, Gen
    <2> QED
      BY <1>1, <1>2, <2>1, IdleThread, Zenon DEF Init, TypeOK, ExSet
  <1>4. wk.pc \notin Serving /\ cb.pc \notin Serving /\ ~ex.pend /\ ~ex.ready
    BY <1>1, IdleThread DEF Init, Serving
  <1>5. Counted
    BY IdleThread DEF Init, Counted
  <1>6. Selected /\ Voided
    BY <1>4, Zenon DEF Init, Selected, Voided
  <1> QED
    BY <1>3, <1>4, <1>5, <1>6, Zenon
       DEF IInv, Pending, Calling, Working, Owning, Own, ResponseOfLastRequest

\* Every step keeps the invariant.
LEMMA NextPreserves == IInv /\ [Next]_vars => IInv'
  <1> SUFFICES ASSUME IInv, [Next]_vars PROVE IInv'
    OBVIOUS
  <1>1. CASE UNCHANGED vars
    <2>1. UNCHANGED <<sid, canceled, rgen, wk, n, last, void, ex, sel, stopping, cool,
                      listening, auto, evt, got, cb>>
      BY <1>1 DEF vars, shared, stop, hist
    <2>2. Others'
      BY <2>1, Types DEF IInv, Others
    <2>3. ex' \in ExSet(sid') /\ SameEx(ex, ex')
      BY <2>1, Types, Zenon DEF IInv, SameEx
    <2>4. /\ UNCHANGED <<sid, canceled, rgen, wk, n, last, void>>
          /\ sel' \in BOOLEAN /\ (sel' => sel) /\ stopping' \in BOOLEAN /\ (stopping => stopping')
          /\ cb' \in Thread /\ cb'.id <= n
          /\ cb'.pc \in Serving => cb.pc \in Serving /\ cb'.id = cb.id
      BY <2>1, Types, Zenon DEF IInv, Counted
    <2> QED
      BY <2>2, <2>3, <2>4, SameKeeps, Zenon
  <1>2. CASE Next
    <2>1. CASE \E via \in {"block", "bare"} : Apdu(via)
      <3>1. PICK via \in {"block", "bare"} : Apdu(via)
        BY <2>1
      <3>2. CASE Select(via) \/ VersionFallback(via)
        BY <3>2, SelectKeeps, Zenon
      <3>3. CASE SelectNdef(via) \/ AnswerAtOnce(via)
        BY <3>3, QuietKeeps, Zenon
      <3>4. CASE ControlEnd(via)
        BY <3>4, TeardownKeeps, Zenon
      <3>5. CASE GetResponse(via)
        BY <3>5, FetchKeeps, Zenon
      <3>6. CASE BadMsg(via)
        BY <3>6, ProbeKeeps, Zenon
      <3>7. CASE QueueMsg(via)
        BY <3>7, QueueKeeps, Zenon
      <3>8. CASE \E kind \in {"extended", "short", "u2f"} : ServeHere(via, kind)
        BY <3>8, ServeHereKeeps, Zenon
      <3> QED
        BY <3>1, <3>2, <3>3, <3>4, <3>5, <3>6, <3>7, <3>8, Zenon DEF Apdu
    <2>2. CASE Enter \/ GetStatus \/ CooldownEnds
      BY <2>2, EnterKeeps, Zenon
    <2>3. CASE FieldOff \/ Reactivate
      BY <2>3, TeardownKeeps, Zenon
    <2>4. CASE SleepProbe
      BY <2>4, ProbeKeeps, Zenon
    <2>5. CASE RAck \/ BusyBlock
      BY <2>5, QuietKeeps, Zenon
    <2>6. CASE SendDeferred
      BY <2>6, FetchKeeps, Zenon
    <2>7. CASE Callback
      BY <2>7, AnswerHereKeeps, CallbackServesKeeps, Zenon DEF Callback
    <2>8. CASE Worker
      BY <2>8, TakeKeeps, StoreKeeps, RestoreKeeps, WorkerServesKeeps, StopKeeps,
         FreshStepKeeps, Zenon DEF Worker
    <2>9. CASE Start \/ Stop
      BY <2>9, FreshStepKeeps, StopKeeps, Zenon
    <2> QED
      BY <1>2, <2>1, <2>2, <2>3, <2>4, <2>5, <2>6, <2>7, <2>8, <2>9, Zenon DEF Next, Reader
  <1> QED
    BY <1>1, <1>2

\* The invariant holds in every reachable state, for any number of requests and
\* generations, and any choice of large answers.
THEOREM Invariance == Spec => []IInv
  BY InitInv, NextPreserves, PTL DEF Spec

\* The variables of the transport keep their types: in particular the cancelled
\* session, the last request and the void one are never numbers not yet given out.
THEOREM TypeCorrect == Spec => []TypeOK
  <1>1. IInv => TypeOK
    BY DEF IInv
  <1> QED
    BY <1>1, Invariance, PTL

\* A response that waits in the exchange answers the request accepted last under
\* the present selection, however late the worker finishes (store_response).
THEOREM ResponseOfLastRequestHolds == Spec => []ResponseOfLastRequest
  <1>1. IInv => ResponseOfLastRequest
    BY DEF IInv
  <1> QED
    BY <1>1, Invariance, PTL

\* Only a poll of the worker moves it from the approval to the commit.
LEMMA OnlyPollCommits ==
    ASSUME TypeOK, Next, wk.pc = "approved", wk'.pc = "commit"
    PROVE  WorkerServes
  <1>1. CASE Reader
    <2>1. wk' = wk
      BY <1>1 DEF Reader, Enter, FieldOff, Reactivate, SleepProbe, RAck, BusyBlock, SendDeferred,
         GetStatus, Apdu, Select, SelectNdef, VersionFallback, AnswerAtOnce, ControlEnd, GetResponse,
         BadMsg, QueueMsg, ServeHere, Event
    <2> QED
      BY <2>1
  <1>2. CASE Callback
    <2>1. wk' = wk
      BY <1>2 DEF Callback, AnswerHere, CallbackServes
    <2> QED
      BY <2>1
  <1>3. CASE Worker
    BY <1>3 DEF Worker, Take, Store, Restore, LeaveLoop, Exit
  <1>4. CASE Start \/ Stop \/ CooldownEnds
    BY <1>4 DEF Start, Stop, CooldownEnds
  <1> QED
    BY <1>1, <1>2, <1>3, <1>4, Zenon DEF Next

\* A command that polls before it commits (poll_cbor_control) and was cancelled
\* in flight, or meets a stop, is not committed.
THEOREM CancelledNotCommittedHolds == Spec => CancelledNotCommitted
  <1>1. IInv /\ [Next]_vars
          => [(wk.pc = "approved" /\ wk'.pc = "commit") => wk.id # void /\ ~stopping]_vars
    <2> SUFFICES ASSUME IInv, Next, wk.pc = "approved", wk'.pc = "commit"
                 PROVE  wk.id # void /\ ~stopping
      BY DEF vars
    <2>1. WorkerServes /\ wk \in Thread
      BY OnlyPollCommits, Types DEF IInv
    <2>2. wk.pc \in Serving
      BY DEF Serving
    <2>3. Poll(wk)
      BY <2>1 DEF WorkerServes, Serve, Approve, Decide, Commit, Thread
    <2>4. ~Cancelled(wk)
      BY <2>1, <2>3 DEF Poll, Thread
    <2> QED
      BY <2>2, <2>4, Zenon DEF Cancelled, IInv, Voided
  <1> QED
    BY <1>1, Invariance, PTL DEF Spec, CancelledNotCommitted

-----------------------------------------------------------------------------
(* The ISO-DEP link                                                        *)

\* The frames, and the records of both sides.
BodyType   == Nat \X Nat
IBlock     == [t : {"I"}, num : {0, 1}, chain : BOOLEAN, body : BodyType]
RBlock     == [t : {"ACK", "NAK", "EMPTY"}, num : {0, 1}]
FrameType  == IBlock \cup RBlock \cup {None}
CmdType    == [c : 0..MaxCmds, kind : Kind \cup {"none"}, len : Nat, split : BOOLEAN]
ReaderType == [num : {0, 1}, cmd : CmdType, n : 0..MaxCmds, sent : FrameType, want : Nat \ {0},
               got : BodyType, way : {"iso", "repeat"}]
TxChain    == [c : Nat, next : Nat, len : Nat, end : BOOLEAN]
RxChain    == [open : BOOLEAN, buf : Seq(BodyType), num : 0..2, piece : BodyType \cup {<< >>},
               dups : Nat]
DoneType   == [num : 0..2, piece : BodyType \cup {<< >>}, resp : FrameType, pcb : {0, 1},
               keeps : BOOLEAN]
AirType    == {Silence, Noise} \cup [to : {"card", "reader"}, f : FrameType]

\* The types that the argument needs.
LinkTypes == /\ air \in AirType /\ rd \in ReaderType /\ tx \in TxChain /\ rx \in RxChain
             /\ done \in DoneType /\ lastTx \in FrameType /\ pcb \in {0, 1}
             /\ exec \in [Cmd -> Nat]

\* The command that the reader waits for is the one that it sent last, and an
\* I-block of its belongs to it.
Current == /\ rd.cmd.c \in {0, rd.n}
           /\ Waiting => rd.cmd.kind \in Kind /\ 1 <= rd.cmd.len
           /\ rd.cmd.split => rd.cmd.kind = "direct"
           /\ Waiting /\ rd.sent.t = "I" =>
                \E i \in {1, 2} : rd.sent = CommandBlock(rd.num, rd.cmd, i)

\* A block that carries data is on its way to the card only if the reader
\* waits, and then it is the one that it sent last.
OnAir == Received("I") => Waiting /\ air.f = rd.sent

Typed == LinkTypes /\ Current /\ OnAir

\* A frame on its way to the card, and one on its way to the reader.
Out(f)  == [to |-> "card", f |-> f]
Back(f) == [to |-> "reader", f |-> f]

\* Where frames go, and the fields of those that carry no data.
LEMMA Frames ==
  /\ Silence.to = "none" /\ Noise.to = "noise" /\ None.t = "none"
  /\ \A f : Out(f).to = "card" /\ Out(f).f = f /\ Back(f).to = "reader" /\ Back(f).f = f
  /\ \A t, num : R(t, num).t = t /\ R(t, num).num = num
  BY DEF Silence, Noise, None, Out, Back, R

\* The fields of the block that carries a command or a part of it.
LEMMA BlockFacts ==
  ASSUME NEW num, NEW cmd, NEW i
  PROVE  /\ CommandBlock(num, cmd, i).t = "I" /\ CommandBlock(num, cmd, i).num = num
         /\ cmd.split => CommandBlock(num, cmd, i).body = Part(cmd.c, i)
         /\ cmd.split /\ i = 1 => CommandBlock(num, cmd, i).chain
         /\ cmd.split /\ i # 1 => ~CommandBlock(num, cmd, i).chain
         /\ ~cmd.split => /\ ~CommandBlock(num, cmd, i).chain
                          /\ CommandBlock(num, cmd, i).body = Whole(cmd.c)
  BY DEF CommandBlock, I

\* The bytes of a command and of its parts.
LEMMA PieceType ==
  ASSUME NEW c \in Cmd, NEW i \in {1, 2}
  PROVE  Part(c, i) \in BodyType /\ Whole(c) \in BodyType
  <1>1. Bytes[c] \in Nat
    BY LinkAssumption DEF Cmd
  <1> QED
    BY <1>1 DEF Part, Whole, BodyType

\* The block is a frame of the type.
LEMMA BlockType ==
  ASSUME NEW num \in {0, 1}, NEW cmd \in CmdType, cmd.c \in Cmd, NEW i \in {1, 2}
  PROVE  CommandBlock(num, cmd, i) \in FrameType
  <1>2. Part(cmd.c, i) \in BodyType /\ Whole(cmd.c) \in BodyType
    BY PieceType
  <1>3. (i = 1) \in BOOLEAN
    OBVIOUS
  <1>4. I(num, i = 1, Part(cmd.c, i)) \in FrameType /\ I(num, FALSE, Whole(cmd.c)) \in FrameType
    BY <1>2, <1>3 DEF I, FrameType, IBlock
  <1> QED
    BY <1>4 DEF CommandBlock

\* Numbers toggle.
LEMMA Toggles == \A b \in {0, 1} : Toggle(b) \in {0, 1} /\ Toggle(b) # b /\ Toggle(Toggle(b)) = b
  BY DEF Toggle

LEMMA WholeNotPart == \A c \in Cmd : Whole(c) # Part(c, 2) /\ Whole(c) # << >> /\ Part(c, 2) # << >>
  BY DEF Whole, Part

\* Empty records.
LEMMA NoRxChain == NoRx \in RxChain /\ NoRx.num = 2 /\ ~NoRx.open
  <1>1. << >> \in Seq(BodyType)
    OBVIOUS
  <1> QED
    BY <1>1 DEF NoRx, RxChain

LEMMA Empties ==
  /\ None \in FrameType /\ NoCmd \in CmdType /\ NoCmd.c = 0 /\ ~NoCmd.split
  /\ NoTx \in TxChain /\ NoTx.c = 0 /\ NoDone \in DoneType /\ NoDone.num = 2
  <1>1. None \in FrameType
    BY DEF FrameType
  <1> QED
    BY <1>1, LinkAssumption DEF NoCmd, CmdType, NoTx, TxChain, NoDone, DoneType

\* Blocks are frames, and frames on the air are typed.
LEMMA FrameFacts ==
  /\ \A num \in {0, 1}, chain \in BOOLEAN, body \in BodyType : I(num, chain, body) \in FrameType
  /\ \A t \in {"ACK", "NAK", "EMPTY"}, num \in {0, 1} : R(t, num) \in FrameType
  /\ \A f \in FrameType : Out(f) \in AirType /\ Back(f) \in AirType
  /\ Silence \in AirType /\ Noise \in AirType
  BY DEF I, R, FrameType, IBlock, RBlock, Out, Back, AirType

\* A frame that arrives.
LEMMA ArrivedType ==
  ASSUME air \in AirType, air.to \in {"card", "reader"}
  PROVE  /\ air.f \in FrameType
         /\ air.f.t = "I" => /\ air.f.num \in {0, 1} /\ air.f.chain \in BOOLEAN
                             /\ air.f.body \in BodyType
         /\ air.f.t \in {"ACK", "NAK", "EMPTY"} => air.f.num \in {0, 1}
         /\ air = Out(air.f) \/ air = Back(air.f)
  <1>1. air \in [to : {"card", "reader"}, f : FrameType]
    BY Frames DEF AirType
  <1>2. air.f \in FrameType
    BY <1>1
  <1>3. air.f.t = "I" => air.f \in IBlock
    BY <1>2, Frames DEF FrameType, RBlock
  <1>4. air.f.t \in {"ACK", "NAK", "EMPTY"} => air.f \in RBlock
    BY <1>2, Frames DEF FrameType, IBlock
  <1> QED
    BY <1>1, <1>2, <1>3, <1>4 DEF IBlock, RBlock, Out, Back

\* What is known of the reader while it waits.
LEMMA Waits ==
  ASSUME Typed, Waiting
  PROVE  /\ rd \in ReaderType /\ rd.cmd \in CmdType /\ rd.num \in {0, 1}
         /\ tx \in TxChain /\ rx \in RxChain /\ rd.cmd.c = rd.n /\ rd.n \in Cmd
         /\ rd.want \in Nat /\ rd.want >= 1 /\ rd.cmd.split \in BOOLEAN /\ rd.sent \in FrameType
         /\ rd.cmd.kind \in Kind /\ rd.cmd.len \in Nat /\ rd.cmd.len >= 1
         /\ rd.cmd.split => rd.cmd.kind = "direct"
         /\ exec \in [Cmd -> Nat] /\ rd.way \in {"iso", "repeat"}
  <1>2. rd.cmd.c = rd.n /\ rd.cmd.c # 0
    BY DEF Typed, Current, Waiting
  <1>3. /\ rd \in ReaderType /\ rd.cmd \in CmdType /\ rd.num \in {0, 1} /\ rd.want \in Nat \ {0}
        /\ rd.n \in 0..MaxCmds /\ rd.sent \in FrameType /\ rd.way \in {"iso", "repeat"}
    BY DEF Typed, LinkTypes, ReaderType
  <1>4. rd.cmd.split \in BOOLEAN /\ rd.cmd.len \in Nat
    BY <1>3 DEF CmdType
  <1>5. rd.n \in Cmd
    BY <1>2, <1>3, LinkAssumption DEF Cmd
  <1> QED
    BY <1>2, <1>3, <1>4, <1>5 DEF Typed, LinkTypes, Current

\* The reader's record after a command was sent.
LEMMA SendCommandStep ==
  ASSUME Typed, SendCommand
  PROVE  \E kind \in Kind, len \in 1..MaxBlocks, split \in BOOLEAN :
           LET cmd == [c |-> rd.n + 1, kind |-> kind, len |-> len, split |-> split]
               f   == CommandBlock(rd.num, cmd, 1)
           IN /\ kind # "direct" => len = 1 /\ ~split
              /\ cmd \in CmdType /\ cmd.c = rd.n + 1 /\ cmd.split = split /\ f \in FrameType
              /\ rd'.cmd = cmd /\ rd'.n = rd.n + 1 /\ rd'.sent = f /\ rd'.want = 1
              /\ rd'.num = rd.num /\ rd'.got = <<rd.n + 1, 0>> /\ rd'.way = rd.way
              /\ rd' \in ReaderType /\ air' = Out(f) /\ rd.n + 1 \in Cmd /\ rd.n \in Nat
              /\ spoilt' = (spoilt \/ Lookalike(f))
  <1>1. PICK kind \in Kind, len \in 1..MaxBlocks, split \in BOOLEAN :
           /\ kind # "direct" => len = 1 /\ ~split
           /\ LET cmd == [c |-> rd.n + 1, kind |-> kind, len |-> len, split |-> split]
                  f   == CommandBlock(rd.num, cmd, 1)
              IN /\ rd' = [rd EXCEPT !.cmd = cmd, !.n = cmd.c, !.sent = f, !.want = 1,
                                     !.got = <<cmd.c, 0>>]
                 /\ ToCard(f)
                 /\ spoilt' = (spoilt \/ Lookalike(f))
    BY DEF SendCommand
  <1> DEFINE cmd == [c |-> rd.n + 1, kind |-> kind, len |-> len, split |-> split]
             f   == CommandBlock(rd.num, cmd, 1)
  <1>3. rd.n \in Nat /\ rd.num \in {0, 1} /\ rd.n + 1 \in Cmd /\ rd.n + 1 \in 0..MaxCmds
    <2>1. rd.n \in 0..MaxCmds /\ rd.num \in {0, 1} /\ rd.n < MaxCmds
      BY DEF Typed, LinkTypes, ReaderType, SendCommand
    <2> QED BY <2>1, LinkAssumption DEF Cmd
  <1>4. cmd \in CmdType /\ cmd.c = rd.n + 1 /\ cmd.split = split
    <2>1. len \in Nat
      BY LinkAssumption
    <2> QED BY <1>3, <2>1 DEF CmdType
  <1>5. f \in FrameType
    BY <1>3, <1>4, BlockType
  <1>6. /\ rd' = [rd EXCEPT !.cmd = cmd, !.n = cmd.c, !.sent = f, !.want = 1, !.got = <<cmd.c, 0>>]
        /\ air' = Out(f) /\ spoilt' = (spoilt \/ Lookalike(f))
    BY <1>1 DEF ToCard, Out
  <1>7. <<rd.n + 1, 0>> \in BodyType
    BY <1>3 DEF BodyType, Cmd
  <1>8. /\ rd'.cmd = cmd /\ rd'.n = rd.n + 1 /\ rd'.sent = f /\ rd'.want = 1 /\ rd'.num = rd.num
        /\ rd'.got = <<rd.n + 1, 0>> /\ rd'.way = rd.way /\ rd' \in ReaderType
    <2> DEFINE k == rd.n + 1
               b == <<k, 0>>
               one == 1
    <2>1. /\ rd \in ReaderType /\ one \in Nat \ {0} /\ k \in 0..MaxCmds /\ b \in BodyType
          /\ cmd \in CmdType /\ f \in FrameType
      BY <1>3, <1>4, <1>5, <1>7 DEF Typed, LinkTypes
    <2>2. rd' = [rd EXCEPT !.cmd = cmd, !.n = k, !.sent = f, !.want = one, !.got = b]
      BY <1>4, <1>6
    <2> HIDE DEF cmd, f, k, b, one
    <2>3. /\ rd'.cmd = cmd /\ rd'.n = k /\ rd'.sent = f /\ rd'.want = one /\ rd'.num = rd.num
          /\ rd'.got = b /\ rd'.way = rd.way /\ rd' \in ReaderType
      BY <2>1, <2>2 DEF ReaderType
    <2> QED BY <2>3 DEF k, b, one
  <1> QED
    BY <1>1, <1>3, <1>4, <1>5, <1>6, <1>8

\* The reader's record after a block was accepted.
LEMMA AcceptStep ==
  ASSUME Typed, Accept
  PROVE  /\ rd' \in ReaderType /\ rd'.num = Toggle(rd.num) /\ rd'.got = air.f.body
         /\ rd'.want = rd.want + 1 /\ rd'.n = rd.n /\ rd'.way = rd.way
         /\ air.f.chain => /\ rd'.cmd = rd.cmd /\ rd'.sent = R("ACK", rd'.num)
                           /\ air' = Out(rd'.sent)
         /\ ~air.f.chain => rd'.cmd = NoCmd /\ rd'.sent = None /\ air' = Silence
         /\ UNCHANGED <<pcb, lastTx, tx, rx, done, arena, exec, spoilt>>
  <1>1. /\ rd \in ReaderType /\ rd.num \in {0, 1} /\ air \in AirType /\ rd.want \in Nat
        /\ air.to = "reader" /\ air.f.t = "I"
        /\ UNCHANGED <<pcb, lastTx, tx, rx, done, arena, exec, spoilt>>
    BY DEF Typed, LinkTypes, ReaderType, Accept, card
  <1> DEFINE num == Toggle(rd.num)
             b == air.f.body
             k == rd.want + 1
             f == R("ACK", num)
  <1>2. num \in {0, 1} /\ b \in BodyType /\ k \in Nat \ {0}
    BY <1>1, ArrivedType, Toggles
  <1>3. f \in FrameType /\ None \in FrameType /\ NoCmd \in CmdType
    BY <1>2, FrameFacts, Empties
  <1>4. CASE air.f.chain
    <2>1. /\ rd' = [rd EXCEPT !.num = num, !.got = b, !.want = k, !.sent = f]
          /\ air' = Out(f)
      BY <1>1, <1>4 DEF Accept, ToCard, Out, ReaderType
    <2> HIDE DEF num, b, k, f
    <2>2. /\ rd' \in ReaderType /\ rd'.num = num /\ rd'.got = b /\ rd'.want = k
          /\ rd'.n = rd.n /\ rd'.way = rd.way /\ rd'.cmd = rd.cmd /\ rd'.sent = f
      BY <1>1, <1>2, <1>3, <2>1 DEF ReaderType
    <2> QED BY <1>1, <1>4, <2>1, <2>2 DEF num, b, k, f
  <1>5. CASE ~air.f.chain
    <2>1. /\ rd' = [rd EXCEPT !.num = num, !.got = b, !.want = k, !.cmd = NoCmd, !.sent = None]
          /\ air' = Silence
      BY <1>1, <1>5 DEF Accept, ReaderType
    <2> HIDE DEF num, b, k, f
    <2>2. /\ rd' \in ReaderType /\ rd'.num = num /\ rd'.got = b /\ rd'.want = k
          /\ rd'.n = rd.n /\ rd'.way = rd.way /\ rd'.cmd = NoCmd /\ rd'.sent = None
      BY <1>1, <1>2, <1>3, <2>1 DEF ReaderType
    <2> QED BY <1>1, <1>5, <2>1, <2>2 DEF num, b, k, f
  <1> QED
    BY <1>4, <1>5

\* The reader's record after the second part of a command was sent.
LEMMA NextPartStep ==
  ASSUME Typed, NextPart
  PROVE  /\ rd' \in ReaderType /\ rd'.num = Toggle(rd.num) /\ rd'.cmd = rd.cmd /\ rd'.n = rd.n
         /\ rd'.want = rd.want /\ rd'.got = rd.got /\ rd'.way = rd.way
         /\ rd'.sent = CommandBlock(rd'.num, rd.cmd, 2) /\ air' = Out(rd'.sent)
         /\ rd'.sent \in FrameType
         /\ Waiting /\ air.to = "reader" /\ Acknowledged
         /\ UNCHANGED <<pcb, lastTx, tx, rx, done, arena, exec, spoilt>>
  <1>1. /\ Waiting /\ air.to = "reader" /\ Acknowledged
        /\ UNCHANGED <<pcb, lastTx, tx, rx, done, arena, exec, spoilt>>
    BY DEF NextPart, card
  <1>3. /\ rd \in ReaderType /\ rd.cmd \in CmdType /\ rd.cmd.c \in Cmd
        /\ Toggle(rd.num) \in {0, 1}
    BY <1>1, Waits, Toggles
  <1> DEFINE num == Toggle(rd.num)
             f == CommandBlock(num, rd.cmd, 2)
  <1>4. rd' = [rd EXCEPT !.num = num, !.sent = f] /\ air' = Out(f)
    BY DEF NextPart, ToCard, Out
  <1>5. f \in FrameType /\ num \in {0, 1}
    BY <1>3, BlockType
  <1> HIDE DEF num, f
  <1>8. /\ rd' \in ReaderType /\ rd'.num = num /\ rd'.sent = f /\ rd'.cmd = rd.cmd /\ rd'.n = rd.n
        /\ rd'.want = rd.want /\ rd'.got = rd.got /\ rd'.way = rd.way
    BY <1>3, <1>4, <1>5 DEF ReaderType
  <1> QED
    BY <1>1, <1>4, <1>5, <1>8 DEF num, f

\* The reader's record after an activation.
LEMMA NewActivationStep ==
  ASSUME Typed, NewActivation
  PROVE  /\ rd' \in ReaderType /\ rd'.cmd = NoCmd /\ rd'.n = rd.n /\ rd'.want = 1
         /\ rd'.got = <<rd.n, 0>> /\ air' = Silence /\ done' = NoDone /\ tx' = NoTx
         /\ rx' = NoRx /\ exec' = exec /\ pcb' = 0 /\ lastTx' = None
  <1>1. PICK way \in Ways :
           rd' = [rd EXCEPT !.num = 0, !.cmd = NoCmd, !.sent = None, !.want = 1,
                            !.got = <<rd.n, 0>>, !.way = way]
    BY DEF NewActivation
  <1>2. rd \in ReaderType /\ rd.n \in Nat /\ way \in {"iso", "repeat"}
    BY LinkAssumption DEF Typed, LinkTypes, ReaderType
  <1>3. <<rd.n, 0>> \in BodyType
    BY <1>2 DEF BodyType
  <1>4. /\ rd' \in ReaderType /\ rd'.cmd = NoCmd /\ rd'.n = rd.n /\ rd'.want = 1
        /\ rd'.got = <<rd.n, 0>>
    <2> DEFINE b == <<rd.n, 0>>
               one == 1
               zero == 0
    <2>1. one \in Nat \ {0} /\ zero \in {0, 1} /\ b \in BodyType
      BY <1>3
    <2>2. rd' = [rd EXCEPT !.num = zero, !.cmd = NoCmd, !.sent = None, !.want = one, !.got = b,
                           !.way = way]
      BY <1>1
    <2> HIDE DEF b, one, zero
    <2>3. /\ rd' \in ReaderType /\ rd'.cmd = NoCmd /\ rd'.n = rd.n /\ rd'.want = one
          /\ rd'.got = b
      BY <1>2, <2>1, <2>2, Empties DEF ReaderType
    <2> QED BY <2>3 DEF b, one
  <1> QED
    BY <1>4 DEF NewActivation, ResetLink

-----------------------------------------------------------------------------
(* Carried out at most once                                                *)

\* No command was carried out twice, and none that was not sent.
Carried == \A c \in Cmd : exec[c] <= 1 /\ (exec[c] # 0 => c <= rd.n)

\* The answer to the block that the reader sent last is kept, and no chain is
\* open that it could end.
KeptAnswer ==
    /\ ~rx.open
    /\ rd.sent.t = "I" => /\ ~rd.sent.chain
                          /\ done.num = rd.sent.num /\ done.piece = rd.sent.body

\* The inductive invariant of ExecutedOnce.
OnceInv == Typed /\ Carried /\ (Waiting /\ exec[rd.cmd.c] # 0 => KeptAnswer)

-----------------------------------------------------------------------------
(* The response in its order                                               *)

\* A block is asked for again.
Asking == {Out(R("NAK", rd.num)), Out(R("EMPTY", rd.num))}

\* A reader that repeats its block makes good for the loss of any.
Quiet == IF rd.way = "repeat" THEN {Silence, Noise} ELSE {}

\* Between two commands nothing is on the air, no response is being sent and
\* no part of a chain is remembered.
Resting == air = Silence /\ tx.c = 0 /\ rx.num = 2

\* The first part of a split command was sent: the card has not taken it for
\* an APDU, or it has no buffer and refuses it.
FirstPart ==
    /\ rd.cmd.split /\ rd.sent = CommandBlock(rd.num, rd.cmd, 1) /\ rd.want = 1
    /\ air \in {Out(rd.sent), Back(R("ACK", rd.num)), Back(I(rd.num, FALSE, <<rd.cmd.c, 1>>))}
                 \cup Quiet
    /\ tx.c = 0
    /\ rx.num # 2 => rx.open
    /\ rd.way = "iso" /\ air = Out(rd.sent) => rx.num = 2
    /\ air = Back(R("ACK", rd.num)) => rx.open
    /\ air = Back(I(rd.num, FALSE, <<rd.cmd.c, 1>>)) => rx.num = 2

\* The block that completes a command was sent.
Completing == /\ rd.sent = CommandBlock(rd.num, rd.cmd, IF rd.cmd.split THEN 2 ELSE 1)
              /\ rd.want = 1

\* The card did not get that block yet.
NotHeard ==
    /\ Completing
    /\ air \in {Out(rd.sent)} \cup Quiet
    /\ tx.c = 0
    /\ rd.cmd.split => rx.open
    /\ ~rd.cmd.split => rx.num = 2 /\ ~(done.num = rd.num /\ done.piece = rd.sent.body)

\* The card answered it and kept the answer for a repetition.
Answered ==
    /\ Completing
    /\ air \in {Out(rd.sent), Back(done.resp)} \cup Quiet
                 \cup (IF rd.cmd.kind = "probe" THEN {} ELSE Asking \cup {Silence, Noise})
    /\ done.num = rd.num /\ done.piece = rd.sent.body /\ done.pcb = Toggle(rd.num)
    /\ \/ done.resp = I(rd.num, FALSE, <<rd.cmd.c, 1>>) /\ tx.c = 0
       \/ /\ done.resp = I(rd.num, TRUE, <<rd.cmd.c, 1>>)
          /\ tx.c = rd.cmd.c /\ tx.next = 2 /\ 2 <= tx.len
          /\ rd.cmd.kind = "direct"
    /\ pcb = Toggle(rd.num)
    /\ rd.cmd.kind # "probe" => lastTx = done.resp /\ ~done.keeps
    /\ rx.open => rd.cmd.kind = "fragment"
    /\ rx.num = 2

\* The reader acknowledged a block of the response and waits for the next
\* one; the card did not get the acknowledgement.
Behind ==
    /\ rd.sent = R("ACK", rd.num) /\ rd.want >= 2 /\ rd.cmd.kind = "direct"
    /\ tx.c = rd.cmd.c /\ tx.next = rd.want /\ tx.next <= tx.len
    /\ pcb = rd.num
    /\ air \in {Silence, Out(rd.sent)}
    /\ rx.num = 2

\* The card got it and sent the next block.
Ahead ==
    /\ rd.sent = R("ACK", rd.num) /\ rd.want >= 2 /\ rd.cmd.kind = "direct"
    /\ pcb = Toggle(rd.num)
    /\ \/ lastTx = I(rd.num, FALSE, <<rd.cmd.c, rd.want>>) /\ tx.c = 0
       \/ /\ lastTx = I(rd.num, TRUE, <<rd.cmd.c, rd.want>>)
          /\ tx.c = rd.cmd.c /\ tx.next = rd.want + 1 /\ tx.next <= tx.len
    /\ air = Back(lastTx)
    /\ rx.num = 2

\* The reader waits for its response: how far the command is.
Stage == FirstPart \/ NotHeard \/ Answered \/ Behind \/ Ahead

\* As long as nothing is spoilt, the reader has what it should.
InStage == ResponseInOrder /\ (IF Waiting THEN Stage ELSE Resting)

\* The inductive invariant of MendedInOrder.
LinkInv == Typed /\ (~spoilt => InStage)

\* The reader stays, nothing with data goes to the card, and the card's side
\* keeps its types.
LEMMA CardTypes ==
  ASSUME Typed, UNCHANGED rd, air' \in AirType, ~Received("I")', tx' \in TxChain,
         rx' \in RxChain, done' \in DoneType, lastTx' \in FrameType, pcb' \in {0, 1},
         exec' \in [Cmd -> Nat]
  PROVE  Typed'
  BY DEF Typed, LinkTypes, Current, OnAir, Waiting

\* Only the frame on the air changes.
LEMMA AirTypes ==
  ASSUME Typed, air' \in AirType, UNCHANGED <<rd, pcb, lastTx, tx, rx, done, exec>>,
         Received("I")' => Waiting /\ air'.f = rd.sent
  PROVE  Typed'
  BY DEF Typed, LinkTypes, Current, OnAir, Waiting

\* The reader's steps.
LEMMA ReaderTypes ==
  ASSUME Typed, SendCommand \/ Accept \/ NextPart \/ NewActivation
  PROVE  Typed'
  <1>1. CASE SendCommand
    <2>1. PICK kind \in Kind, len \in 1..MaxBlocks, split \in BOOLEAN :
            LET cmd == [c |-> rd.n + 1, kind |-> kind, len |-> len, split |-> split]
                f   == CommandBlock(rd.num, cmd, 1)
            IN /\ kind # "direct" => len = 1 /\ ~split
               /\ cmd \in CmdType /\ cmd.c = rd.n + 1 /\ cmd.split = split /\ f \in FrameType
               /\ rd'.cmd = cmd /\ rd'.n = rd.n + 1 /\ rd'.sent = f /\ rd'.want = 1
               /\ rd'.num = rd.num /\ rd'.got = <<rd.n + 1, 0>> /\ rd'.way = rd.way
               /\ rd' \in ReaderType /\ air' = Out(f) /\ rd.n + 1 \in Cmd /\ rd.n \in Nat
               /\ spoilt' = (spoilt \/ Lookalike(f))
      BY <1>1, SendCommandStep
    <2>2. /\ rd'.cmd.c = rd'.n /\ rd'.n # 0 /\ rd'.cmd.kind = kind /\ rd'.cmd.len = len
          /\ rd'.cmd.split = split
      BY <2>1 DEF Cmd
    <2>3. air' = Out(rd'.sent) /\ rd'.sent \in FrameType /\ rd' \in ReaderType
      BY <2>1
    <2>4. air' \in AirType /\ air'.f = rd'.sent
      BY <2>3, FrameFacts, Frames
    <2>5. UNCHANGED <<pcb, lastTx, tx, rx, done, exec>>
      BY <1>1 DEF SendCommand, card
    <2>6. Waiting'
      BY <2>2 DEF Waiting
    <2>8. \E i \in {1, 2} : rd'.sent = CommandBlock(rd'.num, rd'.cmd, i)
      BY <2>1
    <2>7. Current' /\ OnAir'
      BY <2>1, <2>2, <2>4, <2>6, <2>8 DEF Current, OnAir
    <2> QED BY <2>3, <2>4, <2>5, <2>7 DEF Typed, LinkTypes
  <1>2. CASE Accept
    <2>1. /\ rd' \in ReaderType /\ rd'.n = rd.n
          /\ air.f.chain => rd'.cmd = rd.cmd /\ rd'.sent = R("ACK", rd'.num) /\ air' = Out(rd'.sent)
          /\ ~air.f.chain => rd'.cmd = NoCmd /\ air' = Silence
          /\ UNCHANGED <<pcb, lastTx, tx, rx, done, arena, exec, spoilt>>
      BY <1>2, AcceptStep
    <2>2. Current'
      BY <2>1, Empties, Frames DEF Typed, Current, Waiting
    <2>3. rd'.sent \in FrameType
      BY <2>1 DEF ReaderType
    <2>4. air' \in AirType /\ ~Received("I")'
      BY <2>1, <2>3, FrameFacts, Frames DEF Received
    <2> QED BY <2>1, <2>2, <2>4 DEF Typed, LinkTypes, OnAir
  <1>3. CASE NextPart
    <2>1. /\ rd' \in ReaderType /\ rd'.cmd = rd.cmd /\ rd'.n = rd.n
          /\ air' = Out(rd'.sent) /\ rd'.sent \in FrameType /\ Waiting
          /\ rd'.sent = CommandBlock(rd'.num, rd'.cmd, 2)
          /\ UNCHANGED <<pcb, lastTx, tx, rx, done, arena, exec, spoilt>>
      BY <1>3, NextPartStep
    <2>2. Current' /\ Waiting'
      BY <2>1 DEF Typed, Current, Waiting
    <2>3. air' \in AirType /\ air'.f = rd'.sent
      BY <2>1, FrameFacts, Frames
    <2> QED BY <2>1, <2>2, <2>3 DEF Typed, LinkTypes, OnAir
  <1>4. CASE NewActivation
    <2>1. /\ rd' \in ReaderType /\ rd'.cmd = NoCmd /\ air' = Silence /\ done' = NoDone
          /\ tx' = NoTx /\ rx' = NoRx /\ exec' = exec /\ pcb' = 0 /\ lastTx' = None
      BY <1>4, NewActivationStep
    <2>2. Current' /\ OnAir'
      BY <2>1, Empties, Frames DEF Current, Waiting, OnAir, Received
    <2>3. air' \in AirType /\ rx' \in RxChain /\ done' \in DoneType /\ tx' \in TxChain
      BY <2>1, FrameFacts, NoRxChain, Empties
    <2> QED BY <2>1, <2>2, <2>3, Empties DEF Typed, LinkTypes
  <1> QED
    BY <1>1, <1>2, <1>3, <1>4

\* Frames that are sent once more, asked for or lost.
LEMMA FrameTypes ==
  ASSUME Typed, SendAgain \/ Nak \/ Lose
  PROVE  Typed'
  <1>1. /\ UNCHANGED <<rd, pcb, lastTx, tx, rx, done, exec>>
        /\ \/ air' = Out(rd.sent) /\ Waiting
           \/ air' \in {Out(R("NAK", rd.num)), Out(R("EMPTY", rd.num)), Silence, Noise}
    BY DEF SendAgain, Nak, Lose, card, ToCard, Out, Unanswered
  <1>2. rd.sent \in FrameType /\ rd.num \in {0, 1}
    BY DEF Typed, LinkTypes, ReaderType
  <1>3. air' \in AirType
    BY <1>1, <1>2, FrameFacts
  <1>4. Received("I")' => Waiting /\ air'.f = rd.sent
    BY <1>1, Frames DEF Received
  <1> QED
    BY <1>1, <1>3, <1>4, AirTypes

\* What the card hears.
LEMMA HeardType ==
  ASSUME Typed, air.to = "card"
  PROVE  /\ air.f \in FrameType
         /\ Received("I") => /\ Num \in {0, 1} /\ Piece \in BodyType /\ air.f.chain \in BOOLEAN
                             /\ Waiting /\ air.f = rd.sent /\ rd.cmd.c \in Cmd
                             /\ Whole(rd.cmd.c) \in BodyType /\ rd.cmd.len \in Nat
                             /\ rd.cmd.kind \in Kind
         /\ air.f.t \in {"ACK", "NAK", "EMPTY"} => air.f.num \in {0, 1}
  <1>1. air \in AirType /\ OnAir
    BY DEF Typed, LinkTypes
  <1>2. CASE Received("I")
    <2>1. Waiting /\ air.f = rd.sent
      BY <1>1, <1>2 DEF OnAir
    <2>2. rd.cmd.c \in Cmd /\ rd.cmd.len \in Nat /\ rd.cmd.kind \in Kind
      BY <2>1, Waits
    <2>3. Whole(rd.cmd.c) \in BodyType
      BY <2>2, PieceType
    <2> QED BY <1>1, <1>2, <2>1, <2>2, <2>3, ArrivedType DEF Num, Piece, Received
  <1>3. CASE ~Received("I")
    BY <1>1, <1>3, ArrivedType
  <1> QED
    BY <1>2, <1>3

\* The card's record of a complete block is typed.
LEMMA DoneFacts ==
  ASSUME NEW num \in {0, 1}, NEW piece \in BodyType, NEW resp \in FrameType, NEW p \in {0, 1},
         NEW k \in BOOLEAN
  PROVE  LET d == [num |-> num, piece |-> piece, resp |-> resp, pcb |-> p, keeps |-> k]
         IN /\ d \in DoneType /\ d.num = num /\ d.piece = piece /\ d.resp = resp /\ d.pcb = p
            /\ d.keeps = k
  BY DEF DoneType

\* The answer in one block.
LEMMA AnswerStep ==
  ASSUME Typed, Received("I"), AnswerApdu(rd.cmd.c)
  PROVE  LET a == I(Num, FALSE, <<rd.cmd.c, 1>>)
         IN /\ air' = Back(a) /\ lastTx' = a /\ pcb' = Toggle(Num) /\ tx' = NoTx
            /\ done'.num = Num /\ done'.piece = Piece /\ done'.resp = a
            /\ done'.pcb = Toggle(Num) /\ done'.keeps = FALSE
            /\ air' \in AirType /\ ~Received("I")' /\ tx' \in TxChain /\ done' \in DoneType
            /\ lastTx' \in FrameType /\ pcb' \in {0, 1}
  <1> DEFINE a == I(Num, FALSE, <<rd.cmd.c, 1>>)
  <1>1. Num \in {0, 1} /\ Piece \in BodyType /\ rd.cmd.c \in Cmd /\ Toggle(Num) \in {0, 1}
    BY HeardType, Toggles DEF Received
  <1>2. <<rd.cmd.c, 1>> \in BodyType
    BY <1>1 DEF BodyType, Cmd
  <1>3. a \in FrameType
    BY <1>1, <1>2, FrameFacts
  <1>4. /\ air' = Back(a) /\ lastTx' = a /\ pcb' = Toggle(Num) /\ tx' = NoTx
        /\ done' = [num |-> Num, piece |-> Piece, resp |-> a, pcb |-> Toggle(Num),
                    keeps |-> FALSE]
    BY DEF AnswerApdu, SendBlock, Remember, ToReader, Back
  <1> HIDE DEF a
  <1>5. /\ done'.num = Num /\ done'.piece = Piece /\ done'.resp = a
        /\ done'.pcb = Toggle(Num) /\ done'.keeps = FALSE /\ done' \in DoneType
    BY <1>1, <1>3, <1>4, DoneFacts
  <1>6. air' \in AirType /\ ~Received("I")' /\ tx' \in TxChain
    BY <1>3, <1>4, FrameFacts, Frames, Empties DEF Received
  <1> QED
    BY <1>1, <1>3, <1>4, <1>5, <1>6 DEF a

\* An APDU is handled: the answer, or its first block.
LEMMA HandleStep ==
  ASSUME Typed, Received("I"), rd.cmd.kind # "probe",
         HandleApdu(rd.cmd.c, rd.cmd.kind, rd.cmd.len)
  PROVE  /\ air' = Back(done'.resp) /\ lastTx' = done'.resp /\ pcb' = Toggle(Num)
         /\ done'.num = Num /\ done'.piece = Piece /\ done'.pcb = Toggle(Num) /\ ~done'.keeps
         /\ \/ done'.resp = I(Num, FALSE, <<rd.cmd.c, 1>>) /\ tx'.c = 0
            \/ /\ done'.resp = I(Num, TRUE, <<rd.cmd.c, 1>>)
               /\ tx'.c = rd.cmd.c /\ tx'.next = 2 /\ 2 <= tx'.len /\ rd.cmd.kind = "direct"
         /\ rx'.open => rd.cmd.kind = "fragment"
         /\ rx'.num \in {2, rx.num} /\ (rd.cmd.kind # "fragment" => rx'.num = 2)
         /\ rd.cmd.kind = "direct" => exec' = [exec EXCEPT ![rd.cmd.c] = @ + 1]
         /\ rd.cmd.kind # "direct" => exec' = exec
         /\ air' \in AirType /\ ~Received("I")' /\ tx' \in TxChain /\ done' \in DoneType
         /\ lastTx' \in FrameType /\ pcb' \in {0, 1} /\ rx' \in RxChain /\ exec' \in [Cmd -> Nat]
  <1>1. /\ Num \in {0, 1} /\ Piece \in BodyType /\ rd.cmd.c \in Cmd /\ Toggle(Num) \in {0, 1}
        /\ Whole(rd.cmd.c) \in BodyType /\ rd.cmd.kind \in Kind /\ rd.cmd.len \in Nat
        /\ rx \in RxChain /\ exec \in [Cmd -> Nat] /\ rd.cmd.len >= 1
    BY HeardType, Toggles, Waits DEF Received
  <1>2. CASE rd.cmd.kind = "select"
    <2>1. rx' = NoRx /\ AnswerApdu(rd.cmd.c) /\ exec' = exec
      BY <1>2 DEF HandleApdu
    <2> QED BY <1>1, <1>2, <2>1, AnswerStep, NoRxChain, Empties
  <1>3. CASE rd.cmd.kind = "fragment"
    <2>1. AnswerApdu(rd.cmd.c) /\ exec' = exec
      BY <1>3 DEF HandleApdu
    <2>2. rx' \in RxChain /\ rx'.num = rx.num
      <3>1. rx' = [rx EXCEPT !.open = TRUE, !.buf = Append(@, Whole(rd.cmd.c))]
        BY <1>3 DEF HandleApdu
      <3>2. rx.buf \in Seq(BodyType)
        BY <1>1 DEF RxChain
      <3>3. Append(rx.buf, Whole(rd.cmd.c)) \in Seq(BodyType)
        BY <1>1, <3>2
      <3> QED BY <1>1, <3>1, <3>2, <3>3 DEF RxChain
    <2> QED BY <1>1, <1>3, <2>1, <2>2, AnswerStep, Empties
  <1>4. CASE rd.cmd.kind = "direct"
    <2>1. exec' = [exec EXCEPT ![rd.cmd.c] = @ + 1] /\ rx' = [NoRx EXCEPT !.buf = <<<<Old, 0>>>>]
      BY <1>4 DEF HandleApdu
    <2>2. ~rx'.open /\ rx' \in RxChain /\ rx'.num = 2
      <3>1. <<Old, 0>> \in BodyType
        BY DEF Old, BodyType
      <3>2. <<<<Old, 0>>>> \in Seq(BodyType)
        BY <3>1
      <3> QED BY <2>1, <3>2, NoRxChain DEF NoRx, RxChain
    <2>3. exec' \in [Cmd -> Nat]
      BY <1>1, <2>1
    <2>4. CASE rd.cmd.len = 1
      <3>1. AnswerApdu(rd.cmd.c)
        BY <1>4, <2>4 DEF HandleApdu
      <3> QED BY <1>1, <1>4, <2>1, <2>2, <2>3, <3>1, AnswerStep, Empties
    <2>5. CASE rd.cmd.len # 1
      <3> DEFINE a == I(Num, TRUE, <<rd.cmd.c, 1>>)
      <3>1. /\ air' = Back(a) /\ lastTx' = a /\ pcb' = Toggle(Num)
            /\ tx' = [c |-> rd.cmd.c, next |-> 2, len |-> rd.cmd.len, end |-> FALSE]
            /\ done' = [num |-> Num, piece |-> Piece, resp |-> a,
                        pcb |-> Toggle(Num), keeps |-> FALSE]
        BY <1>4, <2>5 DEF HandleApdu, SendBlock, Remember, ToReader, Back
      <3>2. <<rd.cmd.c, 1>> \in BodyType
        BY <1>1 DEF BodyType, Cmd
      <3>3. a \in FrameType
        BY <1>1, <3>2, FrameFacts
      <3> HIDE DEF a
      <3>4. /\ done'.num = Num /\ done'.piece = Piece /\ done'.resp = a
            /\ done'.pcb = Toggle(Num) /\ done'.keeps = FALSE /\ done' \in DoneType
        BY <1>1, <3>1, <3>3, DoneFacts
      <3>5. /\ tx' \in TxChain /\ tx'.c = rd.cmd.c /\ tx'.next = 2 /\ 2 <= tx'.len
        BY <1>1, <2>5, <3>1 DEF TxChain, Cmd
      <3>6. air' \in AirType /\ ~Received("I")'
        BY <3>1, <3>3, FrameFacts, Frames DEF Received
      <3> QED BY <1>1, <1>4, <2>1, <2>2, <2>3, <3>1, <3>3, <3>4, <3>5, <3>6 DEF a
    <2> QED BY <2>4, <2>5
  <1> QED
    BY <1>1, <1>2, <1>3, <1>4 DEF Kind

\* R(NAK) and the empty block.
LEMMA ReplayStep ==
  ASSUME Typed, OnNak \/ OnEmpty
  PROVE  /\ air.to = "card" /\ air.f.t \in {"NAK", "EMPTY"}
         /\ lastTx # None => air' = Back(lastTx)
         /\ UNCHANGED <<rd, pcb, lastTx, tx, rx, done, arena, exec, spoilt>>
         /\ Typed'
  <1>1. /\ air.to = "card" /\ air.f.t \in {"NAK", "EMPTY"}
        /\ UNCHANGED <<rd, pcb, lastTx, tx, rx, done, arena, exec, spoilt>>
        /\ IF lastTx # None THEN air' = Back(lastTx)
           ELSE air' \in {Silence, Back(R("ACK", air.f.num))}
    BY DEF OnNak, OnEmpty, Received, Replay, NoReply, SendAck, ToReader, Back
  <1>2. air.f.num \in {0, 1} /\ lastTx \in FrameType
    BY <1>1, HeardType DEF Typed, LinkTypes
  <1>3. air' \in AirType /\ ~Received("I")'
    BY <1>1, <1>2, FrameFacts, Frames DEF Received
  <1> QED
    BY <1>1, <1>3, AirTypes

\* R(ACK): the next block of the chain, if there is one.
LEMMA AckStep ==
  ASSUME Typed, OnAck
  PROVE  /\ air.to = "card" /\ air.f.t = "ACK" /\ UNCHANGED <<rd, rx, done, arena, exec, spoilt>>
         /\ tx.c # 0 => /\ air' = Back(lastTx') /\ pcb' = Toggle(pcb)
                        /\ lastTx' = I(pcb, tx.next < tx.len, <<tx.c, tx.next>>)
                        /\ tx.next < tx.len => /\ tx'.c = tx.c /\ tx'.next = tx.next + 1
                                               /\ tx'.len = tx.len
                        /\ ~(tx.next < tx.len) => tx'.c = 0
         /\ Typed'
  <1>1. /\ air.to = "card" /\ air.f.t = "ACK" /\ UNCHANGED <<rd, rx, done, arena, exec, spoilt>>
        /\ IF tx.c # 0 THEN NextBlock(pcb) ELSE NoReply /\ tx' = NoTx
    BY DEF OnAck, Received
  <1>2. /\ tx \in TxChain /\ tx.c \in Nat /\ tx.next \in Nat /\ tx.len \in Nat /\ pcb \in {0, 1}
        /\ rx \in RxChain /\ done \in DoneType /\ exec \in [Cmd -> Nat] /\ lastTx \in FrameType
    BY DEF Typed, LinkTypes, TxChain
  <1>3. CASE tx.c # 0
    <2>1. /\ air' = Back(lastTx') /\ pcb' = Toggle(pcb)
          /\ lastTx' = I(pcb, tx.next < tx.len, <<tx.c, tx.next>>)
          /\ tx' = IF tx.next < tx.len THEN [tx EXCEPT !.next = tx.next + 1]
                   ELSE [NoTx EXCEPT !.end = TRUE]
      BY <1>1, <1>3 DEF NextBlock, SendBlock, ToReader, Back
    <2>2. <<tx.c, tx.next>> \in BodyType /\ (tx.next < tx.len) \in BOOLEAN
      BY <1>2 DEF BodyType
    <2>3. lastTx' \in FrameType
      BY <1>2, <2>1, <2>2, FrameFacts
    <2>4. air' \in AirType /\ ~Received("I")' /\ pcb' \in {0, 1}
      BY <1>2, <2>1, <2>3, FrameFacts, Frames, Toggles DEF Received
    <2>5. CASE tx.next < tx.len
      <3>1. tx' \in TxChain /\ tx'.c = tx.c /\ tx'.next = tx.next + 1 /\ tx'.len = tx.len
        BY <1>2, <2>1, <2>5 DEF TxChain
      <3>2. Typed'
        BY <1>1, <1>2, <2>3, <2>4, <3>1, CardTypes
      <3> QED BY <1>1, <2>1, <2>5, <3>1, <3>2
    <2>6. CASE ~(tx.next < tx.len)
      <3>1. tx' \in TxChain /\ tx'.c = 0
        BY <2>1, <2>6 DEF TxChain, NoTx
      <3>2. Typed'
        BY <1>1, <1>2, <2>3, <2>4, <3>1, CardTypes
      <3> QED BY <1>1, <2>1, <2>6, <3>1, <3>2
    <2> QED BY <2>5, <2>6
  <1>4. CASE ~(tx.c # 0)
    <2>1. air' = Silence /\ UNCHANGED <<pcb, lastTx>> /\ tx' = NoTx
      BY <1>1, <1>4 DEF NoReply
    <2>2. air' \in AirType /\ ~Received("I")' /\ tx' \in TxChain
      BY <2>1, FrameFacts, Frames, Empties DEF Received
    <2>3. Typed'
      BY <1>1, <1>2, <2>1, <2>2, CardTypes
    <2> QED BY <1>1, <1>4, <2>3
  <1> QED
    BY <1>3, <1>4

\* A repeated block is answered from the cache.
LEMMA DuplicateStep ==
  ASSUME Typed, OnDuplicate
  PROVE  /\ Received("I") /\ Waiting /\ air.f = rd.sent /\ ~air.f.chain /\ ~rx.open
         /\ done.num = Num /\ done.piece = Piece
         /\ air' = Back(done.resp) /\ pcb' = done.pcb
         /\ lastTx' = IF done.keeps THEN lastTx ELSE done.resp
         /\ tx'.c = tx.c /\ tx'.next = tx.next /\ tx'.len = tx.len
         /\ UNCHANGED <<rd, rx, done, arena, exec, spoilt>>
         /\ Typed'
  <1>1. /\ Received("I") /\ ~air.f.chain /\ ~rx.open
        /\ done.num = Num /\ done.piece = Piece
        /\ air' = Back(done.resp) /\ pcb' = done.pcb
        /\ lastTx' = IF done.keeps THEN lastTx ELSE done.resp
        /\ tx' = [tx EXCEPT !.end = FALSE]
        /\ UNCHANGED <<rd, rx, done, arena, exec, spoilt>>
    BY DEF OnDuplicate, Duplicate, ToReader, Back
  <1>2. Waiting /\ air.f = rd.sent
    BY <1>1, HeardType DEF Received
  <1>3. /\ done \in DoneType /\ done.resp \in FrameType /\ done.pcb \in {0, 1} /\ tx \in TxChain
        /\ lastTx \in FrameType /\ rx \in RxChain /\ exec \in [Cmd -> Nat]
    BY DEF Typed, LinkTypes, DoneType
  <1>4. tx' \in TxChain /\ tx'.c = tx.c /\ tx'.next = tx.next /\ tx'.len = tx.len
    BY <1>1, <1>3 DEF TxChain
  <1>5. air' \in AirType /\ ~Received("I")' /\ lastTx' \in FrameType
    BY <1>1, <1>3, FrameFacts, Frames DEF Received
  <1>6. Typed'
    BY <1>1, <1>3, <1>4, <1>5, CardTypes
  <1> QED
    BY <1>1, <1>2, <1>4, <1>6

\* A probe is answered, and the block that was sent before it kept.
LEMMA ProbeStep ==
  ASSUME Typed, OnProbe
  PROVE  /\ Received("I") /\ Waiting /\ air.f = rd.sent /\ ~air.f.chain /\ ~rx.open
         /\ ~(done.num = Num /\ done.piece = Piece) /\ rd.cmd.kind = "probe"
         /\ air' = Back(done'.resp) /\ pcb' = Toggle(Num)
         /\ done'.resp = I(Num, FALSE, <<rd.cmd.c, 1>>) /\ done'.num = Num /\ done'.piece = Piece
         /\ done'.pcb = Toggle(Num)
         /\ tx'.c = tx.c /\ tx'.next = tx.next /\ tx'.len = tx.len
         /\ UNCHANGED <<rd, rx, arena, exec, spoilt>>
         /\ Typed'
  <1> DEFINE a == I(Num, FALSE, <<rd.cmd.c, 1>>)
  <1>1. /\ Received("I") /\ ~air.f.chain /\ ~rx.open
        /\ ~(done.num = Num /\ done.piece = Piece) /\ rd.cmd.kind = "probe"
        /\ air' = Back(a) /\ pcb' = Toggle(Num) /\ lastTx' = IF lastTx = None THEN a ELSE lastTx
        /\ done' = [num |-> Num, piece |-> Piece, resp |-> a, pcb |-> Toggle(Num), keeps |-> TRUE]
        /\ tx' = [tx EXCEPT !.end = FALSE]
        /\ UNCHANGED <<rd, rx, arena, exec, spoilt>>
    BY DEF OnProbe, Duplicate, SendPreserving, Remember, ToReader, Back
  <1>2. /\ Waiting /\ air.f = rd.sent /\ Num \in {0, 1} /\ Piece \in BodyType /\ rd.cmd.c \in Cmd
        /\ Toggle(Num) \in {0, 1}
    BY <1>1, HeardType, Toggles DEF Received
  <1>3. tx \in TxChain /\ lastTx \in FrameType /\ rx \in RxChain /\ exec \in [Cmd -> Nat]
    BY DEF Typed, LinkTypes
  <1>4. tx' \in TxChain /\ tx'.c = tx.c /\ tx'.next = tx.next /\ tx'.len = tx.len
    BY <1>1, <1>3 DEF TxChain
  <1>5. <<rd.cmd.c, 1>> \in BodyType
    BY <1>2 DEF BodyType, Cmd
  <1>6. a \in FrameType
    BY <1>2, <1>5, FrameFacts
  <1> HIDE DEF a
  <1>7. /\ done'.num = Num /\ done'.piece = Piece /\ done'.resp = a /\ done'.pcb = Toggle(Num)
        /\ done' \in DoneType
    BY <1>1, <1>2, <1>6, DoneFacts
  <1>8. air' \in AirType /\ ~Received("I")' /\ lastTx' \in FrameType
    BY <1>1, <1>3, <1>6, FrameFacts, Frames DEF Received
  <1>9. Typed'
    BY <1>1, <1>2, <1>3, <1>4, <1>7, <1>8, CardTypes
  <1> QED
    BY <1>1, <1>2, <1>4, <1>7, <1>9 DEF a

\* A command in one block is handled.
LEMMA CommandStep ==
  ASSUME Typed, OnCommand
  PROVE  /\ Received("I") /\ Waiting /\ air.f = rd.sent /\ ~air.f.chain /\ ~rx.open
         /\ ~(done.num = Num /\ done.piece = Piece) /\ rd.cmd.kind # "probe"
         /\ HandleApdu(rd.cmd.c, rd.cmd.kind, rd.cmd.len)
         /\ UNCHANGED <<rd, spoilt>>
         /\ Typed'
  <1>1. /\ Received("I") /\ ~air.f.chain /\ ~rx.open
        /\ ~(done.num = Num /\ done.piece = Piece) /\ rd.cmd.kind # "probe"
        /\ HandleApdu(rd.cmd.c, rd.cmd.kind, rd.cmd.len)
        /\ UNCHANGED <<rd, spoilt>>
    BY DEF OnCommand, Duplicate
  <1>2. Waiting /\ air.f = rd.sent
    BY <1>1, HeardType DEF Received
  <1>3. Typed'
    BY <1>1, HandleStep, CardTypes
  <1> QED
    BY <1>1, <1>2, <1>3

\* The last block of a chain: what was assembled is the command, or refused.
LEMMA LastStep ==
  ASSUME Typed, OnLastBlock
  PROVE  /\ Received("I") /\ Waiting /\ air.f = rd.sent /\ ~air.f.chain /\ rx.open
         /\ UNCHANGED <<rd, spoilt>>
         /\ \/ /\ rd.cmd.kind # "probe" /\ Piece = Part(rd.cmd.c, 2)
               /\ HandleApdu(rd.cmd.c, rd.cmd.kind, rd.cmd.len)
            \/ rx' = NoRx /\ AnswerApdu(rd.cmd.c) /\ exec' = exec
  <1>1. Received("I") /\ ~air.f.chain /\ rx.open /\ UNCHANGED <<rd, spoilt>>
    BY DEF OnLastBlock
  <1>2. Waiting /\ air.f = rd.sent /\ Piece \in BodyType
    BY <1>1, HeardType DEF Received
  <1> DEFINE apdu == Append(rx.buf, Piece)
             sent == <<Part(rd.cmd.c, 1), Part(rd.cmd.c, 2)>>
  <1>4. CASE apdu # sent
    <2>1. rx' = NoRx /\ AnswerApdu(rd.cmd.c) /\ exec' = exec
      BY <1>4 DEF OnLastBlock
    <2> QED BY <1>1, <1>2, <2>1
  <1>5. CASE apdu = sent
    <2>0. Piece = Part(rd.cmd.c, 2)
      <3>1. rx.buf \in Seq(BodyType)
        BY DEF Typed, LinkTypes, RxChain
      <3>2. Len(apdu) = Len(rx.buf) + 1 /\ apdu[Len(rx.buf) + 1] = Piece /\ Len(rx.buf) \in Nat
        BY <3>1
      <3>3. Len(sent) = 2 /\ sent[2] = Part(rd.cmd.c, 2)
        OBVIOUS
      <3> QED BY <1>5, <3>2, <3>3
    <2>1. HandleApdu(rd.cmd.c, rd.cmd.kind, rd.cmd.len)
      BY <1>5 DEF OnLastBlock
    <2>2. PICK i \in {1, 2} : rd.sent = CommandBlock(rd.num, rd.cmd, i)
      BY <1>1, <1>2 DEF Typed, Current, Received
    <2>3. rd.cmd.c \in Cmd /\ rd.cmd.split \in BOOLEAN /\ (rd.cmd.split => rd.cmd.kind = "direct")
      BY <1>2, Waits
    <2>4. ~rd.cmd.split => Piece = Whole(rd.cmd.c)
      BY <1>2, <2>2, BlockFacts DEF Piece
    <2>5. rd.cmd.kind # "probe"
      BY <2>0, <2>3, <2>4, WholeNotPart
    <2> QED BY <1>1, <1>2, <2>0, <2>1, <2>5
  <1> QED
    BY <1>4, <1>5

\* The step keeps the types.
LEMMA LastTypes == ASSUME Typed, OnLastBlock PROVE Typed'
  <1>1. exec \in [Cmd -> Nat] /\ Received("I") /\ UNCHANGED rd
    BY LastStep DEF Typed, LinkTypes
  <1>2. CASE rd.cmd.kind # "probe" /\ HandleApdu(rd.cmd.c, rd.cmd.kind, rd.cmd.len)
    BY <1>1, <1>2, HandleStep, CardTypes
  <1>3. CASE rx' = NoRx /\ AnswerApdu(rd.cmd.c) /\ exec' = exec
    BY <1>1, <1>3, AnswerStep, NoRxChain, CardTypes
  <1> QED
    BY <1>2, <1>3, LastStep

\* A block of a chain: the card acknowledges it, or has no buffer for it.
LEMMA ChainStep ==
  ASSUME Typed, OnChainBlock
  PROVE  /\ Received("I") /\ Waiting /\ air.f = rd.sent /\ air.f.chain
         /\ UNCHANGED <<rd, exec, spoilt>>
         /\ \/ /\ air' = Back(I(Num, FALSE, <<rd.cmd.c, 1>>))
               /\ rx' = NoRx /\ done' = NoDone /\ tx' = NoTx
            \/ /\ air' = Silence /\ rx.num = Num
               /\ rx' = NoRx /\ done' = NoDone /\ tx' = NoTx
            \/ /\ air' = Back(R("ACK", Num)) /\ done' = done /\ tx'.c = tx.c
               /\ \/ rx.num = Num /\ rx'.open = rx.open /\ rx'.num = rx.num
                  \/ rx'.open /\ rx'.num = Num
         /\ Typed'
  <1>1. Received("I") /\ air.f.chain /\ UNCHANGED <<rd, exec, spoilt>>
    BY DEF OnChainBlock
  <1>2. Waiting /\ air.f = rd.sent /\ Piece \in BodyType /\ Num \in {0, 1} /\ rd.cmd.c \in Cmd
    BY <1>1, HeardType DEF Received
  <1>3. /\ tx \in TxChain /\ rx \in RxChain /\ lastTx \in FrameType /\ exec \in [Cmd -> Nat]
        /\ done \in DoneType /\ Toggle(Num) \in {0, 1}
    BY <1>2, Toggles DEF Typed, LinkTypes
  <1>4. \/ ~arena /\ SendBlock(Num, FALSE, <<rd.cmd.c, 1>>) /\ ResetLink
        \/ Repeated /\ air' = Silence /\ ResetLink /\ lastTx' = None /\ pcb' = Num
        \/ Repeated /\ rx' = [rx EXCEPT !.dups = @ + 1] /\ ChainGoesOn
        \/ /\ rx' = [open |-> TRUE, buf |-> Append(rx.buf, Piece), num |-> Num,
                     piece |-> Piece, dups |-> 0]
           /\ ChainGoesOn
    BY DEF OnChainBlock
  <1>5. CASE ~arena /\ SendBlock(Num, FALSE, <<rd.cmd.c, 1>>) /\ ResetLink
    <2> DEFINE a == I(Num, FALSE, <<rd.cmd.c, 1>>)
    <2>1. /\ air' = Back(a) /\ lastTx' = a /\ pcb' = Toggle(Num)
          /\ rx' = NoRx /\ done' = NoDone /\ tx' = NoTx
      BY <1>5 DEF SendBlock, ToReader, Back, ResetLink
    <2>2. <<rd.cmd.c, 1>> \in BodyType
      BY <1>2 DEF BodyType, Cmd
    <2>3. a \in FrameType
      BY <1>2, <2>2, FrameFacts
    <2>4. Typed'
      <3> HIDE DEF a
      <3>1. air' \in AirType /\ ~Received("I")'
        BY <2>1, <2>3, FrameFacts, Frames DEF Received
      <3> QED BY <1>1, <1>3, <2>1, <2>3, <3>1, NoRxChain, Empties, CardTypes
    <2> QED BY <1>1, <1>2, <2>1, <2>4
  <1>6. CASE Repeated /\ air' = Silence /\ ResetLink /\ lastTx' = None /\ pcb' = Num
    <2>1. rx' = NoRx /\ done' = NoDone /\ tx' = NoTx /\ rx.num = Num
      BY <1>6 DEF ResetLink, Repeated
    <2>2. air' \in AirType /\ ~Received("I")'
      BY <1>6, FrameFacts, Frames DEF Received
    <2>3. Typed'
      BY <1>1, <1>2, <1>3, <1>6, <2>1, <2>2, NoRxChain, Empties, CardTypes
    <2> QED BY <1>1, <1>2, <1>6, <2>1, <2>3
  <1>7. ASSUME ChainGoesOn, rx' \in RxChain
        PROVE  /\ air' = Back(R("ACK", Num)) /\ done' = done /\ tx'.c = tx.c /\ Typed'
    <2>1. /\ air' = Back(R("ACK", Num)) /\ done' = done /\ tx' = [tx EXCEPT !.end = FALSE]
          /\ lastTx' = lastTx /\ pcb' = Num
      BY <1>7 DEF ChainGoesOn, ToReader, Back
    <2>2. tx' \in TxChain /\ tx'.c = tx.c
      BY <1>3, <2>1 DEF TxChain
    <2>3. air' \in AirType /\ ~Received("I")'
      BY <1>2, <2>1, FrameFacts, Frames DEF Received
    <2>4. Typed'
      BY <1>1, <1>2, <1>3, <1>7, <2>1, <2>2, <2>3, CardTypes
    <2> QED BY <2>1, <2>2, <2>4
  <1>8. CASE Repeated /\ rx' = [rx EXCEPT !.dups = @ + 1] /\ ChainGoesOn
    <2>1. rx' \in RxChain /\ rx'.open = rx.open /\ rx'.num = rx.num
      <3> DEFINE k == rx.dups + 1
      <3>1. rx' = [rx EXCEPT !.dups = k] /\ k \in Nat
        BY <1>3, <1>8 DEF RxChain
      <3> HIDE DEF k
      <3> QED BY <1>3, <3>1 DEF RxChain
    <2>2. rx.num = Num
      BY <1>8 DEF Repeated
    <2> QED BY <1>1, <1>2, <1>7, <1>8, <2>1, <2>2
  <1>9. CASE /\ rx' = [open |-> TRUE, buf |-> Append(rx.buf, Piece), num |-> Num,
                       piece |-> Piece, dups |-> 0]
             /\ ChainGoesOn
    <2> DEFINE b == Append(rx.buf, Piece)
    <2>1. b \in Seq(BodyType)
      <3>1. rx.buf \in Seq(BodyType)
        BY <1>3 DEF RxChain
      <3> QED BY <1>2, <3>1
    <2>2. rx' = [open |-> TRUE, buf |-> b, num |-> Num, piece |-> Piece, dups |-> 0]
      BY <1>9
    <2>3. rx' \in RxChain /\ rx'.open /\ rx'.num = Num
      <3>1. Num \in 0..2 /\ 0 \in Nat /\ Piece \in BodyType \cup {<< >>}
        BY <1>2
      <3> HIDE DEF b
      <3> QED BY <2>1, <2>2, <3>1 DEF RxChain
    <2> QED BY <1>1, <1>2, <1>7, <1>9, <2>3
  <1> QED
    BY <1>4, <1>5, <1>6, <1>8, <1>9

\* The types are kept by every step.
LEMMA TypesStep == ASSUME Typed, [LinkNext]_linkVars PROVE Typed'
  <1>1. CASE SendCommand \/ Accept \/ NextPart \/ NewActivation
    BY <1>1, ReaderTypes
  <1>2. CASE SendAgain \/ Nak \/ Lose
    BY <1>2, FrameTypes
  <1>3. CASE Card
    BY <1>3, ReplayStep, AckStep, DuplicateStep, ProbeStep, CommandStep, ChainStep, LastTypes
       DEF Card
  <1>4. CASE UNCHANGED linkVars
    <2>1. UNCHANGED <<air, rd, pcb, lastTx, tx, rx, done, exec>>
      BY <1>4 DEF linkVars, card
    <2> QED BY <2>1 DEF Typed, LinkTypes, Current, OnAir, Waiting, Received
  <1> QED
    BY <1>1, <1>2, <1>3, <1>4 DEF LinkNext

\* The link before the first command is typed.
LEMMA InitTyped == ASSUME LinkInit PROVE Typed /\ ~Waiting /\ rd.n = 0
  <1>1. PICK way \in Ways :
           rd = [num |-> 0, cmd |-> NoCmd, n |-> 0, sent |-> None, want |-> 1, got |-> <<0, 0>>,
                 way |-> way]
    BY DEF LinkInit
  <1>2. /\ air = Silence /\ tx = NoTx /\ rx = NoRx /\ done = NoDone /\ exec = [c \in Cmd |-> 0]
        /\ pcb = 0 /\ lastTx = None
    BY DEF LinkInit
  <1>3. 0 \in 0..MaxCmds /\ way \in {"iso", "repeat"} /\ <<0, 0>> \in BodyType
    BY LinkAssumption DEF BodyType
  <1>4. rd \in ReaderType /\ rd.cmd = NoCmd /\ rd.n = 0
    <2> DEFINE b == <<0, 0>>
               one == 1
               zero == 0
    <2>1. one \in Nat \ {0} /\ zero \in {0, 1} /\ b \in BodyType /\ zero \in 0..MaxCmds
      BY <1>3
    <2>2. rd = [num |-> zero, cmd |-> NoCmd, n |-> zero, sent |-> None, want |-> one, got |-> b,
                way |-> way]
      BY <1>1
    <2> HIDE DEF b, one, zero
    <2>3. rd \in ReaderType /\ rd.cmd = NoCmd /\ rd.n = zero
      BY <1>3, <2>1, <2>2, Empties DEF ReaderType
    <2> QED BY <2>3 DEF zero
  <1>5. ~Waiting /\ Current /\ OnAir
    BY <1>2, <1>4, Empties, Frames DEF Waiting, Current, OnAir, Received
  <1>6. exec \in [Cmd -> Nat]
    BY <1>2
  <1>7. /\ air \in AirType /\ tx \in TxChain /\ rx \in RxChain /\ done \in DoneType
        /\ lastTx \in FrameType
    BY <1>2, FrameFacts, Empties, NoRxChain
  <1> QED
    BY <1>2, <1>4, <1>5, <1>6, <1>7 DEF Typed, LinkTypes

\* Nothing but the reader's record of a block, of its answer and of the open
\* chain matters to what is kept.
LEMMA OnceSame ==
  ASSUME OnceInv, Typed', UNCHANGED <<rd, exec, done, rx>>
  PROVE  OnceInv'
  BY DEF OnceInv, Carried, KeptAnswer, Waiting

\* Before the card handles a block, the command was not carried out.
LEMMA NotYet ==
  ASSUME OnceInv, Received("I"),
         \/ air.f.chain
         \/ rx.open
         \/ ~(done.num = Num /\ done.piece = Piece)
  PROVE  Waiting /\ exec[rd.cmd.c] = 0
  <1>1. Waiting /\ air.f = rd.sent
    BY DEF OnceInv, Typed, OnAir
  <1>2. ~KeptAnswer
    BY <1>1 DEF KeptAnswer, Received, Num, Piece
  <1> QED
    BY <1>1, <1>2 DEF OnceInv

\* A command that was not carried out before is now, and its answer is kept.
LEMMA HandledOnce ==
  ASSUME OnceInv, Typed', Received("I"), Waiting, exec[rd.cmd.c] = 0, UNCHANGED rd,
         air.f = rd.sent, ~air.f.chain, rd.cmd.kind # "probe",
         HandleApdu(rd.cmd.c, rd.cmd.kind, rd.cmd.len)
  PROVE  OnceInv'
  <1>1. /\ done'.num = Num /\ done'.piece = Piece /\ (rx'.open => rd.cmd.kind = "fragment")
        /\ rd.cmd.kind = "direct" => exec' = [exec EXCEPT ![rd.cmd.c] = @ + 1]
        /\ rd.cmd.kind # "direct" => exec' = exec
    BY HandleStep DEF OnceInv
  <1>0. Typed /\ Carried
    BY DEF OnceInv
  <1>5. rd.cmd.c \in Cmd /\ rd.cmd.c = rd.n /\ exec \in [Cmd -> Nat]
    BY <1>0, Waits
  <1>2. /\ rd.cmd.c \in Cmd /\ rd.cmd.c = rd.n /\ exec \in [Cmd -> Nat] /\ rd.n \in Nat /\ Carried
    BY <1>0, <1>5 DEF Cmd
  <1>3. CASE rd.cmd.kind = "direct"
    <2>1. Carried'
      BY <1>1, <1>2, <1>3 DEF Carried
    <2>2. KeptAnswer'
      BY <1>1, <1>3 DEF KeptAnswer, Num, Piece
    <2> QED BY <2>1, <2>2 DEF OnceInv
  <1>4. CASE rd.cmd.kind # "direct"
    BY <1>1, <1>2, <1>4 DEF OnceInv, Carried
  <1> QED
    BY <1>3, <1>4

\* The reader goes on to the next command, block or part.
LEMMA ReaderOnce ==
  ASSUME OnceInv, Typed', SendCommand \/ Accept \/ NextPart \/ NewActivation
  PROVE  OnceInv'
  <1>0. Typed /\ Carried /\ exec \in [Cmd -> Nat]
    BY DEF OnceInv, Typed, LinkTypes
  <1>1. CASE SendCommand
    <2>1. /\ rd'.cmd.c = rd.n + 1 /\ rd'.n = rd.n + 1 /\ rd.n + 1 \in Cmd /\ rd.n \in Nat
      BY <1>0, <1>1, SendCommandStep
    <2>2. UNCHANGED exec
      BY <1>1 DEF SendCommand
    <2>3. exec'[rd'.cmd.c] = 0 /\ Carried'
      BY <1>0, <2>1, <2>2 DEF Carried, Cmd
    <2> QED BY <2>3 DEF OnceInv
  <1>2. CASE Accept
    <2>1. /\ rd'.n = rd.n /\ UNCHANGED <<pcb, lastTx, tx, rx, done, arena, exec, spoilt>>
          /\ air.f.chain => rd'.cmd = rd.cmd /\ rd'.sent = R("ACK", rd'.num)
          /\ ~air.f.chain => rd'.cmd = NoCmd
      BY <1>0, <1>2, AcceptStep
    <2>2. Carried'
      BY <1>0, <2>1 DEF Carried
    <2>3. CASE air.f.chain
      BY <2>1, <2>2, <2>3, Frames DEF OnceInv, KeptAnswer, Waiting
    <2>4. CASE ~air.f.chain
      BY <2>1, <2>2, <2>4, Empties DEF OnceInv, Waiting
    <2> QED BY <2>3, <2>4
  <1>3. CASE NextPart
    <2>1. /\ rd'.n = rd.n /\ UNCHANGED <<pcb, lastTx, tx, rx, done, arena, exec, spoilt>>
          /\ rd'.cmd = rd.cmd /\ Waiting /\ Acknowledged
      BY <1>0, <1>3, NextPartStep
    <2>2. exec[rd.cmd.c] = 0
      BY <2>1 DEF OnceInv, KeptAnswer, Acknowledged
    <2> QED BY <1>0, <2>1, <2>2 DEF OnceInv, Carried
  <1>4. CASE NewActivation
    <2>1. rd'.cmd = NoCmd /\ rd'.n = rd.n /\ exec' = exec
      BY <1>0, <1>4, NewActivationStep
    <2> QED BY <1>0, <2>1, Empties DEF OnceInv, Carried, Waiting
  <1> QED
    BY <1>1, <1>2, <1>3, <1>4

\* The card answers.
LEMMA CardOnce == ASSUME OnceInv, Typed', Card PROVE OnceInv'
  <1>0. Typed /\ exec \in [Cmd -> Nat]
    BY DEF OnceInv, Typed, LinkTypes
  <1>1. CASE OnNak \/ OnEmpty
    BY <1>0, <1>1, ReplayStep, OnceSame
  <1>2. CASE OnAck
    BY <1>0, <1>2, AckStep, OnceSame
  <1>3. CASE OnDuplicate
    BY <1>0, <1>3, DuplicateStep, OnceSame
  <1>4. CASE OnProbe
    <2>1. /\ Received("I") /\ ~(done.num = Num /\ done.piece = Piece) /\ UNCHANGED <<rd, exec>>
      BY <1>0, <1>4, ProbeStep
    <2>2. Waiting /\ exec[rd.cmd.c] = 0
      BY <2>1, NotYet
    <2> QED BY <2>1, <2>2 DEF OnceInv, Carried
  <1>5. CASE OnCommand
    <2>1. /\ Received("I") /\ Waiting /\ air.f = rd.sent /\ ~air.f.chain
          /\ ~(done.num = Num /\ done.piece = Piece) /\ rd.cmd.kind # "probe"
          /\ HandleApdu(rd.cmd.c, rd.cmd.kind, rd.cmd.len) /\ UNCHANGED <<rd, spoilt>>
      BY <1>0, <1>5, CommandStep
    <2> QED BY <2>1, NotYet, HandledOnce
  <1>6. CASE OnChainBlock
    <2>1. Received("I") /\ air.f.chain /\ UNCHANGED <<rd, exec, spoilt>>
      BY <1>0, <1>6, ChainStep
    <2>2. Waiting /\ exec[rd.cmd.c] = 0
      BY <2>1, NotYet
    <2> QED BY <2>1, <2>2 DEF OnceInv, Carried
  <1>7. CASE OnLastBlock
    <2>1. /\ Received("I") /\ Waiting /\ air.f = rd.sent /\ ~air.f.chain /\ rx.open
          /\ UNCHANGED <<rd, spoilt>>
          /\ \/ rd.cmd.kind # "probe" /\ HandleApdu(rd.cmd.c, rd.cmd.kind, rd.cmd.len)
             \/ exec' = exec
      BY <1>0, <1>7, LastStep
    <2>2. exec[rd.cmd.c] = 0
      BY <2>1, NotYet
    <2>3. CASE rd.cmd.kind # "probe" /\ HandleApdu(rd.cmd.c, rd.cmd.kind, rd.cmd.len)
      BY <2>1, <2>2, <2>3, HandledOnce
    <2>4. CASE exec' = exec
      BY <2>1, <2>2, <2>4 DEF OnceInv, Carried
    <2> QED BY <2>1, <2>3, <2>4
  <1> QED
    BY <1>1, <1>2, <1>3, <1>4, <1>5, <1>6, <1>7 DEF Card

\* Every step keeps the invariant.
LEMMA OnceStep == OnceInv /\ [LinkNext]_linkVars => OnceInv'
  <1> SUFFICES ASSUME OnceInv, [LinkNext]_linkVars PROVE OnceInv'
    OBVIOUS
  <1>1. Typed'
    BY TypesStep DEF OnceInv
  <1>2. CASE SendCommand \/ Accept \/ NextPart \/ NewActivation
    BY <1>1, <1>2, ReaderOnce
  <1>3. CASE SendAgain \/ Nak \/ Lose \/ UNCHANGED linkVars
    <2>1. UNCHANGED <<rd, exec, done, rx>>
      BY <1>3 DEF SendAgain, Nak, Lose, linkVars, card
    <2> QED BY <1>1, <2>1, OnceSame
  <1>4. CASE Card
    BY <1>1, <1>4, CardOnce
  <1> QED
    BY <1>2, <1>3, <1>4 DEF LinkNext

\* A command is carried out at most once, whatever frames are lost, however
\* the reader asks again, and even if two commands are the same byte for byte.
THEOREM ExecutedOnceHolds == LinkSpec => []ExecutedOnce
  <1>1. LinkInit => OnceInv
    <2> SUFFICES ASSUME LinkInit PROVE OnceInv
      OBVIOUS
    <2>1. exec = [c \in Cmd |-> 0]
      BY DEF LinkInit
    <2> QED BY <2>1, InitTyped DEF OnceInv, Carried
  <1>2. OnceInv => ExecutedOnce
    BY DEF OnceInv, Carried, ExecutedOnce
  <1> QED
    BY <1>1, <1>2, OnceStep, PTL DEF LinkSpec

\* Behind and Ahead are about an acknowledgement.
LEMMA NotAcked == rd.sent.t = "I" => ~Behind /\ ~Ahead
  <1>1. Behind \/ Ahead => rd.sent = R("ACK", rd.num)
    BY DEF Behind, Ahead
  <1> QED
    BY <1>1, Frames

\* What the reader sent last, by the stage of its command.
LEMMA SentFacts ==
  ASSUME Typed, Waiting
  PROVE  /\ FirstPart => rd.sent.t = "I" /\ rd.sent.chain /\ rd.sent.num = rd.num
         /\ Completing => rd.sent.t = "I" /\ ~rd.sent.chain /\ rd.sent.num = rd.num
         /\ Completing /\ rd.cmd.split => rd.sent.body = Part(rd.cmd.c, 2)
         /\ Completing /\ ~rd.cmd.split => rd.sent.body = Whole(rd.cmd.c)
         /\ Behind \/ Ahead => rd.sent.t = "ACK" /\ rd.sent.num = rd.num
  <1>1. CASE FirstPart
    <2>1. rd.sent = CommandBlock(rd.num, rd.cmd, 1) /\ rd.cmd.split
      BY <1>1 DEF FirstPart
    <2>2. rd.sent.t = "I" /\ rd.sent.chain /\ rd.sent.num = rd.num
      BY <2>1, BlockFacts
    <2>3. ~Completing
      <3> SUFFICES ASSUME Completing PROVE FALSE
        OBVIOUS
      <3>1. rd.sent = CommandBlock(rd.num, rd.cmd, 2)
        BY <2>1 DEF Completing
      <3>2. ~CommandBlock(rd.num, rd.cmd, 2).chain
        BY <2>1, BlockFacts
      <3> QED BY <2>2, <3>1, <3>2
    <2>4. ~Behind /\ ~Ahead
      BY <2>2, NotAcked
    <2> QED BY <2>2, <2>3, <2>4
  <1>2. CASE Completing
    <2> DEFINE k == IF rd.cmd.split THEN 2 ELSE 1
    <2>1. rd.sent = CommandBlock(rd.num, rd.cmd, k)
      BY <1>2 DEF Completing
    <2>2. CASE rd.cmd.split
      <3>1. rd.sent = CommandBlock(rd.num, rd.cmd, 2)
        BY <2>1, <2>2
      <3>2. /\ rd.sent.t = "I" /\ ~rd.sent.chain /\ rd.sent.num = rd.num
            /\ rd.sent.body = Part(rd.cmd.c, 2)
        BY <2>2, <3>1, BlockFacts
      <3>3. ~Behind /\ ~Ahead
        BY <3>2, NotAcked
      <3>4. FirstPart => rd.sent.chain
        BY <2>2, BlockFacts DEF FirstPart
      <3> QED BY <2>2, <3>2, <3>3, <3>4
    <2>3. CASE ~rd.cmd.split
      <3>1. rd.sent = CommandBlock(rd.num, rd.cmd, 1)
        BY <2>1, <2>3
      <3>2. /\ rd.sent.t = "I" /\ ~rd.sent.chain /\ rd.sent.num = rd.num
            /\ rd.sent.body = Whole(rd.cmd.c)
        BY <2>3, <3>1, BlockFacts
      <3>3. ~Behind /\ ~Ahead
        BY <3>2, NotAcked
      <3> QED BY <2>3, <3>2, <3>3 DEF FirstPart
    <2> QED BY <2>2, <2>3
  <1>3. CASE ~FirstPart /\ ~Completing
    <2>1. Behind \/ Ahead => rd.sent = R("ACK", rd.num)
      BY DEF Behind, Ahead
    <2> QED BY <1>3, <2>1, Frames
  <1> QED
    BY <1>1, <1>2, <1>3

\* A frame on its way to the card, by the stage of the command.
LEMMA AirToCard ==
  ASSUME Stage, air.to = "card"
  PROVE  \/ (FirstPart \/ NotHeard \/ Answered \/ Behind) /\ air.f = rd.sent
         \/ /\ Answered /\ rd.cmd.kind # "probe"
            /\ air.f \in {R("NAK", rd.num), R("EMPTY", rd.num)}
  <1>0. air \notin Quiet /\ air # Silence /\ air # Noise
    BY Frames DEF Quiet
  <1>2. CASE FirstPart
    BY <1>0, <1>2, Frames DEF FirstPart
  <1>3. CASE NotHeard
    BY <1>0, <1>3, Frames DEF NotHeard
  <1>4. CASE Answered
    <2>1. air \in {Out(rd.sent), Back(done.resp)} \cup Quiet \cup
                    (IF rd.cmd.kind = "probe" THEN {} ELSE Asking \cup {Silence, Noise})
      BY <1>4 DEF Answered
    <2>2. air = Out(rd.sent) \/ (rd.cmd.kind # "probe" /\ air \in Asking)
      BY <1>0, <2>1, Frames
    <2> QED BY <1>4, <2>2, Frames DEF Asking
  <1>5. CASE Behind
    BY <1>5, Frames DEF Behind
  <1>6. CASE Ahead
    BY <1>6, Frames DEF Ahead
  <1> QED
    BY <1>2, <1>3, <1>4, <1>5, <1>6 DEF Stage

\* A frame on its way to the reader.
LEMMA AirToReader ==
  ASSUME Stage, air.to = "reader"
  PROVE  \/ FirstPart /\ air.f = R("ACK", rd.num) /\ rx.open
         \/ FirstPart /\ air.f = I(rd.num, FALSE, <<rd.cmd.c, 1>>) /\ rx.num = 2
         \/ Answered /\ air.f = done.resp
         \/ Ahead /\ air.f = lastTx
  <1>0. air \notin Quiet /\ air # Silence /\ air # Noise /\ air \notin Asking
    BY Frames DEF Quiet, Asking
  <1>2. CASE FirstPart
    <2> DEFINE a == R("ACK", rd.num)
               b == I(rd.num, FALSE, <<rd.cmd.c, 1>>)
    <2>1. /\ air \in {Out(rd.sent), Back(a), Back(b)} \cup Quiet
          /\ (air = Back(a) => rx.open) /\ (air = Back(b) => rx.num = 2)
      BY <1>2 DEF FirstPart
    <2> HIDE DEF a, b
    <2>2. \/ air.f = a /\ rx.open
          \/ air.f = b /\ rx.num = 2
      BY <1>0, <2>1, Frames
    <2> QED BY <1>2, <2>2 DEF a, b
  <1>3. CASE NotHeard
    BY <1>0, <1>3, Frames DEF NotHeard
  <1>4. CASE Answered
    <2>1. air \in {Out(rd.sent), Back(done.resp)} \cup Quiet \cup
                    (IF rd.cmd.kind = "probe" THEN {} ELSE Asking \cup {Silence, Noise})
      BY <1>4 DEF Answered
    <2> QED BY <1>0, <1>4, <2>1, Frames
  <1>5. CASE Behind
    BY <1>5, Frames DEF Behind
  <1>6. CASE Ahead
    BY <1>6, Frames DEF Ahead
  <1> QED
    BY <1>2, <1>3, <1>4, <1>5, <1>6 DEF Stage

\* A block with the number that the reader waits for is the next one of the
\* response to its command.
LEMMA NextOfResponse ==
  ASSUME Typed, Waiting, Stage, air.to = "reader", air.f.t = "I"
  PROVE  /\ air.f.num = rd.num
         /\ air.f.body = <<rd.cmd.c, rd.want>>
         /\ air.f.chain => /\ rd.cmd.kind = "direct" /\ pcb = Toggle(rd.num)
                           /\ tx.c = rd.cmd.c /\ tx.next = rd.want + 1 /\ tx.next <= tx.len
         /\ ~air.f.chain => tx.c = 0
         /\ rx.num = 2
  <1>0. rd.want \in Nat /\ rd.num \in {0, 1}
    BY Waits
  <1>1. CASE FirstPart /\ air.f = R("ACK", rd.num)
    BY <1>1, Frames
  <1>2. CASE FirstPart /\ air.f = I(rd.num, FALSE, <<rd.cmd.c, 1>>) /\ rx.num = 2
    <2>1. rd.want = 1 /\ tx.c = 0
      BY <1>2 DEF FirstPart
    <2> QED BY <1>2, <2>1 DEF I
  <1>3. CASE Answered /\ air.f = done.resp
    <2>1. /\ rd.want = 1 /\ pcb = Toggle(rd.num) /\ rx.num = 2
          /\ \/ done.resp = I(rd.num, FALSE, <<rd.cmd.c, 1>>) /\ tx.c = 0
             \/ /\ done.resp = I(rd.num, TRUE, <<rd.cmd.c, 1>>)
                /\ tx.c = rd.cmd.c /\ tx.next = 2 /\ 2 <= tx.len
                /\ rd.cmd.kind = "direct"
      BY <1>3 DEF Answered, Completing
    <2> QED BY <1>3, <2>1 DEF I
  <1>5. CASE Ahead /\ air.f = lastTx
    <2>1. /\ rd.cmd.kind = "direct" /\ pcb = Toggle(rd.num) /\ rd.want >= 2 /\ rx.num = 2
          /\ \/ lastTx = I(rd.num, FALSE, <<rd.cmd.c, rd.want>>) /\ tx.c = 0
             \/ /\ lastTx = I(rd.num, TRUE, <<rd.cmd.c, rd.want>>)
                /\ tx.c = rd.cmd.c /\ tx.next = rd.want + 1 /\ tx.next <= tx.len
      BY <1>5 DEF Ahead
    <2> QED BY <1>0, <1>5, <2>1 DEF I
  <1> QED
    BY <1>1, <1>2, <1>3, <1>5, AirToReader

\* The reader stays as it is.
LEMMA StageStep ==
  ASSUME InStage, Waiting, UNCHANGED rd, Stage'
  PROVE  InStage'
  BY DEF InStage, ResponseInOrder, Waiting

\* Only the air changes: each stage keeps to the frames that it allows.
LEMMA AirStep ==
  ASSUME InStage, Waiting, UNCHANGED <<rd, pcb, lastTx, tx, rx, done>>,
         \/ /\ FirstPart
            /\ air' \in Quiet \/ (air' = Out(rd.sent) /\ rd.way # "iso")
         \/ NotHeard /\ air' \in {Out(rd.sent)} \cup Quiet
         \/ Answered /\ air' \in {Out(rd.sent), Back(done.resp)} \cup Quiet
         \/ Answered /\ rd.cmd.kind # "probe" /\ air' \in Asking \cup {Silence, Noise}
         \/ Behind /\ air' \in {Silence, Out(rd.sent)}
  PROVE  InStage'
  <1>1. Asking' = Asking /\ Completing' = Completing /\ Quiet' = Quiet
    BY DEF Asking, Completing, Quiet
  <1>2. CASE FirstPart /\ (air' \in Quiet \/ (air' = Out(rd.sent) /\ rd.way # "iso"))
    <2>1. air' \in {Silence, Noise, Out(rd.sent)} /\ rd.way # "iso"
      BY <1>2 DEF Quiet
    <2>4. air'.to # "reader"
      BY <2>1, Frames
    <2>2. /\ air' # Back(R("ACK", rd.num)) /\ air' # Back(I(rd.num, FALSE, <<rd.cmd.c, 1>>))
          /\ rd.way = "iso" => air' # Out(rd.sent)
      BY <2>1, <2>4, Frames
    <2>3. FirstPart'
      BY <1>1, <1>2, <2>2 DEF FirstPart
    <2> QED BY <2>3, StageStep DEF Stage
  <1>3. CASE NotHeard /\ air' \in {Out(rd.sent)} \cup Quiet
    <2>1. NotHeard'
      BY <1>1, <1>3 DEF NotHeard
    <2> QED BY <2>1, StageStep DEF Stage
  <1>4. CASE \/ Answered /\ air' \in {Out(rd.sent), Back(done.resp)} \cup Quiet
             \/ Answered /\ rd.cmd.kind # "probe" /\ air' \in Asking \cup {Silence, Noise}
    <2>1. air' \in {Out(rd.sent), Back(done.resp)} \cup Quiet
                     \cup (IF rd.cmd.kind = "probe" THEN {} ELSE Asking \cup {Silence, Noise})
      BY <1>4
    <2>2. Answered'
      BY <1>1, <1>4, <2>1 DEF Answered
    <2> QED BY <2>2, StageStep DEF Stage
  <1>5. CASE Behind /\ air' \in {Silence, Out(rd.sent)}
    <2>1. Behind'
      BY <1>5 DEF Behind
    <2> QED BY <2>1, StageStep DEF Stage
  <1> QED
    BY <1>2, <1>3, <1>4, <1>5

\* A new command that does not look like the one before: the card knows
\* nothing of it yet.
LEMMA SendCommandInOrder ==
  ASSUME Typed, InStage, ~spoilt', SendCommand
  PROVE  InStage'
  <1>1. PICK kind \in Kind, len \in 1..MaxBlocks, split \in BOOLEAN :
          LET cmd == [c |-> rd.n + 1, kind |-> kind, len |-> len, split |-> split]
              f   == CommandBlock(rd.num, cmd, 1)
          IN /\ kind # "direct" => len = 1 /\ ~split
             /\ cmd \in CmdType /\ cmd.c = rd.n + 1 /\ cmd.split = split /\ f \in FrameType
             /\ rd'.cmd = cmd /\ rd'.n = rd.n + 1 /\ rd'.sent = f /\ rd'.want = 1
             /\ rd'.num = rd.num /\ rd'.got = <<rd.n + 1, 0>> /\ rd'.way = rd.way
             /\ rd' \in ReaderType /\ air' = Out(f) /\ rd.n + 1 \in Cmd /\ rd.n \in Nat
             /\ spoilt' = (spoilt \/ Lookalike(f))
    BY SendCommandStep
  <1>2. /\ rd'.cmd.c = rd.n + 1 /\ rd'.cmd.split = split /\ rd'.n = rd.n + 1 /\ rd'.want = 1
        /\ rd'.num = rd.num /\ rd'.got = <<rd.n + 1, 0>> /\ rd'.way = rd.way /\ rd.n \in Nat
        /\ rd'.sent = CommandBlock(rd'.num, rd'.cmd, 1) /\ air' = Out(rd'.sent)
        /\ ~Lookalike(rd'.sent)
    BY <1>1
  <1>3. Resting /\ UNCHANGED <<pcb, lastTx, tx, rx, done>>
    BY DEF SendCommand, card, InStage
  <1>4. Waiting' /\ ResponseInOrder'
    BY <1>2 DEF Waiting, ResponseInOrder
  <1>5. tx'.c = 0 /\ rx'.num = 2
    BY <1>3 DEF Resting
  <1>6. CASE split
    <2>1. air'.to = "card"
      BY <1>2, Frames
    <2>2. /\ air' # Back(R("ACK", rd'.num)) /\ air' # Back(I(rd'.num, FALSE, <<rd'.cmd.c, 1>>))
      BY <2>1, Frames
    <2>3. FirstPart'
      BY <1>2, <1>5, <1>6, <2>2 DEF FirstPart
    <2> QED BY <1>4, <2>3 DEF InStage, Stage
  <1>7. CASE ~split
    <2>1. Completing'
      BY <1>2, <1>7 DEF Completing
    <2>2. ~rd'.sent.chain /\ rd'.sent.num = rd'.num
      BY <1>2, <1>7, BlockFacts
    <2>3. ~(done'.num = rd'.num /\ done'.piece = rd'.sent.body)
      BY <1>2, <1>3, <2>2 DEF Lookalike
    <2>4. NotHeard'
      BY <1>2, <1>5, <1>7, <2>1, <2>3 DEF NotHeard
    <2> QED BY <1>4, <2>4 DEF InStage, Stage
  <1> QED
    BY <1>6, <1>7

\* The reader accepts a block: the response is complete, or the card is still
\* to hear of it.
LEMMA AcceptInOrder == ASSUME Typed, InStage, Accept PROVE InStage'
  <1>1. air.to = "reader" /\ air.f.t = "I" /\ Waiting
    BY DEF Accept
  <1>2. /\ air.f.body = <<rd.cmd.c, rd.want>> /\ rx.num = 2
        /\ air.f.chain => /\ rd.cmd.kind = "direct" /\ pcb = Toggle(rd.num)
                          /\ tx.c = rd.cmd.c /\ tx.next = rd.want + 1 /\ tx.next <= tx.len
        /\ ~air.f.chain => tx.c = 0
    BY <1>1, NextOfResponse DEF InStage
  <1>3. rd.cmd.c = rd.n /\ rd.n \in Cmd /\ rd.want \in Nat /\ rd.want >= 1
    BY <1>1, Waits
  <1>4. /\ rd'.num = Toggle(rd.num) /\ rd'.got = air.f.body
        /\ rd'.want = rd.want + 1 /\ rd'.n = rd.n
        /\ air.f.chain => /\ rd'.cmd = rd.cmd /\ rd'.sent = R("ACK", rd'.num)
                          /\ air' = Out(rd'.sent)
        /\ ~air.f.chain => rd'.cmd = NoCmd /\ air' = Silence
        /\ UNCHANGED <<pcb, lastTx, tx, rx, done, arena, exec, spoilt>>
    BY AcceptStep
  <1>5. ResponseInOrder'
    <2>1. rd'.want - 1 = rd.want
      BY <1>3, <1>4
    <2> QED BY <1>2, <1>3, <1>4, <2>1 DEF ResponseInOrder
  <1>6. CASE air.f.chain
    <2>1. Behind'
      BY <1>2, <1>3, <1>4, <1>6 DEF Behind
    <2>2. Waiting'
      BY <1>1, <1>4, <1>6 DEF Waiting
    <2> QED BY <1>5, <2>1, <2>2 DEF InStage, Stage
  <1>7. CASE ~air.f.chain
    <2>1. ~Waiting' /\ Resting'
      BY <1>2, <1>4, <1>7, Empties DEF Waiting, Resting
    <2> QED BY <1>5, <2>1 DEF InStage
  <1> QED
    BY <1>6, <1>7

\* The card acknowledged the first part, and the second one is sent.
LEMMA NextPartInOrder == ASSUME Typed, InStage, NextPart PROVE InStage'
  <1>1. /\ rd'.cmd = rd.cmd /\ rd'.n = rd.n /\ rd'.want = rd.want /\ rd'.got = rd.got
        /\ rd'.sent = CommandBlock(rd'.num, rd.cmd, 2) /\ air' = Out(rd'.sent)
        /\ Waiting /\ air.to = "reader" /\ Acknowledged
        /\ UNCHANGED <<pcb, lastTx, tx, rx, done, arena, exec, spoilt>>
    BY NextPartStep
  <1>2. Stage /\ air.f.t = "ACK" /\ rd.num \in {0, 1}
    BY <1>1, Frames, Waits DEF Acknowledged, InStage
  <1>3. FirstPart /\ rx.open
    <2>1. CASE Answered /\ air.f = done.resp
      <3>1. done.resp.t = "I"
        BY <2>1 DEF Answered, I
      <3> QED BY <1>2, <2>1, <3>1
    <2>2. CASE Ahead /\ air.f = lastTx
      <3>1. lastTx.t = "I"
        BY <2>2 DEF Ahead, I
      <3> QED BY <1>2, <2>2, <3>1
    <2>3. CASE FirstPart /\ air.f = I(rd.num, FALSE, <<rd.cmd.c, 1>>)
      <3>1. I(rd.num, FALSE, <<rd.cmd.c, 1>>).t = "I"
        BY DEF I
      <3> QED BY <1>2, <2>3, <3>1
    <2> QED BY <1>1, <1>2, <2>1, <2>2, <2>3, AirToReader
  <1>4. rd.cmd.split /\ rd.want = 1 /\ tx.c = 0
    BY <1>3 DEF FirstPart
  <1>5. NotHeard'
    BY <1>1, <1>3, <1>4 DEF NotHeard, Completing
  <1>6. Waiting' /\ ResponseInOrder'
    BY <1>1 DEF Waiting, ResponseInOrder, InStage
  <1> QED
    BY <1>5, <1>6 DEF InStage, Stage

\* Whatever reaches the reader can be used.
LEMMA Used ==
  ASSUME Typed, InStage, Unanswered
  PROVE  Waiting /\ Stage /\ air \in {Silence, Noise} /\ air.to # "reader"
  <1>1. Waiting /\ Stage
    BY DEF Unanswered, InStage
  <1>2. air.to # "reader"
    <2> SUFFICES ASSUME air.to = "reader" PROVE FALSE
      OBVIOUS
    <2>1. air \notin {Silence, Noise}
      BY Frames
    <2>2. ~(air.f.t = "I" /\ air.f.num = rd.num) /\ ~Acknowledged
      BY <2>1 DEF Unanswered
    <2>3. air.f.t # "I"
      BY <1>1, <2>2, NextOfResponse
    <2>4. CASE FirstPart /\ air.f = R("ACK", rd.num)
      BY <1>1, <2>2, <2>4, SentFacts DEF Acknowledged
    <2>5. CASE FirstPart /\ air.f = I(rd.num, FALSE, <<rd.cmd.c, 1>>)
      BY <2>3, <2>5 DEF I
    <2>6. CASE Answered /\ air.f = done.resp
      <3>1. done.resp.t = "I"
        BY <2>6 DEF Answered, I
      <3> QED BY <2>3, <2>6, <3>1
    <2>7. CASE Ahead /\ air.f = lastTx
      <3>1. lastTx.t = "I"
        BY <2>7 DEF Ahead, I
      <3> QED BY <2>3, <2>7, <3>1
    <2> QED BY <1>1, <2>4, <2>5, <2>6, <2>7, AirToReader
  <1> QED
    BY <1>1, <1>2 DEF Unanswered

\* By the stage, what the reader sent last.
LEMMA StageSent ==
  ASSUME Typed, Waiting, Stage
  PROVE  /\ rd.sent.t = "I" => FirstPart \/ NotHeard \/ Answered
         /\ rd.sent.t = "ACK" => Behind \/ Ahead
         /\ rd.sent.t \in {"I", "ACK"}
  BY NotAcked, SentFacts DEF Stage, NotHeard, Answered

\* The reader repeats its block.
LEMMA SendAgainInOrder == ASSUME Typed, InStage, SendAgain PROVE InStage'
  <1>1. /\ air' = Out(rd.sent) /\ Unanswered /\ UNCHANGED <<rd, pcb, lastTx, tx, rx, done>>
        /\ rd.sent.t = "ACK" \/ rd.way = "repeat" \/ NotReceived
    BY DEF SendAgain, ToCard, Out, card
  <1>2. Waiting /\ Stage /\ air \in {Silence, Noise} /\ air.to # "reader"
    BY <1>1, Used
  <1>3. ~NotReceived
    BY <1>2 DEF NotReceived
  <1>4. CASE rd.sent.t = "ACK"
    <2>1. ~Ahead
      BY <1>2, Frames DEF Ahead
    <2>2. Behind
      BY <1>2, <1>4, <2>1, StageSent
    <2> QED BY <1>1, <1>2, <2>2, AirStep
  <1>5. CASE rd.sent.t = "I"
    <2>1. rd.way # "iso"
      BY <1>1, <1>3, <1>5
    <2>2. FirstPart \/ NotHeard \/ Answered
      BY <1>2, <1>5, StageSent
    <2>3. air' \in {Out(rd.sent)} \cup Quiet /\ air' \in {Out(rd.sent), Back(done.resp)} \cup Quiet
      BY <1>1
    <2> QED BY <1>1, <1>2, <2>1, <2>2, <2>3, AirStep
  <1> QED
    BY <1>2, <1>4, <1>5, StageSent

\* A reader that goes the way of the standard asks for an answer that is kept.
LEMMA NakInOrder == ASSUME Typed, InStage, Nak PROVE InStage'
  <1>1. /\ air' \in Asking /\ Unanswered /\ UNCHANGED <<rd, pcb, lastTx, tx, rx, done>>
        /\ rd.sent.t = "I" /\ rd.way = "iso"
    BY DEF Nak, ToCard, Out, card, Asking
  <1>2. Waiting /\ Stage /\ air \in {Silence, Noise} /\ air.to # "reader" /\ air.to # "card"
    BY <1>1, Used, Frames
  <1>3. Quiet = {}
    BY <1>1 DEF Quiet
  <1>4. ~NotHeard /\ ~FirstPart
    BY <1>2, <1>3, Frames DEF NotHeard, FirstPart
  <1>5. Answered
    BY <1>1, <1>2, <1>4, StageSent
  <1>6. rd.cmd.kind # "probe"
    <2> SUFFICES ASSUME rd.cmd.kind = "probe" PROVE FALSE
      OBVIOUS
    <2>1. air \in {Out(rd.sent), Back(done.resp)}
      BY <1>3, <1>5 DEF Answered
    <2> QED BY <1>2, <2>1, Frames
  <1> QED
    BY <1>1, <1>2, <1>5, <1>6, AirStep

\* A frame is lost that the card makes good for.
LEMMA LoseInOrder == ASSUME Typed, InStage, ~spoilt', Lose PROVE InStage'
  <1>1. /\ air.to \in {"card", "reader"} /\ air' \in {Silence, Noise} /\ Mended
        /\ air.to = "card" => air' = Silence
        /\ UNCHANGED <<rd, pcb, lastTx, tx, rx, done>>
    BY DEF Lose, card
  <1>2. Waiting /\ Stage
    <2>1. air # Silence
      BY <1>1, Frames
    <2> QED BY <2>1 DEF InStage, Resting
  <1>3. CASE rd.sent.t = "I" /\ rd.way = "repeat"
    <2>1. air' \in Quiet
      BY <1>1, <1>3 DEF Quiet
    <2>2. FirstPart \/ NotHeard \/ Answered
      BY <1>2, <1>3, StageSent
    <2> QED BY <1>1, <1>2, <2>1, <2>2, AirStep
  <1>4. CASE air.to = "card" /\ air.f.t # "I"
    <2>1. CASE air.f = rd.sent
      <3>1. Behind \/ Ahead
        BY <1>2, <1>4, <2>1, StageSent
      <3>2. Behind
        BY <1>4, <3>1, Frames DEF Ahead
      <3> QED BY <1>1, <1>2, <1>4, <3>2, AirStep
    <2>2. CASE Answered /\ rd.cmd.kind # "probe"
      BY <1>1, <1>2, <2>2, AirStep
    <2> QED BY <1>2, <1>4, <2>1, <2>2, AirToCard
  <1>5. CASE air.to = "reader" /\ rd.sent.t = "I" /\ ~rd.sent.chain /\ rd.cmd.kind # "probe"
    <2>1. ~FirstPart /\ ~Ahead
      BY <1>2, <1>5, SentFacts, NotAcked
    <2>2. Answered
      BY <1>2, <1>5, <2>1, AirToReader
    <2> QED BY <1>1, <1>2, <1>5, <2>2, AirStep
  <1> QED
    BY <1>1, <1>3, <1>4, <1>5 DEF Mended

\* A new activation: everything begins anew.
LEMMA NewActivationInOrder == ASSUME Typed, NewActivation PROVE InStage'
  <1>1. /\ rd'.cmd = NoCmd /\ rd'.n = rd.n /\ rd'.want = 1 /\ rd'.got = <<rd.n, 0>>
        /\ air' = Silence /\ tx' = NoTx /\ rx' = NoRx
    BY NewActivationStep
  <1>2. ~Waiting' /\ Resting'
    BY <1>1, Empties, NoRxChain DEF Waiting, Resting
  <1>3. ResponseInOrder'
    BY <1>1 DEF ResponseInOrder
  <1> QED
    BY <1>2, <1>3 DEF InStage

\* While a frame is on its way to the card the reader waits.
LEMMA OnAirWaits == ASSUME InStage, air.to = "card" PROVE Waiting /\ Stage
  BY Frames DEF InStage, Resting

\* The card is asked for the block that it sent last, and has it.
LEMMA ReplayInOrder == ASSUME Typed, InStage, OnNak \/ OnEmpty PROVE InStage'
  <1>1. /\ air.to = "card" /\ air.f.t \in {"NAK", "EMPTY"} /\ (lastTx # None => air' = Back(lastTx))
        /\ UNCHANGED <<rd, pcb, lastTx, tx, rx, done>>
    BY ReplayStep
  <1>2. Waiting /\ Stage
    BY <1>1, OnAirWaits
  <1>3. air.f # rd.sent
    BY <1>1, <1>2, StageSent
  <1>4. Answered /\ rd.cmd.kind # "probe"
    BY <1>1, <1>2, <1>3, AirToCard
  <1>5. lastTx = done.resp /\ done.resp.t = "I"
    BY <1>4 DEF Answered, I
  <1>6. lastTx # None
    BY <1>5, Frames
  <1> QED
    BY <1>1, <1>2, <1>4, <1>5, <1>6, AirStep

\* R(ACK): the card goes on with its chain exactly when the reader has the
\* block before.
LEMMA AckInOrder == ASSUME Typed, InStage, OnAck PROVE InStage'
  <1>1. /\ air.to = "card" /\ air.f.t = "ACK" /\ UNCHANGED <<rd, rx, done, arena, exec, spoilt>>
        /\ tx.c # 0 => /\ air' = Back(lastTx') /\ pcb' = Toggle(pcb)
                       /\ lastTx' = I(pcb, tx.next < tx.len, <<tx.c, tx.next>>)
                       /\ tx.next < tx.len => /\ tx'.c = tx.c /\ tx'.next = tx.next + 1
                                              /\ tx'.len = tx.len
                       /\ ~(tx.next < tx.len) => tx'.c = 0
    BY AckStep
  <1>2. Waiting /\ Stage
    BY <1>1, OnAirWaits
  <1>3. air.f \notin {R("NAK", rd.num), R("EMPTY", rd.num)}
    BY <1>1, Frames
  <1>4. air.f = rd.sent /\ ~Ahead
    BY <1>1, <1>2, <1>3, AirToCard, Frames DEF Ahead
  <1>5. Behind
    BY <1>1, <1>2, <1>4, StageSent
  <1>6. /\ rd.sent = R("ACK", rd.num) /\ rd.want >= 2 /\ rd.cmd.kind = "direct" /\ rx.num = 2
        /\ tx.c = rd.cmd.c /\ tx.next = rd.want /\ tx.next <= tx.len /\ pcb = rd.num
    BY <1>5 DEF Behind
  <1>7. tx.c # 0 /\ tx.next \in Nat /\ tx.len \in Nat
    BY <1>2, <1>6, Waits DEF Waiting, TxChain
  <1>8. CASE tx.next < tx.len
    <2>1. (tx.next < tx.len) = TRUE
      BY <1>8
    <2>2. lastTx' = I(rd.num, TRUE, <<rd.cmd.c, rd.want>>)
      <3>1. lastTx' = I(pcb, TRUE, <<tx.c, tx.next>>)
        BY <1>1, <1>7, <2>1, Zenon
      <3> QED BY <1>6, <3>1 DEF I
    <2>4. tx'.c = rd.cmd.c /\ tx'.next = rd.want + 1 /\ tx'.next <= tx'.len
      BY <1>1, <1>6, <1>7, <1>8
    <2>3. Ahead'
      BY <1>1, <1>6, <1>7, <2>2, <2>4 DEF Ahead
    <2> QED BY <1>1, <1>2, <2>3, StageStep DEF Stage
  <1>9. CASE ~(tx.next < tx.len)
    <2>1. (tx.next < tx.len) = FALSE
      BY <1>9
    <2>2. lastTx' = I(rd.num, FALSE, <<rd.cmd.c, rd.want>>)
      <3>1. lastTx' = I(pcb, FALSE, <<tx.c, tx.next>>)
        BY <1>1, <1>7, <2>1, Zenon
      <3> QED BY <1>6, <3>1 DEF I
    <2>3. Ahead'
      BY <1>1, <1>6, <1>7, <1>9, <2>2 DEF Ahead
    <2> QED BY <1>1, <1>2, <2>3, StageStep DEF Stage
  <1> QED
    BY <1>8, <1>9

\* A complete block reached the card: the command is new to it, or answered.
LEMMA CompleteBlock ==
  ASSUME Typed, InStage, Received("I"), ~air.f.chain
  PROVE  /\ Waiting /\ Stage /\ air.f = rd.sent /\ Num = rd.num /\ Piece = rd.sent.body
         /\ Completing /\ (NotHeard \/ Answered)
  <1>1. Waiting /\ Stage /\ air.f = rd.sent
    BY OnAirWaits DEF Received, Typed, OnAir
  <1>2. ~FirstPart
    BY <1>1, SentFacts
  <1>3. NotHeard \/ Answered
    BY <1>1, <1>2, StageSent DEF Received
  <1>4. Completing
    BY <1>3 DEF NotHeard, Answered
  <1> QED
    BY <1>1, <1>3, <1>4, SentFacts DEF Num, Piece

\* A repeated block gets the answer that was kept.
LEMMA DuplicateInOrder == ASSUME Typed, InStage, OnDuplicate PROVE InStage'
  <1>1. /\ Received("I") /\ ~air.f.chain /\ ~rx.open /\ done.num = Num /\ done.piece = Piece
        /\ air' = Back(done.resp) /\ pcb' = done.pcb
        /\ lastTx' = IF done.keeps THEN lastTx ELSE done.resp
        /\ tx'.c = tx.c /\ tx'.next = tx.next /\ tx'.len = tx.len
        /\ UNCHANGED <<rd, rx, done, arena, exec, spoilt>>
    BY DuplicateStep
  <1>2. Waiting /\ Num = rd.num /\ Piece = rd.sent.body /\ (NotHeard \/ Answered)
    BY <1>1, CompleteBlock
  <1>3. Answered
    BY <1>1, <1>2 DEF NotHeard
  <1>4. Completing' /\ Asking' = Asking /\ Quiet' = Quiet
    BY <1>1, <1>3 DEF Answered, Completing, Asking, Quiet
  <1>5. rd.cmd.kind # "probe" => lastTx' = done.resp
    BY <1>1, <1>3 DEF Answered
  <1>6. Answered'
    BY <1>1, <1>3, <1>4, <1>5 DEF Answered
  <1> QED
    BY <1>1, <1>2, <1>6, StageStep DEF Stage

\* A probe is answered, and the block that was sent before it kept.
LEMMA ProbeInOrder == ASSUME Typed, InStage, OnProbe PROVE InStage'
  <1>1. /\ Received("I") /\ ~air.f.chain /\ ~rx.open
        /\ ~(done.num = Num /\ done.piece = Piece) /\ rd.cmd.kind = "probe"
        /\ air' = Back(done'.resp) /\ pcb' = Toggle(Num)
        /\ done'.resp = I(Num, FALSE, <<rd.cmd.c, 1>>) /\ done'.num = Num /\ done'.piece = Piece
        /\ done'.pcb = Toggle(Num)
        /\ tx'.c = tx.c /\ UNCHANGED <<rd, rx, arena, exec, spoilt>>
    BY ProbeStep
  <1>2. Waiting /\ Num = rd.num /\ Piece = rd.sent.body /\ Completing /\ (NotHeard \/ Answered)
    BY <1>1, CompleteBlock
  <1>3. NotHeard
    BY <1>1, <1>2 DEF Answered
  <1>4. tx.c = 0 /\ rx.num = 2 /\ Completing'
    BY <1>1, <1>2, <1>3 DEF NotHeard, Completing
  <1>5. Answered'
    BY <1>1, <1>2, <1>4 DEF Answered
  <1> QED
    BY <1>1, <1>2, <1>5, StageStep DEF Stage

\* An APDU is handled, and its answer kept.
LEMMA HandleInOrder ==
  ASSUME Typed, InStage, Received("I"), ~air.f.chain, UNCHANGED rd, rd.cmd.kind # "probe",
         rx.num = 2 \/ rd.cmd.kind = "direct", HandleApdu(rd.cmd.c, rd.cmd.kind, rd.cmd.len)
  PROVE  InStage'
  <1>1. Waiting /\ Num = rd.num /\ Piece = rd.sent.body /\ Completing
    BY CompleteBlock
  <1>2. /\ air' = Back(done'.resp) /\ lastTx' = done'.resp /\ pcb' = Toggle(Num)
        /\ done'.num = Num /\ done'.piece = Piece /\ done'.pcb = Toggle(Num) /\ ~done'.keeps
        /\ \/ done'.resp = I(Num, FALSE, <<rd.cmd.c, 1>>) /\ tx'.c = 0
           \/ /\ done'.resp = I(Num, TRUE, <<rd.cmd.c, 1>>)
              /\ tx'.c = rd.cmd.c /\ tx'.next = 2 /\ 2 <= tx'.len /\ rd.cmd.kind = "direct"
        /\ rx'.open => rd.cmd.kind = "fragment"
        /\ rx'.num \in {2, rx.num} /\ (rd.cmd.kind # "fragment" => rx'.num = 2)
    BY HandleStep
  <1>3. Completing' /\ rx'.num = 2
    BY <1>1, <1>2 DEF Completing
  <1>4. Answered'
    BY <1>1, <1>2, <1>3 DEF Answered
  <1> QED
    BY <1>1, <1>4, StageStep DEF Stage

\* A command in one block.
LEMMA CommandInOrder == ASSUME Typed, InStage, OnCommand PROVE InStage'
  <1>1. /\ Received("I") /\ ~air.f.chain /\ ~rx.open /\ UNCHANGED <<rd, spoilt>>
        /\ ~(done.num = Num /\ done.piece = Piece) /\ rd.cmd.kind # "probe"
        /\ HandleApdu(rd.cmd.c, rd.cmd.kind, rd.cmd.len)
    BY CommandStep
  <1>2. rx.num = 2
    BY <1>1, CompleteBlock DEF NotHeard, Answered
  <1> QED
    BY <1>1, <1>2, HandleInOrder

\* The last block of a chain: what was assembled is the command, or refused.
LEMMA LastInOrder == ASSUME Typed, InStage, OnLastBlock PROVE InStage'
  <1>1. /\ Received("I") /\ ~air.f.chain /\ rx.open /\ UNCHANGED <<rd, spoilt>>
        /\ \/ /\ rd.cmd.kind # "probe" /\ Piece = Part(rd.cmd.c, 2)
              /\ HandleApdu(rd.cmd.c, rd.cmd.kind, rd.cmd.len)
           \/ rx' = NoRx /\ AnswerApdu(rd.cmd.c) /\ exec' = exec
    BY LastStep
  <1>2. Waiting /\ Num = rd.num /\ Piece = rd.sent.body /\ Completing
    BY <1>1, CompleteBlock
  <1>3. CASE /\ rd.cmd.kind # "probe" /\ Piece = Part(rd.cmd.c, 2)
             /\ HandleApdu(rd.cmd.c, rd.cmd.kind, rd.cmd.len)
    <2>1. rd.cmd.split
      <3>1. rd.cmd.c \in Cmd /\ rd.cmd.split \in BOOLEAN
        BY <1>2, Waits
      <3> QED BY <1>2, <1>3, <3>1, SentFacts, WholeNotPart
    <2>2. rd.cmd.kind = "direct"
      BY <1>2, <2>1, Waits
    <2> QED BY <1>1, <1>3, <2>2, HandleInOrder
  <1>4. CASE rx' = NoRx /\ AnswerApdu(rd.cmd.c) /\ exec' = exec
    <2>1. /\ air' = Back(done'.resp) /\ lastTx' = done'.resp /\ pcb' = Toggle(Num) /\ tx'.c = 0
          /\ done'.num = Num /\ done'.piece = Piece /\ done'.pcb = Toggle(Num) /\ ~done'.keeps
          /\ done'.resp = I(Num, FALSE, <<rd.cmd.c, 1>>)
      BY <1>1, <1>4, AnswerStep, Empties
    <2>2. Completing' /\ rx'.num = 2 /\ ~rx'.open
      BY <1>1, <1>2, <1>4, NoRxChain DEF Completing
    <2>3. Answered'
      BY <1>1, <1>2, <2>1, <2>2 DEF Answered
    <2> QED BY <1>1, <1>2, <2>3, StageStep DEF Stage
  <1> QED
    BY <1>1, <1>3, <1>4

\* A block of a chain: the card acknowledges it, or has no buffer for it.
LEMMA ChainInOrder == ASSUME Typed, InStage, OnChainBlock PROVE InStage'
  <1>1. /\ Received("I") /\ Waiting /\ air.f = rd.sent /\ air.f.chain /\ UNCHANGED rd
        /\ \/ /\ air' = Back(I(Num, FALSE, <<rd.cmd.c, 1>>))
              /\ rx' = NoRx /\ tx' = NoTx
           \/ /\ air' = Silence /\ rx.num = Num
              /\ rx' = NoRx /\ tx' = NoTx
           \/ /\ air' = Back(R("ACK", Num)) /\ tx'.c = tx.c
              /\ \/ rx.num = Num /\ rx'.open = rx.open /\ rx'.num = rx.num
                 \/ rx'.open /\ rx'.num = Num
    BY ChainStep
  <1>2. Stage /\ ~Completing /\ rd.sent.t = "I"
    BY <1>1, OnAirWaits, SentFacts DEF Received
  <1>3. FirstPart
    BY <1>1, <1>2, StageSent DEF NotHeard, Answered
  <1>4. /\ Num = rd.num /\ rd.num \in {0, 1} /\ Quiet' = Quiet /\ rd.way \in {"iso", "repeat"}
        /\ air = Out(rd.sent)
    <2>1. air = Out(air.f)
      BY <1>1, ArrivedType, Frames DEF Received, Typed, LinkTypes
    <2> QED BY <1>1, <1>3, <2>1, SentFacts, Waits DEF Num, Quiet
  <1>5. /\ rd.cmd.split /\ rd.sent = CommandBlock(rd.num, rd.cmd, 1) /\ rd.want = 1 /\ tx.c = 0
        /\ (rx.num # 2 => rx.open) /\ (rd.way = "iso" => rx.num = 2)
    BY <1>3, <1>4 DEF FirstPart
  <1> DEFINE a == R("ACK", rd.num)
             b == I(rd.num, FALSE, <<rd.cmd.c, 1>>)
  <1>6. a.t # b.t
    BY DEF R, I
  <1>7. /\ air' \in {Back(a), Back(b)} \cup Quiet /\ tx'.c = 0 /\ (rx'.num # 2 => rx'.open)
        /\ air' = Back(a) => rx'.open
        /\ air' = Back(b) => rx'.num = 2
    <2>1. CASE air' = Back(b) /\ rx' = NoRx /\ tx' = NoTx
      <3> HIDE DEF a, b
      <3> QED BY <1>6, <2>1, NoRxChain, Empties, Frames
    <2>2. CASE air' = Silence /\ rx.num = Num /\ rx' = NoRx /\ tx' = NoTx
      <3>1. air' \in Quiet
        BY <1>4, <1>5, <2>2 DEF Quiet
      <3> HIDE DEF a, b
      <3> QED BY <2>2, <3>1, NoRxChain, Empties, Frames
    <2>3. CASE /\ air' = Back(a) /\ tx'.c = tx.c
               /\ \/ rx.num = Num /\ rx'.open = rx.open /\ rx'.num = rx.num
                  \/ rx'.open /\ rx'.num = Num
      <3>1. rx'.open
        BY <1>4, <1>5, <2>3
      <3> HIDE DEF a, b
      <3> QED BY <1>5, <1>6, <2>3, <3>1, Frames
    <2> QED BY <1>1, <1>4, <2>1, <2>2, <2>3
  <1>8. air'.to # "card"
    <2> HIDE DEF a, b
    <2> QED BY <1>7, Frames DEF Quiet
  <1>9. air' # Out(rd.sent)
    BY <1>8, Frames
  <1>10. FirstPart'
    BY <1>1, <1>4, <1>5, <1>7, <1>9 DEF FirstPart
  <1> QED
    BY <1>1, <1>10, StageStep DEF Stage

\* Every step keeps the invariant.
LEMMA LinkStep == LinkInv /\ [LinkNext]_linkVars => LinkInv'
  <1> SUFFICES ASSUME LinkInv, [LinkNext]_linkVars, ~spoilt' PROVE InStage'
    BY TypesStep DEF LinkInv
  <1>0. Typed
    BY DEF LinkInv
  <1>1. CASE NewActivation
    BY <1>0, <1>1, NewActivationInOrder
  <1>2. CASE ~NewActivation
    <2>1. InStage
      <3>1. spoilt => spoilt'
        BY <1>2 DEF LinkNext, linkVars, SendCommand, Accept, NextPart, SendAgain, Nak, Lose, Card,
           OnNak, OnEmpty, OnAck, OnDuplicate, OnProbe, OnCommand, OnChainBlock, OnLastBlock
      <3> QED BY <3>1 DEF LinkInv
    <2>2. CASE SendCommand \/ Accept \/ NextPart \/ SendAgain \/ Nak \/ Lose
      BY <1>0, <2>1, <2>2, SendCommandInOrder, AcceptInOrder, NextPartInOrder, SendAgainInOrder,
         NakInOrder, LoseInOrder
    <2>3. CASE Card
      BY <1>0, <2>1, <2>3, ReplayInOrder, AckInOrder, DuplicateInOrder, ProbeInOrder,
         CommandInOrder, ChainInOrder, LastInOrder
         DEF Card
    <2>4. CASE UNCHANGED linkVars
      <3>1. UNCHANGED <<air, rd, pcb, lastTx, tx, rx, done>>
        BY <2>4 DEF linkVars, card
      <3>2. /\ ResponseInOrder' = ResponseInOrder /\ Waiting' = Waiting /\ Resting' = Resting
            /\ Completing' = Completing /\ Asking' = Asking /\ Quiet' = Quiet
        BY <3>1 DEF ResponseInOrder, Waiting, Resting, Completing, Asking, Quiet
      <3>3. FirstPart' = FirstPart /\ NotHeard' = NotHeard /\ Answered' = Answered
        BY <3>1, <3>2 DEF FirstPart, NotHeard, Answered
      <3>4. Behind' = Behind /\ Ahead' = Ahead
        BY <3>1 DEF Behind, Ahead
      <3> QED BY <2>1, <3>2, <3>3, <3>4 DEF InStage, Stage
    <2> QED BY <1>2, <2>2, <2>3, <2>4 DEF LinkNext
  <1> QED
    BY <1>1, <1>2

\* The inductive invariant holds in every reachable state: the stage of every
\* command, for every reader, any bytes and however many frames are lost.
THEOREM LinkInvariance == LinkSpec => []LinkInv
  <1>1. LinkInit => LinkInv
    <2> SUFFICES ASSUME LinkInit PROVE LinkInv
      OBVIOUS
    <2>1. Typed /\ ~Waiting /\ rd.n = 0
      BY InitTyped
    <2>2. Resting
      BY Empties, NoRxChain DEF LinkInit, Resting
    <2> QED BY <2>1, <2>2 DEF LinkInv, InStage, ResponseInOrder
  <1> QED
    BY <1>1, LinkStep, PTL DEF LinkSpec

\* As long as nothing is spoilt the reader gets the blocks of the response to
\* its command, each once and in their order.
THEOREM MendedInOrderHolds == LinkSpec => []MendedInOrder
  <1>1. LinkInv => MendedInOrder
    BY DEF LinkInv, InStage, MendedInOrder
  <1> QED
    BY <1>1, LinkInvariance, PTL
=============================================================================
