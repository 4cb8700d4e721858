------------------------ MODULE UsbHidWorker_proofs ------------------------
(***************************************************************************)
(* Proofs about UsbHidWorker, for any channels, reports and lengths, any   *)
(* number of reports and any depth of requests entered below each other.   *)
(*                                                                         *)
(* Common holds of every frame: what a request has still to do tells where *)
(* it can be, and one that has only to store has its own approval.  That   *)
(* the answer a request takes is the answer to its own prompt has two      *)
(* reasons.  In a worker that is never stopped (Undisturbed), a signal is  *)
(* in the semaphore only for the newest prompt, and a request below finds  *)
(* none when the one above has ended.  While the cable stays in its place  *)
(* (Plugged), there is only one request at a time, because the session     *)
(* dispatches no other one while it processes it, and an interrupted one   *)
(* reads no further report.  With neither a stray signal can meet a second *)
(* request, and the theorems say which of the two they assume.             *)
(***************************************************************************)
EXTENDS UsbHidWorker, SequenceTheorems, TLAPS

-----------------------------------------------------------------------------
(* The invariant.                                                          *)

\* What is left of a request: makeCredential before its first poll, before it
\* asks, before its second poll, before it stores; authenticatorReset before
\* it asks.
MakePoll  == <<"poll", "ask", "poll", "commit">>
MakeAsk   == <<"ask", "poll", "commit">>
LastPoll  == <<"poll", "commit">>
LastStep  == <<"commit">>
ResetAsk  == <<"ask", "commit">>
Plan == {MakePoll, MakeAsk, LastPoll, LastStep, ResetAsk, << >>}

\* The steps at which reports are read.
Reading == {"wait", "request", "read", "handled", "after"}

Steps    == Reading \cup {"try", "step", "drain", "end", "exit"}
Statuses == {"ok", "cancel", "denied", "timeout", "error"}
Command  == Cmd \cup {"none"}

FrameSet == [pc : Steps, op : {"make", "reset", "quick"}, todo : Plan,
             cid : Cid \cup {NoCid, Broadcast}, cmd : Command, gen : Nat,
             prompt : Nat, status : Statuses,
             live : BOOLEAN, committed : BOOLEAN]

\* The fields of the session that the worker looks at.
SessionOK(t) ==
    /\ DOMAIN t = DOMAIN Blank
    /\ t.active \in BOOLEAN /\ t.processing \in BOOLEAN /\ t.cancel \in BOOLEAN
    /\ t.stopping \in BOOLEAN /\ t.gen \in Nat
    /\ t.cid \in Cid \cup {NoCid, Broadcast} /\ t.cmd \in Command
    /\ t.active => ~t.processing /\ t.gen = 0

\* Where a request is, by what is left of it; one that has only to store was
\* approved in its own prompt.  A status other than success ends it.
FrameOK(f, ap) ==
    /\ f.pc \in Reading \cup {"try", "step", "drain", "end"}
    /\ f.pc = "step" => f.todo # << >>
    /\ f.pc = "drain" => f.todo \in {MakePoll, LastPoll}
    /\ f.pc \in Reading \cup {"try"} => f.todo \in {MakeAsk, ResetAsk}
    /\ f.todo \in {LastPoll, LastStep} => f.prompt \in ap
    /\ f.pc # "end" => f.status = "ok"
    /\ f.committed => f.prompt \in ap /\ f.pc = "end" /\ f.status = "ok"

MainOK(f) == f.pc \in Reading \cup {"exit"} /\ ~f.committed

Common ==
    /\ stack \in Seq(FrameSet)
    /\ \A i \in 1..Len(stack) : i < Len(stack) => stack[i].pc = "handled"
    /\ stack # << >> => MainOK(stack[1])
    /\ \A i \in 2..Len(stack) : FrameOK(stack[i], approved)
    /\ SessionOK(s)
    /\ rx \in Seq(Packet)
    /\ DOMAIN prompt = {"state", "id"} /\ prompt.id \in Nat /\ done \in {0, 1}
    /\ prompt.state = "approved" => prompt.id \in approved
    /\ stack # << >> /\ Top.pc = "drain" => s.processing

\* The prompt is the request's own, or there is nothing to be taken from it.
Own(id, pr, dn) == pr.id = id \/ (dn = 0 /\ pr.state # "pending")

\* The request on top, in a worker that is never stopped: a cancelled request
\* does not get as far as its last step, and one that waits takes only the
\* answer to its own prompt.
Calm(f, t, pr, dn) ==
    /\ f.pc \in {"try", "step", "drain"} \/ f.committed => ~t.cancel
    /\ f.pc \in {"wait", "request", "read", "try"} => Own(f.prompt, pr, dn)
    /\ f.pc \in {"handled", "after"} => Own(f.prompt, pr, dn) \/ t.cancel
    /\ f.pc \in {"step", "drain"} /\ f.todo \in {LastPoll, LastStep} =>
         dn = 0 /\ pr.state # "pending"

\* What the request below it will find, whose prompt was id.
Held(f, id, t, pr, dn) ==
    /\ f.pc \in {"step", "drain"} /\ f.todo \notin {LastPoll, LastStep} => Own(id, pr, dn)
    /\ f.pc = "end" => Own(id, pr, dn) \/ t.cancel

\* A worker that is never stopped.
Undisturbed ==
    /\ ui = "free" /\ running /\ "stop" \notin flags /\ ~s.stopping
    /\ stack # << >> /\ Top.pc # "exit"
    /\ s.active => ~s.cancel
    /\ s.cancel \/ done = 1 => prompt.state # "pending"
    /\ Len(stack) >= 2 => Calm(Top, s, prompt, done)
    /\ Len(stack) >= 3 => Held(Top, stack[Len(stack) - 1].prompt, s, prompt, done)

\* The only request, where the cable stays in its place: it is the one the
\* session processes until it is interrupted, and then it goes to its end
\* without another report being read.
Linked(f, t, pr, dn) ==
    /\ f.gen = 1 /\ ~t.active
    /\ f.live => t.processing /\ t.gen = 1
    /\ ~f.live => /\ ~t.processing /\ t.gen = 2
                  /\ f.pc \in {"handled", "after", "try", "step", "end"}
                  /\ f.pc = "step" => f.todo \in {LastPoll, LastStep}
                  /\ f.pc = "try" => dn = 1
                  /\ f.pc \in {"handled", "after"} => dn = 1 \/ t.cancel
    /\ f.pc \in Reading \cup {"try"} =>
         pr.id = f.prompt /\ (pr.state = "pending" \/ dn = 1)

\* A cable that stays in its place.
Plugged ==
    /\ unplugs = 0 /\ flags \subseteq {"stop"} /\ Len(stack) <= 2
    /\ stack # << >> => connected
    /\ Len(stack) = 2 => Linked(Top, s, prompt, done)

\* The inductive invariant.
IInv ==
    /\ Common
    /\ Leaving = {} => Undisturbed /\ FailureMeansNoCommit
    /\ MaxUnplugs = 0 => Plugged /\ NoLateResponse

-----------------------------------------------------------------------------
(* Plans and stacks.                                                       *)

\* What comes first in a plan, and what is left after it.
LEMMA Plans ==
    /\ Len(MakePoll) = 4 /\ Head(MakePoll) = "poll" /\ Tail(MakePoll) = MakeAsk
    /\ Len(MakeAsk) = 3 /\ Head(MakeAsk) = "ask" /\ Tail(MakeAsk) = LastPoll
    /\ Len(LastPoll) = 2 /\ Head(LastPoll) = "poll" /\ Tail(LastPoll) = LastStep
    /\ Len(LastStep) = 1 /\ Head(LastStep) = "commit" /\ Tail(LastStep) = << >>
    /\ Len(ResetAsk) = 2 /\ Head(ResetAsk) = "ask" /\ Tail(ResetAsk) = LastStep
    /\ Len(<< >>) = 0
BY DEF MakePoll, MakeAsk, LastPoll, LastStep, ResetAsk

\* What has a length is not empty.
LEMMA NonEmpty == ASSUME NEW q, Len(q) # 0 PROVE q # << >>
<1>1. Len(<< >>) = 0
  OBVIOUS
<1> QED BY <1>1, Zenon

\* The plans differ in their lengths or in their first steps.
LEMMA PlansDiffer ==
    /\ MakePoll \notin {MakeAsk, LastPoll, LastStep, ResetAsk, << >>}
    /\ MakeAsk \notin {LastPoll, LastStep, ResetAsk, << >>}
    /\ LastPoll \notin {LastStep, ResetAsk, << >>}
    /\ LastStep \notin {ResetAsk, << >>}
    /\ ResetAsk # << >>
<1>1. LastPoll # ResetAsk
  BY Plans
<1>2. /\ MakePoll # MakeAsk /\ MakePoll # LastPoll /\ MakePoll # LastStep /\ MakePoll # ResetAsk
      /\ MakeAsk # LastPoll /\ MakeAsk # LastStep /\ MakeAsk # ResetAsk
      /\ LastPoll # LastStep /\ LastStep # ResetAsk
  BY Plans
<1>3. /\ MakePoll # << >> /\ MakeAsk # << >> /\ LastPoll # << >> /\ LastStep # << >> /\ ResetAsk # << >>
  <2>1. /\ Len(MakePoll) # 0 /\ Len(MakeAsk) # 0 /\ Len(LastPoll) # 0 /\ Len(LastStep) # 0
        /\ Len(ResetAsk) # 0
    BY Plans
  <2> QED BY <2>1, NonEmpty, Zenon
<1> QED BY <1>1, <1>2, <1>3, Zenon

\* What each operation has to do.
LEMMA Programs ==
    /\ Program["make"] = MakePoll
    /\ Program["reset"] = ResetAsk
    /\ Program["quick"] = << >>
BY DEF Program, MakePoll, ResetAsk

\* What is left of a plan when its first step is done.
LEMMA NextSteps ==
    ASSUME NEW q
    PROVE  /\ q = MakePoll => Tail(q) = MakeAsk /\ Len(q) # 1
           /\ q \in {MakeAsk, ResetAsk} => Tail(q) \in {LastPoll, LastStep} /\ Len(q) # 1
           /\ q = LastPoll => Tail(q) = LastStep /\ Len(q) # 1
           /\ q = LastStep => Tail(q) = << >> /\ Len(q) = 1
<1>1. Len(MakePoll) # 1 /\ Len(MakeAsk) # 1 /\ Len(LastPoll) # 1 /\ Len(ResetAsk) # 1
  BY Plans
<1> QED BY <1>1, Plans, Zenon

\* A position below another one is a different one.
LEMMA Less == ASSUME NEW n, NEW i \in 1..n, i < n PROVE i # n
OBVIOUS

\* The top of the stack is replaced.
LEMMA Put ==
    ASSUME NEW S, NEW q \in Seq(S), q # << >>, NEW f \in S,
           NEW r, r = [q EXCEPT ![Len(q)] = f]
    PROVE  /\ r \in Seq(S) /\ Len(r) = Len(q) /\ r # << >>
           /\ r[Len(q)] = f
           /\ \A i \in 1..Len(q) : i < Len(q) => r[i] = q[i]
<1>1. Len(q) \in Nat /\ Len(q) >= 1 /\ Len(q) \in 1..Len(q) /\ DOMAIN q = 1..Len(q)
  BY EmptySeq, LenProperties
<1>2. /\ r \in Seq(S) /\ Len(r) = Len(q) /\ Len(r) # 0
      /\ \A i \in 1..Len(q) : r[i] = IF i = Len(q) THEN f ELSE q[i]
  BY <1>1, ExceptSeq
<1>3. r # << >>
  BY <1>2, NonEmpty, Zenon
<1>4. r[Len(q)] = f
  BY <1>1, <1>2, Zenon
<1>5. \A i \in 1..Len(q) : i < Len(q) => r[i] = q[i]
  <2> SUFFICES ASSUME NEW i \in 1..Len(q), i < Len(q) PROVE r[i] = q[i]
    OBVIOUS
  <2>1. i # Len(q)
    BY Less, Zenon
  <2> QED BY <1>2, <2>1, Zenon
<1> QED BY <1>2, <1>3, <1>4, <1>5, Zenon

\* A frame is pushed.
LEMMA Push ==
    ASSUME NEW q \in Seq(FrameSet), NEW f \in FrameSet
    PROVE  /\ Append(q, f) \in Seq(FrameSet) /\ Len(Append(q, f)) = Len(q) + 1 /\ Append(q, f) # << >>
           /\ Append(q, f)[Len(q) + 1] = f
           /\ \A i \in 1..Len(q) : Append(q, f)[i] = q[i]
BY AppendProperties

\* The top frame is popped.
LEMMA Pop ==
    ASSUME NEW S, NEW q \in Seq(S), Len(q) >= 2, NEW r, r = SubSeq(q, 1, Len(q) - 1)
    PROVE  /\ r \in Seq(S) /\ Len(r) = Len(q) - 1 /\ r # << >>
           /\ \A i \in 1..Len(r) : r[i] = q[i]
<1>1. Len(q) \in Nat /\ 1 \in 1..(Len(q) + 1) /\ Len(q) - 1 \in 0..Len(q)
  BY LenProperties
<1>2. r \in Seq(S) /\ Len(r) = Len(q) - 1 /\ \A i \in 1..(Len(q) - 1) : r[i] = q[i]
  BY <1>1, SubSeqProperties
<1>3. Len(r) # 0
  BY <1>1, <1>2
<1>4. r # << >>
  BY <1>3, NonEmpty, Zenon
<1> QED BY <1>1, <1>2, <1>4

\* The requests on the stack have been interrupted.
LEMMA StaleFrames ==
    ASSUME NEW q \in Seq(FrameSet)
    PROVE  /\ Stale(q) \in Seq(FrameSet) /\ Len(Stale(q)) = Len(q)
           /\ \A i \in 1..Len(q) : Stale(q)[i] = [q[i] EXCEPT !.live = FALSE]
<1>1. Len(q) \in Nat /\ DOMAIN q = 1..Len(q) /\ \A i \in 1..Len(q) : q[i] \in FrameSet
  BY LenProperties, ElementOfSeq
<1>2. \A i \in 1..Len(q) : [q[i] EXCEPT !.live = FALSE] \in FrameSet
  BY <1>1 DEF FrameSet
<1>3. Stale(q) = [i \in 1..Len(q) |-> [q[i] EXCEPT !.live = FALSE]]
  BY <1>1 DEF Stale
<1>4. Stale(q) \in [1..Len(q) -> FrameSet]
  BY <1>2, <1>3
<1> QED BY <1>1, <1>3, <1>4, SeqDef, LenProperties

-----------------------------------------------------------------------------
(* What the handlers of CtapHid do to the session, as far as it matters.   *)

\* Two sessions that the worker cannot tell apart.
Alike(t, u) ==
    /\ DOMAIN u = DOMAIN t /\ u.active = t.active /\ u.processing = t.processing
    /\ u.cancel = t.cancel /\ u.stopping = t.stopping /\ u.gen = t.gen
    /\ u.cid = t.cid /\ u.cmd = t.cmd

\* A session that was given up.
Idle(u) == ~u.active /\ ~u.processing /\ ~u.cancel /\ ~u.stopping /\ u.gen = 0

\* A handler asks for the prompt to be cancelled when it marks or ends the
\* request; it dispatches a message only from an open or a new assembly;
\* while a request is processed it changes nothing else, and while none is it
\* gives the session no generation but zero.
Handles(t, o) ==
    /\ SessionOK(o.s)
    /\ o.cancels \in BOOLEAN /\ o.dispatches \in BOOLEAN
    /\ o.s.stopping => t.stopping
    /\ o.s.cancel => t.cancel \/ o.cancels
    /\ o.s.active /\ o.s.cancel => t.active /\ t.cancel
    /\ o.dispatches => /\ ~o.cancels /\ ~o.s.active /\ o.s.processing /\ o.s.gen = 1
                       /\ o.s.cancel => t.active /\ t.cancel
    /\ t.processing => /\ ~o.dispatches /\ ~o.s.active
                       /\ \/ o.s.processing /\ o.s.gen = t.gen
                          \/ o.cancels /\ ~o.s.processing /\ o.s.gen = t.gen + 1
    /\ ~t.processing => ~o.cancels /\ (~o.dispatches => ~o.s.processing /\ o.s.gen \in {0, t.gen})

\* What is alike is as sound.
LEMMA AlikeOK ==
    ASSUME NEW t, NEW u, SessionOK(t), Alike(t, u)
    PROVE  SessionOK(u)
BY DEF SessionOK, Alike

\* The table of channels and the lock.
LEMMA TableAlike ==
    ASSUME NEW t, SessionOK(t), NEW c
    PROVE  /\ Alike(t, t) /\ Alike(t, ExpireLock(t)) /\ Alike(t, RefreshLock(t)) /\ Alike(t, Touch(t, c))
           /\ \A u \in Allocations(t) : Alike(t, u)
           /\ \A d : Alike(t, [t EXCEPT !.lock = c, !.left = d])
<1>1. \A q : Alike(t, [t EXCEPT !.chans = q])
  BY DEF SessionOK, Alike, Blank
<1>2. Alike(t, t) /\ \A x, d : Alike(t, [t EXCEPT !.lock = x, !.left = d])
  BY DEF SessionOK, Alike, Blank
<1>3. Alike(t, ExpireLock(t)) /\ Alike(t, RefreshLock(t))
  BY <1>2 DEF ExpireLock, RefreshLock
<1>4. Alike(t, Touch(t, c))
  BY <1>1, <1>2 DEF Touch
<1>5. ASSUME NEW x, NEW u \in Remember(t, x)
      PROVE  Alike(t, u)
  <2>1. Alike(t, RefreshLock(t)) /\ DOMAIN RefreshLock(t) = DOMAIN Blank
    BY <1>3 DEF Alike, SessionOK
  <2>2. \A q : Alike(t, [RefreshLock(t) EXCEPT !.chans = q])
    BY <2>1 DEF Alike, Blank
  <2> QED BY <1>1, <1>5, <2>2 DEF Remember
<1>6. \A u \in Allocations(t) : Alike(t, u)
  BY <1>5 DEF Allocations
<1> QED BY <1>2, <1>3, <1>4, <1>6

\* zf_transport_session_reset.
LEMMA ResetIdle ==
    ASSUME NEW t, SessionOK(t)
    PROVE  /\ Idle(Reset(t)) /\ SessionOK(Reset(t)) /\ Reset(t).gen = 0
           /\ Idle(ExpireLock(Reset(t))) /\ SessionOK(ExpireLock(Reset(t)))
<1>1. DOMAIN Reset(t) = DOMAIN Blank /\ Reset(t).gen = 0 /\ Idle(Reset(t)) /\ SessionOK(Reset(t))
  <2>1. SessionOK(Blank) /\ Idle(Blank) /\ Blank.gen = 0
    <3>1. /\ Blank.active = FALSE /\ Blank.processing = FALSE /\ Blank.cancel = FALSE
          /\ Blank.stopping = FALSE /\ Blank.gen = 0 /\ Blank.cid = NoCid /\ Blank.cmd = "none"
      BY DEF Blank
    <3>2. Blank.cmd \in Command /\ Blank.cid \in Cid \cup {NoCid, Broadcast} /\ 0 \in Nat
      BY <3>1 DEF Command
    <3>3. Idle(Blank)
      BY <3>1 DEF Idle
    <3> QED BY <3>1, <3>2, <3>3, Zenon DEF SessionOK
  <2>2. ASSUME NEW b, SessionOK(b), NEW x, NEW y, NEW z
        PROVE  Alike(b, [b EXCEPT !.lock = x, !.left = y, !.chans = z])
    BY <2>2 DEF SessionOK, Alike, Blank
  <2>3. Alike(Blank, Reset(t))
    BY <2>1, <2>2 DEF Reset
  <2>4. SessionOK(Reset(t))
    BY <2>1, <2>3, AlikeOK
  <2> QED BY <2>1, <2>3, <2>4 DEF Alike, Idle
<1>2. Alike(Reset(t), ExpireLock(Reset(t)))
  BY <1>1, TableAlike
<1> QED BY <1>1, <1>2, AlikeOK DEF Idle, Alike

\* An answer that leaves the session as it was, or gives it up.
LEMMA AnswerHandles ==
    ASSUME NEW t, SessionOK(t), NEW u, NEW c, NEW what
    PROVE  /\ Alike(t, u) => Handles(t, Answer(u, c, what)) /\ Handles(t, Quiet(u))
           /\ Idle(u) /\ SessionOK(u) /\ ~t.processing => Handles(t, Answer(u, c, what)) /\ Handles(t, Quiet(u))
<1>1. /\ Answer(u, c, what).s = u /\ Answer(u, c, what).cancels = FALSE /\ Answer(u, c, what).dispatches = FALSE
      /\ Quiet(u).s = u /\ Quiet(u).cancels = FALSE /\ Quiet(u).dispatches = FALSE
  BY DEF Answer, Quiet
<1>2. CASE Alike(t, u)
  <2>1. SessionOK(u)
    BY <1>2, AlikeOK
  <2> QED BY <1>1, <1>2, <2>1 DEF Handles, Alike, SessionOK
<1>3. CASE Idle(u) /\ SessionOK(u) /\ ~t.processing
  BY <1>1, <1>3 DEF Handles, Idle
<1> QED BY <1>2, <1>3

\* A message that may be complete.
LEMMA CompleteHandles ==
    ASSUME NEW t, SessionOK(t), ~t.processing, NEW u, SessionOK(u), u.active, ~u.stopping \/ t.stopping,
           u.cancel => t.active /\ t.cancel, NEW o \in CompleteIfReady(u)
    PROVE  Handles(t, o)
<1>1. u.gen = 0 /\ ~u.processing /\ DOMAIN u = DOMAIN Blank
  BY DEF SessionOK
<1> DEFINE v == [u EXCEPT !.active = FALSE]
<1>2. /\ SessionOK(v) /\ ~v.active /\ ~v.processing /\ v.cancel = u.cancel /\ v.stopping = u.stopping /\ v.gen = 0
      /\ DOMAIN v = DOMAIN Blank
  BY <1>1 DEF SessionOK, Blank
<1>3. Handles(t, Quiet(u))
  BY <1>1 DEF Handles, Quiet, Answer
<1>4. ASSUME NEW c, NEW what PROVE Handles(t, Answer(v, c, what))
  BY <1>2 DEF Handles, Answer
<1>5. ASSUME NEW c, NEW what PROVE Handles(t, Answer(Reset(v), c, what))
  BY <1>2, ResetIdle, AnswerHandles
<1>6. Handles(t, Dispatch(v))
  <2> DEFINE x == [v EXCEPT !.gen = @ + 1, !.processing = TRUE]
  <2>1. /\ SessionOK(x) /\ ~x.active /\ x.processing /\ x.cancel = u.cancel /\ x.stopping = u.stopping /\ x.gen = 1
    BY <1>2 DEF SessionOK, Blank
  <2>2. Dispatch(v).s = x /\ Dispatch(v).cancels = FALSE /\ Dispatch(v).dispatches = TRUE
    BY DEF Dispatch, Quiet, Answer
  <2> QED BY <2>1, <2>2 DEF Handles
<1> HIDE DEF v
<1>7. o \in {Quiet(u), Dispatch(v), Answer(v, u.cid, "cmd"), Answer(Reset(v), u.cid, "MSG")}
  BY DEF CompleteIfReady, v
<1> QED BY <1>3, <1>4, <1>5, <1>6, <1>7

\* CANCEL.
LEMMA CancelHandles ==
    ASSUME NEW t, SessionOK(t), NEW p, NEW o \in Cancel(t, p)
    PROVE  Handles(t, o)
<1> DEFINE u == [t EXCEPT !.cancel = TRUE]
           x == [Quiet(u) EXCEPT !.cancels = TRUE]
<1>1. Handles(t, Answer(t, p.cid, "len")) /\ Handles(t, Quiet(t))
  BY TableAlike, AnswerHandles
<1>2. t.processing => Handles(t, x)
  <2>1. /\ DOMAIN u = DOMAIN t /\ u.active = t.active /\ u.processing = t.processing /\ u.cancel
        /\ u.stopping = t.stopping /\ u.gen = t.gen /\ u.cid = t.cid /\ u.cmd = t.cmd
    BY DEF SessionOK, Blank
  <2>2. SessionOK(u)
    BY <2>1 DEF SessionOK
  <2>3. x.s = u /\ x.cancels = TRUE /\ x.dispatches = FALSE
    BY DEF Quiet, Answer
  <2> HIDE DEF u, x
  <2> QED BY <2>1, <2>2, <2>3 DEF Handles, SessionOK
<1>3. o \in {Answer(t, p.cid, "len"), Quiet(t)} \/ (t.processing /\ o = x)
  BY DEF Cancel
<1> HIDE DEF x
<1> QED BY <1>1, <1>2, <1>3

\* LOCK, for a session without a request.
LEMMA LockHandles ==
    ASSUME NEW t, SessionOK(t), NEW p, NEW o \in Lock(t, p)
    PROVE  Handles(t, o)
<1> DEFINE u == Touch(t, p.cid)
<1>1. Alike(t, t) /\ Alike(t, u) /\ SessionOK(u)
  BY TableAlike, AlikeOK
<1>2. Alike(u, ExpireLock(u)) /\ \A d : Alike(u, [u EXCEPT !.lock = p.cid, !.left = d])
  BY <1>1, TableAlike
<1>3. Alike(t, ExpireLock(u)) /\ \A d : Alike(t, [u EXCEPT !.lock = p.cid, !.left = d])
  BY <1>1, <1>2 DEF Alike
<1> HIDE DEF u
<1>4. \E v, what : Alike(t, v) /\ o = Answer(v, p.cid, what)
  BY <1>1, <1>3 DEF Lock, u
<1> QED BY <1>4, AnswerHandles

\* INIT outside a request.
LEMMA InitIdleHandles ==
    ASSUME NEW t, SessionOK(t), ~t.processing, NEW p, NEW o \in InitIdle(t, p)
    PROVE  Handles(t, o)
<1>1. \E v, what : (v = t \/ \E u : SessionOK(u) /\ v = Reset(u)) /\ o = Answer(v, p.cid, what)
  <2>1. SessionOK(Touch(t, p.cid)) /\ \A u \in Allocations(t) : SessionOK(u)
    BY TableAlike, AlikeOK
  <2> QED BY <2>1 DEF InitIdle
<1>2. Alike(t, t)
  BY TableAlike
<1> QED BY <1>1, <1>2, ResetIdle, AnswerHandles

\* A message begins.
LEMMA BeginHandles ==
    ASSUME NEW t, SessionOK(t), ~t.processing, NEW u, SessionOK(u),
           NEW p, p.cid \in Cid \cup {Broadcast}, p.cmd \in Cmd, NEW o \in Begin(u, p)
    PROVE  Handles(t, o)
<1>1. Idle(Reset(u)) /\ SessionOK(Reset(u)) /\ Reset(u).gen = 0
  BY ResetIdle
<1>2. Handles(t, Answer(Reset(u), p.cid, "len"))
  BY <1>1, AnswerHandles
<1> DEFINE r == Reset(u)
           got == IF p.n = 0 THEN <<>> ELSE <<[cid |-> p.cid, part |-> 0]>>
           v == [r EXCEPT !.active = TRUE, !.cid = p.cid, !.cmd = p.cmd, !.total = p.n, !.got = got]
<1>3. CASE o \in CompleteIfReady(v)
  <2> HIDE DEF r, got
  <2>1. DOMAIN r = DOMAIN Blank
    BY <1>1 DEF SessionOK, r
  <2>2. /\ DOMAIN v = DOMAIN Blank /\ v.active = TRUE /\ v.processing = r.processing /\ v.cancel = r.cancel
        /\ v.stopping = r.stopping /\ v.gen = r.gen /\ v.cid = p.cid /\ v.cmd = p.cmd
    BY <2>1 DEF Blank
  <2>3. ~r.processing /\ ~r.cancel /\ ~r.stopping /\ r.gen = 0 /\ SessionOK(r)
    BY <1>1 DEF Idle, r
  <2> HIDE DEF v
  <2>4. SessionOK(v) /\ v.active /\ ~v.cancel /\ ~v.stopping
    BY <2>2, <2>3 DEF SessionOK, Command
  <2> QED BY <1>3, <2>4, CompleteHandles
<1>4. o = Answer(r, p.cid, "len") \/ o \in CompleteIfReady(v)
  BY DEF Begin
<1> HIDE DEF v
<1> QED BY <1>2, <1>3, <1>4

\* The parts of a report.
LEMMA PacketParts ==
    ASSUME NEW p \in Packet
    PROVE  /\ p.cid \in Cid \cup {Broadcast}
           /\ p.type \in {"init", "cont", "stub"}
           /\ p.type = "init" => p.cmd \in Cmd \cup {"INIT", "CANCEL", "LOCK"}
BY DEF Packet, Report

\* An initial report outside a request.
LEMMA InitPacketHandles ==
    ASSUME NEW t, SessionOK(t), ~t.processing, NEW p \in Packet, p.type # "cont",
           NEW o \in HandleInitPacket(t, p)
    PROVE  Handles(t, o)
<1>1. /\ p.cid \in Cid \cup {Broadcast} /\ p.type \in {"init", "stub"}
      /\ p.type = "init" => p.cmd \in Cmd \cup {"INIT", "CANCEL", "LOCK"}
  BY PacketParts
<1>2. \A what : Handles(t, Answer(t, p.cid, what)) /\ Handles(t, Answer(Reset(t), p.cid, what))
  BY TableAlike, ResetIdle, AnswerHandles
<1>3. SessionOK(Touch(t, p.cid))
  BY TableAlike, AlikeOK
<1>4. \/ \E what : o = Answer(t, p.cid, what) \/ o = Answer(Reset(t), p.cid, what)
      \/ o \in Cancel(t, p) \/ o \in Lock(t, p) \/ o \in InitIdle(t, p)
      \/ p.cmd \in Cmd /\ o \in Begin(Touch(t, p.cid), p)
  <2>1. CASE p.type = "stub"
    BY <2>1 DEF HandleInitPacket
  <2>2. CASE p.type # "stub" /\ p.cmd = "CANCEL"
    BY <2>2 DEF HandleInitPacket
  <2>3. CASE p.type # "stub" /\ p.cmd # "CANCEL" /\ Busy(t, p.cid)
    BY <2>3 DEF HandleInitPacket
  <2>4. CASE p.type # "stub" /\ p.cmd # "CANCEL" /\ ~Busy(t, p.cid)
    <3>1. p.cmd \in Cmd \/ p.cmd = "INIT" \/ p.cmd = "LOCK"
      BY <1>1, <2>4
    <3>2. "LOCK" \notin Cmd /\ "INIT" \notin Cmd
      BY DEF Cmd
    <3>3. CASE p.cmd = "LOCK"
      BY <2>4, <3>3 DEF HandleInitPacket
    <3>4. CASE p.cmd = "INIT"
      BY <2>4, <3>4 DEF HandleInitPacket
    <3>5. CASE p.cmd \in Cmd
      BY <2>4, <3>2, <3>5 DEF HandleInitPacket
    <3> QED BY <3>1, <3>3, <3>4, <3>5
  <2> QED BY <2>1, <2>2, <2>3, <2>4
<1> QED BY <1>1, <1>2, <1>3, <1>4, CancelHandles, LockHandles, InitIdleHandles, BeginHandles

\* A continuation outside a request.
LEMMA ContPacketHandles ==
    ASSUME NEW t, SessionOK(t), ~t.processing, NEW p, NEW o \in HandleContPacket(t, p)
    PROVE  Handles(t, o)
<1>1. \A what : Handles(t, Quiet(t)) /\ Handles(t, Answer(Reset(t), p.cid, what))
  BY TableAlike, ResetIdle, AnswerHandles
<1> DEFINE u == Touch(t, p.cid)
           v == [u EXCEPT !.seq = @ + 1, !.age = 0, !.got = Append(@, [cid |-> p.cid, part |-> p.n + 1])]
<1>2. Alike(t, u) /\ SessionOK(u)
  BY TableAlike, AlikeOK
<1>3. t.active => \A x \in CompleteIfReady(v) : Handles(t, x)
  <2> HIDE DEF u
  <2>1. \A a, b, c : Alike(u, [u EXCEPT !.seq = a, !.age = b, !.got = c])
    BY <1>2 DEF SessionOK, Alike, Blank
  <2>2. Alike(u, v)
    BY <2>1
  <2> HIDE DEF v
  <2>3. Alike(t, v) /\ SessionOK(v)
    BY <1>2, <2>2, AlikeOK DEF Alike
  <2>4. t.active => v.active /\ (v.cancel => t.active /\ t.cancel) /\ (~v.stopping \/ t.stopping)
    BY <2>3 DEF Alike, SessionOK
  <2> QED BY <2>3, <2>4, CompleteHandles
<1> HIDE DEF v
<1>4. o = Quiet(t) \/ (\E what : o = Answer(Reset(t), p.cid, what)) \/ (t.active /\ o \in CompleteIfReady(v))
  BY DEF HandleContPacket, v
<1> QED BY <1>1, <1>3, <1>4

\* INIT that ends a request.
LEMMA EndsHandles ==
    ASSUME NEW t, SessionOK(t), t.processing, NEW u, Alike(t, u), NEW v, NEW o,
           DOMAIN v = DOMAIN Blank, v.active = u.active, v.processing = FALSE, v.cancel \in {u.cancel, TRUE},
           v.stopping = u.stopping, v.gen = u.gen + 1, v.cid = u.cid, v.cmd = u.cmd,
           o.s = v, o.cancels = TRUE, o.dispatches = FALSE
    PROVE  Handles(t, o)
<1>1. SessionOK(u) /\ ~t.active
  BY AlikeOK DEF SessionOK
<1>2. SessionOK(v) /\ ~v.active
  <2>1. v.active = FALSE /\ v.stopping \in BOOLEAN /\ v.cancel \in BOOLEAN /\ v.processing = FALSE
    BY <1>1 DEF SessionOK, Alike
  <2>2. v.gen \in Nat /\ v.cid \in Cid \cup {NoCid, Broadcast} /\ v.cmd \in Command
    BY <1>1 DEF SessionOK
  <2> QED BY <2>1, <2>2 DEF SessionOK
<1> QED BY <1>1, <1>2 DEF Handles, Alike, SessionOK

\* INIT on the channel of the request.
LEMMA ResyncHandles ==
    ASSUME NEW t, SessionOK(t), t.processing, NEW p, NEW o \in Resync(t, p)
    PROVE  Handles(t, o)
<1> DEFINE u == Touch(t, p.cid)
           v == [u EXCEPT !.processing = FALSE, !.gen = @ + 1]
           x == [Answer(v, p.cid, "INIT") EXCEPT !.cancels = TRUE]
<1>1. Alike(t, t) /\ Alike(t, u)
  BY TableAlike
<1>2. DOMAIN u = DOMAIN Blank
  BY <1>1 DEF Alike, SessionOK
<1> HIDE DEF u
<1>3. /\ DOMAIN v = DOMAIN Blank /\ v.active = u.active /\ v.processing = FALSE /\ v.cancel = u.cancel
      /\ v.stopping = u.stopping /\ v.gen = u.gen + 1 /\ v.cid = u.cid /\ v.cmd = u.cmd
  BY <1>2 DEF Blank
<1>4. x.s = v /\ x.cancels = TRUE /\ x.dispatches = FALSE
  BY DEF Answer
<1> HIDE DEF v, x
<1>5. Handles(t, x)
  BY <1>1, <1>3, <1>4, EndsHandles
<1>6. o = x \/ \E what : o = Answer(t, p.cid, what)
  BY DEF Resync, x, v, u
<1> QED BY <1>1, <1>5, <1>6, AnswerHandles

\* INIT on the broadcast channel during a request.
LEMMA RecoverHandles ==
    ASSUME NEW t, SessionOK(t), t.processing, NEW p, NEW o \in Recover(t, p)
    PROVE  Handles(t, o)
<1> DEFINE V(u) == [u EXCEPT !.processing = FALSE, !.cancel = TRUE, !.gen = @ + 1]
           X(u) == [Answer(V(u), p.cid, "INIT") EXCEPT !.cancels = TRUE]
<1>1. ASSUME NEW u, Alike(t, u) PROVE Handles(t, X(u))
  <2>1. DOMAIN u = DOMAIN Blank
    BY <1>1 DEF Alike, SessionOK
  <2>2. /\ DOMAIN V(u) = DOMAIN Blank /\ V(u).active = u.active /\ V(u).processing = FALSE
        /\ V(u).cancel = TRUE /\ V(u).stopping = u.stopping /\ V(u).gen = u.gen + 1
        /\ V(u).cid = u.cid /\ V(u).cmd = u.cmd
    BY <2>1 DEF Blank
  <2>3. X(u).s = V(u) /\ X(u).cancels = TRUE /\ X(u).dispatches = FALSE
    BY DEF Answer
  <2> HIDE DEF V, X
  <2> QED BY <1>1, <2>2, <2>3, EndsHandles
<1>2. (\E u \in Allocations(t) : o = X(u)) \/ \E what : o = Answer(t, p.cid, what)
  BY DEF Recover
<1> HIDE DEF X
<1>3. Alike(t, t) /\ \A u \in Allocations(t) : Alike(t, u)
  BY TableAlike
<1> QED BY <1>1, <1>2, <1>3, AnswerHandles

\* A report during a request, however it is read.
LEMMA InterruptHandles ==
    ASSUME NEW t, SessionOK(t), t.processing, NEW p, NEW others,
           \A x \in others : Handles(t, x), NEW o \in Interrupt(t, p, others)
    PROVE  Handles(t, o)
<1>1. \/ o = BusyOr(t, p.cid, "len") \/ o \in Cancel(t, p) \/ o \in Resync(t, p) \/ o \in Recover(t, p)
      \/ o \in others
  BY DEF Interrupt
<1>2. Handles(t, BusyOr(t, p.cid, "len"))
  BY TableAlike, AnswerHandles DEF BusyOr
<1> QED BY <1>1, <1>2, CancelHandles, ResyncHandles, RecoverHandles

\* zf_transport_session_handle_processing_control, the reader of a poll.
LEMMA ControlHandles ==
    ASSUME NEW t, SessionOK(t), t.processing, NEW p, NEW o \in Control(t, p)
    PROVE  Handles(t, o)
<1> DEFINE others == IF p.type = "init" /\ p.cid # t.cid THEN {Answer(t, p.cid, "busy")} ELSE {Quiet(t)}
<1>1. \A x \in others : Handles(t, x)
  BY TableAlike, AnswerHandles
<1>2. o \in Interrupt(t, p, others)
  BY DEF Control
<1> HIDE DEF others
<1> QED BY <1>1, <1>2, InterruptHandles

\* zf_transport_session_handle_packet.
LEMMA PacketHandles ==
    ASSUME NEW t, SessionOK(t), NEW p \in Packet, NEW o \in HandlePacket(t, p)
    PROVE  Handles(t, o)
<1> DEFINE u == RefreshLock(t)
<1>1. Alike(t, u) /\ SessionOK(u) /\ Alike(u, u)
  BY TableAlike, AlikeOK
<1> HIDE DEF u
<1>2. Handles(u, o)
  <2>1. CASE o = Answer(u, p.cid, "busy")
    BY <1>1, <2>1, AnswerHandles
  <2>2. CASE u.processing /\ o \in HandleProcessingPacket(u, p)
    <3> DEFINE others == IF p.type = "cont" THEN {Answer(u, p.cid, "seq")} ELSE {BusyOr(u, p.cid, "seq")}
    <3>1. \A x \in others : Handles(u, x)
      BY <1>1, AnswerHandles DEF BusyOr
    <3>2. o \in Interrupt(u, p, others)
      BY <2>2 DEF HandleProcessingPacket
    <3> HIDE DEF others
    <3> QED BY <1>1, <2>2, <3>1, <3>2, InterruptHandles
  <2>3. CASE ~u.processing /\ p.type = "cont" /\ o \in HandleContPacket(u, p)
    BY <1>1, <2>3, ContPacketHandles
  <2>4. CASE ~u.processing /\ p.type # "cont" /\ o \in HandleInitPacket(u, p)
    BY <1>1, <2>4, InitPacketHandles
  <2>5. \/ o = Answer(u, p.cid, "busy")
        \/ u.processing /\ o \in HandleProcessingPacket(u, p)
        \/ ~u.processing /\ p.type = "cont" /\ o \in HandleContPacket(u, p)
        \/ ~u.processing /\ p.type # "cont" /\ o \in HandleInitPacket(u, p)
    BY DEF HandlePacket, u
  <2> QED BY <2>1, <2>2, <2>3, <2>4, <2>5
<1> QED BY <1>1, <1>2 DEF Handles, Alike

\* zf_transport_session_tick leaves a request alone.
LEMMA TickOK ==
    ASSUME NEW t, SessionOK(t)
    PROVE  /\ SessionOK(Tick(t))
           /\ ~t.active => Alike(t, Tick(t))
           /\ Tick(t).active => t.active
           /\ Tick(t).cancel => t.cancel
           /\ Tick(t).stopping => t.stopping
           /\ Tick(t).processing = t.processing /\ Tick(t).gen = t.gen
<1> DEFINE u == IF t.active /\ t.age = Timeout THEN Reset(t) ELSE t
<1>1. SessionOK(u) /\ (Alike(t, u) \/ (t.active /\ Idle(u)))
  BY ResetIdle, TableAlike
<1>2. Tick(t) = RefreshLock(u)
  BY DEF Tick
<1> HIDE DEF u
<1>3. Alike(u, Tick(t)) /\ SessionOK(Tick(t))
  BY <1>1, <1>2, TableAlike, AlikeOK
<1>4. t.active => ~t.processing /\ t.gen = 0
  BY DEF SessionOK
<1>5. Tick(t).processing = t.processing /\ Tick(t).gen = t.gen
  BY <1>1, <1>3, <1>4 DEF Alike, Idle, SessionOK
<1> QED BY <1>1, <1>3, <1>5 DEF Alike, Idle

-----------------------------------------------------------------------------
(* Steps of the worker, by what they do to the stack.                      *)

\* The top frame becomes f; the requests below may have been interrupted.
Replaces(f) ==
    /\ stack' \in Seq(FrameSet) /\ Len(stack') = Len(stack) /\ stack' # << >> /\ Top' = f
    /\ \A i \in 1..Len(stack) : i < Len(stack) =>
         stack'[i] \in {stack[i], [stack[i] EXCEPT !.live = FALSE]}

\* Frames that differ in their next step only.
SameFrame(f, g) ==
    /\ g.todo = f.todo /\ g.gen = f.gen /\ g.prompt = f.prompt /\ g.live = f.live
    /\ g.committed = f.committed /\ g.status = f.status /\ g.cmd = f.cmd

\* There is one frame, or there are more.
LEMMA OneOrMore ==
    ASSUME NEW n \in Nat, n >= 1
    PROVE  /\ n < 2 => n = 1
           /\ n = 1 \/ n >= 2
           /\ n >= 2 => n # 1 /\ n - 1 \in 1..n /\ n - 1 < n /\ n - 1 + 1 = n
OBVIOUS

\* How many frames there are, for the cases of one, two and more of them.
LEMMA TwoOrMore ==
    ASSUME NEW n \in Nat
    PROVE  /\ n >= 2 => n # 1 /\ n >= 1 /\ ~(n < 2)
           /\ n >= 3 => n >= 2 /\ n # 2 /\ n # 1
           /\ n >= 2 => n = 2 \/ n >= 3
           /\ n >= 2 /\ n <= 2 => n = 2
           /\ n <= 2 /\ n # 2 => n + 1 <= 2
           /\ n = 1 => ~(n >= 2) /\ ~(n >= 3) /\ n # 2
           /\ n = 2 => n >= 2 /\ ~(n >= 3) /\ n # 1
OBVIOUS

\* The frame on top.
LEMMA TopFacts ==
    ASSUME Common, stack # << >>
    PROVE  /\ Len(stack) \in Nat /\ Len(stack) >= 1 /\ Len(stack) \in 1..Len(stack)
           /\ Top \in FrameSet
           /\ Len(stack) = 1 => MainOK(Top)
           /\ Len(stack) >= 2 => FrameOK(Top, approved)
           /\ Top.pc \in {"try", "step", "drain", "end"} => Len(stack) >= 2
<1>1. stack \in Seq(FrameSet)
  BY DEF Common
<1>2. Len(stack) \in Nat /\ Len(stack) >= 1 /\ Len(stack) \in 1..Len(stack)
  BY <1>1, EmptySeq, LenProperties
<1>3. Top \in FrameSet
  BY <1>1, <1>2, ElementOfSeq DEF Top
<1>4. Len(stack) = 1 => MainOK(Top)
  BY DEF Common, Top
<1>5. Len(stack) >= 2 => FrameOK(Top, approved)
  BY <1>2 DEF Common, Top
<1>6. Top.pc \in {"try", "step", "drain", "end"} => Len(stack) >= 2
  <2>1. Len(stack) < 2 => Top.pc \in Reading \cup {"exit"}
    <3>1. Len(stack) < 2 => Len(stack) = 1
      BY <1>2, OneOrMore, Zenon
    <3> QED BY <1>4, <3>1, Zenon DEF MainOK
  <2> QED BY <1>2, <2>1 DEF Reading
<1> QED BY <1>2, <1>3, <1>4, <1>5, <1>6

\* With replaces the frame on top, and Stale(With) does and interrupts the rest.
LEMMA WithReplaces ==
    ASSUME Common, stack # << >>, NEW f \in FrameSet, stack' = With(f)
    PROVE  Replaces(f)
<1>1. stack \in Seq(FrameSet)
  BY DEF Common
<1>2. stack' = [stack EXCEPT ![Len(stack)] = f]
  BY DEF With
<1>3. /\ stack' \in Seq(FrameSet) /\ Len(stack') = Len(stack) /\ stack' # << >>
      /\ stack'[Len(stack)] = f
      /\ \A i \in 1..Len(stack) : i < Len(stack) => stack'[i] = stack[i]
  BY <1>1, <1>2, Put
<1>4. Top' = f
  BY <1>3, Zenon DEF Top
<1> QED BY <1>3, <1>4, Zenon DEF Replaces

\* The same where every request is interrupted.
LEMMA StaleReplaces ==
    ASSUME Common, stack # << >>, NEW f \in FrameSet, stack' = Stale(With(f))
    PROVE  Replaces([f EXCEPT !.live = FALSE]) /\ [f EXCEPT !.live = FALSE] \in FrameSet
<1> DEFINE q == With(f)
<1>1. stack \in Seq(FrameSet)
  BY DEF Common
<1>2. q = [stack EXCEPT ![Len(stack)] = f]
  BY DEF With
<1> HIDE DEF q
<1>3. /\ q \in Seq(FrameSet) /\ Len(q) = Len(stack)
      /\ q[Len(stack)] = f
      /\ \A i \in 1..Len(stack) : i < Len(stack) => q[i] = stack[i]
  BY <1>1, <1>2, Put
<1>4. /\ stack' \in Seq(FrameSet) /\ Len(stack') = Len(q)
      /\ \A i \in 1..Len(q) : stack'[i] = [q[i] EXCEPT !.live = FALSE]
  BY <1>3, StaleFrames DEF q
<1>5. Len(stack') # 0 /\ Len(stack) \in 1..Len(stack)
  BY <1>3, <1>4, TopFacts
<1>6. stack' # << >>
  BY <1>5, NonEmpty, Zenon
<1>7. Top' = [f EXCEPT !.live = FALSE]
  BY <1>3, <1>4, <1>5, Zenon DEF Top
<1>8. \A i \in 1..Len(stack) : i < Len(stack) => stack'[i] = [stack[i] EXCEPT !.live = FALSE]
  BY <1>3, <1>4, Zenon
<1>9. [f EXCEPT !.live = FALSE] \in FrameSet
  BY DEF FrameSet
<1> QED BY <1>3, <1>4, <1>6, <1>7, <1>8, <1>9, Zenon DEF Replaces

\* The next step of the frame on top.
LEMMA GotoFrame ==
    ASSUME Common, stack # << >>, NEW x \in Steps, stack' = Goto(x)
    PROVE  \E f \in FrameSet : Replaces(f) /\ f.pc = x /\ SameFrame(Top, f)
<1> DEFINE f == [Top EXCEPT !.pc = x]
<1>1. f \in FrameSet /\ f.pc = x /\ SameFrame(Top, f)
  BY TopFacts DEF FrameSet, SameFrame
<1>2. Replaces(f)
  BY <1>1, WithReplaces DEF Goto
<1> QED BY <1>1, <1>2

\* The request on top fails.
LEMMA FailFrame ==
    ASSUME Common, stack # << >>, NEW st \in Statuses, stack' = Fail(st)
    PROVE  \E f \in FrameSet : /\ Replaces(f) /\ f.pc = "end" /\ f.status = st
                               /\ f.todo = Top.todo /\ f.gen = Top.gen /\ f.prompt = Top.prompt
                               /\ f.live = Top.live /\ f.committed = Top.committed
<1> DEFINE f == [Top EXCEPT !.pc = "end", !.status = st]
<1>1. /\ f \in FrameSet /\ f.pc = "end" /\ f.status = st /\ f.todo = Top.todo /\ f.gen = Top.gen
      /\ f.prompt = Top.prompt /\ f.live = Top.live /\ f.committed = Top.committed
  BY TopFacts DEF FrameSet, Steps
<1>2. Replaces(f)
  BY <1>1, WithReplaces DEF Fail
<1> QED BY <1>1, <1>2

\* The next step of a frame whose request was interrupted.
LEMMA StaleGotoFrame ==
    ASSUME Common, stack # << >>, NEW x \in Steps, stack' = Stale(Goto(x))
    PROVE  \E f \in FrameSet : /\ Replaces(f) /\ f.pc = x /\ ~f.live
                               /\ f.todo = Top.todo /\ f.gen = Top.gen /\ f.prompt = Top.prompt
                               /\ f.committed = Top.committed /\ f.status = Top.status
<1> DEFINE g == [Top EXCEPT !.pc = x]
           f == [g EXCEPT !.live = FALSE]
<1>1. g \in FrameSet /\ g.pc = x /\ SameFrame(Top, g)
  BY TopFacts DEF FrameSet, SameFrame
<1>2. stack' = Stale(With(g))
  BY DEF Goto
<1> HIDE DEF g
<1>3. Replaces(f) /\ f \in FrameSet
  BY <1>1, <1>2, StaleReplaces
<1>4. /\ f.pc = x /\ ~f.live /\ f.todo = Top.todo /\ f.gen = Top.gen /\ f.prompt = Top.prompt
      /\ f.committed = Top.committed /\ f.status = Top.status
  BY <1>1 DEF FrameSet, SameFrame
<1> QED BY <1>3, <1>4

\* The request on top was interrupted and fails.
LEMMA StaleFailFrame ==
    ASSUME Common, stack # << >>, NEW st \in Statuses, stack' = Stale(Fail(st))
    PROVE  \E f \in FrameSet : /\ Replaces(f) /\ f.pc = "end" /\ f.status = st /\ ~f.live
                               /\ f.todo = Top.todo /\ f.gen = Top.gen /\ f.prompt = Top.prompt
                               /\ f.committed = Top.committed
<1> DEFINE g == [Top EXCEPT !.pc = "end", !.status = st]
           f == [g EXCEPT !.live = FALSE]
<1>1. /\ g \in FrameSet /\ g.pc = "end" /\ g.status = st /\ g.todo = Top.todo /\ g.gen = Top.gen
      /\ g.prompt = Top.prompt /\ g.committed = Top.committed
  BY TopFacts DEF FrameSet, Steps
<1>2. stack' = Stale(With(g))
  BY DEF Fail
<1> HIDE DEF g
<1>3. Replaces(f) /\ f \in FrameSet
  BY <1>1, <1>2, StaleReplaces
<1>4. /\ f.pc = "end" /\ ~f.live /\ f.status = st /\ f.todo = Top.todo /\ f.gen = Top.gen
      /\ f.prompt = Top.prompt /\ f.committed = Top.committed
  BY <1>1 DEF FrameSet
<1> QED BY <1>3, <1>4

\* A step of the program is done.
LEMMA AdvanceFrame ==
    ASSUME Common, stack # << >>, Top.todo # << >>, stack' = Advance
    PROVE  \E f \in FrameSet : /\ Replaces(f) /\ f.todo = Tail(Top.todo)
                               /\ f.pc = IF Len(Top.todo) = 1 THEN "end" ELSE "step"
                               /\ f.gen = Top.gen /\ f.prompt = Top.prompt /\ f.live = Top.live
                               /\ f.committed = Top.committed /\ f.status = Top.status
<1> DEFINE x == IF Len(Top.todo) = 1 THEN "end" ELSE "step"
           f == [Top EXCEPT !.todo = Tail(@), !.pc = x]
<1>1. x \in Steps
  BY DEF Steps
<1>2. Tail(Top.todo) \in Plan
  <2>1. Top.todo \in Plan
    BY TopFacts DEF FrameSet
  <2> QED BY <2>1, Plans DEF Plan
<1>3. stack' = With(f)
  BY DEF Advance
<1> HIDE DEF x
<1>4. /\ f \in FrameSet /\ f.pc = x /\ f.todo = Tail(Top.todo) /\ f.gen = Top.gen /\ f.prompt = Top.prompt
      /\ f.live = Top.live /\ f.committed = Top.committed /\ f.status = Top.status
  BY <1>1, <1>2, TopFacts DEF FrameSet
<1>5. Replaces(f)
  BY <1>3, <1>4, WithReplaces
<1> QED BY <1>4, <1>5 DEF x

\* An interrupted request is as sound as before.
LEMMA StaleOK ==
    ASSUME NEW f \in FrameSet, NEW g \in {f, [f EXCEPT !.live = FALSE]}, NEW A, NEW B, A \subseteq B
    PROVE  /\ g.pc = f.pc /\ g.prompt = f.prompt
           /\ MainOK(f) => MainOK(g)
           /\ FrameOK(f, A) => FrameOK(g, B)
<1>1. /\ g.pc = f.pc /\ g.prompt = f.prompt /\ g.todo = f.todo /\ g.status = f.status
      /\ g.committed = f.committed
  BY DEF FrameSet
<1> QED BY <1>1 DEF MainOK, FrameOK

\* What a step has to leave behind: for the data it shares with others, for
\* the frame f that it leaves on top, and for f in each of the two cases.
Shared ==
    /\ SessionOK(s') /\ rx' \in Seq(Packet) /\ approved \subseteq approved'
    /\ DOMAIN prompt' = {"state", "id"} /\ prompt'.id \in Nat /\ done' \in {0, 1}
    /\ prompt'.state = "approved" => prompt'.id \in approved'

Fits(f) ==
    /\ Len(stack) = 1 => MainOK(f)
    /\ Len(stack) >= 2 => FrameOK(f, approved')
    /\ f.pc = "drain" => s'.processing

Eased(f) ==
    /\ ~s'.stopping /\ f.pc # "exit"
    /\ s'.active => ~s'.cancel
    /\ s'.cancel \/ done' = 1 => prompt'.state # "pending"
    /\ Len(stack) >= 2 => Calm(f, s', prompt', done')
    /\ Len(stack) >= 3 => Held(f, stack[Len(stack) - 1].prompt, s', prompt', done')

Joined(f) == Len(stack) = 2 => Linked(f, s', prompt', done')

\* A step that replaces the frame on top.
LEMMA ReplacePreserves ==
    ASSUME IInv, stack # << >>, NEW f \in FrameSet, Replaces(f), UNCHANGED answer,
           Shared, Fits(f),
           Leaving = {} => UNCHANGED <<ui, running>> /\ "stop" \notin flags' /\ Eased(f),
           MaxUnplugs = 0 => /\ unplugs' = 0 /\ flags' \subseteq {"stop"} /\ connected'
                             /\ Joined(f)
    PROVE  IInv'
<1> DEFINE n == Len(stack)
<1>1. Common /\ stack \in Seq(FrameSet) /\ n \in Nat /\ n >= 1
  BY TopFacts DEF IInv, Common
<1>2. /\ stack' \in Seq(FrameSet) /\ Len(stack') = n /\ stack' # << >> /\ Top' = f /\ stack'[n] = f
      /\ \A i \in 1..n : i < n => stack'[i] \in {stack[i], [stack[i] EXCEPT !.live = FALSE]}
  BY DEF Replaces, Top
<1>3. ASSUME NEW i \in 1..n, i < n
      PROVE  /\ stack'[i].pc = stack[i].pc /\ stack'[i].prompt = stack[i].prompt
             /\ MainOK(stack[i]) => MainOK(stack'[i])
             /\ FrameOK(stack[i], approved) => FrameOK(stack'[i], approved')
  <2>1. stack[i] \in FrameSet
    BY <1>1, ElementOfSeq
  <2>2. stack'[i] \in {stack[i], [stack[i] EXCEPT !.live = FALSE]}
    BY <1>2, <1>3, Zenon
  <2> QED BY <2>1, <2>2, StaleOK DEF Shared
<1> HIDE DEF n
<1>4. \A i \in 1..n : i < n => stack'[i].pc = "handled"
  BY <1>1, <1>3 DEF Common, n
<1>5. MainOK(stack'[1])
  <2>1. CASE n = 1
    BY <1>2, <2>1 DEF n, Fits
  <2>2. CASE n # 1
    <3>1. 1 \in 1..n /\ 1 < n
      BY <1>1, <2>2
    <3> QED BY <1>1, <1>3, <3>1 DEF Common
  <2> QED BY <2>1, <2>2
<1>6. ASSUME NEW i \in 2..n PROVE FrameOK(stack'[i], approved')
  <2>1. CASE i = n
    BY <1>1, <1>2, <2>1 DEF n, Fits
  <2>2. CASE i # n
    <3>1. i \in 1..n /\ i < n
      BY <1>1, <2>2
    <3>2. FrameOK(stack[i], approved)
      BY <1>1 DEF Common, n
    <3> QED BY <1>3, <3>1, <3>2
  <2> QED BY <2>1, <2>2
<1>7. Common'
  BY <1>2, <1>4, <1>5, <1>6 DEF Common, Shared, Fits
<1>8. Leaving = {} => Undisturbed' /\ FailureMeansNoCommit'
  <2> SUFFICES ASSUME Leaving = {} PROVE Undisturbed' /\ FailureMeansNoCommit'
    OBVIOUS
  <2>1. Undisturbed /\ FailureMeansNoCommit
    BY DEF IInv
  <2>2. n >= 3 => stack'[n - 1].prompt = stack[n - 1].prompt
    <3>1. n >= 3 => n - 1 \in 1..n /\ n - 1 < n
      BY <1>1
    <3> QED BY <1>3, <3>1
  <2>3. n >= 3 => Held(f, stack'[n - 1].prompt, s', prompt', done')
    BY <2>2 DEF n, Eased
  <2>4. FailureMeansNoCommit'
    BY <2>1 DEF FailureMeansNoCommit
  <2> QED BY <1>2, <2>1, <2>3, <2>4 DEF Undisturbed, n, Eased
<1>9. MaxUnplugs = 0 => Plugged' /\ NoLateResponse'
  <2> SUFFICES ASSUME MaxUnplugs = 0 PROVE Plugged' /\ NoLateResponse'
    OBVIOUS
  <2>1. Plugged /\ NoLateResponse
    BY DEF IInv
  <2>2. NoLateResponse'
    BY <2>1 DEF NoLateResponse
  <2> QED BY <1>2, <2>1, <2>2 DEF Plugged, n, Joined
<1> QED BY <1>7, <1>8, <1>9 DEF IInv

\* The parts of the invariant.
LEMMA Parts ==
    ASSUME IInv
    PROVE  /\ Common /\ SessionOK(s) /\ rx \in Seq(Packet) /\ stack \in Seq(FrameSet)
           /\ DOMAIN prompt = {"state", "id"} /\ prompt.id \in Nat /\ done \in {0, 1}
           /\ prompt.state = "approved" => prompt.id \in approved
           /\ stack # << >> /\ Top.pc = "drain" => s.processing
           /\ Leaving = {} => /\ Undisturbed
                              /\ ui = "free" /\ running /\ "stop" \notin flags /\ ~s.stopping
                              /\ stack # << >> /\ Top.pc # "exit" /\ ~StopRequested
                              /\ s.active => ~s.cancel
                              /\ s.cancel \/ done = 1 => prompt.state # "pending"
                              /\ Len(stack) >= 2 => Calm(Top, s, prompt, done)
                              /\ Len(stack) >= 3 => Held(Top, stack[Len(stack) - 1].prompt, s, prompt, done)
           /\ MaxUnplugs = 0 => /\ Plugged
                                /\ unplugs = 0 /\ flags \subseteq {"stop"} /\ Len(stack) <= 2
                                /\ stack # << >> => connected
                                /\ Len(stack) = 2 => Linked(Top, s, prompt, done)
BY DEF IInv, Common, Undisturbed, Plugged, StopRequested

\* A step that replaces the frame on top and touches only the session besides.
LEMMA StepPreserves ==
    ASSUME IInv, stack # << >>, NEW f \in FrameSet, Replaces(f),
           UNCHANGED <<flags, connected, prompt, done, link, leaving, approved, answer>>,
           SessionOK(s'), Fits(f),
           Leaving = {} => Eased(f),
           MaxUnplugs = 0 => Joined(f)
    PROVE  IInv'
<1>1. UNCHANGED <<flags, connected, prompt, done, rx, sent, unplugs, running, ui, stops, approved, answer>>
  BY DEF link, leaving
<1>2. Shared
  BY <1>1, Parts DEF Shared
<1>3. Leaving = {} => UNCHANGED <<ui, running>> /\ "stop" \notin flags'
  BY <1>1, Parts
<1>4. MaxUnplugs = 0 => unplugs' = 0 /\ flags' \subseteq {"stop"} /\ connected'
  BY <1>1, Parts
<1>5. UNCHANGED answer
  BY <1>1
<1> QED BY <1>2, <1>3, <1>4, <1>5, ReplacePreserves, Zenon

\* The frame of a request, and that of the main loop.
LEMMA FitsRequest ==
    ASSUME NEW f, Len(stack) \in Nat, Len(stack) >= 2, FrameOK(f, approved'), f.pc # "drain" \/ s'.processing
    PROVE  Fits(f)
<1>1. Len(stack) # 1
  BY TwoOrMore, Zenon
<1> QED BY <1>1, Zenon DEF Fits

\* The frame of the main loop.
LEMMA FitsMain ==
    ASSUME NEW f, Len(stack) = 1, MainOK(f)
    PROVE  Fits(f)
<1>1. ~(Len(stack) >= 2)
  OBVIOUS
<1>2. f.pc # "drain"
  BY DEF MainOK, Reading
<1> QED BY <1>1, <1>2, Zenon DEF Fits

\* A new prompt has a number of its own and an empty semaphore; the prompt of the
\* request below was finished before this one began.
LEMMA AskPreserves == ASSUME IInv, Ask PROVE IInv'
<1>1. /\ stack # << >> /\ Top.pc = "step" /\ Head(Top.todo) = "ask"
      /\ UNCHANGED <<s, flags, connected, link, leaving, approved, answer>>
  BY DEF Ask, AtStep, At
<1>2. /\ Common /\ Len(stack) \in Nat /\ Len(stack) >= 2 /\ Top \in FrameSet /\ FrameOK(Top, approved)
  BY <1>1, Parts, TopFacts
<1>3. Top.todo \in {MakeAsk, ResetAsk} /\ ~Top.committed
  BY <1>1, <1>2, Plans, PlansDiffer DEF FrameOK, FrameSet, Plan
<1>4. MaxUnplugs = 0 => (Len(stack) = 2 => Linked(Top, s, prompt, done) /\ Top.live)
  BY <1>1, <1>3, Parts, PlansDiffer DEF Linked
<1>5. CASE ~running /\ stack' = Fail("timeout") /\ UNCHANGED <<prompt, done>>
  <2>1. PICK f \in FrameSet : /\ Replaces(f) /\ f.pc = "end" /\ f.status = "timeout"
                              /\ f.todo = Top.todo /\ f.gen = Top.gen /\ f.prompt = Top.prompt
                              /\ f.live = Top.live /\ f.committed = Top.committed
    BY <1>1, <1>2, <1>5, FailFrame DEF Statuses
  <2>2. Fits(f)
    <3>1. FrameOK(f, approved')
      BY <1>1, <1>2, <1>3, <2>1, PlansDiffer DEF FrameOK
    <3>2. f.pc # "drain"
      BY <2>1
    <3> QED BY <1>2, <3>1, <3>2, FitsRequest, Zenon
  <2>3. MaxUnplugs = 0 => Joined(f)
    BY <1>1, <1>4, <1>5, <2>1 DEF Linked, Reading, Joined
  <2>4. Leaving # {}
    BY <1>5, Parts
  <2>5. SessionOK(s') /\ UNCHANGED <<flags, connected, prompt, done, link, leaving, approved, answer>>
    BY <1>1, <1>5, Parts
  <2> QED BY <1>1, <2>1, <2>2, <2>3, <2>4, <2>5, StepPreserves, Zenon
<1>6. CASE /\ running /\ prompt' = [state |-> "pending", id |-> prompt.id + 1] /\ done' = 0
           /\ stack' = With([Top EXCEPT !.pc = "try", !.prompt = prompt.id + 1])
  <2> DEFINE f == [Top EXCEPT !.pc = "try", !.prompt = prompt.id + 1]
  <2>1. /\ f \in FrameSet /\ f.pc = "try" /\ f.prompt = prompt.id + 1 /\ f.status = Top.status
        /\ f.todo = Top.todo /\ f.gen = Top.gen /\ f.live = Top.live /\ f.committed = Top.committed
    <3>1. prompt.id + 1 \in Nat
      BY Parts
    <3> HIDE DEF FrameOK
    <3> QED BY <1>2, <3>1 DEF FrameSet, Steps
  <2>2. Replaces(f)
    BY <1>1, <1>2, <1>6, <2>1, WithReplaces
  <2> HIDE DEF f
  <2>3. /\ DOMAIN prompt' = {"state", "id"} /\ prompt'.id = prompt.id + 1 /\ prompt'.state = "pending"
        /\ prompt'.id \in Nat
    BY <1>6, Parts
  <2>4. Fits(f)
    <3>1. FrameOK(f, approved')
      BY <1>1, <1>2, <1>3, <2>1, PlansDiffer DEF FrameOK, Reading
    <3>2. f.pc # "drain"
      BY <2>1
    <3> QED BY <1>2, <3>1, <3>2, FitsRequest, Zenon
  <2>5. MaxUnplugs = 0 => Joined(f)
    BY <1>1, <1>4, <2>1, <2>3 DEF Linked, Reading, Joined
  <2>6. Leaving = {} => Eased(f)
    <3> SUFFICES ASSUME Leaving = {} PROVE Eased(f)
      OBVIOUS
    <3>1. ~s.cancel
      BY <1>1, <1>2, Parts DEF Calm
    <3>2. Calm(f, s', prompt', done')
      BY <1>1, <1>3, <2>1, <2>3, <3>1 DEF Calm, Own
    <3>3. \A id : Held(f, id, s', prompt', done')
      BY <2>1 DEF Held
    <3>4. ~s'.stopping /\ f.pc # "exit" /\ ~s'.cancel /\ done' = 0
      BY <1>1, <1>6, <2>1, <3>1, Parts
    <3> QED BY <3>2, <3>3, <3>4 DEF Eased
  <2>7. UNCHANGED <<ui, running, unplugs, rx, flags, connected, approved, answer, s>>
    BY <1>1 DEF link, leaving
  <2>8. Shared
    BY <1>6, <2>3, <2>7, Parts DEF Shared
  <2>9. /\ Leaving = {} => UNCHANGED <<ui, running>> /\ "stop" \notin flags'
        /\ MaxUnplugs = 0 => unplugs' = 0 /\ flags' \subseteq {"stop"} /\ connected'
        /\ UNCHANGED answer
    BY <1>1, <2>7, Parts
  <2> QED BY <1>1, <2>1, <2>2, <2>4, <2>5, <2>6, <2>8, <2>9, ReplacePreserves, Zenon
<1> QED BY <1>5, <1>6 DEF Ask

\* A step of the worker that replaces the frame on top and takes flags.
LEMMA MovePreserves ==
    ASSUME IInv, stack # << >>, NEW f \in FrameSet, Replaces(f),
           UNCHANGED <<unplugs, leaving, answer>>, flags' \subseteq flags,
           Shared, Fits(f),
           Leaving = {} => Eased(f),
           MaxUnplugs = 0 => connected' /\ Joined(f)
    PROVE  IInv'
<1>1. UNCHANGED <<ui, running, unplugs, answer>>
  BY DEF leaving
<1>2. Leaving = {} => "stop" \notin flags'
  BY Parts
<1>3. MaxUnplugs = 0 => unplugs' = 0 /\ flags' \subseteq {"stop"}
  BY <1>1, Parts
<1>4. UNCHANGED answer /\ UNCHANGED <<ui, running>>
  BY <1>1
<1> QED BY <1>2, <1>3, <1>4, ReplacePreserves, Zenon

\* A worker that can be stopped has a cable that stays in its place.
Steady == Leaving = {} \/ MaxUnplugs = 0

\* The signal the wait finds belongs to its own prompt.
LEMMA OwnSignal ==
    ASSUME IInv, Steady, stack # << >>, Top.pc = "try", done = 1
    PROVE  prompt.id = Top.prompt
<1>1. Len(stack) \in Nat /\ Len(stack) >= 2
  BY Parts, TopFacts
<1>2. CASE Leaving = {}
  <2>1. Calm(Top, s, prompt, done)
    BY <1>1, <1>2, Parts, Zenon
  <2> QED BY <2>1 DEF Calm, Own
<1>3. CASE MaxUnplugs = 0
  <2>1. Len(stack) <= 2
    BY <1>3, Parts, Zenon
  <2>2. Len(stack) = 2
    BY <1>1, <2>1, TwoOrMore, Zenon
  <2>3. Linked(Top, s, prompt, done)
    BY <1>3, <2>2, Parts, Zenon
  <2> QED BY <2>3 DEF Linked
<1> QED BY <1>2, <1>3 DEF Steady

\* A request between two steps of its plan.
LEMMA StepFits ==
    ASSUME NEW f, Len(stack) \in Nat, Len(stack) >= 2, f.pc = "step", f.todo # << >>, f.status = "ok", ~f.committed,
           f.todo \in {LastPoll, LastStep} => f.prompt \in approved'
    PROVE  Fits(f)
<1>1. f.pc \notin Reading \cup {"try"} /\ f.pc # "drain" /\ f.pc # "end"
  BY DEF Reading
<1>2. FrameOK(f, approved')
  BY <1>1, Zenon DEF FrameOK
<1> QED BY <1>1, <1>2, FitsRequest, Zenon

\* The answer that is taken is the one to the own prompt, and once it is taken
\* there is nothing left for the request below to mistake for its own.
LEMMA TryResultPreserves == ASSUME IInv, Steady, TryResult PROVE IInv'
<1>1. /\ stack # << >> /\ Top.pc = "try" /\ done' = 0
      /\ UNCHANGED <<s, flags, connected, prompt, link, leaving, approved, answer>>
  BY DEF TryResult, At
<1>2. /\ Common /\ Len(stack) \in Nat /\ Len(stack) >= 2 /\ Top \in FrameSet /\ FrameOK(Top, approved)
  BY <1>1, Parts, TopFacts
<1>3. Top.todo \in {MakeAsk, ResetAsk} /\ ~Top.committed /\ Top.todo # << >>
  BY <1>1, <1>2, PlansDiffer DEF FrameOK
<1>4. UNCHANGED <<s, flags, connected, prompt, rx, unplugs, approved, answer>>
  BY <1>1 DEF link
<1>5. Shared
  BY <1>1, <1>4, Parts DEF Shared
<1>6. UNCHANGED <<unplugs, leaving, answer>> /\ flags' \subseteq flags
  BY <1>1, <1>4
<1>7. MaxUnplugs = 0 => connected' /\ (Len(stack) = 2 => Linked(Top, s, prompt, done))
  BY <1>1, <1>4, Parts
<1>8. Leaving = {} => /\ Calm(Top, s, prompt, done) /\ ~s'.stopping /\ (s'.active => ~s'.cancel)
                      /\ s'.cancel => prompt'.state # "pending"
                      /\ done = 1 => prompt'.state # "pending"
  BY <1>2, <1>4, Parts
<1>9. CASE done = 0 /\ stack' = Goto("wait")
  <2>1. PICK f \in FrameSet : Replaces(f) /\ f.pc = "wait" /\ SameFrame(Top, f)
    BY <1>1, <1>2, <1>9, GotoFrame DEF Steps, Reading
  <2>2. FrameOK(f, approved') /\ f.pc # "drain"
    BY <1>1, <1>2, <1>3, <1>4, <2>1, PlansDiffer DEF FrameOK, SameFrame, Reading
  <2>3. Fits(f)
    BY <1>2, <2>2, FitsRequest, Zenon
  <2>4. Leaving = {} => Eased(f)
    <3> SUFFICES ASSUME Leaving = {} PROVE Eased(f)
      OBVIOUS
    <3>1. Calm(f, s', prompt', done')
      BY <1>1, <1>3, <1>4, <1>8, <1>9, <2>1 DEF Calm, Own, SameFrame
    <3>2. \A id : Held(f, id, s', prompt', done')
      BY <2>1 DEF Held
    <3>3. done' # 1 /\ f.pc # "exit"
      BY <1>1, <2>1
    <3> QED BY <1>8, <3>1, <3>2, <3>3, Zenon DEF Eased
  <2>5. MaxUnplugs = 0 => Joined(f)
    BY <1>1, <1>4, <1>7, <1>9, <2>1 DEF Joined, Linked, SameFrame, Reading
  <2> QED BY <1>1, <1>5, <1>6, <1>7, <2>1, <2>3, <2>4, <2>5, MovePreserves, Zenon
<1>10. CASE done = 1 /\ prompt.state = "approved" /\ stack' = Advance
  <2>1. PICK f \in FrameSet :
          /\ Replaces(f) /\ f.todo = Tail(Top.todo) /\ f.pc = IF Len(Top.todo) = 1 THEN "end" ELSE "step"
          /\ f.gen = Top.gen /\ f.prompt = Top.prompt /\ f.live = Top.live
          /\ f.committed = Top.committed /\ f.status = Top.status
    BY <1>1, <1>2, <1>3, <1>10, AdvanceFrame
  <2>2. f.todo \in {LastPoll, LastStep} /\ f.pc = "step"
    BY <1>3, <2>1, NextSteps, Zenon
  <2>3. f.prompt \in approved'
    BY <1>1, <1>4, <1>10, <2>1, OwnSignal, Parts
  <2>4. f.todo # << >> /\ f.status = "ok" /\ ~f.committed
    <3>1. Top.status = "ok"
      BY <1>1, <1>2 DEF FrameOK
    <3> QED BY <1>3, <2>1, <2>2, <3>1, PlansDiffer, Zenon
  <2>5. Fits(f)
    BY <1>2, <2>2, <2>3, <2>4, StepFits, Zenon
  <2>6. Leaving = {} => Eased(f)
    <3> SUFFICES ASSUME Leaving = {} PROVE Eased(f)
      OBVIOUS
    <3>1. Calm(f, s', prompt', done')
      BY <1>1, <1>3, <1>4, <1>8, <1>10, <2>1, <2>2 DEF Calm
    <3>2. \A id : Held(f, id, s', prompt', done')
      BY <2>2 DEF Held
    <3>3. done' # 1 /\ f.pc # "exit"
      BY <1>1, <2>2
    <3> QED BY <1>8, <3>1, <3>2, <3>3, Zenon DEF Eased
  <2>7. MaxUnplugs = 0 => Joined(f)
    BY <1>1, <1>4, <1>7, <2>1, <2>2 DEF Joined, Linked, Reading
  <2> QED BY <1>1, <1>5, <1>6, <1>7, <2>1, <2>5, <2>6, <2>7, MovePreserves, Zenon
<1>11. ASSUME NEW st \in Statuses, done = 1, stack' = Fail(st) PROVE IInv'
  <2>1. PICK f \in FrameSet : /\ Replaces(f) /\ f.pc = "end" /\ f.status = st
                              /\ f.todo = Top.todo /\ f.gen = Top.gen /\ f.prompt = Top.prompt
                              /\ f.live = Top.live /\ f.committed = Top.committed
    BY <1>1, <1>2, <1>11, FailFrame
  <2>2. FrameOK(f, approved') /\ f.pc # "drain"
    BY <1>2, <1>3, <2>1, PlansDiffer DEF FrameOK, Reading
  <2>3. Fits(f)
    BY <1>2, <2>2, FitsRequest, Zenon
  <2>4. Leaving = {} => Eased(f)
    <3> SUFFICES ASSUME Leaving = {} PROVE Eased(f)
      OBVIOUS
    <3>1. Calm(f, s', prompt', done')
      BY <1>3, <2>1 DEF Calm
    <3>2. \A id : Held(f, id, s', prompt', done')
      BY <1>1, <1>8, <1>11, <2>1 DEF Held, Own
    <3>3. done' # 1 /\ f.pc # "exit"
      BY <1>1, <2>1
    <3> QED BY <1>8, <3>1, <3>2, <3>3, Zenon DEF Eased
  <2>5. MaxUnplugs = 0 => Joined(f)
    BY <1>1, <1>4, <1>7, <2>1 DEF Joined, Linked, Reading
  <2> QED BY <1>1, <1>5, <1>6, <1>7, <2>1, <2>3, <2>4, <2>5, MovePreserves, Zenon
<1>12. \/ done = 0 /\ stack' = Goto("wait")
       \/ done = 1 /\ prompt.state = "approved" /\ stack' = Advance
       \/ done = 1 /\ \E st \in Statuses : stack' = Fail(st)
  BY DEF TryResult, Result, Statuses
<1> QED BY <1>9, <1>10, <1>11, <1>12

-----------------------------------------------------------------------------
(* The wait and the main loop.                                             *)

\* A frame that goes on reading, and a request that fails.
LEMMA ReadingFits ==
    ASSUME IInv, stack # << >>, Top.pc \in Reading, approved \subseteq approved',
           NEW f, f.pc \in Reading, f.todo = Top.todo, f.prompt = Top.prompt,
           f.committed = Top.committed, f.status = Top.status
    PROVE  Fits(f)
<1>1. Common /\ Len(stack) \in Nat /\ Len(stack) >= 1
  BY Parts, TopFacts
<1>2. CASE Len(stack) = 1
  <2>1. MainOK(Top)
    BY <1>1, <1>2, TopFacts, Zenon
  <2>2. MainOK(f)
    BY <2>1 DEF MainOK
  <2> QED BY <1>2, <2>2, FitsMain, Zenon
<1>3. CASE Len(stack) >= 2
  <2>1. FrameOK(Top, approved)
    BY <1>1, <1>3, TopFacts, Zenon
  <2>2. FrameOK(f, approved') /\ f.pc # "drain"
    BY <2>1 DEF FrameOK, Reading
  <2> QED BY <1>1, <1>3, <2>2, FitsRequest, Zenon
<1> QED BY <1>1, <1>2, <1>3, OneOrMore, Zenon

\* A request that fails.
LEMMA FailFits ==
    ASSUME IInv, stack # << >>, Len(stack) >= 2, ~Top.committed, approved \subseteq approved',
           NEW f, f.pc = "end", f.todo = Top.todo, f.prompt = Top.prompt, f.committed = Top.committed
    PROVE  Fits(f)
<1>1. Len(stack) \in Nat /\ FrameOK(Top, approved)
  BY Parts, TopFacts
<1>2. FrameOK(f, approved') /\ f.pc # "drain"
  BY <1>1 DEF FrameOK, Reading
<1> QED BY <1>1, <1>2, FitsRequest, Zenon

\* Only the session changes.
LEMMA SharedSession ==
    ASSUME IInv, SessionOK(s'), UNCHANGED <<prompt, done, rx, approved>>
    PROVE  Shared
BY Parts DEF Shared

\* A request that reads reports.
LEMMA Reads ==
    ASSUME IInv, stack # << >>, Top.pc \in Reading
    PROVE  /\ ~Top.committed
           /\ Leaving = {} /\ Len(stack) >= 2 =>
                /\ Top.pc \in {"wait", "request", "read"} => Own(Top.prompt, prompt, done)
                /\ Own(Top.prompt, prompt, done) \/ s.cancel
           /\ MaxUnplugs = 0 /\ Len(stack) = 2 =>
                /\ ~s.active /\ Top.gen = 1
                /\ Top.pc \in {"wait", "request", "read"} => Top.live
                /\ prompt.id = Top.prompt /\ (prompt.state = "pending" \/ done = 1)
                /\ Top.live => s.processing /\ s.gen = 1
                /\ ~Top.live => ~s.processing /\ s.gen = 2 /\ (done = 1 \/ s.cancel)
<1>1. Common /\ Len(stack) \in Nat /\ Len(stack) >= 1
  BY Parts, TopFacts
<1>2. ~Top.committed
  <2>1. Len(stack) = 1 => MainOK(Top)
    BY <1>1, TopFacts, Zenon
  <2>2. Len(stack) >= 2 => FrameOK(Top, approved)
    BY <1>1, TopFacts, Zenon
  <2>3. Top.pc # "end"
    BY DEF Reading
  <2> QED BY <1>1, <2>1, <2>2, <2>3, OneOrMore, Zenon DEF MainOK, FrameOK
<1>3. Leaving = {} /\ Len(stack) >= 2 => Calm(Top, s, prompt, done)
  BY Parts, Zenon
<1>4. MaxUnplugs = 0 /\ Len(stack) = 2 => Linked(Top, s, prompt, done)
  BY Parts, Zenon
<1>5. Leaving = {} /\ Len(stack) >= 2 =>
        /\ Top.pc \in {"wait", "request", "read"} => Own(Top.prompt, prompt, done)
        /\ Own(Top.prompt, prompt, done) \/ s.cancel
  BY <1>3 DEF Calm, Reading
<1>6. MaxUnplugs = 0 /\ Len(stack) = 2 =>
                /\ ~s.active /\ Top.gen = 1
                /\ Top.pc \in {"wait", "request", "read"} => Top.live
                /\ prompt.id = Top.prompt /\ (prompt.state = "pending" \/ done = 1)
                /\ Top.live => s.processing /\ s.gen = 1
                /\ ~Top.live => ~s.processing /\ s.gen = 2 /\ (done = 1 \/ s.cancel)
  BY <1>4 DEF Linked, Reading
<1> QED BY <1>2, <1>5, <1>6

\* A frame that goes on reading is sound in both cases.
LEMMA ReadingEased ==
    ASSUME IInv, stack # << >>, NEW f, f.pc \in Reading, ~f.committed,
           ~s'.stopping, s'.active => ~s'.cancel,
           s'.cancel \/ done' = 1 => prompt'.state # "pending",
           Len(stack) >= 2 => \/ Own(f.prompt, prompt', done')
                              \/ f.pc \in {"handled", "after"} /\ s'.cancel
    PROVE  Eased(f)
<1>1. Len(stack) >= 2 => Calm(f, s', prompt', done')
  BY DEF Calm, Reading
<1>2. \A id : Held(f, id, s', prompt', done')
  BY DEF Held, Reading
<1>3. f.pc # "exit"
  BY DEF Reading
<1> QED BY <1>1, <1>2, <1>3, Zenon DEF Eased

\* The same for a cable that stays in its place.
LEMMA ReadingJoined ==
    ASSUME IInv, stack # << >>, NEW f, f.pc \in Reading,
           Len(stack) = 2 =>
             /\ ~s'.active /\ f.gen = 1
             /\ f.live => s'.processing /\ s'.gen = 1
             /\ ~f.live => ~s'.processing /\ s'.gen = 2 /\ f.pc \in {"handled", "after"} /\ (done' = 1 \/ s'.cancel)
             /\ prompt'.id = f.prompt /\ (prompt'.state = "pending" \/ done' = 1)
    PROVE  Joined(f)
BY DEF Joined, Linked, Reading

\* The session is marked as cancelled.
LEMMA MarkOK ==
    ASSUME NEW t, SessionOK(t), NEW u, u = [t EXCEPT !.cancel = TRUE]
    PROVE  /\ SessionOK(u) /\ u.active = t.active /\ u.processing = t.processing /\ u.gen = t.gen
           /\ u.stopping = t.stopping /\ u.cancel
<1>1. /\ DOMAIN u = DOMAIN t /\ u.active = t.active /\ u.processing = t.processing /\ u.cancel = TRUE
      /\ u.stopping = t.stopping /\ u.gen = t.gen /\ u.cid = t.cid /\ u.cmd = t.cmd
  BY DEF SessionOK, Blank
<1> QED BY <1>1 DEF SessionOK

\* A stop is looked for before each report.
LEMMA CheckStopPreserves == ASSUME IInv, CheckStop PROVE IInv'
<1>1. /\ stack # << >> /\ Top.pc = "request" /\ Top.pc \in Reading
      /\ UNCHANGED <<flags, connected, prompt, done, link, leaving, approved, answer>>
      /\ Common /\ SessionOK(s) /\ approved \subseteq approved'
  BY Parts DEF CheckStop, At, Reading
<1>2. UNCHANGED <<prompt, done>>
  BY <1>1
<1>3. CASE StopRequested /\ s' = [s EXCEPT !.cancel = TRUE] /\ stack' = Goto("after")
  <2>1. /\ SessionOK(s') /\ s'.active = s.active /\ s'.processing = s.processing /\ s'.gen = s.gen
    BY <1>1, <1>3, MarkOK
  <2>2. PICK f \in FrameSet : Replaces(f) /\ f.pc = "after" /\ SameFrame(Top, f)
    BY <1>1, <1>3, GotoFrame DEF Steps, Reading
  <2>3. Fits(f)
    BY <1>1, <2>2, ReadingFits DEF SameFrame, Reading
  <2>4. Leaving # {}
    BY <1>3, Parts
  <2>5. MaxUnplugs = 0 => Joined(f)
    BY <1>1, <1>2, <2>1, <2>2, Reads, ReadingJoined DEF SameFrame, Reading
  <2> QED BY <1>1, <2>1, <2>2, <2>3, <2>4, <2>5, StepPreserves, Zenon
<1>4. CASE ~StopRequested /\ s' = s /\ stack' = Goto("read")
  <2>1. PICK f \in FrameSet : Replaces(f) /\ f.pc = "read" /\ SameFrame(Top, f)
    BY <1>1, <1>4, GotoFrame DEF Steps, Reading
  <2>2. Fits(f)
    BY <1>1, <2>1, ReadingFits DEF SameFrame, Reading
  <2>3. Leaving = {} => Eased(f)
    BY <1>1, <1>2, <1>4, <2>1, Parts, Reads, ReadingEased DEF SameFrame, Reading
  <2>4. MaxUnplugs = 0 => Joined(f)
    BY <1>1, <1>2, <1>4, <2>1, Reads, ReadingJoined DEF SameFrame, Reading
  <2> QED BY <1>1, <1>4, <2>1, <2>2, <2>3, <2>4, StepPreserves, Zenon
<1> QED BY <1>3, <1>4 DEF CheckStop

\* No report is waiting.
LEMMA NoReportPreserves == ASSUME IInv, NoReport PROVE IInv'
<1>1. /\ stack # << >> /\ Top.pc = "read" /\ Top.pc \in Reading /\ s' = s /\ stack' = Goto("after")
      /\ UNCHANGED <<flags, connected, prompt, done, link, leaving, approved, answer>>
      /\ Common /\ SessionOK(s') /\ approved \subseteq approved'
  BY Parts DEF NoReport, At, Reading
<1>2. UNCHANGED <<prompt, done>>
  BY <1>1
<1>3. PICK f \in FrameSet : Replaces(f) /\ f.pc = "after" /\ SameFrame(Top, f)
  BY <1>1, GotoFrame DEF Steps, Reading
<1>4. Fits(f)
  BY <1>1, <1>3, ReadingFits DEF SameFrame, Reading
<1>5. Leaving = {} => Eased(f)
  BY <1>1, <1>2, <1>3, Parts, Reads, ReadingEased DEF SameFrame, Reading
<1>6. MaxUnplugs = 0 => Joined(f)
  BY <1>1, <1>2, <1>3, Reads, ReadingJoined DEF SameFrame, Reading
<1> QED BY <1>1, <1>3, <1>4, <1>5, <1>6, StepPreserves, Zenon

\* The worker is back from a handled report.
LEMMA HandledPreserves == ASSUME IInv, Handled PROVE IInv'
<1> DEFINE x == IF s.active THEN "request" ELSE "after"
<1>1. /\ stack # << >> /\ Top.pc = "handled" /\ Top.pc \in Reading /\ s' = s /\ stack' = Goto(x)
      /\ UNCHANGED <<flags, connected, prompt, done, link, leaving, approved, answer>>
      /\ Common /\ SessionOK(s') /\ approved \subseteq approved'
  BY Parts DEF Handled, At, Reading
<1>2. UNCHANGED <<prompt, done>>
  BY <1>1
<1>3. PICK f \in FrameSet : Replaces(f) /\ f.pc = x /\ SameFrame(Top, f)
  BY <1>1, GotoFrame DEF Steps, Reading
<1>4. Fits(f)
  BY <1>1, <1>3, ReadingFits DEF SameFrame, Reading
<1>5. Leaving = {} => Eased(f)
  BY <1>1, <1>2, <1>3, Parts, Reads, ReadingEased DEF SameFrame, Reading
<1>6. MaxUnplugs = 0 => Joined(f)
  BY <1>1, <1>2, <1>3, Reads, ReadingJoined DEF SameFrame, Reading
<1> QED BY <1>1, <1>3, <1>4, <1>5, <1>6, StepPreserves, Zenon

\* A request that fails after it read reports, or that looks for the answer.
LEMMA EndJoined ==
    ASSUME NEW f, f.pc = "end",
           Len(stack) = 2 => /\ ~s'.active /\ f.gen = 1
                             /\ f.live => s'.processing /\ s'.gen = 1
                             /\ ~f.live => ~s'.processing /\ s'.gen = 2
    PROVE  Joined(f)
BY DEF Joined, Linked, Reading

\* A request at its end leaves to the one below either no answer or the mark of
\* cancellation.
LEMMA EndEased ==
    ASSUME NEW f, f.pc = "end", f.committed => ~s'.cancel,
           ~s'.stopping, s'.active => ~s'.cancel,
           s'.cancel \/ done' = 1 => prompt'.state # "pending",
           s'.cancel \/ (done' = 0 /\ prompt'.state # "pending")
    PROVE  Eased(f)
<1>1. Calm(f, s', prompt', done')
  BY DEF Calm
<1>2. \A id : Held(f, id, s', prompt', done')
  BY DEF Held, Own
<1>3. f.pc # "exit"
  OBVIOUS
<1> QED BY <1>1, <1>2, <1>3, Zenon DEF Eased

\* The end of a round: a cancelled request gives up here and looks for no answer.
LEMMA AfterPreserves == ASSUME IInv, After PROVE IInv'
<1>1. /\ stack # << >> /\ Top.pc = "after" /\ Top.pc \in Reading
      /\ UNCHANGED <<flags, connected, prompt, done, link, leaving, approved, answer>>
      /\ Common /\ SessionOK(s) /\ approved \subseteq approved'
  BY Parts DEF After, At, Reading
<1>2. UNCHANGED <<prompt, done>>
  BY <1>1
<1>3. Len(stack) \in Nat /\ Len(stack) >= 1
  BY <1>1, TopFacts
<1>4. CASE Len(stack) = 1 /\ StopRequested /\ s' = s /\ stack' = Goto("exit")
  <2>1. PICK f \in FrameSet : Replaces(f) /\ f.pc = "exit" /\ SameFrame(Top, f)
    BY <1>1, <1>4, GotoFrame DEF Steps
  <2>2. MainOK(Top)
    BY <1>1, <1>4, TopFacts, Zenon
  <2>3. MainOK(f)
    BY <2>1, <2>2 DEF MainOK, SameFrame
  <2>4. Fits(f)
    BY <1>4, <2>3, FitsMain, Zenon
  <2>5. Leaving # {}
    BY <1>4, Parts
  <2>6. Joined(f)
    BY <1>3, <1>4, TwoOrMore, Zenon DEF Joined
  <2> QED BY <1>1, <1>4, <2>1, <2>4, <2>5, <2>6, StepPreserves, Zenon
<1>5. CASE Len(stack) = 1 /\ ~StopRequested /\ s' = Tick(s) /\ stack' = Goto("wait")
  <2>1. PICK f \in FrameSet : Replaces(f) /\ f.pc = "wait" /\ SameFrame(Top, f)
    BY <1>1, <1>5, GotoFrame DEF Steps, Reading
  <2>2. Fits(f)
    BY <1>1, <2>1, ReadingFits DEF SameFrame, Reading
  <2>3. /\ SessionOK(s') /\ (s'.active => s.active) /\ (s'.cancel => s.cancel) /\ (s'.stopping => s.stopping)
    BY <1>1, <1>5, TickOK
  <2>4. ~(Len(stack) >= 2) /\ Len(stack) # 2
    BY <1>3, <1>5, TwoOrMore, Zenon
  <2>5. ~f.committed /\ f.pc \in Reading
    BY <1>1, <2>1, Reads DEF SameFrame, Reading
  <2>6. Leaving = {} => Eased(f)
    <3> SUFFICES ASSUME Leaving = {} PROVE Eased(f)
      OBVIOUS
    <3>1. /\ ~s'.stopping /\ (s'.active => ~s'.cancel)
          /\ s'.cancel \/ done' = 1 => prompt'.state # "pending"
      BY <1>2, <2>3, Parts
    <3> QED BY <1>1, <2>4, <2>5, <3>1, ReadingEased, Zenon
  <2>7. Joined(f)
    BY <2>4, Zenon DEF Joined
  <2> QED BY <1>1, <2>1, <2>2, <2>3, <2>6, <2>7, StepPreserves, Zenon
<1>6. CASE /\ Len(stack) # 1 /\ (StopRequested \/ s.cancel)
           /\ s' = [s EXCEPT !.cancel = TRUE] /\ stack' = Fail("timeout")
  <2>1. /\ SessionOK(s') /\ s'.active = s.active /\ s'.processing = s.processing /\ s'.gen = s.gen
        /\ s'.stopping = s.stopping /\ s'.cancel
    BY <1>1, <1>6, MarkOK
  <2>2. PICK f \in FrameSet : /\ Replaces(f) /\ f.pc = "end" /\ f.status = "timeout"
                              /\ f.todo = Top.todo /\ f.gen = Top.gen /\ f.prompt = Top.prompt
                              /\ f.live = Top.live /\ f.committed = Top.committed
    BY <1>1, <1>6, FailFrame DEF Statuses
  <2>3. ~Top.committed /\ Len(stack) >= 2
    BY <1>1, <1>3, <1>6, Reads, OneOrMore, Zenon
  <2>4. Fits(f)
    BY <1>1, <2>2, <2>3, FailFits, Zenon
  <2>5. Leaving = {} => Eased(f)
    <3> SUFFICES ASSUME Leaving = {} PROVE Eased(f)
      OBVIOUS
    <3>1. /\ ~s'.stopping /\ (s'.active => ~s'.cancel) /\ prompt'.state # "pending"
      BY <1>2, <1>6, <2>1, Parts
    <3> QED BY <2>1, <2>2, <2>3, <3>1, EndEased, Zenon
  <2>6. MaxUnplugs = 0 => Joined(f)
    BY <1>1, <2>1, <2>2, Reads, EndJoined
  <2> QED BY <1>1, <2>1, <2>2, <2>4, <2>5, <2>6, StepPreserves, Zenon
<1>7. CASE Len(stack) # 1 /\ ~(StopRequested \/ s.cancel) /\ s' = Tick(s) /\ stack' = Goto("try")
  <2>1. /\ SessionOK(s') /\ (s'.active => s.active) /\ (s'.cancel => s.cancel) /\ (s'.stopping => s.stopping)
        /\ ~s.active => Alike(s, s')
    BY <1>1, <1>7, TickOK
  <2>2. PICK f \in FrameSet : Replaces(f) /\ f.pc = "try" /\ SameFrame(Top, f)
    BY <1>1, <1>7, GotoFrame DEF Steps
  <2>3. ~Top.committed /\ Len(stack) >= 2
    BY <1>1, <1>3, <1>7, Reads, OneOrMore, Zenon
  <2>4. FrameOK(Top, approved)
    BY <1>1, <2>3, TopFacts, Zenon
  <2>5. FrameOK(f, approved') /\ f.pc # "drain"
    BY <1>1, <2>2, <2>3, <2>4 DEF FrameOK, SameFrame, Reading
  <2>6. Fits(f)
    BY <1>3, <2>3, <2>5, FitsRequest, Zenon
  <2>7. Leaving = {} => Eased(f)
    <3> SUFFICES ASSUME Leaving = {} PROVE Eased(f)
      OBVIOUS
    <3>1. /\ ~s'.stopping /\ ~s'.cancel /\ (done' = 1 => prompt'.state # "pending")
      BY <1>2, <1>7, <2>1, Parts
    <3>2. Own(f.prompt, prompt', done')
      BY <1>1, <1>2, <1>7, <2>2, <2>3, Reads DEF SameFrame
    <3>3. Calm(f, s', prompt', done')
      BY <2>2, <2>3, <3>1, <3>2 DEF Calm, SameFrame
    <3>4. \A id : Held(f, id, s', prompt', done')
      BY <2>2 DEF Held
    <3>5. f.pc # "exit"
      BY <2>2
    <3> QED BY <3>1, <3>3, <3>4, <3>5, Zenon DEF Eased
  <2>8. MaxUnplugs = 0 => Joined(f)
    <3> SUFFICES ASSUME MaxUnplugs = 0, Len(stack) = 2 PROVE Linked(f, s', prompt', done')
      BY DEF Joined
    <3>1. /\ ~s'.active /\ s'.processing = s.processing /\ s'.gen = s.gen
          /\ f.gen = 1 /\ prompt'.id = f.prompt /\ (prompt'.state = "pending" \/ done' = 1)
          /\ f.live => s.processing /\ s.gen = 1
          /\ ~f.live => ~s.processing /\ s.gen = 2 /\ done' = 1
      BY <1>1, <1>2, <1>7, <2>1, <2>2, Reads DEF Alike, SameFrame
    <3> QED BY <2>2, <3>1 DEF Linked
  <2> QED BY <1>1, <2>1, <2>2, <2>6, <2>7, <2>8, StepPreserves, Zenon
<1> QED BY <1>4, <1>5, <1>6, <1>7 DEF After, InMain

\* zerofido_ui_finish_interaction_locked.
LEMMA FinishFacts ==
    ASSUME IInv, NEW x, x # "pending", Finish(x)
    PROVE  /\ DOMAIN prompt' = {"state", "id"} /\ prompt'.id = prompt.id /\ prompt'.id \in Nat
           /\ done' \in {0, 1} /\ prompt'.state # "pending"
           /\ prompt'.state = "approved" => prompt.state = "approved" \/ x = "approved"
           /\ prompt.state = "pending" => done' = 1
           /\ done = 1 => done' = 1
           /\ done = 0 /\ prompt.state # "pending" => done' = 0
           /\ \A id : Own(id, prompt, done) => Own(id, prompt', done')
<1>1. DOMAIN prompt = {"state", "id"} /\ prompt.id \in Nat /\ done \in {0, 1}
  BY Parts
<1>2. CASE prompt.state = "pending" /\ prompt' = [prompt EXCEPT !.state = x] /\ done' = 1
  <2>1. DOMAIN prompt' = {"state", "id"} /\ prompt'.id = prompt.id /\ prompt'.state = x
    BY <1>1, <1>2
  <2> QED BY <1>1, <1>2, <2>1 DEF Own
<1>3. CASE prompt.state # "pending" /\ UNCHANGED <<prompt, done>>
  BY <1>1, <1>3 DEF Own
<1> QED BY <1>2, <1>3 DEF Finish

\* The session that the end of a connection leaves behind.
LEMMA ClearedOK ==
    ASSUME IInv, s' = Cleared
    PROVE  /\ SessionOK(s') /\ ~s'.active /\ ~s'.processing /\ ~s'.cancel /\ ~s'.stopping
           /\ s'.gen = 0
BY Parts, ResetIdle DEF Cleared, Idle

\* The thread flags: a stop, a pulled cable, a new connection.
LEMMA TakeFlagsPreserves == ASSUME IInv, TakeFlags PROVE IInv'
<1>1. /\ stack # << >> /\ Top.pc = "wait" /\ Top.pc \in Reading /\ flags' \subseteq flags
      /\ UNCHANGED <<link, leaving, approved, answer>>
      /\ Common /\ SessionOK(s) /\ approved \subseteq approved'
  BY Parts DEF TakeFlags, At, Reading
<1>2. UNCHANGED <<unplugs, leaving, answer>> /\ UNCHANGED <<rx, approved>>
  BY <1>1 DEF link
<1>3. Len(stack) \in Nat /\ Len(stack) >= 1
  BY <1>1, TopFacts
<1>4. MaxUnplugs = 0 => "disconnect" \notin flags /\ "connect" \notin flags /\ connected
  BY <1>1, Parts
<1>5. CASE "stop" \in flags /\ Len(stack) = 1 /\ stack' = Goto("exit") /\ UNCHANGED <<s, connected, prompt, done>>
  <2>1. PICK f \in FrameSet : Replaces(f) /\ f.pc = "exit" /\ SameFrame(Top, f)
    BY <1>1, <1>5, GotoFrame DEF Steps
  <2>2. MainOK(Top)
    BY <1>1, <1>5, TopFacts, Zenon
  <2>3. MainOK(f)
    BY <2>1, <2>2 DEF MainOK, SameFrame
  <2>4. Fits(f)
    BY <1>5, <2>3, FitsMain, Zenon
  <2>5. Leaving # {}
    BY <1>5, Parts
  <2>6. Joined(f)
    BY <1>3, <1>5, TwoOrMore, Zenon DEF Joined
  <2>7. Shared
    BY <1>1, <1>2, <1>5, SharedSession
  <2>8. MaxUnplugs = 0 => connected'
    BY <1>4, <1>5
  <2> QED BY <1>1, <1>2, <2>1, <2>4, <2>5, <2>6, <2>7, <2>8, MovePreserves, Zenon
<1>6. CASE "stop" \in flags /\ Len(stack) # 1 /\ stack' = Fail("timeout") /\ UNCHANGED <<s, connected, prompt, done>>
  <2>1. PICK f \in FrameSet : /\ Replaces(f) /\ f.pc = "end" /\ f.status = "timeout"
                              /\ f.todo = Top.todo /\ f.gen = Top.gen /\ f.prompt = Top.prompt
                              /\ f.live = Top.live /\ f.committed = Top.committed
    BY <1>1, <1>6, FailFrame DEF Statuses
  <2>2. ~Top.committed /\ Len(stack) >= 2
    BY <1>1, <1>3, <1>6, Reads, OneOrMore, Zenon
  <2>3. Fits(f)
    BY <1>1, <2>1, <2>2, FailFits, Zenon
  <2>4. Leaving # {}
    BY <1>6, Parts
  <2>5. MaxUnplugs = 0 => Joined(f)
    BY <1>1, <1>6, <2>1, Reads, EndJoined
  <2>6. Shared
    BY <1>1, <1>2, <1>6, SharedSession
  <2>7. MaxUnplugs = 0 => connected'
    BY <1>4, <1>6
  <2> QED BY <1>1, <1>2, <2>1, <2>3, <2>4, <2>5, <2>6, <2>7, MovePreserves, Zenon
<1>7. CASE /\ "stop" \notin flags /\ "disconnect" \in flags
           /\ Finish("canceled") /\ s' = Cleared /\ stack' = Stale(Goto("request"))
  <2>1. PICK f \in FrameSet : /\ Replaces(f) /\ f.pc = "request" /\ ~f.live
                              /\ f.todo = Top.todo /\ f.gen = Top.gen /\ f.prompt = Top.prompt
                              /\ f.committed = Top.committed /\ f.status = Top.status
    BY <1>1, <1>7, StaleGotoFrame DEF Steps, Reading
  <2>2. f.pc \in Reading /\ ~f.committed
    BY <1>1, <2>1, Reads DEF Reading
  <2>3. Fits(f)
    BY <1>1, <2>1, <2>2, ReadingFits, Zenon
  <2>4. SessionOK(s') /\ ~s'.active /\ ~s'.cancel /\ ~s'.stopping
    BY <1>7, ClearedOK
  <2>5. /\ DOMAIN prompt' = {"state", "id"} /\ prompt'.id = prompt.id /\ prompt'.id \in Nat
        /\ done' \in {0, 1} /\ prompt'.state # "pending"
        /\ prompt'.state = "approved" => prompt.state = "approved"
        /\ \A id : Own(id, prompt, done) => Own(id, prompt', done')
    BY <1>7, FinishFacts
  <2>6. Leaving = {} => Eased(f)
    <3>1. Leaving = {} /\ Len(stack) >= 2 => Own(Top.prompt, prompt, done)
      BY <1>1, Reads
    <3>2. Leaving = {} /\ Len(stack) >= 2 => Own(f.prompt, prompt', done')
      BY <2>1, <2>5, <3>1, Zenon
    <3> QED BY <1>1, <2>2, <2>4, <2>5, <3>2, ReadingEased, Zenon
  <2>7. MaxUnplugs # 0
    BY <1>4, <1>7
  <2>8. Shared
    BY <1>1, <1>2, <2>4, <2>5, Parts DEF Shared
  <2> QED BY <1>1, <1>2, <2>1, <2>3, <2>6, <2>7, <2>8, MovePreserves, Zenon
<1>8. CASE /\ "stop" \notin flags /\ "connect" \in flags /\ ~connected
           /\ s' = Cleared /\ stack' = Goto("request") /\ UNCHANGED <<prompt, done>>
  <2>1. PICK f \in FrameSet : Replaces(f) /\ f.pc = "request" /\ SameFrame(Top, f)
    BY <1>1, <1>8, GotoFrame DEF Steps, Reading
  <2>2. f.pc \in Reading /\ ~f.committed
    BY <1>1, <2>1, Reads DEF Reading, SameFrame
  <2>3. Fits(f)
    BY <1>1, <2>1, <2>2, ReadingFits DEF SameFrame
  <2>4. SessionOK(s') /\ ~s'.active /\ ~s'.cancel /\ ~s'.stopping
    BY <1>8, ClearedOK
  <2>5. Leaving = {} => Eased(f)
    BY <1>1, <1>8, <2>1, <2>2, <2>4, Parts, Reads, ReadingEased DEF SameFrame
  <2>6. MaxUnplugs # 0
    BY <1>4, <1>8
  <2>7. Shared
    BY <1>2, <1>8, <2>4, SharedSession
  <2> QED BY <1>1, <1>2, <2>1, <2>3, <2>5, <2>6, <2>7, MovePreserves, Zenon
<1>9. CASE stack' = Goto("request") /\ UNCHANGED <<s, connected, prompt, done>>
  <2>1. PICK f \in FrameSet : Replaces(f) /\ f.pc = "request" /\ SameFrame(Top, f)
    BY <1>1, <1>9, GotoFrame DEF Steps, Reading
  <2>2. f.pc \in Reading /\ ~f.committed
    BY <1>1, <2>1, Reads DEF Reading, SameFrame
  <2>3. Fits(f)
    BY <1>1, <2>1, <2>2, ReadingFits DEF SameFrame
  <2>4. Leaving = {} => Eased(f)
    BY <1>1, <1>9, <2>1, <2>2, Parts, Reads, ReadingEased DEF SameFrame
  <2>5. MaxUnplugs = 0 => Joined(f)
    BY <1>1, <1>9, <2>1, <2>2, Reads, ReadingJoined DEF SameFrame
  <2>6. Shared
    BY <1>1, <1>2, <1>9, SharedSession
  <2>7. MaxUnplugs = 0 => connected'
    BY <1>4, <1>9
  <2> QED BY <1>1, <1>2, <2>1, <2>3, <2>4, <2>5, <2>6, <2>7, MovePreserves, Zenon
<1> QED BY <1>5, <1>6, <1>7, <1>8, <1>9 DEF TakeFlags, InMain

-----------------------------------------------------------------------------
(* The steps of a request.                                                 *)

\* The stack as it is.
LEMMA SelfReplaces ==
    ASSUME Common, stack # << >>, UNCHANGED stack
    PROVE  Top \in FrameSet /\ Replaces(Top)
<1>1. stack \in Seq(FrameSet) /\ Top \in FrameSet
  BY TopFacts DEF Common
<1>2. Top' = Top
  BY DEF Top
<1> QED BY <1>1, <1>2, Zenon DEF Replaces

\* A request at a step of its plan.
LEMMA AtAStep ==
    ASSUME IInv, stack # << >>, Top.pc \in {"step", "drain"}
    PROVE  /\ Common /\ Len(stack) \in Nat /\ Len(stack) >= 2 /\ Top \in FrameSet
           /\ Top.todo \in Plan /\ Top.todo # << >>
           /\ Top.pc = "drain" => Top.todo \in {MakePoll, LastPoll}
           /\ ~Top.committed /\ Top.status = "ok"
           /\ Top.todo \in {LastPoll, LastStep} => Top.prompt \in approved
           /\ Leaving = {} =>
                /\ ~s.cancel
                /\ Top.todo \in {LastPoll, LastStep} => done = 0 /\ prompt.state # "pending"
                /\ Len(stack) >= 3 /\ Top.todo \notin {LastPoll, LastStep} =>
                     Own(stack[Len(stack) - 1].prompt, prompt, done)
           /\ MaxUnplugs = 0 /\ Len(stack) = 2 =>
                /\ ~s.active /\ Top.gen = 1
                /\ Top.live => s.processing /\ s.gen = 1
                /\ ~Top.live => ~s.processing /\ s.gen = 2 /\ Top.pc = "step" /\ Top.todo \in {LastPoll, LastStep}
<1>1. Common /\ Len(stack) \in Nat /\ Len(stack) >= 2 /\ Top \in FrameSet /\ FrameOK(Top, approved)
  BY Parts, TopFacts
<1>2. /\ Top.todo \in Plan /\ Top.todo # << >> /\ ~Top.committed /\ Top.status = "ok"
      /\ Top.pc = "drain" => Top.todo \in {MakePoll, LastPoll}
      /\ Top.todo \in {LastPoll, LastStep} => Top.prompt \in approved
  <2>1. Top.todo \in Plan
    BY <1>1 DEF FrameSet
  <2>2. /\ Top.pc = "drain" => Top.todo \in {MakePoll, LastPoll}
        /\ Top.pc = "step" => Top.todo # << >>
        /\ ~Top.committed /\ Top.status = "ok"
        /\ Top.todo \in {LastPoll, LastStep} => Top.prompt \in approved
    BY <1>1 DEF FrameOK
  <2> QED BY <2>1, <2>2, PlansDiffer, Zenon
<1>3. Leaving = {} => Calm(Top, s, prompt, done)
  BY <1>1, Parts, Zenon
<1>4. Leaving = {} /\ Len(stack) >= 3 => Held(Top, stack[Len(stack) - 1].prompt, s, prompt, done)
  BY Parts, Zenon
<1>5. MaxUnplugs = 0 /\ Len(stack) = 2 => Linked(Top, s, prompt, done)
  BY Parts, Zenon
<1>6. Leaving = {} => /\ ~s.cancel
                      /\ Top.todo \in {LastPoll, LastStep} => done = 0 /\ prompt.state # "pending"
  BY <1>3, Zenon DEF Calm
<1>7. Leaving = {} /\ Len(stack) >= 3 /\ Top.todo \notin {LastPoll, LastStep} =>
        Own(stack[Len(stack) - 1].prompt, prompt, done)
  BY <1>4, Zenon DEF Held
<1>8. MaxUnplugs = 0 /\ Len(stack) = 2 =>
        /\ ~s.active /\ Top.gen = 1
        /\ Top.live => s.processing /\ s.gen = 1
        /\ ~Top.live => ~s.processing /\ s.gen = 2 /\ Top.pc = "step" /\ Top.todo \in {LastPoll, LastStep}
  BY <1>5 DEF Linked
<1> QED BY <1>1, <1>2, <1>6, <1>7, <1>8, Zenon

\* A poll that finds nothing: the next step.
LEMMA PollAdvances ==
    ASSUME IInv, stack # << >>, Top.pc \in {"step", "drain"}, Top.todo \in {MakePoll, LastPoll},
           stack' = Advance, SessionOK(s'),
           UNCHANGED <<flags, connected, prompt, done, link, leaving, approved, answer>>,
           ~s.active => Alike(s, s'), s'.active => s.active, s'.cancel => s.cancel, s'.stopping => s.stopping
    PROVE  IInv'
<1>1. PICK f \in FrameSet :
          /\ Replaces(f) /\ f.todo = Tail(Top.todo) /\ f.pc = IF Len(Top.todo) = 1 THEN "end" ELSE "step"
          /\ f.gen = Top.gen /\ f.prompt = Top.prompt /\ f.live = Top.live
          /\ f.committed = Top.committed /\ f.status = Top.status
  <2>1. Common /\ Top.todo # << >>
    BY AtAStep
  <2> QED BY <2>1, AdvanceFrame
<1>2. f.pc = "step" /\ f.todo \in {MakeAsk, LastStep} /\ (Top.todo = MakePoll => f.todo = MakeAsk)
  BY <1>1, NextSteps, Zenon
<1>3. f.todo # << >> /\ (f.todo \in {LastPoll, LastStep} => Top.todo = LastPoll)
  BY <1>2, PlansDiffer, Zenon
<1>4. UNCHANGED <<prompt, done, approved>>
  OBVIOUS
<1>5. Fits(f)
  <2>1. f.status = "ok" /\ ~f.committed /\ (f.todo \in {LastPoll, LastStep} => f.prompt \in approved')
    BY <1>1, <1>3, <1>4, AtAStep
  <2> QED BY <1>2, <1>3, <2>1, AtAStep, StepFits, Zenon
<1>6. Leaving = {} => Eased(f)
  <2> SUFFICES ASSUME Leaving = {} PROVE Eased(f)
    OBVIOUS
  <2>1. ~s'.cancel /\ ~s'.stopping /\ (done' = 1 => prompt'.state # "pending")
    BY <1>4, AtAStep, Parts
  <2>2. Top.todo = LastPoll => done' = 0 /\ prompt'.state # "pending"
    BY <1>4, AtAStep
  <2>3. Calm(f, s', prompt', done')
    BY <1>1, <1>2, <1>3, <2>1, <2>2, AtAStep DEF Calm
  <2>4. Len(stack) >= 3 => Own(stack[Len(stack) - 1].prompt, prompt', done')
    <3>1. CASE Top.todo = LastPoll
      BY <2>2, <3>1 DEF Own
    <3>2. CASE Top.todo # LastPoll
      <4>1. Top.todo \notin {LastPoll, LastStep}
        BY <3>2, PlansDiffer, Zenon
      <4>2. Len(stack) >= 3 => Own(stack[Len(stack) - 1].prompt, prompt, done)
        BY <4>1, AtAStep, Zenon
      <4> QED BY <1>4, <4>2, Zenon
    <3> QED BY <3>1, <3>2
  <2>5. Len(stack) >= 3 => Held(f, stack[Len(stack) - 1].prompt, s', prompt', done')
    BY <1>2, <2>4, Zenon DEF Held
  <2>6. f.pc # "exit"
    BY <1>2
  <2> QED BY <2>1, <2>3, <2>5, <2>6, Zenon DEF Eased
<1>7. MaxUnplugs = 0 => Joined(f)
  <2> SUFFICES ASSUME MaxUnplugs = 0, Len(stack) = 2 PROVE Linked(f, s', prompt', done')
    BY DEF Joined
  <2>1. /\ ~s'.active /\ f.gen = 1
        /\ f.live => s'.processing /\ s'.gen = 1
        /\ ~f.live => ~s'.processing /\ s'.gen = 2 /\ Top.todo \in {LastPoll, LastStep}
    BY <1>1, AtAStep DEF Alike
  <2>2. ~f.live => f.todo \in {LastPoll, LastStep}
    BY <1>1, <1>2, <2>1, NextSteps, PlansDiffer, Zenon
  <2> QED BY <1>2, <2>1, <2>2 DEF Linked, Reading
<1> QED BY <1>1, <1>5, <1>6, <1>7, StepPreserves, Zenon

\* A request that fails while a worker that can be stopped was stopped.
LEMMA StoppedFails ==
    ASSUME IInv, stack # << >>, Top.pc \in {"step", "drain"}, Leaving # {},
           s' = [s EXCEPT !.cancel = TRUE], stack' = Fail("cancel"),
           UNCHANGED <<flags, connected, prompt, done, link, leaving, approved, answer>>
    PROVE  IInv'
<1>1. Common /\ SessionOK(s) /\ approved \subseteq approved'
  BY Parts
<1>2. SessionOK(s') /\ s'.active = s.active /\ s'.processing = s.processing /\ s'.gen = s.gen
  BY <1>1, MarkOK
<1>3. PICK f \in FrameSet : /\ Replaces(f) /\ f.pc = "end" /\ f.status = "cancel"
                            /\ f.todo = Top.todo /\ f.gen = Top.gen /\ f.prompt = Top.prompt
                            /\ f.live = Top.live /\ f.committed = Top.committed
  BY <1>1, FailFrame DEF Statuses
<1>4. Fits(f)
  BY <1>1, <1>3, AtAStep, FailFits, Zenon
<1>5. MaxUnplugs = 0 => Joined(f)
  BY <1>2, <1>3, AtAStep, EndJoined
<1> QED BY <1>2, <1>3, <1>4, <1>5, StepPreserves, Zenon

\* A plan that begins with a poll, or with the change.
LEMMA FirstStep ==
    ASSUME NEW q \in Plan, q # << >>
    PROVE  /\ Head(q) = "poll" => q \in {MakePoll, LastPoll}
           /\ Head(q) = "commit" => q = LastStep
BY Plans DEF Plan

\* A poll that does not apply, that finds the request cancelled, or that begins.
LEMMA PollPreserves == ASSUME IInv, Poll PROVE IInv'
<1>1. /\ stack # << >> /\ Top.pc = "step" /\ Top.pc \in {"step", "drain"} /\ Head(Top.todo) = "poll"
      /\ UNCHANGED <<flags, connected, prompt, done, link, leaving, approved, answer>>
      /\ Common /\ SessionOK(s) /\ Alike(s, s) /\ approved' = approved
  BY Parts, TableAlike DEF Poll, AtStep, At
<1>2. Top.todo \in {MakePoll, LastPoll}
  BY <1>1, AtAStep, FirstStep, Zenon
<1>3. CASE s' = s /\ stack' = Advance
  BY <1>1, <1>2, <1>3, PollAdvances
<1>4. CASE (StopRequested \/ s.cancel) /\ s' = [s EXCEPT !.cancel = TRUE] /\ stack' = Fail("cancel")
  <2>1. Leaving # {}
    <3>1. Leaving = {} => ~StopRequested
      BY Parts, Zenon
    <3> QED BY <1>1, <1>4, <3>1, AtAStep, Zenon
  <2> QED BY <1>1, <1>4, <2>1, StoppedFails, Zenon
<1>5. CASE PollApplies /\ s' = s /\ stack' = Goto("drain")
  <2>1. PICK f \in FrameSet : Replaces(f) /\ f.pc = "drain" /\ SameFrame(Top, f)
    BY <1>1, <1>5, GotoFrame DEF Steps
  <2>2. s.processing
    BY <1>5 DEF PollApplies
  <2>3. /\ f.todo = Top.todo /\ f.gen = Top.gen /\ f.prompt = Top.prompt /\ f.live = Top.live
        /\ f.committed = Top.committed /\ f.status = Top.status
    BY <2>1 DEF SameFrame
  <2>4. Fits(f)
    <3>1. f.pc \notin Reading \cup {"try"} /\ f.pc # "step" /\ f.pc # "end"
      BY <2>1 DEF Reading
    <3>2. ~f.committed /\ f.status = "ok" /\ (f.todo \in {LastPoll, LastStep} => f.prompt \in approved')
      BY <1>1, <2>3, AtAStep
    <3>3. FrameOK(f, approved')
      BY <1>2, <2>1, <2>3, <3>1, <3>2, Zenon DEF FrameOK
    <3>4. Len(stack) \in Nat /\ Len(stack) >= 2
      BY <1>1, AtAStep, Zenon
    <3> QED BY <1>5, <2>2, <3>3, <3>4, FitsRequest, Zenon
  <2>5. Leaving = {} => Eased(f)
    <3> SUFFICES ASSUME Leaving = {} PROVE Eased(f)
      OBVIOUS
    <3>1. /\ ~s'.cancel /\ ~s'.stopping /\ (done' = 1 => prompt'.state # "pending")
          /\ f.todo \in {LastPoll, LastStep} => done' = 0 /\ prompt'.state # "pending"
      BY <1>1, <1>5, <2>3, AtAStep, Parts
    <3>2. Calm(f, s', prompt', done')
      BY <2>1, <3>1 DEF Calm
    <3>3. Len(stack) >= 3 => Held(f, stack[Len(stack) - 1].prompt, s', prompt', done')
      <4>1. Len(stack) >= 3 /\ f.todo \notin {LastPoll, LastStep} => Own(stack[Len(stack) - 1].prompt, prompt, done)
        BY <1>1, <2>3, AtAStep, Zenon
      <4>2. UNCHANGED prompt /\ UNCHANGED done /\ f.pc # "end"
        BY <1>1, <2>1
      <4> QED BY <4>1, <4>2, Zenon DEF Held
    <3>4. f.pc # "exit"
      BY <2>1
    <3> QED BY <3>1, <3>2, <3>3, <3>4, Zenon DEF Eased
  <2>6. MaxUnplugs = 0 => Joined(f)
    <3> SUFFICES ASSUME MaxUnplugs = 0, Len(stack) = 2 PROVE Linked(f, s', prompt', done')
      BY DEF Joined
    <3> QED BY <1>1, <1>5, <2>1, <2>2, <2>3, AtAStep DEF Linked, Reading
  <2> QED BY <1>1, <1>5, <2>1, <2>4, <2>5, <2>6, StepPreserves, Zenon
<1> QED BY <1>3, <1>4, <1>5 DEF Poll

\* The change: only a request whose prompt was approved has got so far.
LEMMA CommitPreserves == ASSUME IInv, Commit PROVE IInv'
<1>1. /\ stack # << >> /\ Top.pc = "step" /\ Top.pc \in {"step", "drain"} /\ Head(Top.todo) = "commit"
      /\ UNCHANGED <<s, flags, connected, prompt, done, link, leaving, approved, answer>>
      /\ UNCHANGED <<flags, connected, prompt, done, link, leaving, approved, answer>>
      /\ Common /\ SessionOK(s') /\ approved \subseteq approved'
  BY Parts DEF Commit, AtStep, At
<1>2. Top.todo = LastStep
  BY <1>1, AtAStep, FirstStep, Zenon
<1>3. Leaving = {} => /\ ~s'.cancel /\ ~s'.stopping /\ done' = 0 /\ done' # 1 /\ prompt'.state # "pending"
  BY <1>1, <1>2, AtAStep, Parts
<1>4. MaxUnplugs = 0 /\ Len(stack) = 2 => /\ ~s'.active /\ Top.gen = 1
                                          /\ Top.live => s'.processing /\ s'.gen = 1
                                          /\ ~Top.live => ~s'.processing /\ s'.gen = 2
  BY <1>1, AtAStep
<1>5. CASE stack' = [Advance EXCEPT ![Len(stack)].committed = TRUE]
  <2> DEFINE g == [Top EXCEPT !.todo = << >>, !.pc = "end"]
             f == [g EXCEPT !.committed = TRUE]
  <2>1. stack' = With(f)
    <3>1. Tail(Top.todo) = << >> /\ Len(Top.todo) = 1
      BY <1>2, NextSteps, Zenon
    <3>2. Advance = With(g)
      BY <3>1 DEF Advance
    <3>3. stack \in Seq(FrameSet) /\ Len(stack) \in 1..Len(stack) /\ DOMAIN stack = 1..Len(stack)
      BY <1>1, TopFacts, LenProperties DEF Common
    <3> HIDE DEF g
    <3>4. With(g)[Len(stack)] = g /\ DOMAIN With(g) = DOMAIN stack
      BY <3>3 DEF With
    <3>5. [With(g) EXCEPT ![Len(stack)].committed = TRUE] = [With(g) EXCEPT ![Len(stack)] = f]
      BY <3>4
    <3>6. [With(g) EXCEPT ![Len(stack)] = f] = With(f)
      <4> HIDE DEF f
      <4> QED BY <3>3 DEF With
    <3> QED BY <1>5, <3>2, <3>5, <3>6, Zenon
  <2>2. /\ f \in FrameSet /\ f.pc = "end" /\ f.todo = << >> /\ f.committed = TRUE /\ f.status = Top.status
        /\ f.gen = Top.gen /\ f.prompt = Top.prompt /\ f.live = Top.live
    <3>1. Top \in FrameSet /\ << >> \in Plan
      BY <1>1, AtAStep DEF Plan
    <3> QED BY <3>1 DEF FrameSet, Steps
  <2> HIDE DEF f
  <2>3. Replaces(f)
    BY <1>1, <2>1, <2>2, WithReplaces, Zenon
  <2>4. Fits(f)
    <3>1. f.status = "ok" /\ f.prompt \in approved'
      BY <1>1, <1>2, <2>2, AtAStep
    <3>2. f.todo \notin {LastPoll, LastStep} /\ f.pc \notin Reading \cup {"try"} /\ f.pc # "drain" /\ f.pc # "step"
      BY <2>2, PlansDiffer DEF Reading
    <3>3. FrameOK(f, approved')
      BY <2>2, <3>1, <3>2, Zenon DEF FrameOK
    <3>4. Len(stack) \in Nat /\ Len(stack) >= 2
      BY <1>1, AtAStep, Zenon
    <3> QED BY <3>2, <3>3, <3>4, FitsRequest, Zenon
  <2>5. Leaving = {} => Eased(f)
    BY <1>3, <2>2, EndEased, Zenon
  <2>6. MaxUnplugs = 0 => Joined(f)
    BY <1>4, <2>2, EndJoined
  <2> QED BY <1>1, <2>2, <2>3, <2>4, <2>5, <2>6, StepPreserves, Zenon
<1>6. CASE stack' = Fail("error")
  <2>1. PICK f \in FrameSet : /\ Replaces(f) /\ f.pc = "end" /\ f.status = "error"
                              /\ f.todo = Top.todo /\ f.gen = Top.gen /\ f.prompt = Top.prompt
                              /\ f.live = Top.live /\ f.committed = Top.committed
    BY <1>1, <1>6, FailFrame DEF Statuses
  <2>2. Fits(f) /\ ~f.committed
    BY <1>1, <2>1, AtAStep, FailFits, Zenon
  <2>3. Leaving = {} => Eased(f)
    BY <1>3, <2>1, <2>2, EndEased, Zenon
  <2>4. MaxUnplugs = 0 => Joined(f)
    BY <1>4, <2>1, EndJoined
  <2> QED BY <1>1, <2>1, <2>2, <2>3, <2>4, StepPreserves, Zenon
<1> QED BY <1>5, <1>6 DEF Commit

\* The rest of a queue.
LEMMA Rest ==
    ASSUME NEW S, NEW q \in Seq(S), q # << >>
    PROVE  Head(q) \in S /\ Tail(q) \in Seq(S)
BY HeadTailProperties

\* A poll reads the reports that wait: CANCEL and INIT end the request, and the
\* interruption of it shows in the generation.
LEMMA DrainPreserves == ASSUME IInv, Drain PROVE IInv'
<1>1. /\ stack # << >> /\ Top.pc = "drain" /\ Top.pc \in {"step", "drain"} /\ s.processing
      /\ UNCHANGED <<flags, connected, sent, unplugs, nested, leaving, approved, answer>>
      /\ Common /\ SessionOK(s) /\ approved' = approved /\ rx \in Seq(Packet)
  BY Parts DEF Drain, At
<1>2. Top.todo \in {MakePoll, LastPoll}
  BY <1>1, AtAStep, Zenon
<1>3. ~s.active
  BY <1>1 DEF SessionOK
<1>4. CASE /\ StopRequested /\ s' = [s EXCEPT !.cancel = TRUE] /\ stack' = Fail("cancel")
           /\ UNCHANGED <<rx, prompt, done>>
  <2>1. Leaving # {}
    BY <1>4, Parts, Zenon
  <2>2. UNCHANGED <<flags, connected, prompt, done, link, leaving, approved, answer>>
    BY <1>1, <1>4 DEF link
  <2> QED BY <1>1, <1>4, <2>1, <2>2, StoppedFails, Zenon
<1>5. CASE s' = Tick(s) /\ stack' = Advance /\ UNCHANGED <<rx, prompt, done>>
  <2>1. /\ SessionOK(s') /\ (~s.active => Alike(s, s')) /\ (s'.active => s.active)
        /\ (s'.cancel => s.cancel) /\ (s'.stopping => s.stopping)
    BY <1>1, <1>5, TickOK
  <2>2. UNCHANGED <<flags, connected, prompt, done, link, leaving, approved, answer>>
    BY <1>1, <1>5 DEF link
  <2> QED BY <1>1, <1>2, <1>5, <2>1, <2>2, PollAdvances, Zenon
<1>6. ASSUME rx # << >>, rx' = Tail(rx), NEW o \in Control(s, Head(rx)), o.cancels,
             s' = [o.s EXCEPT !.cancel = TRUE],
             stack' = IF o.s.gen # s.gen THEN Stale(Fail("cancel")) ELSE Fail("cancel"),
             Finish("canceled")
      PROVE  IInv'
  <2>1. Handles(s, o)
    BY <1>1, <1>6, ControlHandles
  <2>2. /\ SessionOK(s') /\ ~s'.active /\ s'.processing = o.s.processing /\ s'.gen = o.s.gen
        /\ s'.stopping = o.s.stopping /\ s'.cancel
    <3>1. SessionOK(o.s) /\ ~o.s.active
      BY <1>1, <2>1 DEF Handles
    <3> QED BY <1>6, <3>1, MarkOK
  <2>3. /\ (s'.processing /\ s'.gen = s.gen) \/ (~s'.processing /\ s'.gen = s.gen + 1)
        /\ s'.stopping => s.stopping
    BY <1>1, <2>1, <2>2 DEF Handles
  <2>4. s.gen \in Nat /\ s.gen # s.gen + 1
    BY <1>1 DEF SessionOK
  <2>5. PICK f \in FrameSet : /\ Replaces(f) /\ f.pc = "end"
                              /\ f.todo = Top.todo /\ f.gen = Top.gen /\ f.prompt = Top.prompt
                              /\ f.committed = Top.committed
                              /\ f.live = IF o.s.gen # s.gen THEN FALSE ELSE Top.live
    <3>1. CASE o.s.gen # s.gen
      <4>1. stack' = Stale(Fail("cancel"))
        BY <1>6, <3>1
      <4>2. PICK f \in FrameSet : /\ Replaces(f) /\ f.pc = "end" /\ f.status = "cancel" /\ ~f.live
                                  /\ f.todo = Top.todo /\ f.gen = Top.gen /\ f.prompt = Top.prompt
                                  /\ f.committed = Top.committed
        BY <1>1, <4>1, StaleFailFrame DEF Statuses
      <4>3. f.live = FALSE
        BY <4>2 DEF FrameSet
      <4> QED BY <3>1, <4>2, <4>3, Zenon
    <3>2. CASE o.s.gen = s.gen
      <4>1. stack' = Fail("cancel")
        BY <1>6, <3>2
      <4>2. PICK f \in FrameSet : /\ Replaces(f) /\ f.pc = "end" /\ f.status = "cancel"
                                  /\ f.todo = Top.todo /\ f.gen = Top.gen /\ f.prompt = Top.prompt
                                  /\ f.live = Top.live /\ f.committed = Top.committed
        BY <1>1, <4>1, FailFrame DEF Statuses
      <4> QED BY <3>2, <4>2, Zenon
    <3> QED BY <3>1, <3>2
  <2>6. approved \subseteq approved' /\ Tail(rx) \in Seq(Packet)
    BY <1>1, <1>6, Rest
  <2>7. Fits(f) /\ ~f.committed
    BY <1>1, <2>5, <2>6, AtAStep, FailFits, Zenon
  <2>8. /\ DOMAIN prompt' = {"state", "id"} /\ prompt'.id = prompt.id /\ prompt'.id \in Nat
        /\ done' \in {0, 1} /\ prompt'.state # "pending"
        /\ prompt'.state = "approved" => prompt.state = "approved"
    BY <1>6, FinishFacts
  <2>9. Shared
    BY <1>1, <1>6, <2>2, <2>6, <2>8, Parts DEF Shared
  <2>10. Leaving = {} => Eased(f)
    <3>1. Leaving = {} => ~s'.stopping
      BY <2>3, Parts
    <3> QED BY <2>2, <2>5, <2>7, <2>8, <3>1, EndEased, Zenon
  <2>11. MaxUnplugs = 0 => Joined(f)
    <3> SUFFICES ASSUME MaxUnplugs = 0, Len(stack) = 2 PROVE Joined(f)
      BY DEF Joined
    <3>1. Top.live /\ s.gen = 1 /\ Top.gen = 1
      BY <1>1, AtAStep
    <3>2. f.gen = 1 /\ (f.live => s'.processing /\ s'.gen = 1) /\ (~f.live => ~s'.processing /\ s'.gen = 2)
      BY <2>2, <2>3, <2>4, <2>5, <3>1
    <3> QED BY <2>2, <2>5, <3>2, EndJoined, Zenon
  <2>12. UNCHANGED <<unplugs, leaving, answer>> /\ flags' \subseteq flags
    BY <1>1
  <2>13. MaxUnplugs = 0 => connected'
    BY <1>1, Parts
  <2> QED BY <1>1, <2>5, <2>7, <2>9, <2>10, <2>11, <2>12, <2>13, MovePreserves, Zenon
<1>7. ASSUME rx # << >>, rx' = Tail(rx), NEW o \in Control(s, Head(rx)), ~o.cancels,
             s' = o.s, UNCHANGED <<stack, prompt, done>>
      PROVE  IInv'
  <2>1. Handles(s, o)
    BY <1>1, <1>7, ControlHandles
  <2>2. /\ SessionOK(s') /\ ~s'.active /\ s'.processing /\ s'.gen = s.gen
        /\ s'.cancel => s.cancel
        /\ s'.stopping => s.stopping
    BY <1>1, <1>7, <2>1 DEF Handles
  <2>3. Top \in FrameSet /\ Replaces(Top)
    BY <1>1, <1>7, SelfReplaces
  <2>4. Fits(Top)
    <3>1. Len(stack) \in Nat /\ Len(stack) >= 2 /\ FrameOK(Top, approved)
      BY <1>1, TopFacts
    <3>2. FrameOK(Top, approved')
      BY <1>1, <3>1
    <3> QED BY <2>2, <3>1, <3>2, FitsRequest, Zenon
  <2>5. Leaving = {} => Eased(Top)
    <3> SUFFICES ASSUME Leaving = {} PROVE Eased(Top)
      OBVIOUS
    <3>1. /\ ~s'.cancel /\ ~s'.stopping /\ (done' = 1 => prompt'.state # "pending")
          /\ Top.todo \in {LastPoll, LastStep} => done' = 0 /\ prompt'.state # "pending"
      BY <1>1, <1>7, <2>2, AtAStep, Parts
    <3>2. Calm(Top, s', prompt', done')
      BY <1>1, <3>1 DEF Calm
    <3>3. Len(stack) >= 3 => Held(Top, stack[Len(stack) - 1].prompt, s', prompt', done')
      <4>1. Len(stack) >= 3 /\ Top.todo \notin {LastPoll, LastStep} => Own(stack[Len(stack) - 1].prompt, prompt, done)
        BY <1>1, AtAStep, Zenon
      <4>2. UNCHANGED prompt /\ UNCHANGED done /\ Top.pc # "end"
        BY <1>1, <1>7
      <4> QED BY <4>1, <4>2, Zenon DEF Held
    <3>4. Top.pc # "exit"
      BY <1>1
    <3> QED BY <3>1, <3>2, <3>3, <3>4, Zenon DEF Eased
  <2>6. MaxUnplugs = 0 => Joined(Top)
    <3> SUFFICES ASSUME MaxUnplugs = 0, Len(stack) = 2 PROVE Linked(Top, s', prompt', done')
      BY DEF Joined
    <3> QED BY <1>1, <2>2, AtAStep DEF Linked, Reading
  <2>7. Tail(rx) \in Seq(Packet)
    BY <1>1, <1>7, Rest
  <2>8. Shared
    BY <1>1, <1>7, <2>2, <2>7, Parts DEF Shared
  <2>9. UNCHANGED <<unplugs, leaving, answer>> /\ flags' \subseteq flags
    BY <1>1
  <2>10. MaxUnplugs = 0 => connected'
    BY <1>1, Parts
  <2> QED BY <1>1, <2>3, <2>4, <2>5, <2>6, <2>8, <2>9, <2>10, MovePreserves, Zenon
<1>8. CASE /\ ~StopRequested /\ rx # << >> /\ rx' = Tail(rx)
           /\ \E o \in Control(s, Head(rx)) :
                IF o.cancels
                THEN /\ s' = [o.s EXCEPT !.cancel = TRUE]
                     /\ stack' = IF o.s.gen # s.gen THEN Stale(Fail("cancel")) ELSE Fail("cancel")
                     /\ Finish("canceled")
                ELSE s' = o.s /\ UNCHANGED <<stack, prompt, done>>
  BY <1>6, <1>7, <1>8, Zenon
<1> QED BY <1>4, <1>5, <1>8 DEF Drain

-----------------------------------------------------------------------------
(* A report and the request it may complete.                               *)

\* The frame of a new request.
LEMMA EnterFrame ==
    ASSUME NEW t, SessionOK(t), t.gen = 1, NEW op \in {"make", "reset", "quick"}, NEW A
    PROVE  LET e == Enter(t, op)
           IN  /\ e \in FrameSet /\ e.gen = 1 /\ e.live /\ ~e.committed
               /\ e.pc \in {"step", "end"} /\ e.todo \notin {LastPoll, LastStep}
               /\ FrameOK(e, A)
<1> DEFINE q == Program[op]
           x == IF q = << >> THEN "end" ELSE "step"
           e == Enter(t, op)
<1>1. q \in {MakePoll, ResetAsk, << >>}
  BY Programs
<1>2. q \in Plan /\ q \notin {LastPoll, LastStep}
  BY <1>1, PlansDiffer, Zenon DEF Plan
<1>3. x \in {"step", "end"} /\ x \in Steps /\ (x = "step" => q # << >>)
  BY DEF Steps
<1>4. e = [pc |-> x, op |-> op, todo |-> q, cid |-> t.cid, cmd |-> t.cmd, gen |-> t.gen,
           prompt |-> 0, status |-> "ok", live |-> TRUE, committed |-> FALSE]
  BY DEF Enter, Frame
<1> HIDE DEF q, x, e
<1>5. /\ e.pc = x /\ e.op = op /\ e.todo = q /\ e.gen = 1 /\ e.status = "ok"
      /\ e.live = TRUE /\ e.committed = FALSE
  BY <1>4
<1>6. e \in FrameSet
  <2>1. t.cid \in Cid \cup {NoCid, Broadcast} /\ t.cmd \in Command /\ 0 \in Nat /\ 1 \in Nat
    BY DEF SessionOK
  <2>2. "ok" \in Statuses
    BY DEF Statuses
  <2> QED BY <1>2, <1>3, <1>4, <2>1, <2>2 DEF FrameSet
<1>7. FrameOK(e, A)
  <2>1. x \notin Reading \cup {"try"} /\ x # "drain"
    BY <1>3 DEF Reading
  <2> QED BY <1>2, <1>3, <1>5, <2>1, Zenon DEF FrameOK
<1> QED BY <1>2, <1>3, <1>5, <1>6, <1>7, Zenon DEF e

\* The stack with a request on top of the one that read its last report.
LEMMA PushedStack ==
    ASSUME IInv, stack # << >>, Top.pc \in Reading, NEW e \in FrameSet, FrameOK(e, approved),
           stack' = Append(Goto("handled"), e)
    PROVE  /\ stack' \in Seq(FrameSet) /\ Len(stack') = Len(stack) + 1 /\ stack' # << >> /\ Top' = e
           /\ \A i \in 1..Len(stack') : i < Len(stack') => stack'[i].pc = "handled"
           /\ MainOK(stack'[1])
           /\ \A i \in 2..Len(stack') : FrameOK(stack'[i], approved)
           /\ stack'[Len(stack)].prompt = Top.prompt
<1> DEFINE n == Len(stack)
           q == Goto("handled")
           f == [Top EXCEPT !.pc = "handled"]
<1>1. Common /\ stack \in Seq(FrameSet) /\ n \in Nat /\ n >= 1
  BY Parts, TopFacts
<1>2. f \in FrameSet /\ f.pc = "handled" /\ SameFrame(Top, f)
  <2>1. Top \in FrameSet
    BY <1>1, TopFacts
  <2> QED BY <2>1 DEF FrameSet, SameFrame, Steps, Reading
<1>3. q = [stack EXCEPT ![Len(stack)] = f]
  BY DEF Goto, With
<1>4. n = 1 => MainOK(f)
  <2>1. n = 1 => MainOK(Top)
    BY <1>1, TopFacts, Zenon
  <2> QED BY <1>2, <2>1 DEF MainOK, SameFrame, Reading
<1>5. n >= 2 => FrameOK(f, approved)
  <2>1. n >= 2 => FrameOK(Top, approved)
    BY <1>1, TopFacts, Zenon
  <2> QED BY <1>2, <2>1 DEF FrameOK, SameFrame, Reading
<1>6. /\ \A i \in 1..n : i < n => stack[i].pc = "handled"
      /\ MainOK(stack[1])
      /\ \A i \in 2..n : FrameOK(stack[i], approved)
  BY <1>1 DEF Common
<1> HIDE DEF q, f
<1>7. /\ q \in Seq(FrameSet) /\ Len(q) = n /\ q[n] = f
      /\ \A i \in 1..n : i < n => q[i] = stack[i]
  BY <1>1, <1>2, <1>3, Put
<1>8. stack' = Append(q, e)
  BY DEF q
<1>9. /\ stack' \in Seq(FrameSet) /\ Len(stack') = n + 1 /\ stack' # << >> /\ stack'[Len(stack')] = e
      /\ \A i \in 1..n : stack'[i] = q[i]
  <2>1. q \in Seq(FrameSet)
    BY <1>7, Zenon
  <2>2. /\ Append(q, e) \in Seq(FrameSet) /\ Len(Append(q, e)) = Len(q) + 1 /\ Append(q, e) # << >>
        /\ Append(q, e)[Len(q) + 1] = e
        /\ \A i \in 1..Len(q) : Append(q, e)[i] = q[i]
    BY <2>1, Push, Zenon
  <2>3. Len(q) = n
    BY <1>7, Zenon
  <2> QED BY <1>8, <2>2, <2>3, Zenon
<1> HIDE DEF n
<1>10. \A i \in 1..(n + 1) : i < n + 1 => stack'[i].pc = "handled"
  <2> TAKE i \in 1..(n + 1)
  <2> HAVE i < n + 1
  <2>1. i \in 1..n
    BY <1>1
  <2>2. CASE i < n
    BY <1>6, <1>7, <1>9, <2>1, <2>2, Zenon
  <2>3. CASE i = n
    BY <1>2, <1>7, <1>9, <2>1, <2>3, Zenon
  <2>4. i < n \/ i = n
    BY <1>1, <2>1
  <2> QED BY <2>2, <2>3, <2>4
<1>11. MainOK(stack'[1])
  <2>1. 1 \in 1..n /\ (n = 1 \/ 1 < n)
    BY <1>1
  <2> QED BY <1>4, <1>6, <1>7, <1>9, <2>1, Zenon
<1>12. ASSUME NEW i \in 2..(n + 1) PROVE FrameOK(stack'[i], approved)
  <2>1. i = n + 1 \/ (i \in 1..n /\ i \in 2..n /\ i < n) \/ (i \in 1..n /\ i = n /\ n >= 2)
    BY <1>1
  <2> QED BY <1>5, <1>6, <1>7, <1>9, <2>1, Zenon
<1>13. stack'[n].prompt = Top.prompt
  <2>1. n \in 1..n
    BY <1>1
  <2> QED BY <1>2, <1>7, <1>9, <2>1, Zenon DEF SameFrame
<1>14. Top' = e
  BY <1>9, Zenon DEF Top
<1> QED BY <1>9, <1>10, <1>11, <1>12, <1>13, <1>14, Zenon DEF n

\* A new request on the stack.
LEMMA DispatchPreserves ==
    ASSUME IInv, stack # << >>, Top.pc = "read", NEW t, NEW o, Handles(t, o), o.dispatches,
           t = s \/ (~connected /\ ~t.active /\ ~t.stopping), connected => t = s,
           NEW op \in {"make", "reset", "quick"},
           s' = o.s, stack' = Append(Goto("handled"), Enter(o.s, op)), connected' = TRUE,
           rx' \in Seq(Packet),
           UNCHANGED <<prompt, done, flags, unplugs, leaving, approved, answer>>
    PROVE  IInv'
<1> DEFINE n == Len(stack)
           e == Enter(o.s, op)
<1>1. SessionOK(s') /\ s'.gen = 1 /\ ~s'.active /\ s'.processing /\ ~t.processing
      /\ (s'.cancel => t.active /\ t.cancel) /\ (s'.stopping => t.stopping)
  BY DEF Handles
<1>2. /\ e \in FrameSet /\ e.gen = 1 /\ e.live /\ ~e.committed
      /\ e.pc \in {"step", "end"} /\ e.todo \notin {LastPoll, LastStep}
      /\ FrameOK(e, approved)
  BY <1>1, EnterFrame, Zenon
<1> HIDE DEF e
<1>3. Top.pc \in Reading /\ Common /\ n \in Nat /\ n >= 1
  BY Parts, TopFacts DEF Reading
<1>4. stack' = Append(Goto("handled"), e)
  BY DEF e
<1>5. /\ stack' \in Seq(FrameSet) /\ Len(stack') = n + 1 /\ stack' # << >> /\ Top' = e
      /\ \A i \in 1..Len(stack') : i < Len(stack') => stack'[i].pc = "handled"
      /\ MainOK(stack'[1])
      /\ \A i \in 2..Len(stack') : FrameOK(stack'[i], approved)
      /\ stack'[n].prompt = Top.prompt
  BY <1>2, <1>3, <1>4, PushedStack, Zenon
<1>6. UNCHANGED <<prompt, done, flags, unplugs, ui, running, approved, answer>>
  BY DEF leaving
<1>7. e.pc # "drain" /\ e.pc # "exit"
  BY <1>2
<1>8. Common'
  <2>1. /\ DOMAIN prompt' = {"state", "id"} /\ prompt'.id \in Nat /\ done' \in {0, 1} /\ approved' = approved
        /\ prompt'.state = "approved" => prompt'.id \in approved'
    BY <1>6, Parts
  <2> QED BY <1>1, <1>5, <1>7, <2>1, Zenon DEF Common
<1>9. Leaving = {} => Undisturbed' /\ FailureMeansNoCommit'
  <2> SUFFICES ASSUME Leaving = {} PROVE Undisturbed' /\ FailureMeansNoCommit'
    OBVIOUS
  <2>1. /\ ui' = "free" /\ running' /\ "stop" \notin flags' /\ ~s'.stopping /\ ~s'.cancel
        /\ done' = 1 => prompt'.state # "pending"
    BY <1>1, <1>6, Parts
  <2>2. FailureMeansNoCommit'
    BY <1>6 DEF IInv, FailureMeansNoCommit
  <2>3. Calm(e, s', prompt', done')
    BY <1>2, <2>1 DEF Calm
  <2>4. n + 1 >= 3 => Held(e, stack'[n].prompt, s', prompt', done')
    <3>1. n + 1 >= 3 => n >= 2
      BY <1>3
    <3>2. n >= 2 => Own(Top.prompt, prompt, done)
      BY <1>3, Reads
    <3>3. n >= 2 => Own(stack'[n].prompt, prompt', done')
      BY <1>5, <1>6, <3>2
    <3> QED BY <3>1, <3>3, Zenon DEF Held
  <2>5. Len(stack') - 1 = n
    BY <1>3, <1>5
  <2>6. Len(stack') >= 3 => Held(e, stack'[Len(stack') - 1].prompt, s', prompt', done')
    BY <1>5, <2>4, <2>5, Zenon
  <2> QED BY <1>1, <1>5, <1>7, <2>1, <2>2, <2>3, <2>6, Zenon DEF Undisturbed
<1>10. MaxUnplugs = 0 => Plugged' /\ NoLateResponse'
  <2> SUFFICES ASSUME MaxUnplugs = 0 PROVE Plugged' /\ NoLateResponse'
    OBVIOUS
  <2>1. NoLateResponse'
    BY <1>6 DEF IInv, NoLateResponse
  <2>2. unplugs' = 0 /\ flags' \subseteq {"stop"} /\ n <= 2 /\ connected /\ t = s
    BY <1>6, Parts
  <2>3. n # 2
    <3>1. n = 2 => s.processing
      BY <1>3, Reads
    <3> QED BY <1>1, <2>2, <3>1
  <2>4. Len(stack') <= 2
    BY <1>3, <1>5, <2>2, <2>3, TwoOrMore, Zenon
  <2>5. Linked(e, s', prompt', done')
    BY <1>1, <1>2 DEF Linked, Reading
  <2> QED BY <1>5, <2>1, <2>2, <2>4, <2>5, Zenon DEF Plugged
<1> QED BY <1>8, <1>9, <1>10 DEF IInv

\* A report that completes no request.
LEMMA ReportPreserves ==
    ASSUME IInv, stack # << >>, Top.pc = "read", NEW t, NEW o, Handles(t, o),
           t = s \/ (~connected /\ ~t.active /\ ~t.stopping /\ ~t.cancel), connected => t = s,
           s' = o.s, connected' = TRUE, rx' \in Seq(Packet),
           IF o.cancels THEN Finish("canceled") ELSE UNCHANGED <<prompt, done>>,
           stack' = IF o.cancels /\ o.s.gen # s.gen THEN Stale(Goto("handled")) ELSE Goto("handled"),
           UNCHANGED <<flags, unplugs, leaving, approved, answer>>
    PROVE  IInv'
<1>1. Top.pc \in Reading /\ Common
  BY Parts DEF Reading
<1>2. PICK f \in FrameSet : /\ Replaces(f) /\ f.pc = "handled"
                            /\ f.todo = Top.todo /\ f.gen = Top.gen /\ f.prompt = Top.prompt
                            /\ f.committed = Top.committed /\ f.status = Top.status
                            /\ o.cancels /\ o.s.gen # s.gen => ~f.live
                            /\ ~(o.cancels /\ o.s.gen # s.gen) => f.live = Top.live
  <2>1. CASE o.cancels /\ o.s.gen # s.gen
    <3>1. stack' = Stale(Goto("handled"))
      BY <2>1
    <3>2. \E f \in FrameSet : /\ Replaces(f) /\ f.pc = "handled" /\ ~f.live
                              /\ f.todo = Top.todo /\ f.gen = Top.gen /\ f.prompt = Top.prompt
                              /\ f.committed = Top.committed /\ f.status = Top.status
      BY <1>1, <3>1, StaleGotoFrame DEF Steps, Reading
    <3> QED BY <2>1, <3>2, Zenon
  <2>2. CASE ~(o.cancels /\ o.s.gen # s.gen)
    <3>1. stack' = Goto("handled")
      BY <2>2
    <3>2. \E f \in FrameSet : Replaces(f) /\ f.pc = "handled" /\ SameFrame(Top, f)
      BY <1>1, <3>1, GotoFrame DEF Steps, Reading
    <3> QED BY <2>2, <3>2, Zenon DEF SameFrame
  <2> QED BY <2>1, <2>2
<1>3. f.pc \in Reading /\ ~f.committed /\ approved \subseteq approved'
  BY <1>1, <1>2, Reads DEF Reading
<1>4. Fits(f)
  BY <1>1, <1>2, <1>3, ReadingFits, Zenon
<1>5. /\ DOMAIN prompt' = {"state", "id"} /\ prompt'.id = prompt.id /\ prompt'.id \in Nat
      /\ done' \in {0, 1}
      /\ prompt'.state = "approved" => prompt.state = "approved"
      /\ \A id : Own(id, prompt, done) => Own(id, prompt', done')
      /\ o.cancels => prompt'.state # "pending"
      /\ o.cancels /\ (prompt.state = "pending" \/ done = 1) => done' = 1
      /\ ~o.cancels => UNCHANGED <<prompt, done>>
  <2>1. CASE o.cancels /\ Finish("canceled")
    BY <2>1, FinishFacts
  <2>2. CASE ~o.cancels /\ UNCHANGED <<prompt, done>>
    BY <2>2, Parts
  <2> QED BY <2>1, <2>2
<1>6. SessionOK(s') /\ Shared
  <2>1. SessionOK(s')
    BY DEF Handles
  <2> QED BY <1>3, <1>5, <2>1, Parts DEF Shared
<1>7. Leaving = {} => Eased(f)
  <2> SUFFICES ASSUME Leaving = {} PROVE Eased(f)
    OBVIOUS
  <2>1. ~s'.stopping /\ (s'.active => ~s'.cancel)
    BY Parts DEF Handles
  <2>2. s'.cancel \/ done' = 1 => prompt'.state # "pending"
    BY <1>5, Parts DEF Handles
  <2>3. Len(stack) >= 2 => Own(f.prompt, prompt', done')
    BY <1>1, <1>2, <1>5, Reads
  <2> QED BY <1>3, <2>1, <2>2, <2>3, ReadingEased, Zenon
<1>8. MaxUnplugs = 0 => Joined(f)
  <2> SUFFICES ASSUME MaxUnplugs = 0, Len(stack) = 2 PROVE Joined(f)
    BY DEF Joined
  <2>1. /\ Top.live /\ s.processing /\ s.gen = 1 /\ Top.gen = 1 /\ t = s
        /\ prompt.id = Top.prompt /\ (prompt.state = "pending" \/ done = 1)
    BY <1>1, Reads, Parts
  <2>2. /\ ~s'.active
        /\ \/ s'.processing /\ s'.gen = 1
           \/ o.cancels /\ ~s'.processing /\ s'.gen = 2
    BY <2>1 DEF Handles
  <2>3. /\ prompt'.id = f.prompt /\ (prompt'.state = "pending" \/ done' = 1)
        /\ f.gen = 1
        /\ f.live => s'.processing /\ s'.gen = 1
        /\ ~f.live => ~s'.processing /\ s'.gen = 2 /\ done' = 1
    <3>1. prompt'.id = f.prompt /\ f.gen = 1
      BY <1>2, <1>5, <2>1, Zenon
    <3>2. CASE s'.processing /\ s'.gen = 1
      <4>1. o.s.gen = s.gen
        BY <2>1, <3>2
      <4>2. f.live
        BY <1>2, <2>1, <4>1, Zenon
      <4>3. prompt'.state = "pending" \/ done' = 1
        BY <1>5, <2>1
      <4> QED BY <3>1, <3>2, <4>2, <4>3, Zenon
    <3>3. CASE o.cancels /\ ~s'.processing /\ s'.gen = 2
      <4>1. o.s.gen # s.gen
        BY <2>1, <3>3
      <4>2. ~f.live
        BY <1>2, <3>3, <4>1, Zenon
      <4>3. done' = 1
        BY <1>5, <2>1, <3>3, Zenon
      <4> QED BY <3>1, <3>3, <4>2, <4>3, Zenon
    <3> QED BY <2>2, <3>2, <3>3, Zenon
  <2>4. f.pc \in {"handled", "after"}
    BY <1>2
  <2> QED BY <1>3, <2>2, <2>3, <2>4, ReadingJoined, Zenon
<1>9. UNCHANGED <<unplugs, leaving, answer>> /\ flags' \subseteq flags /\ connected'
  OBVIOUS
<1> QED BY <1>2, <1>4, <1>6, <1>7, <1>8, <1>9, MovePreserves, Zenon

\* A report is read, and handled in a session that is cleared first where the
\* cable had been pulled.
LEMMA ReadReportPreserves == ASSUME IInv, ReadReport PROVE IInv'
<1> DEFINE t == IF connected THEN s ELSE Cleared
<1>1. /\ stack # << >> /\ Top.pc = "read" /\ rx # << >> /\ rx' = Tail(rx) /\ connected' = TRUE
      /\ UNCHANGED <<flags, unplugs, leaving, approved, answer>> /\ rx \in Seq(Packet) /\ SessionOK(s)
  BY Parts DEF ReadReport, At
<1>2. PICK o \in HandlePacket(t, Head(rx)) :
          /\ s' = o.s
          /\ IF o.cancels THEN Finish("canceled") ELSE UNCHANGED <<prompt, done>>
          /\ IF o.dispatches
             THEN \E op \in Operations(o.s.cmd) : stack' = Append(Goto("handled"), Enter(o.s, op))
             ELSE stack' = IF o.cancels /\ o.s.gen # s.gen
                           THEN Stale(Goto("handled")) ELSE Goto("handled")
  BY DEF ReadReport
<1>3. Head(rx) \in Packet /\ rx' \in Seq(Packet)
  BY <1>1, Rest
<1>4. /\ SessionOK(t) /\ (connected => t = s)
      /\ t = s \/ (~connected /\ ~t.active /\ ~t.stopping /\ ~t.cancel)
  <2>1. SessionOK(Cleared) /\ ~Cleared.active /\ ~Cleared.stopping /\ ~Cleared.cancel
    BY <1>1, ResetIdle DEF Cleared, Idle
  <2> HIDE DEF Cleared
  <2> QED BY <1>1, <2>1
<1> HIDE DEF t
<1>5. Handles(t, o)
  BY <1>3, <1>4, PacketHandles
<1>6. CASE o.dispatches
  <2>1. PICK op \in Operations(o.s.cmd) : stack' = Append(Goto("handled"), Enter(o.s, op))
    BY <1>2, <1>6
  <2>2. op \in {"make", "reset", "quick"}
    BY DEF Operations
  <2>3. ~o.cancels
    BY <1>5, <1>6 DEF Handles
  <2>4. UNCHANGED <<prompt, done, flags, unplugs, leaving, approved, answer>>
    BY <1>1, <1>2, <2>3
  <2> QED BY <1>1, <1>2, <1>3, <1>4, <1>5, <1>6, <2>1, <2>2, <2>4, DispatchPreserves, Zenon
<1>7. CASE ~o.dispatches
  <2>1. stack' = IF o.cancels /\ o.s.gen # s.gen THEN Stale(Goto("handled")) ELSE Goto("handled")
    BY <1>2, <1>7
  <2> QED BY <1>1, <1>2, <1>3, <1>4, <1>5, <2>1, ReportPreserves, Zenon
<1> QED BY <1>6, <1>7

-----------------------------------------------------------------------------
(* The end of a request and of the worker.                                 *)

\* A request ends and the one below it goes on; the answer it leaves is the one
\* of FailureMeansNoCommit and NoLateResponse.
LEMMA EndDispatchPreserves == ASSUME IInv, EndDispatch PROVE IInv'
<1> DEFINE n == Len(stack)
           b == stack[n - 1]
<1>1. /\ stack # << >> /\ Top.pc = "end" /\ stack' = SubSeq(stack, 1, n - 1)
      /\ s' = IF Interrupted(Top) THEN s ELSE [s EXCEPT !.processing = FALSE]
      /\ UNCHANGED <<flags, connected, prompt, done, link, leaving, approved>>
      /\ Common /\ SessionOK(s) /\ stack \in Seq(FrameSet)
  BY Parts DEF EndDispatch, At
<1>2. n \in Nat /\ n >= 2 /\ FrameOK(Top, approved)
  BY <1>1, TopFacts
<1>3. /\ stack' \in Seq(FrameSet) /\ Len(stack') = n - 1 /\ stack' # << >>
      /\ \A i \in 1..Len(stack') : stack'[i] = stack[i]
  BY <1>1, <1>2, Pop
<1>4. n - 1 \in 1..n /\ n - 1 < n /\ n - 1 \in 1..(n - 1) /\ n >= 1 /\ 1 \in 1..(n - 1)
  BY <1>2
<1>5. Top' = b
  BY <1>3, <1>4, Zenon DEF Top
<1>6. /\ b.pc = "handled"
      /\ \A i \in 1..n : i < n => stack[i].pc = "handled"
      /\ MainOK(stack[1])
      /\ \A i \in 2..n : FrameOK(stack[i], approved)
  BY <1>1, <1>4 DEF Common
<1>7. UNCHANGED <<flags, connected, prompt, done, rx, unplugs, running, ui, approved>>
  BY <1>1 DEF link, leaving
<1>8. /\ SessionOK(s') /\ s'.active = s.active /\ s'.cancel = s.cancel /\ s'.stopping = s.stopping
  <2>1. CASE s' = s
    BY <1>1, <2>1
  <2>2. CASE s' = [s EXCEPT !.processing = FALSE]
    <3>1. /\ DOMAIN s' = DOMAIN s /\ s'.active = s.active /\ s'.processing = FALSE /\ s'.cancel = s.cancel
          /\ s'.stopping = s.stopping /\ s'.gen = s.gen /\ s'.cid = s.cid /\ s'.cmd = s.cmd
      BY <1>1, <2>2 DEF SessionOK, Blank
    <3> QED BY <1>1, <3>1 DEF SessionOK
  <2> QED BY <1>1, <2>1, <2>2
<1>9. /\ answer'.told = IF Interrupted(Top) THEN "nothing"
                        ELSE IF Top.cmd = "CBOR" /\ s.cancel THEN "cancel" ELSE Top.status
      /\ answer'.live = Top.live /\ answer'.committed = Top.committed
  BY DEF EndDispatch
<1> HIDE DEF n, b
<1>10. Common'
  <2>1. \A i \in 1..Len(stack') : i < Len(stack') => stack'[i].pc = "handled"
    <3> TAKE i \in 1..Len(stack')
    <3>1. i \in 1..n /\ i < n
      BY <1>2, <1>3
    <3> QED BY <1>3, <1>6, <3>1, Zenon
  <2>2. MainOK(stack'[1])
    BY <1>3, <1>4, <1>6, Zenon
  <2>3. \A i \in 2..Len(stack') : FrameOK(stack'[i], approved')
    <3> TAKE i \in 2..Len(stack')
    <3>1. i \in 2..n /\ i \in 1..Len(stack')
      BY <1>2, <1>3
    <3>2. approved' = approved
      BY <1>7
    <3> QED BY <1>3, <1>6, <3>1, <3>2, Zenon
  <2>4. /\ DOMAIN prompt' = {"state", "id"} /\ prompt'.id \in Nat /\ done' \in {0, 1} /\ rx' \in Seq(Packet)
        /\ prompt'.state = "approved" => prompt'.id \in approved'
    BY <1>7, Parts
  <2>5. b.pc # "drain"
    BY <1>6
  <2> QED BY <1>3, <1>5, <1>8, <2>1, <2>2, <2>3, <2>4, <2>5, Zenon DEF Common
<1>11. Leaving = {} => Undisturbed' /\ FailureMeansNoCommit'
  <2> SUFFICES ASSUME Leaving = {} PROVE Undisturbed' /\ FailureMeansNoCommit'
    OBVIOUS
  <2>1. /\ ui' = "free" /\ running' /\ "stop" \notin flags' /\ ~s'.stopping
        /\ s'.active => ~s'.cancel
        /\ s'.cancel \/ done' = 1 => prompt'.state # "pending"
    BY <1>7, <1>8, Parts
  <2>2. Calm(Top, s, prompt, done)
    BY <1>2, Parts, Zenon DEF n
  <2>3. FailureMeansNoCommit'
    <3>1. Top.committed => ~s.cancel /\ Top.status = "ok"
      BY <1>2, <2>2 DEF Calm, FrameOK
    <3>2. Top.committed => answer'.told \in {"nothing", "ok"}
      BY <1>9, <3>1
    <3> QED BY <1>9, <3>2 DEF FailureMeansNoCommit
  <2>4. n >= 3 => Own(b.prompt, prompt, done) \/ s.cancel
    <3>1. n >= 3 => Held(Top, b.prompt, s, prompt, done)
      BY Parts, Zenon DEF n, b
    <3> QED BY <1>1, <3>1, Zenon DEF Held
  <2>5. n >= 3 => FrameOK(b, approved)
    <3>1. n >= 3 => n - 1 \in 2..n
      BY <1>2
    <3> QED BY <1>6, <3>1, Zenon DEF b
  <2>6. n >= 3 => Calm(b, s', prompt', done')
    <3>1. n >= 3 => ~b.committed
      BY <1>6, <2>5 DEF FrameOK
    <3>2. n >= 3 => Own(b.prompt, prompt', done') \/ s'.cancel
      BY <1>7, <1>8, <2>4
    <3> QED BY <1>6, <3>1, <3>2 DEF Calm
  <2>7. \A id : Held(b, id, s', prompt', done')
    BY <1>6 DEF Held
  <2>8. Len(stack') >= 2 => n >= 3
    BY <1>2, <1>3
  <2>9. b.pc # "exit"
    BY <1>6
  <2> QED BY <1>3, <1>5, <2>1, <2>3, <2>6, <2>7, <2>8, <2>9, Zenon DEF Undisturbed
<1>12. MaxUnplugs = 0 => Plugged' /\ NoLateResponse'
  <2> SUFFICES ASSUME MaxUnplugs = 0 PROVE Plugged' /\ NoLateResponse'
    OBVIOUS
  <2>1. n <= 2 /\ unplugs' = 0 /\ flags' \subseteq {"stop"} /\ connected'
    BY <1>1, <1>7, Parts DEF n
  <2>2. n = 2
    BY <1>2, <2>1, TwoOrMore, Zenon
  <2>3. Linked(Top, s, prompt, done)
    BY <2>2, Parts, Zenon DEF n
  <2>4. NoLateResponse'
    <3>1. ~Top.live => Interrupted(Top)
      BY <2>3 DEF Linked, Interrupted
    <3> QED BY <1>9, <3>1 DEF NoLateResponse
  <2>5. Len(stack') = 1
    BY <1>3, <2>2
  <2>6. Len(stack') <= 2 /\ Len(stack') # 2
    BY <2>5
  <2> QED BY <2>1, <2>4, <2>6, Zenon DEF Plugged
<1> QED BY <1>10, <1>11, <1>12 DEF IInv

\* A worker that is gone.
LEMMA GonePreserves ==
    ASSUME IInv, stack' = << >>, Leaving # {}, Shared, UNCHANGED answer,
           MaxUnplugs = 0 => unplugs' = 0 /\ flags' \subseteq {"stop"}
    PROVE  IInv'
<1>1. Len(stack') = 0 /\ stack' \in Seq(FrameSet)
  OBVIOUS
<1>2. Common'
  <2>1. 1..Len(stack') = {} /\ 2..Len(stack') = {}
    BY <1>1
  <2> QED BY <1>1, <2>1 DEF Common, Shared
<1>3. MaxUnplugs = 0 => Plugged' /\ NoLateResponse'
  BY <1>1 DEF IInv, Plugged, NoLateResponse
<1> QED BY <1>2, <1>3 DEF IInv

\* The worker leaves its loop.
LEMMA ExitPreserves == ASSUME IInv, Exit PROVE IInv'
<1>1. /\ stack # << >> /\ Top.pc = "exit" /\ Finish("canceled") /\ s' = Cleared /\ stack' = << >>
      /\ UNCHANGED <<flags, link, leaving, approved, answer>>
  BY DEF Exit, At
<1>2. Leaving # {}
  BY <1>1, Parts
<1>3. /\ DOMAIN prompt' = {"state", "id"} /\ prompt'.id = prompt.id /\ prompt'.id \in Nat
      /\ done' \in {0, 1} /\ (prompt'.state = "approved" => prompt.state = "approved")
  BY <1>1, FinishFacts
<1>4. UNCHANGED <<flags, rx, unplugs, approved, answer>>
  BY <1>1 DEF link
<1>5. Shared
  BY <1>1, <1>3, <1>4, ClearedOK, Parts DEF Shared
<1>6. MaxUnplugs = 0 => unplugs' = 0 /\ flags' \subseteq {"stop"}
  BY <1>4, Parts
<1>7. UNCHANGED answer
  BY <1>4
<1> QED BY <1>1, <1>2, <1>5, <1>6, <1>7, GonePreserves, Zenon

-----------------------------------------------------------------------------
(* The UI thread, the host and the cable.                                  *)

\* A step of another thread leaves the stack alone.
LEMMA OutsidePreserves ==
    ASSUME IInv, UNCHANGED stack, UNCHANGED answer, Shared,
           stack # << >> /\ Top.pc = "drain" => s'.processing,
           Leaving = {} => UNCHANGED <<ui, running>> /\ "stop" \notin flags' /\ Eased(Top),
           MaxUnplugs = 0 => /\ unplugs' = 0 /\ flags' \subseteq {"stop"}
                             /\ stack # << >> => connected' /\ Joined(Top)
    PROVE  IInv'
<1>1. CASE stack = << >>
  <2>1. Leaving # {}
    BY <1>1, Parts
  <2>2. stack' = << >>
    BY <1>1
  <2> QED BY <2>1, <2>2, GonePreserves, Zenon
<1>2. CASE stack # << >>
  <2>1. Common /\ Len(stack) \in Nat /\ Len(stack) >= 1 /\ approved \subseteq approved'
    BY <1>2, Parts, TopFacts DEF Shared
  <2>2. Top \in FrameSet /\ Replaces(Top)
    BY <1>2, <2>1, SelfReplaces, Zenon
  <2>3. Fits(Top)
    <3>1. CASE Len(stack) = 1
      BY <1>2, <2>1, <3>1, TopFacts, FitsMain, Zenon
    <3>2. CASE Len(stack) >= 2
      <4>1. FrameOK(Top, approved)
        BY <1>2, <2>1, <3>2, TopFacts, Zenon
      <4>2. FrameOK(Top, approved')
        BY <2>1, <4>1 DEF FrameOK
      <4> QED BY <1>2, <2>1, <3>2, <4>2, FitsRequest, Zenon
    <3> QED BY <2>1, <3>1, <3>2, OneOrMore, Zenon
  <2> QED BY <1>2, <2>2, <2>3, ReplacePreserves, Zenon
<1> QED BY <1>1, <1>2

\* What holds of the frame on top holds as long as nothing it looks at changes.
LEMMA Kept ==
    ASSUME IInv, UNCHANGED <<s, prompt, done>>
    PROVE  /\ Leaving = {} => Eased(Top)
           /\ MaxUnplugs = 0 => Joined(Top)
           /\ stack # << >> /\ Top.pc = "drain" => s'.processing
<1>1. s' = s /\ prompt' = prompt /\ done' = done
  OBVIOUS
<1>2. Leaving = {} => Eased(Top)
  BY <1>1, Parts, Zenon DEF Eased
<1>3. MaxUnplugs = 0 => Joined(Top)
  BY <1>1, Parts, Zenon DEF Joined
<1>4. stack # << >> /\ Top.pc = "drain" => s'.processing
  BY <1>1, Parts
<1> QED BY <1>2, <1>3, <1>4

\* The UI thread answers the prompt or lets it expire.
LEMMA AnswerPreserves ==
    ASSUME IInv, NEW x, x # "pending", prompt.state = "pending", Finish(x),
           approved \subseteq approved', x = "approved" => prompt.id \in approved',
           UNCHANGED <<s, stack, flags, connected, link, leaving, answer>>
    PROVE  IInv'
<1>1. /\ DOMAIN prompt' = {"state", "id"} /\ prompt'.id = prompt.id /\ prompt'.id \in Nat
      /\ done' \in {0, 1} /\ prompt'.state # "pending" /\ done' = 1
      /\ prompt'.state = "approved" => x = "approved"
      /\ \A id : Own(id, prompt, done) => Own(id, prompt', done')
  BY FinishFacts
<1>2. UNCHANGED <<s, stack, flags, connected, rx, unplugs, running, ui, answer>>
  BY DEF link, leaving
<1>3. Shared
  BY <1>1, <1>2, Parts DEF Shared
<1>4. Leaving = {} => Eased(Top)
  <2> SUFFICES ASSUME Leaving = {} PROVE Eased(Top)
    OBVIOUS
  <2>1. /\ ~s'.stopping /\ Top.pc # "exit" /\ (s'.active => ~s'.cancel)
    BY <1>2, Parts
  <2>2. Len(stack) >= 2 => Calm(Top, s', prompt', done')
    <3>1. Len(stack) >= 2 => Calm(Top, s, prompt, done)
      BY Parts, Zenon
    <3> QED BY <1>1, <1>2, <3>1 DEF Calm
  <2>3. Len(stack) >= 3 => Held(Top, stack[Len(stack) - 1].prompt, s', prompt', done')
    <3>1. Len(stack) >= 3 => Held(Top, stack[Len(stack) - 1].prompt, s, prompt, done)
      BY Parts, Zenon
    <3>2. s' = s
      BY <1>2
    <3> QED BY <1>1, <3>1, <3>2, Zenon DEF Held
  <2> QED BY <1>1, <2>1, <2>2, <2>3, Zenon DEF Eased
<1>5. MaxUnplugs = 0 => Joined(Top)
  <2>1. MaxUnplugs = 0 /\ Len(stack) = 2 => Linked(Top, s, prompt, done)
    BY Parts, Zenon
  <2> QED BY <1>1, <1>2, <2>1 DEF Linked, Joined
<1>6. /\ UNCHANGED stack /\ UNCHANGED answer
      /\ stack # << >> /\ Top.pc = "drain" => s'.processing
      /\ Leaving = {} => UNCHANGED <<ui, running>> /\ "stop" \notin flags'
      /\ MaxUnplugs = 0 => /\ unplugs' = 0 /\ flags' \subseteq {"stop"}
                           /\ stack # << >> => connected'
  BY <1>2, Parts
<1> QED BY <1>3, <1>4, <1>5, <1>6, OutsidePreserves, Zenon

\* Approval, denial and expiry.
LEMMA UserPreserves == ASSUME IInv, Approve \/ Deny \/ Expire PROVE IInv'
<1>1. CASE Approve
  BY <1>1, AnswerPreserves DEF Approve
<1>2. CASE Deny
  BY <1>2, AnswerPreserves DEF Deny
<1>3. CASE Expire
  BY <1>3, AnswerPreserves DEF Expire
<1> QED BY <1>1, <1>2, <1>3

\* The UI thread stops the worker.
LEMMA StopPreserves == ASSUME IInv, Quit \/ Restart \/ Stop PROVE IInv'
<1>1. /\ Leaving # {} /\ UNCHANGED <<stack, connected, prompt, link, approved, answer>>
      /\ done' \in {done, 1} /\ flags' \subseteq flags \cup {"stop"}
  <2>1. CASE Quit \/ Restart
    BY <2>1 DEF Quit, Restart
  <2>2. CASE Stop
    <3>1. ui # "free"
      BY <2>2 DEF Stop, StopMark, StopRelease, StopSignal, Join
    <3>2. Leaving # {}
      BY <3>1, Parts
    <3> QED BY <2>2, <3>2 DEF Stop, StopMark, StopRelease, StopSignal, Join
  <2> QED BY <2>1, <2>2
<1>2. UNCHANGED <<stack, connected, prompt, rx, unplugs, approved, answer>>
  BY <1>1 DEF link
<1>3. /\ SessionOK(s') /\ s'.active = s.active /\ s'.processing = s.processing /\ s'.gen = s.gen
      /\ s.cancel => s'.cancel
  <2>1. SessionOK(s)
    BY Parts
  <2>2. s' = s \/ s' = [s EXCEPT !.stopping = TRUE, !.cancel = TRUE]
    BY DEF Quit, Restart, Stop, StopMark, StopRelease, StopSignal, Join
  <2>3. CASE s' = [s EXCEPT !.stopping = TRUE, !.cancel = TRUE]
    <3>1. /\ DOMAIN s' = DOMAIN s /\ s'.active = s.active /\ s'.processing = s.processing /\ s'.cancel = TRUE
          /\ s'.stopping = TRUE /\ s'.gen = s.gen /\ s'.cid = s.cid /\ s'.cmd = s.cmd
      BY <2>1, <2>3 DEF SessionOK, Blank
    <3> QED BY <2>1, <3>1 DEF SessionOK
  <2>4. CASE s' = s
    BY <2>1, <2>4
  <2> QED BY <2>2, <2>3, <2>4
<1>4. Shared
  BY <1>1, <1>2, <1>3, Parts DEF Shared
<1>5. MaxUnplugs = 0 => Joined(Top)
  <2>1. MaxUnplugs = 0 /\ Len(stack) = 2 => Linked(Top, s, prompt, done)
    BY Parts, Zenon
  <2>2. prompt' = prompt /\ (done' = done \/ done' = 1)
    BY <1>1, <1>2
  <2> QED BY <1>3, <2>1, <2>2 DEF Linked, Joined
<1>6. /\ UNCHANGED stack /\ UNCHANGED answer
      /\ stack # << >> /\ Top.pc = "drain" => s'.processing
      /\ MaxUnplugs = 0 => /\ unplugs' = 0 /\ flags' \subseteq {"stop"}
                           /\ stack # << >> => connected'
  BY <1>1, <1>2, <1>3, Parts
<1> QED BY <1>1, <1>4, <1>5, <1>6, OutsidePreserves, Zenon

\* A report arrives, or the cable is pulled and put back.
LEMMA HostPreserves == ASSUME IInv, Send \/ Replug PROVE IInv'
<1>1. /\ UNCHANGED <<s, prompt, done>>
      /\ UNCHANGED <<s, stack, connected, prompt, done, running, ui, approved, answer>>
  BY DEF Send, Replug, leaving
<1>2. rx' \in Seq(Packet)
  <2>1. CASE Send
    <3>1. PICK p \in Reports : rx' = Append(rx, p)
      BY <2>1 DEF Send
    <3>2. p \in Packet /\ rx \in Seq(Packet)
      BY WorkerAssumption, Parts
    <3> QED BY <3>1, <3>2, AppendProperties
  <2>2. CASE Replug
    BY <2>2 DEF Replug
  <2> QED BY <2>1, <2>2
<1>3. Shared
  BY <1>1, <1>2, Parts DEF Shared
<1>4. Leaving = {} => "stop" \notin flags'
  BY Parts DEF Send, Replug
<1>5. MaxUnplugs = 0 => unplugs' = 0 /\ flags' \subseteq {"stop"}
  <2>1. MaxUnplugs = 0 => ~Replug
    BY Parts DEF Replug
  <2> QED BY <2>1, Parts DEF Send
<1>6. /\ UNCHANGED stack /\ UNCHANGED answer
      /\ Leaving = {} => UNCHANGED <<ui, running>>
      /\ MaxUnplugs = 0 => (stack # << >> => connected')
  BY <1>1, Parts
<1> QED BY <1>1, <1>3, <1>4, <1>5, <1>6, Kept, OutsidePreserves, Zenon

\* Nothing happens.
LEMMA StutterPreserves == ASSUME IInv, UNCHANGED vars PROVE IInv'
<1>1. /\ UNCHANGED <<s, prompt, done>>
      /\ UNCHANGED <<s, stack, rx, flags, connected, prompt, done, running, ui, unplugs, approved, answer>>
  BY DEF vars
<1>2. Shared
  BY <1>1, Parts DEF Shared
<1>3. /\ UNCHANGED stack /\ UNCHANGED answer
      /\ Leaving = {} => UNCHANGED <<ui, running>> /\ "stop" \notin flags'
      /\ MaxUnplugs = 0 => /\ unplugs' = 0 /\ flags' \subseteq {"stop"}
                           /\ stack # << >> => connected'
  BY <1>1, Parts
<1> QED BY <1>1, <1>2, <1>3, Kept, OutsidePreserves, Zenon

-----------------------------------------------------------------------------
(* Interrupted requests.  A pulled cable starts the generations from zero  *)
(* again, so an interrupted request is told by its generation only as long *)
(* as no other request is dispatched below it.                             *)

\* The request on top, if it is the only one there ever was below the main
\* loop: once interrupted it is not the one the session processes.
Apart(f, t) == f.gen = 1 /\ (~f.live => ~t.processing /\ t.gen # 1)

Alone ==
    /\ s.processing => s.gen >= 1
    /\ ~nested => /\ Len(stack) <= 2
                  /\ Len(stack) = 2 => Apart(Top, s)
                  /\ NoLateResponse

\* A step that replaces the frame on top.
LEMMA AloneReplaced ==
    ASSUME Alone, NEW f, Replaces(f), UNCHANGED nested, UNCHANGED answer,
           s'.processing => s'.gen >= 1,
           ~nested /\ Len(stack) = 2 => Apart(f, s')
    PROVE  Alone'
<1>1. Len(stack') = Len(stack) /\ Top' = f
  BY DEF Replaces
<1>2. NoLateResponse => NoLateResponse'
  BY DEF NoLateResponse
<1> QED BY <1>1, <1>2 DEF Alone

\* A step that leaves the generation, the request and what it has met alone.
LEMMA AloneSame ==
    ASSUME Alone, NEW f, Replaces(f), UNCHANGED nested, UNCHANGED answer,
           f.gen = Top.gen, f.live = Top.live,
           s'.processing = s.processing, s'.gen = s.gen
    PROVE  Alone'
<1>1. s'.processing => s'.gen >= 1
  BY DEF Alone
<1>2. ~nested /\ Len(stack) = 2 => Apart(f, s')
  BY DEF Alone, Apart
<1> QED BY <1>1, <1>2, AloneReplaced, Zenon

\* The ways in which the frame on top goes on.
LEMMA AloneGoes ==
    ASSUME IInv, Alone, stack # << >>, UNCHANGED nested, UNCHANGED answer,
           s'.processing = s.processing, s'.gen = s.gen,
           \/ \E x \in Steps : stack' = Goto(x)
           \/ \E st \in Statuses : stack' = Fail(st)
           \/ Top.todo # << >> /\ stack' = Advance
           \/ UNCHANGED stack
    PROVE  Alone'
<1>1. Common
  BY Parts
<1>2. CASE \E x \in Steps : stack' = Goto(x)
  <2>1. PICK f \in FrameSet : Replaces(f) /\ SameFrame(Top, f)
    BY <1>1, <1>2, GotoFrame
  <2> QED BY <2>1, AloneSame DEF SameFrame
<1>3. CASE \E st \in Statuses : stack' = Fail(st)
  <2>1. PICK f \in FrameSet : Replaces(f) /\ f.gen = Top.gen /\ f.live = Top.live
    BY <1>1, <1>3, FailFrame
  <2> QED BY <2>1, AloneSame
<1>4. CASE Top.todo # << >> /\ stack' = Advance
  <2>1. PICK f \in FrameSet : Replaces(f) /\ f.gen = Top.gen /\ f.live = Top.live
    BY <1>1, <1>4, AdvanceFrame
  <2> QED BY <2>1, AloneSame
<1>5. CASE UNCHANGED stack
  <2>1. Replaces(Top)
    BY <1>1, <1>5, SelfReplaces
  <2> QED BY <2>1, AloneSame
<1> QED BY <1>2, <1>3, <1>4, <1>5

\* The prompt: asking and taking its result.
LEMMA AlonePrompt == ASSUME IInv, Alone, Ask \/ TryResult PROVE Alone'
<1>1. stack # << >> /\ UNCHANGED nested /\ UNCHANGED answer /\ UNCHANGED s
  BY DEF Ask, TryResult, AtStep, At, link
<1>2. CASE Ask
  <2>1. CASE stack' = Fail("timeout")
    BY <1>1, <2>1, AloneGoes DEF Statuses
  <2>2. CASE stack' = With([Top EXCEPT !.pc = "try", !.prompt = prompt.id + 1])
    <3> DEFINE f == [Top EXCEPT !.pc = "try", !.prompt = prompt.id + 1]
    <3>1. Top \in FrameSet /\ Common /\ prompt.id + 1 \in Nat
      BY <1>1, Parts, TopFacts
    <3>2. f \in FrameSet /\ f.gen = Top.gen /\ f.live = Top.live
      BY <3>1 DEF FrameSet, Steps
    <3>3. Replaces(f)
      BY <1>1, <2>2, <3>1, <3>2, WithReplaces
    <3> HIDE DEF f
    <3> QED BY <1>1, <3>2, <3>3, AloneSame
  <2> QED BY <1>2, <2>1, <2>2 DEF Ask
<1>3. CASE TryResult
  <2>1. Top.pc = "try" /\ Common
    BY <1>3, Parts DEF TryResult, At
  <2>2. FrameOK(Top, approved)
    BY <1>1, <2>1, TopFacts
  <2>3. Top.todo # << >>
    BY <2>1, <2>2, PlansDiffer DEF FrameOK
  <2>4. stack' = Goto("wait") \/ stack' = Advance \/ \E st \in Statuses : stack' = Fail(st)
    BY <1>3 DEF TryResult, Result, Statuses
  <2> QED BY <1>1, <2>3, <2>4, AloneGoes DEF Steps, Reading
<1> QED BY <1>2, <1>3

\* The loops that read reports, between two reports.
LEMMA AloneLoop == ASSUME IInv, Alone, CheckStop \/ NoReport \/ Handled \/ After PROVE Alone'
<1>1. stack # << >> /\ UNCHANGED nested /\ UNCHANGED answer
  BY DEF CheckStop, NoReport, Handled, After, At, link
<1>2. s'.processing = s.processing /\ s'.gen = s.gen
  <2>1. SessionOK(s)
    BY Parts
  <2>2. s' = s \/ s' = Tick(s) \/ s' = [s EXCEPT !.cancel = TRUE]
    BY DEF CheckStop, NoReport, Handled, After
  <2> QED BY <2>1, <2>2, TickOK, MarkOK
<1>3. (\E x \in Steps : stack' = Goto(x)) \/ (\E st \in Statuses : stack' = Fail(st))
  BY DEF CheckStop, NoReport, Handled, After, Steps, Reading, Statuses
<1> QED BY <1>1, <1>2, <1>3, AloneGoes

\* The thread flags.
LEMMA AloneFlags == ASSUME IInv, Alone, TakeFlags PROVE Alone'
<1>1. stack # << >> /\ UNCHANGED nested /\ UNCHANGED answer /\ Common
  BY Parts DEF TakeFlags, At, link
<1>2. CASE UNCHANGED s /\ (stack' = Goto("exit") \/ stack' = Fail("timeout") \/ stack' = Goto("request"))
  BY <1>1, <1>2, AloneGoes DEF Steps, Reading, Statuses
<1>3. CASE s' = Cleared /\ (stack' = Stale(Goto("request")) \/ stack' = Goto("request"))
  <2>1. ~s'.processing /\ s'.gen = 0
    BY <1>3, ClearedOK
  <2>2. \E f \in FrameSet : Replaces(f) /\ f.gen = Top.gen
    BY <1>1, <1>3, GotoFrame, StaleGotoFrame DEF Steps, Reading, SameFrame
  <2>3. PICK f \in FrameSet : Replaces(f) /\ f.gen = Top.gen
    BY <2>2
  <2>4. ~nested /\ Len(stack) = 2 => Apart(f, s')
    BY <2>1, <2>3 DEF Alone, Apart
  <2> QED BY <1>1, <2>1, <2>3, <2>4, AloneReplaced, Zenon
<1> QED BY <1>2, <1>3 DEF TakeFlags

\* The steps of a request: the poll, what it drains, and the change.
LEMMA AloneRequest == ASSUME IInv, Alone, Poll \/ Drain \/ Commit PROVE Alone'
<1>1. /\ stack # << >> /\ UNCHANGED nested /\ UNCHANGED answer /\ Common /\ SessionOK(s)
      /\ Top.pc \in {"step", "drain"}
  BY Parts DEF Poll, Drain, Commit, AtStep, At, link
<1>2. Top.todo # << >> /\ Top \in FrameSet
  BY <1>1, AtAStep
<1>3. CASE Poll
  <2>1. s'.processing = s.processing /\ s'.gen = s.gen
    BY <1>1, <1>3, MarkOK DEF Poll
  <2>2. stack' = Advance \/ stack' = Fail("cancel") \/ stack' = Goto("drain")
    BY <1>3 DEF Poll
  <2> QED BY <1>1, <1>2, <2>1, <2>2, AloneGoes DEF Steps, Statuses
<1>4. CASE Commit
  <2>1. CASE stack' = Fail("error")
    BY <1>1, <1>4, <2>1, AloneGoes DEF Statuses, Commit
  <2>2. CASE stack' = [Advance EXCEPT ![Len(stack)].committed = TRUE]
    <3> DEFINE x == IF Len(Top.todo) = 1 THEN "end" ELSE "step"
               g == [Top EXCEPT !.todo = Tail(@), !.pc = x]
               f == [g EXCEPT !.committed = TRUE]
    <3>1. Advance = With(g) /\ x \in Steps
      BY DEF Advance, Steps
    <3> HIDE DEF x
    <3>2. Tail(Top.todo) \in Plan
      BY <1>1, <1>2, AtAStep, Plans DEF Plan
    <3>3. g \in FrameSet /\ g.gen = Top.gen /\ g.live = Top.live
      BY <1>2, <3>1, <3>2 DEF FrameSet
    <3> HIDE DEF g
    <3>4. f \in FrameSet /\ f.gen = Top.gen /\ f.live = Top.live
      BY <3>3 DEF FrameSet
    <3>5. stack \in Seq(FrameSet) /\ Len(stack) \in 1..Len(stack) /\ DOMAIN stack = 1..Len(stack)
      BY <1>1, TopFacts, LenProperties DEF Common
    <3>6. With(g)[Len(stack)] = g /\ DOMAIN With(g) = DOMAIN stack
      BY <3>5 DEF With
    <3>7. [With(g) EXCEPT ![Len(stack)].committed = TRUE] = [With(g) EXCEPT ![Len(stack)] = f]
      BY <3>6
    <3>8. [With(g) EXCEPT ![Len(stack)] = f] = With(f)
      <4> HIDE DEF f
      <4> QED BY <3>5 DEF With
    <3>9. stack' = With(f)
      BY <2>2, <3>1, <3>7, <3>8, Zenon
    <3> HIDE DEF f
    <3>10. Replaces(f)
      BY <1>1, <3>4, <3>9, WithReplaces, Zenon
    <3>11. UNCHANGED s
      BY <1>4 DEF Commit
    <3> QED BY <1>1, <3>4, <3>10, <3>11, AloneSame
  <2> QED BY <1>4, <2>1, <2>2 DEF Commit
<1>5. CASE Drain
  <2>1. s.processing /\ s.gen >= 1 /\ s.gen \in Nat
    BY <1>1, <1>5, Parts DEF Drain, At, Alone, SessionOK
  <2>2. CASE s' = [s EXCEPT !.cancel = TRUE] /\ stack' = Fail("cancel")
    BY <1>1, <2>2, MarkOK, AloneGoes DEF Statuses
  <2>3. CASE s' = Tick(s) /\ stack' = Advance
    BY <1>1, <1>2, <2>3, TickOK, AloneGoes
  <2>4. ASSUME NEW o \in Control(s, Head(rx)), o.cancels, s' = [o.s EXCEPT !.cancel = TRUE],
               stack' = IF o.s.gen # s.gen THEN Stale(Fail("cancel")) ELSE Fail("cancel")
        PROVE  Alone'
    <3>1. Handles(s, o)
      BY <1>1, <2>1, ControlHandles
    <3>2. s'.processing = o.s.processing /\ s'.gen = o.s.gen
      BY <2>4, <3>1, MarkOK DEF Handles
    <3>3. (s'.processing /\ s'.gen = s.gen) \/ (~s'.processing /\ s'.gen = s.gen + 1)
      BY <2>1, <3>1, <3>2 DEF Handles
    <3>4. CASE s'.processing /\ s'.gen = s.gen
      BY <1>1, <2>1, <2>4, <3>2, <3>4, AloneGoes DEF Statuses, SessionOK
    <3>5. CASE ~s'.processing /\ s'.gen = s.gen + 1
      <4>1. stack' = Stale(Fail("cancel"))
        BY <2>1, <2>4, <3>2, <3>5
      <4>2. PICK f \in FrameSet : Replaces(f) /\ f.gen = Top.gen
        BY <1>1, <4>1, StaleFailFrame DEF Statuses
      <4>3. s'.gen # 1
        BY <2>1, <3>5
      <4>4. ~nested /\ Len(stack) = 2 => Apart(f, s')
        BY <3>5, <4>2, <4>3 DEF Alone, Apart
      <4> QED BY <1>1, <3>5, <4>2, <4>4, AloneReplaced, Zenon
    <3> QED BY <3>3, <3>4, <3>5
  <2>5. ASSUME NEW o \in Control(s, Head(rx)), ~o.cancels, s' = o.s, UNCHANGED stack
        PROVE  Alone'
    <3>1. Handles(s, o)
      BY <1>1, <2>1, ControlHandles
    <3>2. s'.processing = s.processing /\ s'.gen = s.gen
      BY <1>1, <2>1, <2>5, <3>1 DEF Handles, SessionOK
    <3> QED BY <1>1, <2>5, <3>2, AloneGoes
  <2>6. CASE \E o \in Control(s, Head(rx)) :
                IF o.cancels
                THEN /\ s' = [o.s EXCEPT !.cancel = TRUE]
                     /\ stack' = IF o.s.gen # s.gen THEN Stale(Fail("cancel")) ELSE Fail("cancel")
                     /\ Finish("canceled")
                ELSE s' = o.s /\ UNCHANGED <<stack, prompt, done>>
    BY <2>4, <2>5, <2>6
  <2> QED BY <1>5, <2>2, <2>3, <2>6 DEF Drain
<1> QED BY <1>3, <1>4, <1>5

\* A report: it interrupts the request, begins one, or leaves it alone.
LEMMA AloneReport == ASSUME IInv, Alone, ReadReport PROVE Alone'
<1> DEFINE t == IF connected THEN s ELSE Cleared
<1>1. stack # << >> /\ rx # << >> /\ UNCHANGED answer /\ Common /\ SessionOK(s) /\ Head(rx) \in Packet
  BY Parts, Rest DEF ReadReport, At
<1>2. PICK o \in HandlePacket(t, Head(rx)) :
          /\ s' = o.s
          /\ IF o.dispatches
             THEN \E op \in Operations(o.s.cmd) :
                     /\ stack' = Append(Goto("handled"), Enter(o.s, op))
                     /\ nested' = (nested \/ ~InMain)
             ELSE /\ UNCHANGED nested
                  /\ stack' = IF o.cancels /\ o.s.gen # s.gen
                              THEN Stale(Goto("handled")) ELSE Goto("handled")
  BY DEF ReadReport
<1>3. SessionOK(t) /\ (t = s \/ (~t.processing /\ t.gen = 0))
  <2>1. SessionOK(Cleared) /\ ~Cleared.processing /\ Cleared.gen = 0
    BY <1>1, ResetIdle DEF Cleared, Idle
  <2> HIDE DEF Cleared
  <2> QED BY <1>1, <2>1
<1> HIDE DEF t
<1>4. Handles(t, o)
  BY <1>1, <1>3, PacketHandles
<1>5. NoLateResponse => NoLateResponse'
  BY <1>1 DEF NoLateResponse
<1>6. CASE o.dispatches
  <2>1. PICK op \in Operations(o.s.cmd) : /\ stack' = Append(Goto("handled"), Enter(o.s, op))
                                          /\ nested' = (nested \/ ~InMain)
    BY <1>2, <1>6
  <2>2. op \in {"make", "reset", "quick"}
    BY DEF Operations
  <2>3. SessionOK(o.s) /\ s'.gen = 1 /\ s'.gen >= 1 /\ o.s.gen = 1
    BY <1>2, <1>4, <1>6 DEF Handles
  <2> DEFINE e == Enter(o.s, op)
  <2>4. e \in FrameSet /\ e.gen = 1 /\ e.live /\ FrameOK(e, approved)
    BY <2>2, <2>3, EnterFrame
  <2>5. stack' = Append(Goto("handled"), e)
    BY <2>1
  <2> HIDE DEF e
  <2>6. Top.pc \in Reading
    BY DEF ReadReport, At, Reading
  <2>7. Len(stack') = Len(stack) + 1 /\ Top' = e
    BY <1>1, <2>4, <2>5, <2>6, PushedStack
  <2>8. ~nested' => ~nested /\ Len(stack) = 1
    BY <2>1 DEF InMain
  <2>9. ~nested' => Len(stack') <= 2
    BY <2>7, <2>8
  <2>10. Apart(e, s')
    BY <2>4 DEF Apart
  <2> QED BY <1>5, <2>3, <2>7, <2>8, <2>9, <2>10, Zenon DEF Alone
<1>7. CASE ~o.dispatches
  <2>1. /\ UNCHANGED nested
        /\ stack' = IF o.cancels /\ o.s.gen # s.gen THEN Stale(Goto("handled")) ELSE Goto("handled")
    BY <1>2, <1>7
  <2>2. CASE s'.processing = s.processing /\ s'.gen = s.gen
    BY <1>1, <1>2, <2>1, <2>2, AloneGoes DEF Steps, Reading
  <2>3. CASE ~s'.processing /\ s'.gen # 1
    <3>1. \E f \in FrameSet : Replaces(f) /\ f.gen = Top.gen
      BY <1>1, <2>1, GotoFrame, StaleGotoFrame DEF Steps, Reading, SameFrame
    <3>2. PICK f \in FrameSet : Replaces(f) /\ f.gen = Top.gen
      BY <3>1
    <3>3. ~nested /\ Len(stack) = 2 => Apart(f, s')
      BY <2>3, <3>2 DEF Alone, Apart
    <3> QED BY <1>1, <2>1, <2>3, <3>2, <3>3, AloneReplaced, Zenon
  <2>4. \/ s'.processing = s.processing /\ s'.gen = s.gen
        \/ ~s'.processing /\ s'.gen # 1
    <3>1. CASE t.processing
      <4>1. t = s /\ s.gen >= 1 /\ s.gen \in Nat /\ s.processing = TRUE
        BY <1>1, <1>3, <3>1 DEF Alone, SessionOK
      <4>2. (s'.processing /\ s'.gen = s.gen) \/ (~s'.processing /\ s'.gen = s.gen + 1)
        BY <1>2, <1>4, <3>1, <4>1 DEF Handles
      <4>3. s'.processing \in BOOLEAN
        BY <1>2, <1>4 DEF Handles, SessionOK
      <4>4. CASE s'.processing /\ s'.gen = s.gen
        BY <4>1, <4>3, <4>4
      <4>5. CASE ~s'.processing /\ s'.gen = s.gen + 1
        <5>1. s'.gen # 1
          BY <4>1, <4>5
        <5> QED BY <4>5, <5>1
      <4> QED BY <4>2, <4>4, <4>5
    <3>2. CASE ~t.processing
      <4>1. ~s'.processing /\ s'.gen \in {0, t.gen} /\ s'.processing \in BOOLEAN
        BY <1>2, <1>4, <1>7, <3>2 DEF Handles, SessionOK
      <4>2. t = s => s.processing \in BOOLEAN /\ ~s.processing
        BY <1>1, <3>2 DEF SessionOK
      <4> QED BY <1>3, <4>1, <4>2
    <3> QED BY <3>1, <3>2
  <2> QED BY <2>2, <2>3, <2>4
<1> QED BY <1>6, <1>7

\* A request ends, or the worker does.
LEMMA AloneEnds == ASSUME IInv, Alone, EndDispatch \/ Exit PROVE Alone'
<1>1. SessionOK(s) /\ stack # << >> /\ Common /\ UNCHANGED nested
  BY Parts DEF EndDispatch, Exit, At, link
<1>2. CASE EndDispatch
  <2>1. Top.pc = "end" /\ Len(stack) \in Nat /\ Len(stack) >= 2 /\ stack \in Seq(FrameSet)
    BY <1>1, <1>2, TopFacts DEF EndDispatch, At, Common
  <2>2. Len(stack') = Len(stack) - 1
    BY <1>2, <2>1, Pop DEF EndDispatch
  <2>3. s'.processing => s'.gen >= 1
    <3>1. CASE s' = s
      BY <3>1 DEF Alone
    <3>2. CASE s' = [s EXCEPT !.processing = FALSE]
      BY <1>1, <3>2 DEF SessionOK, Blank
    <3> QED BY <1>2, <3>1, <3>2 DEF EndDispatch
  <2>4. ~nested => NoLateResponse'
    <3> SUFFICES ASSUME ~nested PROVE NoLateResponse'
      OBVIOUS
    <3>1. Len(stack) <= 2 /\ (Len(stack) = 2 => Apart(Top, s))
      BY Zenon DEF Alone
    <3>2. Apart(Top, s)
      BY <2>1, <3>1, TwoOrMore, Zenon
    <3>3. ~Top.live => Interrupted(Top)
      BY <3>2 DEF Apart, Interrupted
    <3>4. /\ answer'.live = Top.live
          /\ Interrupted(Top) => answer'.told = "nothing"
      BY <1>2 DEF EndDispatch
    <3> QED BY <3>3, <3>4 DEF NoLateResponse
  <2>5. ~nested => Len(stack') = 1
    BY <2>1, <2>2 DEF Alone
  <2>6. ~nested => Len(stack') <= 2 /\ Len(stack') # 2
    BY <2>5
  <2> QED BY <1>1, <2>3, <2>4, <2>6, Zenon DEF Alone
<1>3. CASE Exit
  <2>1. ~s'.processing /\ Len(stack') = 0 /\ UNCHANGED answer
    BY <1>3, ClearedOK DEF Exit
  <2>2. Len(stack') <= 2 /\ Len(stack') # 2
    BY <2>1
  <2>3. NoLateResponse => NoLateResponse'
    BY <2>1 DEF NoLateResponse
  <2> QED BY <1>1, <2>1, <2>2, <2>3, Zenon DEF Alone
<1> QED BY <1>2, <1>3

\* The UI thread, the host and the cable leave the worker alone.
LEMMA AloneOutside ==
    ASSUME IInv, Alone,
           \/ Approve \/ Deny \/ Expire \/ Quit \/ Restart \/ Stop \/ Send \/ Replug
           \/ UNCHANGED vars
    PROVE  Alone'
<1>1. UNCHANGED stack /\ UNCHANGED nested /\ UNCHANGED answer
  BY DEF Approve, Deny, Expire, Quit, Restart, Stop, StopMark, StopRelease, StopSignal, Join,
         Send, Replug, vars, link
<1>2. s'.processing = s.processing /\ s'.gen = s.gen
  <2>1. SessionOK(s)
    BY Parts
  <2>2. s' = s \/ s' = [s EXCEPT !.stopping = TRUE, !.cancel = TRUE]
    BY DEF Approve, Deny, Expire, Quit, Restart, Stop, StopMark, StopRelease, StopSignal, Join,
           Send, Replug, vars
  <2>3. CASE s' = [s EXCEPT !.stopping = TRUE, !.cancel = TRUE]
    BY <2>1, <2>3 DEF SessionOK, Blank
  <2> QED BY <2>2, <2>3
<1> QED BY <1>1, <1>2 DEF Alone, Apart, Top, NoLateResponse

\* Every step keeps it.
LEMMA AloneNext == ASSUME IInv, Alone, [Next]_vars PROVE Alone'
<1>1. CASE WorkerStep
  BY <1>1, AlonePrompt, AloneLoop, AloneFlags, AloneRequest, AloneReport, AloneEnds DEF WorkerStep
<1>2. CASE ~WorkerStep
  BY <1>2, AloneOutside DEF Next
<1> QED BY <1>1, <1>2

-----------------------------------------------------------------------------
(* The theorems.                                                           *)

\* The invariant holds at the start.
LEMMA InitHolds == Init => IInv
<1> SUFFICES ASSUME Init PROVE IInv
  OBVIOUS
<1>1. /\ s = [Blank EXCEPT !.chans = Known] /\ stack = <<Main>>
      /\ rx = << >> /\ flags = {} /\ connected = TRUE
      /\ prompt = [state |-> "idle", id |-> 0] /\ done = 0
      /\ running = TRUE /\ ui = "free" /\ unplugs = 0 /\ approved = {}
      /\ answer = [told |-> "nothing", live |-> TRUE, committed |-> FALSE]
  BY DEF Init
<1>2. SessionOK(s) /\ ~s.active /\ ~s.cancel /\ ~s.stopping
  <2>1. /\ DOMAIN s = DOMAIN Blank /\ s.active = FALSE /\ s.processing = FALSE /\ s.cancel = FALSE
        /\ s.stopping = FALSE /\ s.gen = 0 /\ s.cid = NoCid /\ s.cmd = "none"
    BY <1>1 DEF Blank
  <2>2. s.gen \in Nat /\ s.cid \in Cid \cup {NoCid, Broadcast} /\ s.cmd \in Command
    BY <2>1 DEF Command
  <2> QED BY <2>1, <2>2, Zenon DEF SessionOK
<1>3. Main \in FrameSet /\ Main.pc = "wait" /\ ~Main.committed
  <2>1. Main = [pc |-> "wait", op |-> "quick", todo |-> << >>, cid |-> NoCid, cmd |-> "none", gen |-> 0,
                prompt |-> 0, status |-> "ok", live |-> TRUE, committed |-> FALSE]
    BY Programs DEF Main, Frame
  <2>2. << >> \in Plan /\ "wait" \in Steps /\ "ok" \in Statuses /\ "none" \in Command
    BY DEF Plan, Steps, Reading, Statuses, Command
  <2> QED BY <2>1, <2>2 DEF FrameSet
<1> HIDE DEF Main
<1>4. stack \in Seq(FrameSet) /\ Len(stack) = 1 /\ stack[1] = Main /\ stack # << >>
  BY <1>1, <1>3
<1>5. Top = Main
  BY <1>4 DEF Top
<1>6. MainOK(Main)
  BY <1>3 DEF MainOK, Reading
<1>7. Common
  <2>1. /\ DOMAIN prompt = {"state", "id"} /\ prompt.id \in Nat /\ done \in {0, 1} /\ prompt.state # "approved"
        /\ rx \in Seq(Packet)
    BY <1>1
  <2>2. 2..Len(stack) = {} /\ \A i \in 1..Len(stack) : ~(i < Len(stack))
    BY <1>4
  <2>3. Top.pc # "drain"
    BY <1>3, <1>5
  <2> QED BY <1>2, <1>4, <1>6, <2>1, <2>2, <2>3, Zenon DEF Common
<1>8. Undisturbed /\ FailureMeansNoCommit
  <2>1. ~(Len(stack) >= 2) /\ ~(Len(stack) >= 3)
    BY <1>4
  <2>2. Top.pc # "exit" /\ prompt.state # "pending" /\ "stop" \notin flags /\ answer.told = "nothing"
    BY <1>1, <1>3, <1>5
  <2> QED BY <1>1, <1>2, <1>4, <2>1, <2>2, Zenon DEF Undisturbed, FailureMeansNoCommit
<1>9. Plugged /\ NoLateResponse
  <2>1. Len(stack) <= 2 /\ Len(stack) # 2 /\ answer.told = "nothing" /\ flags \subseteq {"stop"}
    BY <1>1, <1>4
  <2> QED BY <1>1, <2>1, Zenon DEF Plugged, NoLateResponse
<1> QED BY <1>7, <1>8, <1>9 DEF IInv

\* Every step keeps the invariant.
LEMMA NextPreserves == ASSUME Steady, IInv, [Next]_vars PROVE IInv'
<1>1. CASE WorkerStep
  <2>1. CASE Ask BY <2>1, AskPreserves
  <2>2. CASE TryResult BY <2>2, TryResultPreserves
  <2>3. CASE TakeFlags BY <2>3, TakeFlagsPreserves
  <2>4. CASE CheckStop BY <2>4, CheckStopPreserves
  <2>5. CASE NoReport BY <2>5, NoReportPreserves
  <2>6. CASE ReadReport BY <2>6, ReadReportPreserves
  <2>7. CASE Handled BY <2>7, HandledPreserves
  <2>8. CASE After BY <2>8, AfterPreserves
  <2>9. CASE Exit BY <2>9, ExitPreserves
  <2>10. CASE Poll BY <2>10, PollPreserves
  <2>11. CASE Drain BY <2>11, DrainPreserves
  <2>12. CASE Commit BY <2>12, CommitPreserves
  <2>13. CASE EndDispatch BY <2>13, EndDispatchPreserves
  <2> QED BY <1>1, <2>1, <2>2, <2>3, <2>4, <2>5, <2>6, <2>7, <2>8, <2>9, <2>10, <2>11, <2>12, <2>13
          DEF WorkerStep
<1>2. CASE Approve \/ Deny \/ Expire
  BY <1>2, UserPreserves
<1>3. CASE Quit \/ Restart \/ Stop
  BY <1>3, StopPreserves
<1>4. CASE Send \/ Replug
  BY <1>4, HostPreserves
<1>5. CASE UNCHANGED vars
  BY <1>5, StutterPreserves
<1> QED BY <1>1, <1>2, <1>3, <1>4, <1>5 DEF Next

\* The invariant holds in every run of a worker that is never stopped, and in
\* every run in which the cable stays in its place.
THEOREM Invariance == ASSUME Leaving = {} \/ MaxUnplugs = 0
                      PROVE  Spec => []IInv
<1>1. Steady
  BY DEF Steady
<1>2. IInv /\ [Next]_vars => IInv'
  BY <1>1, NextPreserves
<1> QED BY <1>2, InitHolds, PTL DEF Spec

\* User presence: whatever is stored was approved in the prompt of the request
\* that stores it, for any number of reports, channels, nested requests and
\* prompts, as long as a stop of the worker and a pulled cable do not meet.
THEOREM CommitHasConsentHolds == ASSUME Leaving = {} \/ MaxUnplugs = 0
                                 PROVE  Spec => []CommitHasConsent
<1>1. IInv => CommitHasConsent
  <2> SUFFICES ASSUME IInv, NEW i \in DOMAIN stack, stack[i].committed
               PROVE  stack[i].prompt \in approved
    BY DEF CommitHasConsent
  <2>1. stack \in Seq(FrameSet) /\ (stack # << >> => MainOK(stack[1]))
    BY DEF IInv, Common
  <2>2. i \in 1..Len(stack) /\ Len(stack) \in Nat
    BY <2>1, LenProperties
  <2>3. CASE i = 1
    <3>1. stack # << >>
      BY <2>2
    <3> QED BY <2>1, <2>3, <3>1 DEF MainOK
  <2>4. CASE i # 1
    <3>1. i \in 2..Len(stack)
      BY <2>2, <2>4
    <3>2. FrameOK(stack[i], approved)
      BY <3>1, Zenon DEF IInv, Common
    <3> QED BY <3>2 DEF FrameOK
  <2> QED BY <2>3, <2>4
<1> QED BY <1>1, Invariance, PTL

\* A host that is told of a failure can rely on it, however CANCEL, the
\* approval, a nested request and a pulled cable cross.  A stop is left out:
\* it marks the session as cancelled at any moment, also behind the change.
THEOREM FailureMeansNoCommitHolds == ASSUME Leaving = {}
                                     PROVE  Spec => []FailureMeansNoCommit
<1>1. IInv => FailureMeansNoCommit
  BY DEF IInv
<1> QED BY <1>1, Invariance, PTL

\* dispatch.c: the response of a request that was interrupted, by INIT or by a
\* pulled cable, is discarded, in every run up to the first request that is
\* dispatched below another one.
THEOREM NoLateResponseAloneHolds == ASSUME Leaving = {} \/ MaxUnplugs = 0
                                    PROVE  Spec => []NoLateResponseAlone
<1>1. Init => Alone
  <2> SUFFICES ASSUME Init PROVE Alone
    OBVIOUS
  <2>1. s.processing = FALSE /\ Len(stack) = 1 /\ answer.told = "nothing"
    BY DEF Init, Blank
  <2> QED BY <2>1 DEF Alone, NoLateResponse
<1>2. IInv /\ Alone /\ [Next]_vars => Alone'
  BY AloneNext
<1>3. Alone => NoLateResponseAlone
  BY DEF Alone, NoLateResponseAlone
<1> QED BY <1>1, <1>2, <1>3, Invariance, PTL DEF Spec
=============================================================================
