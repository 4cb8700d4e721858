----------------------------- MODULE NfcSession -----------------------------
(***************************************************************************)
(* The NFC transport above the ISO-DEP frames: the applet session and the  *)
(* exchange (src/src/transport/nfc_session.c), the APDU routes             *)
(* (src/src/transport/nfc_dispatch.c), the worker that serves queued       *)
(* requests (src/src/transport/nfc_worker.c), and what the listener        *)
(* callback does with a frame before it reaches an APDU route              *)
(* (src/src/transport/nfc_engine.c).                                       *)
(*                                                                         *)
(* Three threads: the listener callback, which serves one event at a time, *)
(* the worker, and the main thread that stops the transport.  ui_mutex is  *)
(* held from the start of an action to its end; a step of the callback is  *)
(* split where it gives the mutex up, and ends where it waits for the      *)
(* mutex that it holds itself.  Requests are numbered in the order in      *)
(* which they are accepted; a response is small (one frame) or large (two  *)
(* pages of GET RESPONSE, or two blocks of an ISO-DEP chain).              *)
(***************************************************************************)
EXTENDS Naturals

CONSTANTS MaxRequests,  \* bound: requests accepted in all
          MaxGen,       \* bound: exchange generations of one worker
          Apdus         \* the kinds of large answer that the readers ask for

AnyApdu == {"queued", "extended", "short", "u2f"}

ASSUME NfcAssumption == /\ MaxRequests \in Nat
                        /\ MaxGen \in Nat
                        /\ Apdus \subseteq AnyApdu

VARIABLES sel,       \* applet_selected
          sid,       \* session_id
          canceled,  \* canceled_session_id, 0 for none
          ex,        \* the exchange
          rgen,      \* request_generation
          cool,      \* post_success_cooldown_active
          stopping,
          listening, \* listener_active
          auto,      \* app->transport_auto_accept_transaction
          evt,       \* thread flags set for the worker
          wk,        \* the worker thread
          cb,        \* the listener callback
          n,         \* history: requests accepted
          last,      \* history: the request accepted last under this selection
          void,      \* history: the request that was cancelled in flight
          got        \* history: the pages that the reader was sent last

shared == <<sel, sid, canceled, ex, rgen, cool>>
stop   == <<stopping, listening>>
hist   == <<n, last, void, got>>
vars   == <<shared, stop, auto, evt, wk, cb, hist>>

Id   == 0..MaxRequests
Gen  == 0..MaxGen
Page == 0..2

\* A request that a thread serves, with what it remembers of the exchange.
Idle == [pc |-> "idle", id |-> 0, sid |-> 0, gen |-> 0, old |-> FALSE, kind |-> "none"]

\* The exchange, as reset_exchange leaves it except for its generation.
NoEx == [pend |-> FALSE, proc |-> FALSE, cflag |-> FALSE, psid |-> 0, gen |-> 0,
         req |-> 0, ready |-> FALSE, err |-> FALSE, large |-> FALSE, page |-> 0,
         gr |-> FALSE, tx |-> "none"]
NoData == [id |-> 0, from |-> 0, upto |-> 0]

Init ==
    /\ sel = FALSE /\ sid = 0 /\ canceled = 0
    /\ ex = NoEx /\ rgen = 0 /\ cool = FALSE
    /\ stopping = FALSE /\ listening = FALSE
    /\ auto = FALSE /\ evt = {}
    /\ wk = [Idle EXCEPT !.pc = "gone"] /\ cb = Idle
    /\ n = 0 /\ last = 0 /\ void = 0 /\ got = NoData

\* ui_mutex can be had: nobody waits for ever while holding it.
MutexFree == cb.pc # "status"

-----------------------------------------------------------------------------
(* nfc_session.c                                                           *)

\* zf_transport_nfc_request_worker_active
WorkerActive == ex.proc \/ ex.pend

\* zf_transport_nfc_exchange_busy
Busy == WorkerActive \/ ex.ready \/ ex.tx = "active"

\* zf_transport_nfc_reset_exchange_internal_locked
ResetExchange == ex.gen < MaxGen /\ ex' = [NoEx EXCEPT !.gen = ex.gen + 1]

\* zf_transport_nfc_cancel_current_request_locked: the session is marked.
\* Whatever is in flight is void from here on.
CancelSession ==
    /\ canceled' = IF ex.psid # 0 THEN ex.psid ELSE canceled
    /\ void' = IF ex.psid # 0 /\ wk.pc \notin {"gone", "idle"} /\ wk.gen = ex.gen
               THEN wk.id ELSE void

\* Every APDU answer that is not a chain ends the chain being sent.
Answer == ex' = [ex EXCEPT !.tx = "none"]

\* A selection: the session number moves on and nothing is cancelled any more.
NextSession ==
    /\ sel' = TRUE
    /\ sid' = sid + 1
    /\ canceled' = 0
    /\ ResetExchange
    /\ last' = 0 /\ void' = 0

\* zf_transport_nfc_send_get_response, with a response in the exchange e.
SendPage(e) ==
    IF ~e.large \/ e.page = 2
    THEN /\ e.gen < MaxGen
         /\ ex' = [NoEx EXCEPT !.gen = e.gen + 1]
         /\ got' = [id |-> e.req, from |-> e.page, upto |-> 2]
    ELSE /\ ex' = [e EXCEPT !.page = 2, !.tx = "none"]
         /\ got' = [id |-> e.req, from |-> 1, upto |-> 1]

\* The response of request i is put into the exchange.
Ready(e, i, big) ==
    [e EXCEPT !.ready = TRUE, !.err = FALSE, !.req = i, !.large = big, !.page = 1,
              !.proc = FALSE, !.pend = FALSE, !.psid = 0]

\* Variant: only the session is compared.
OwnedSession(w) == ex.psid = w.sid /\ ~ex.cflag

\* The check of zf_transport_nfc_store_response.
Owned(w) == ex.psid = w.sid /\ ex.gen = w.gen /\ ~ex.cflag

-----------------------------------------------------------------------------
(* nfc_engine.c: the listener callback.  It checks under the mutex whether *)
(* it may run and takes the mutex again for the event.                     *)

Enter ==
    /\ cb.pc = "idle" /\ listening /\ ~stopping
    /\ cb' = [cb EXCEPT !.pc = "called"]
    /\ UNCHANGED <<shared, stop, auto, evt, wk, hist>>

\* The event is served in one critical section.
Event == cb.pc = "called" /\ cb' = Idle /\ UNCHANGED <<stop, auto, wk>>

\* teardown_rf_activation: field off, halt and S(DESELECT).
FieldOff ==
    /\ Event
    /\ sel' = FALSE
    /\ CancelSession
    /\ cool' = (cool \/ ex.tx = "done")
    /\ ResetExchange
    /\ last' = 0
    /\ UNCHANGED <<sid, rgen, evt, n, got>>

\* RATS, and REQA or WUPA while the card is active.
Reactivate ==
    /\ Event
    /\ sel' = FALSE
    /\ CancelSession
    /\ ResetExchange
    /\ last' = 0
    /\ UNCHANGED <<sid, rgen, cool, evt, n, got>>

\* zf_transport_nfc_sleep_probe_locked: a DESFire probe in the cooldown.
\* Nothing is cancelled.
SleepProbe ==
    /\ Event /\ cool
    /\ sel' = FALSE
    /\ ResetExchange
    /\ last' = 0
    /\ UNCHANGED <<sid, canceled, rgen, cool, evt, n, void, got>>

\* zf_transport_nfc_post_success_cooldown_active_locked
CooldownEnds ==
    /\ MutexFree
    /\ cool /\ cool' = FALSE
    /\ UNCHANGED <<sel, sid, canceled, ex, rgen, stop, auto, evt, wk, cb, hist>>

\* An R(ACK): the second block of the chain goes out, or the end is noted.
RAck ==
    /\ Event
    /\ ex.tx # "none"
    /\ ex' = [ex EXCEPT !.tx = IF ex.tx = "active" THEN "done" ELSE "none"]
    /\ UNCHANGED <<sel, sid, canceled, rgen, cool, evt, hist>>

\* An I-block reaches the APDU routes only if no request is with the worker,
\* and no response is waiting for a reader that does not use GET RESPONSE.
Deferred == ~ex.gr /\ (ex.ready \/ ex.err)
Reaches(via) == via = "block" => ~WorkerActive /\ ~Deferred

\* The answer 9100 that an I-block gets while the worker is active.
BusyBlock ==
    /\ Event
    /\ WorkerActive
    /\ Answer
    /\ UNCHANGED <<sel, sid, canceled, rgen, cool, evt, hist>>

\* zf_transport_nfc_send_deferred_response_or_wtx: whatever the block asks
\* for, it is sent the waiting response from its first byte.
SendDeferred ==
    /\ Event
    /\ ~WorkerActive /\ Deferred
    /\ IF ex.err \/ ~ex.large THEN ResetExchange ELSE ex' = [ex EXCEPT !.tx = "active"]
    /\ got' = IF ex.err THEN got ELSE [id |-> ex.req, from |-> 1, upto |-> 2]
    /\ UNCHANGED <<sel, sid, canceled, rgen, cool, evt, n, last, void>>

-----------------------------------------------------------------------------
(* nfc_dispatch.c: the APDU routes                                         *)

\* zf_transport_nfc_handle_select, with the FIDO identifier.
Select(via) ==
    /\ Event /\ Reaches(via)
    /\ NextSession
    /\ cool' = FALSE
    /\ UNCHANGED <<rgen, evt, n, got>>

\* The NDEF application is refused, and the applet is no longer selected.
SelectNdef(via) ==
    /\ Event /\ Reaches(via)
    /\ sel' = FALSE
    /\ Answer
    /\ UNCHANGED <<sid, canceled, rgen, cool, evt, hist>>

\* zf_transport_nfc_send_u2f_version_immediate, before a selection.
VersionFallback(via) ==
    /\ Event /\ Reaches(via)
    /\ ~sel /\ ~Busy
    /\ NextSession
    /\ UNCHANGED <<rgen, cool, evt, n, got>>

\* Answers that leave the exchange alone: a refusal, getInfo, the version,
\* a DESFire probe, an authentication check.
AnswerAtOnce(via) ==
    /\ Event /\ Reaches(via)
    /\ Answer
    /\ UNCHANGED <<sel, sid, canceled, rgen, cool, evt, hist>>

\* NFCCTAP_CONTROL END
ControlEnd(via) ==
    /\ Event /\ Reaches(via) /\ sel
    /\ sel' = FALSE
    /\ CancelSession
    /\ ResetExchange
    /\ last' = 0
    /\ UNCHANGED <<sid, rgen, cool, evt, n, got>>

\* A request is being processed for a reader that announced GET RESPONSE.
AsksStatus == ex.proc /\ ~ex.ready /\ ex.gr

\* GET RESPONSE, and a CTAP message while a response waits for a reader that
\* did not announce GET RESPONSE.
GetResponse(via) ==
    /\ Event /\ Reaches(via) /\ sel /\ ~AsksStatus
    /\ \/ ex.err /\ ~(ex.proc /\ ~ex.ready) /\ ResetExchange /\ UNCHANGED got
       \/ ~ex.ready /\ (ex.proc \/ ~ex.err) /\ Answer /\ UNCHANGED got
       \/ ex.ready /\ ~ex.err /\ SendPage(ex)
    /\ UNCHANGED <<sel, sid, canceled, rgen, cool, evt, n, last, void>>

\* GET RESPONSE outside a block while a request is processed.  The handler
\* runs under ui_mutex and calls zf_transport_nfc_current_status, which
\* acquires it again: the mutex is not a recursive one, and no step leads on.
GetStatus ==
    /\ cb.pc = "called" /\ Reaches("bare") /\ sel /\ AsksStatus
    /\ cb' = [cb EXCEPT !.pc = "status"]
    /\ UNCHANGED <<shared, stop, auto, evt, wk, hist>>

\* A CTAP message whose P1 or P2 is wrong resets the exchange it meets.
BadMsg(via) ==
    /\ Event /\ Reaches(via) /\ sel
    /\ ResetExchange
    /\ UNCHANGED <<sel, sid, canceled, rgen, cool, evt, n, last, void, got>>

\* finish_ctap2_msg with GET RESPONSE announced: queue_request_locked and
\* wake_request_worker.
QueueMsg(via) ==
    /\ Event /\ Reaches(via) /\ sel /\ ~Busy /\ ~Deferred
    /\ "queued" \in Apdus
    /\ IF stopping
       THEN /\ ex' = [ex EXCEPT !.err = TRUE, !.gr = TRUE, !.tx = "none"]
            /\ UNCHANGED <<canceled, rgen, evt, n, last, void>>
       ELSE /\ n < MaxRequests /\ rgen < MaxGen
            /\ n' = n + 1 /\ last' = n' /\ void' = 0
            /\ rgen' = rgen + 1
            /\ ex' = [NoEx EXCEPT !.pend = TRUE, !.proc = TRUE, !.psid = sid,
                                  !.gen = rgen', !.req = n', !.gr = TRUE]
            /\ canceled' = 0
            /\ evt' = evt \cup {"request"}
    /\ UNCHANGED <<sel, sid, cool, got>>

\* The callback serves the request itself, without the mutex, and lets it be
\* accepted without a touch: send_ctap2_direct without GET RESPONSE, and
\* send_u2f_immediate for a request that needs presence.
ServeHere(via, kind) ==
    /\ cb.pc = "called" /\ Reaches(via) /\ sel /\ ~Busy
    /\ kind = "u2f" \/ ~Deferred
    /\ n < MaxRequests
    /\ n' = n + 1 /\ last' = n'
    /\ cb' = [pc |-> "run", id |-> n', sid |-> sid, gen |-> ex.gen, old |-> auto, kind |-> kind]
    /\ auto' = TRUE
    /\ ex' = IF kind = "u2f" THEN ex
             ELSE [ex EXCEPT !.proc = TRUE, !.cflag = FALSE, !.psid = sid, !.gr = FALSE]
    /\ UNCHANGED <<sel, sid, canceled, rgen, cool, stop, evt, wk, void, got>>

\* The callback takes the mutex again and answers.
AnswerHere ==
    /\ cb.pc = "answer"
    /\ auto' = cb.old
    /\ cb' = Idle
    /\ LET e == IF cb.kind = "u2f" THEN ex ELSE [ex EXCEPT !.proc = FALSE, !.psid = 0]
       IN \E big \in BOOLEAN :
            /\ big => cb.kind \in Apdus
            /\ CASE ~big -> /\ ex' = [e EXCEPT !.tx = "none"]
                            /\ got' = [id |-> cb.id, from |-> 1, upto |-> 2]
                 [] big /\ cb.kind = "extended" ->
                            /\ ex' = [e EXCEPT !.tx = "active"]
                            /\ got' = [id |-> cb.id, from |-> 1, upto |-> 2]
                 [] big /\ cb.kind # "extended" ->
                            SendPage([Ready(e, cb.id, TRUE) EXCEPT !.gr = FALSE])
    /\ UNCHANGED <<sel, sid, canceled, rgen, cool, stop, evt, wk, n, last, void>>

-----------------------------------------------------------------------------
(* Serving a request: the CTAP2 command and the U2F adapter, as far as the *)
(* transport takes part.  t is the worker's record or the callback's.      *)

\* makeCredential, getAssertion and getNextAssertion look once more whether
\* they were cancelled; reset, clientPIN and U2F go on to what they commit.
Accepted(t) == IF t.kind = "u2f" THEN {"commit"} ELSE {"approved", "commit"}

\* zerofido_ui_request_approval: no touch is asked for while auto is set, nor
\* by a CTAP2 command that needs none.
Approve(t) ==
    /\ t.pc = "run"
    /\ \/ /\ auto \/ t.kind # "u2f"
          /\ \E pc \in Accepted(t) : t' = [t EXCEPT !.pc = pc]
       \/ ~auto /\ t' = [t EXCEPT !.pc = "prompt"]
       \/ t' = [t EXCEPT !.pc = "answer"]

\* zf_transport_nfc_wait_for_interaction
Gone(t) == stopping \/ ex.cflag \/ ex.psid # t.sid
Decide(t) ==
    /\ t.pc = "prompt"
    /\ \/ ~Gone(t) /\ \E pc \in Accepted(t) : t' = [t EXCEPT !.pc = pc]
       \/ t' = [t EXCEPT !.pc = "answer"]

\* Variant: the session that was cancelled is not looked at.
CancelledNow(t) == stopping \/ (ex.cflag /\ ex.psid = t.sid)

\* zf_transport_nfc_poll_cbor_control
Cancelled(t) == stopping \/ (ex.cflag /\ ex.psid = t.sid) \/ canceled = t.sid

\* The last poll of a command that polls, before it commits.
Poll(t) == /\ t.pc = "approved"
           /\ t' = [t EXCEPT !.pc = IF Cancelled(t) THEN "answer" ELSE "commit"]
Commit(t) == t.pc = "commit" /\ t' = [t EXCEPT !.pc = "answer"]
Serve(t) == Approve(t) \/ Decide(t) \/ Poll(t) \/ Commit(t)

WorkerServes   == MutexFree /\ Serve(wk) /\ UNCHANGED <<shared, stop, auto, evt, cb, hist>>
CallbackServes == Serve(cb) /\ UNCHANGED <<shared, stop, auto, evt, wk, hist>>

-----------------------------------------------------------------------------
(* nfc_worker.c                                                            *)

\* A new worker: zf_transport_nfc_worker clears its state and starts to listen.
Start ==
    /\ wk.pc = "gone" /\ cb.pc = "idle"
    /\ wk' = Idle
    /\ sel' = FALSE /\ sid' = 0 /\ canceled' = 0
    /\ ex' = NoEx /\ rgen' = 0 /\ cool' = FALSE
    /\ stopping' = FALSE /\ listening' = TRUE
    /\ evt' = {}
    /\ last' = 0 /\ void' = 0
    /\ UNCHANGED <<auto, cb, n, got>>

\* zf_transport_nfc_process_request takes the pending request.
Take ==
    /\ wk.pc = "idle" /\ "request" \in evt /\ "stop" \notin evt /\ MutexFree
    /\ evt' = evt \ {"request"}
    /\ IF ex.pend
       THEN /\ wk' = [pc |-> "run", id |-> ex.req, sid |-> ex.psid, gen |-> ex.gen,
                      old |-> auto, kind |-> "queued"]
            /\ ex' = [ex EXCEPT !.pend = FALSE]
            /\ auto' = TRUE
       ELSE UNCHANGED <<wk, ex, auto>>
    /\ UNCHANGED <<sel, sid, canceled, rgen, cool, stop, cb, hist>>

\* zf_transport_nfc_store_response
Store ==
    /\ wk.pc = "answer" /\ MutexFree
    /\ wk' = [wk EXCEPT !.pc = "restore"]
    /\ IF Owned(wk)
       THEN \E big \in BOOLEAN, err \in BOOLEAN :
              ex' = IF err THEN [ex EXCEPT !.err = TRUE, !.ready = FALSE, !.req = wk.id,
                                           !.proc = FALSE, !.pend = FALSE, !.psid = 0]
                    ELSE Ready(ex, wk.id, big)
       ELSE UNCHANGED ex
    /\ UNCHANGED <<sel, sid, canceled, rgen, cool, stop, auto, evt, cb, hist>>

\* Variant: the flags set meanwhile are cleared.
RestoreClears ==
    /\ wk.pc = "restore" /\ MutexFree
    /\ auto' = wk.old
    /\ wk' = Idle
    /\ evt' = {}
    /\ UNCHANGED <<shared, stop, cb, hist>>

\* process_request, at cleanup.
Restore ==
    /\ wk.pc = "restore" /\ MutexFree
    /\ auto' = wk.old
    /\ wk' = Idle
    /\ UNCHANGED <<shared, stop, evt, cb, hist>>

\* zf_transport_nfc_stop
Stop ==
    /\ wk.pc # "gone" /\ "stop" \notin evt /\ ~stopping /\ MutexFree
    /\ stopping' = TRUE
    /\ CancelSession
    /\ ex' = [ex EXCEPT !.cflag = TRUE]
    /\ evt' = evt \cup {"stop"}
    /\ UNCHANGED <<sel, sid, rgen, cool, listening, auto, wk, cb, n, last, got>>

\* The worker leaves its loop and stops the listener, which waits for the
\* callback to return.
LeaveLoop ==
    /\ wk.pc = "idle" /\ "stop" \in evt /\ MutexFree
    /\ wk' = [wk EXCEPT !.pc = "stopListener"]
    /\ stopping' = TRUE /\ listening' = FALSE
    /\ CancelSession
    /\ ex' = [ex EXCEPT !.cflag = TRUE]
    /\ UNCHANGED <<sel, sid, rgen, cool, auto, evt, cb, n, last, got>>

Exit ==
    /\ wk.pc = "stopListener" /\ cb.pc = "idle"
    /\ wk' = [Idle EXCEPT !.pc = "gone"]
    /\ sel' = FALSE
    /\ ex' = NoEx
    /\ last' = 0
    /\ UNCHANGED <<sid, canceled, rgen, cool, stop, auto, evt, cb, n, void, got>>

-----------------------------------------------------------------------------
Apdu(via) ==
    \/ Select(via) \/ SelectNdef(via) \/ VersionFallback(via) \/ AnswerAtOnce(via)
    \/ ControlEnd(via) \/ GetResponse(via) \/ BadMsg(via) \/ QueueMsg(via)
    \/ \E kind \in {"extended", "short", "u2f"} : ServeHere(via, kind)

Reader   == \/ Enter \/ FieldOff \/ Reactivate \/ SleepProbe \/ RAck \/ BusyBlock
            \/ SendDeferred \/ GetStatus \/ (\E via \in {"block", "bare"} : Apdu(via))
Callback == AnswerHere \/ CallbackServes
Worker   == Take \/ Store \/ Restore \/ WorkerServes \/ LeaveLoop \/ Exit

Next == Reader \/ Callback \/ Worker \/ Start \/ Stop \/ CooldownEnds

\* The worker and the callback keep running once they have something to do;
\* a prompt ends by itself, because it expires.
Fairness == WF_vars(Worker) /\ WF_vars(Callback) /\ WF_vars(cb.pc = "called" /\ Reader)
Spec == Init /\ [][Next]_vars /\ Fairness

-----------------------------------------------------------------------------
Thread == [pc : {"idle", "called", "run", "prompt", "approved", "commit", "answer",
                 "restore", "stopListener", "gone", "status"},
           id : Id, sid : Nat, gen : Gen, old : BOOLEAN, kind : AnyApdu \cup {"none"}]

\* The fields keep their ranges: in particular a request that a thread is
\* not serving is never waiting for a touch.
TypeOK ==
    /\ sel \in BOOLEAN /\ cool \in BOOLEAN /\ stopping \in BOOLEAN
    /\ listening \in BOOLEAN /\ auto \in BOOLEAN
    /\ sid \in Nat /\ canceled \in 0..sid /\ rgen \in Gen
    /\ evt \subseteq {"stop", "request"}
    /\ ex \in [pend : BOOLEAN, proc : BOOLEAN, cflag : BOOLEAN, psid : 0..sid, gen : Gen,
               req : Id, ready : BOOLEAN, err : BOOLEAN, large : BOOLEAN, page : Page,
               gr : BOOLEAN, tx : {"none", "active", "done"}]
    /\ wk \in Thread /\ cb \in Thread
    /\ n \in Id /\ last \in 0..n /\ void \in 0..n
    /\ got \in [id : Id, from : Page, upto : Page]

\* A response that waits in the exchange is the one to the request accepted
\* last under the present selection: a worker that finishes late, after a
\* field loss, a new selection or a reset, never answers a newer request
\* (the check of session and generation in store_response).
ResponseOfLastRequest == ex.ready => ex.req = last

\* A makeCredential, getAssertion or getNextAssertion that was cancelled while
\* the worker served it (field off, a new activation, END, stop) is not
\* committed, unless the applet was selected again or another request was
\* queued before its last poll: both forget canceled_session_id.
CancelledNotCommitted ==
    [][(wk.pc = "approved" /\ wk'.pc = "commit") => wk.id # void /\ ~stopping]_vars

\* END "cancels pending work, clears the selected applet, and resets exchange
\* state" (writeup_ios.md), and so does the loss of the field: a request whose
\* exchange was reset and whose session is over is not committed any more.
EndCancelsWork ==
    [][(wk.pc # "commit" /\ wk'.pc = "commit") => wk.gen = ex.gen \/ (sel /\ wk.sid = sid)]_vars

\* Nothing waits for ever but for the callback that asked for the status, and
\* for those who need the mutex then.  A queued request is answered or
\* dropped, its REQUEST flag not lost even when the worker is still busy with
\* a request that was abandoned; and zf_transport_nfc_stop ends the worker,
\* whatever the callback or the worker is waiting for.
WaitsEnd ==
    /\ \A i \in 1..MaxRequests :
         (ex.proc /\ ex.req = i) ~> ~(ex.proc /\ ex.req = i) \/ ~MutexFree
    /\ stopping ~> wk.pc = "gone" \/ ~MutexFree

\* The reader that asks while its request is processed gets an answer: "CTAP
\* GET_RESPONSE INS=0x11 should return STATUS_UPDATE while processing" (the
\* repository's NFC tests).  The listener callback returns from every event.
CallbackReturns == cb.pc # "idle" ~> cb.pc = "idle"

\* The pages of a response reach the reader one after the other, each once
\* (writeup_ios.md: large U2F responses use GET RESPONSE paging).
PagesInOrder == [][got'.id # 0 /\ got' # got =>
                     IF got'.id = got.id THEN got'.from = got.upto + 1 ELSE got'.from = 1]_vars

\* Requests are accepted without a touch only while an NFC request is being
\* served: the flag is restored when the last of them ends.
AutoAcceptScoped == auto => wk.pc \notin {"idle", "gone"} \/ cb.pc \notin {"idle", "called"}
=============================================================================
