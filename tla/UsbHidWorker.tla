---------------------------- MODULE UsbHidWorker ----------------------------
(***************************************************************************)
(* The USB worker thread (src/src/transport/usb_hid_worker.c), the         *)
(* dispatch of a complete message (src/src/transport/dispatch.c), the      *)
(* prompt it waits on (src/src/ui/approval_state.c) and the UI thread that *)
(* answers the prompt, lets it expire and stops the worker.                *)
(*                                                                         *)
(* A request that waits for the user keeps reading reports, so a handler   *)
(* can be entered again below itself: the worker is a stack of frames, the *)
(* first of them the main loop.  The session and its handlers are those of *)
(* CtapHid; the timing of assembly and lock is the subject of              *)
(* UsbHidSession.                                                          *)
(***************************************************************************)
EXTENDS CtapHid

CONSTANTS Known,       \* the channels assigned so far, in the order of use
          Reports,     \* the reports the host sends
          MaxReports,  \* bound: how many of them
          MaxUnplugs,  \* bound: how often the cable is pulled
          Leaving      \* the ways the UI stops the worker: quit, restart

ASSUME WorkerAssumption == /\ Known \in Seq(Cid)
                           /\ Reports \subseteq Packet
                           /\ MaxReports \in Nat
                           /\ MaxUnplugs \in Nat
                           /\ Leaving \subseteq {"quit", "restart"}

VARIABLES s,          \* app->transport_state_storage
          stack,      \* the frames of the worker thread
          rx,         \* reports waiting in the HID driver
          flags,      \* thread flags of the worker
          connected,  \* app->transport_connected
          prompt,     \* app->approval: its state and its generation
          done,       \* app->approval.done, a binary semaphore
          running,    \* app->running
          ui,         \* what the UI thread is doing
          stops,      \* calls of zf_transport_stop still to come
          sent,       \* reports sent by the host
          unplugs,    \* times the cable was pulled
          nested,     \* history: a request was dispatched below another one
          approved,   \* history: generations of the prompts approved
          answer      \* history: the last request that ended

link    == <<rx, sent, unplugs, nested>>
leaving == <<running, ui, stops>>
vars    == <<s, stack, rx, flags, connected, prompt, done, running, ui, stops,
             sent, unplugs, nested, approved, answer>>

-----------------------------------------------------------------------------
(* Frames *)

\* Variant: the last poll comes after the change.
ProgramPollsLast == [make  |-> <<"poll", "ask", "commit", "poll">>,
                     reset |-> <<"ask", "commit">>,
                     quick |-> <<>>]

\* What a request does on its way to a response: poll the transport, ask the
\* user, change what is stored.  The two polls of makeCredential after the
\* approval are one: between them it computes only.
Program == [make  |-> <<"poll", "ask", "poll", "commit">>,
            reset |-> <<"ask", "commit">>,
            quick |-> <<>>]

\* gen is the generation the dispatch started with and prompt that of the
\* request's own prompt; live is history: nothing has interrupted the request.
Frame(pc, op, cid, cmd, gen) ==
    [pc |-> pc, op |-> op, todo |-> Program[op], cid |-> cid, cmd |-> cmd, gen |-> gen,
     prompt |-> 0, status |-> "ok", live |-> TRUE, committed |-> FALSE]

Main == Frame("wait", "quick", NoCid, "none", 0)

Top == stack[Len(stack)]

InMain == Len(stack) = 1

\* The frames with the top one replaced, or its next step.
With(f) == [stack EXCEPT ![Len(stack)] = f]

Goto(pc) == With([Top EXCEPT !.pc = pc])

Fail(status) == With([Top EXCEPT !.pc = "end", !.status = status])

Advance == With([Top EXCEPT !.todo = Tail(@),
                            !.pc = IF Len(Top.todo) = 1 THEN "end" ELSE "step"])

At(pc) == stack # <<>> /\ Top.pc = pc

AtStep(what) == At("step") /\ Head(Top.todo) = what

\* Every request on the stack has been interrupted.
Stale(frames) == [i \in DOMAIN frames |-> [frames[i] EXCEPT !.live = FALSE]]

StopRequested == s.stopping \/ "stop" \in flags

-----------------------------------------------------------------------------
(* The prompt, src/src/ui/approval_state.c *)

\* Variant: the semaphore is not released.
FinishSilently(state) == /\ done' = done
                         /\ prompt' = IF prompt.state = "pending"
                                      THEN [prompt EXCEPT !.state = state]
                                      ELSE prompt

\* zerofido_ui_finish_interaction_locked: the first to finish a prompt wins.
Finish(state) == IF prompt.state = "pending"
                 THEN prompt' = [prompt EXCEPT !.state = state] /\ done' = 1
                 ELSE UNCHANGED <<prompt, done>>

\* Variant: an old signal is left in the semaphore.
AskUndrained == /\ AtStep("ask") /\ running
                /\ prompt' = [state |-> "pending", id |-> prompt.id + 1]
                /\ stack' = With([Top EXCEPT !.pc = "try",
                                             !.prompt = prompt.id + 1])
                /\ UNCHANGED <<s, flags, connected, done, link, leaving,
                               approved, answer>>

\* Variant: an application that is being left still asks.
AskWhenLeaving == /\ AtStep("ask")
                  /\ prompt' = [state |-> "pending", id |-> prompt.id + 1]
                  /\ done' = 0
                  /\ stack' = With([Top EXCEPT !.pc = "try",
                                               !.prompt = prompt.id + 1])
                  /\ UNCHANGED <<s, flags, connected, link, leaving,
                                 approved, answer>>

\* zerofido_ui_request_approval up to the wait.
Ask == /\ AtStep("ask")
       /\ \/ /\ ~running
             /\ stack' = Fail("timeout")
             /\ UNCHANGED <<prompt, done>>
          \/ /\ running
             /\ prompt' = [state |-> "pending", id |-> prompt.id + 1]
             /\ done' = 0
             /\ stack' = With([Top EXCEPT !.pc = "try", !.prompt = prompt.id + 1])
       /\ UNCHANGED <<s, flags, connected, link, leaving, approved, answer>>

\* The outcome the request takes from the prompt's state.
Result == CASE prompt.state = "approved" -> Advance
            [] prompt.state = "canceled" -> Fail("cancel")
            [] prompt.state = "denied"   -> Fail("denied")
            [] OTHER                     -> Fail("timeout")

\* The wait looks at the semaphore before anything else.
TryResult == /\ At("try")
             /\ \/ done = 1 /\ done' = 0 /\ stack' = Result
                \/ done = 0 /\ done' = 0 /\ stack' = Goto("wait")
             /\ UNCHANGED <<s, flags, connected, prompt, link, leaving,
                            approved, answer>>

-----------------------------------------------------------------------------
(* The main loop and the wait: flags, then one report *)

Cleared == ExpireLock(Reset(s))

\* furi_thread_flags_wait takes every flag that is set.
TakeFlags ==
    /\ At("wait")
    /\ flags' = {}
    /\ IF "stop" \in flags
       THEN /\ stack' = IF InMain THEN Goto("exit") ELSE Fail("timeout")
            /\ UNCHANGED <<s, connected, prompt, done>>
       ELSE IF "disconnect" \in flags
       THEN /\ Finish("canceled")
            /\ s' = Cleared
            /\ connected' = FALSE
            /\ stack' = Stale(Goto("request"))
       ELSE IF "connect" \in flags /\ ~connected
       THEN /\ s' = Cleared
            /\ connected' = TRUE
            /\ stack' = Goto("request")
            /\ UNCHANGED <<prompt, done>>
       ELSE /\ stack' = Goto("request")
            /\ UNCHANGED <<s, connected, prompt, done>>
    /\ UNCHANGED <<link, leaving, approved, answer>>

\* zf_transport_handle_request looks for a stop before each report.
CheckStop ==
    /\ At("request")
    /\ \/ /\ StopRequested
          /\ s' = [s EXCEPT !.cancel = TRUE]
          /\ stack' = Goto("after")
       \/ /\ ~StopRequested
          /\ s' = s
          /\ stack' = Goto("read")
    /\ UNCHANGED <<flags, connected, prompt, done, link, leaving, approved,
                   answer>>

NoReport == /\ At("read") /\ rx = <<>>
            /\ stack' = Goto("after")
            /\ UNCHANGED <<s, flags, connected, prompt, done, link, leaving,
                           approved, answer>>

\* command_scratch_in_use.
ScratchInUse == \E i \in DOMAIN stack : stack[i].op = "make"

\* make stands for makeCredential and getAssertion, which need the scratch
\* buffer and fail at once without it; reset for the requests that ask the
\* user and do not poll: authenticatorReset, selection, U2F register and
\* authenticate; quick for what is answered at once, errors included.
Operations(cmd) ==
    {"quick"} \cup (IF cmd \in {"CBOR", "MSG"} THEN {"reset"} ELSE {})
              \cup (IF cmd = "CBOR" /\ ~ScratchInUse THEN {"make"} ELSE {})

\* The frame of a request that was just dispatched.
Enter(t, op) == Frame(IF Program[op] = <<>> THEN "end" ELSE "step",
                      op, t.cid, t.cmd, t.gen)

\* A report is read and handled.  Returning from the request it completes, if
\* it completes one, the worker is behind zf_transport_session_handle_packet.
ReadReport ==
    /\ At("read") /\ rx # <<>>
    /\ rx' = Tail(rx)
    /\ connected' = TRUE
    /\ \E o \in HandlePacket(IF connected THEN s ELSE Cleared, Head(rx)) :
          /\ s' = o.s
          /\ IF o.cancels THEN Finish("canceled") ELSE UNCHANGED <<prompt, done>>
          /\ IF o.dispatches
             THEN \E op \in Operations(o.s.cmd) :
                     /\ stack' = Append(Goto("handled"), Enter(o.s, op))
                     /\ nested' = (nested \/ ~InMain)
             ELSE /\ UNCHANGED nested
                  /\ stack' = IF o.cancels /\ o.s.gen # s.gen
                              THEN Stale(Goto("handled")) ELSE Goto("handled")
    /\ UNCHANGED <<flags, sent, unplugs, leaving, approved, answer>>

\* More reports are read only while a message is being assembled.
Handled == /\ At("handled")
           /\ stack' = Goto(IF s.active THEN "request" ELSE "after")
           /\ UNCHANGED <<s, flags, connected, prompt, done, link, leaving,
                          approved, answer>>

\* The end of a round of the main loop and of the wait.
After ==
    /\ At("after")
    /\ IF InMain
       THEN IF StopRequested THEN s' = s /\ stack' = Goto("exit")
            ELSE s' = Tick(s) /\ stack' = Goto("wait")
       ELSE IF StopRequested \/ s.cancel
            THEN s' = [s EXCEPT !.cancel = TRUE] /\ stack' = Fail("timeout")
            ELSE s' = Tick(s) /\ stack' = Goto("try")
    /\ UNCHANGED <<flags, connected, prompt, done, link, leaving, approved,
                   answer>>

\* The main loop is left: on_disconnect, and the worker is gone.
Exit == /\ At("exit")
        /\ Finish("canceled")
        /\ s' = Cleared
        /\ connected' = FALSE
        /\ stack' = <<>>
        /\ UNCHANGED <<flags, link, leaving, approved, answer>>

-----------------------------------------------------------------------------
(* zf_transport_usb_hid_poll_cbor_control *)

PollApplies == s.processing /\ s.cmd = "CBOR" /\ s.cid = Top.cid

Poll ==
    /\ AtStep("poll")
    /\ CASE ~PollApplies -> s' = s /\ stack' = Advance
         [] PollApplies /\ (StopRequested \/ s.cancel) ->
               s' = [s EXCEPT !.cancel = TRUE] /\ stack' = Fail("cancel")
         [] OTHER -> s' = s /\ stack' = Goto("drain")
    /\ UNCHANGED <<flags, connected, prompt, done, link, leaving, approved,
                   answer>>

Drain ==
    /\ At("drain")
    /\ \/ /\ StopRequested
          /\ s' = [s EXCEPT !.cancel = TRUE]
          /\ stack' = Fail("cancel")
          /\ UNCHANGED <<rx, prompt, done>>
       \/ /\ ~StopRequested /\ rx = <<>>
          /\ s' = Tick(s)
          /\ stack' = Advance
          /\ UNCHANGED <<rx, prompt, done>>
       \/ /\ ~StopRequested /\ rx # <<>>
          /\ rx' = Tail(rx)
          /\ \E o \in Control(s, Head(rx)) :
                IF o.cancels
                THEN /\ s' = [o.s EXCEPT !.cancel = TRUE]
                     /\ stack' = IF o.s.gen # s.gen THEN Stale(Fail("cancel"))
                                 ELSE Fail("cancel")
                     /\ Finish("canceled")
                ELSE s' = o.s /\ UNCHANGED <<stack, prompt, done>>
    /\ UNCHANGED <<flags, connected, sent, unplugs, nested, leaving, approved,
                   answer>>

-----------------------------------------------------------------------------
(* The end of a request *)

\* A credential is written, the device is wiped, a U2F signature is made; or
\* that fails.
Commit == /\ AtStep("commit")
          /\ \/ stack' = [Advance EXCEPT ![Len(stack)].committed = TRUE]
             \/ stack' = Fail("error")
          /\ UNCHANGED <<s, flags, connected, prompt, done, link, leaving,
                         approved, answer>>

\* Variant: the generation is not compared.
InterruptedNever(f) == f.gen = 0

\* zf_transport_dispatch_was_interrupted.
Interrupted(f) == f.gen # s.gen

\* zf_transport_dispatch_complete_message from the return of the protocol on.
EndDispatch ==
    /\ At("end")
    /\ stack' = SubSeq(stack, 1, Len(stack) - 1)
    /\ s' = IF Interrupted(Top) THEN s ELSE [s EXCEPT !.processing = FALSE]
    /\ answer' = [told |-> IF Interrupted(Top) THEN "nothing"
                           ELSE IF Top.cmd = "CBOR" /\ s.cancel THEN "cancel"
                           ELSE Top.status,
                  live |-> Top.live, committed |-> Top.committed]
    /\ UNCHANGED <<flags, connected, prompt, done, link, leaving, approved>>

WorkerStep == \/ Ask \/ TryResult
              \/ TakeFlags \/ CheckStop \/ NoReport \/ ReadReport
              \/ Handled \/ After \/ Exit
              \/ Poll \/ Drain \/ Commit \/ EndDispatch

-----------------------------------------------------------------------------
(* The UI thread *)

\* zf_transport_notify_interaction_changed only wakes the worker early.
Approve == /\ ui = "free" /\ prompt.state = "pending"
           /\ Finish("approved")
           /\ approved' = approved \cup {prompt.id}
           /\ UNCHANGED <<s, stack, flags, connected, link, leaving, answer>>

Deny == /\ ui = "free" /\ prompt.state = "pending"
        /\ Finish("denied")
        /\ UNCHANGED <<s, stack, flags, connected, link, leaving, approved,
                       answer>>

\* zerofido_tick_callback finds that ZF_APPROVAL_TIMEOUT_MS are over.
Expire == /\ ui = "free" /\ prompt.state = "pending"
          /\ Finish("timedout")
          /\ UNCHANGED <<s, stack, flags, connected, link, leaving, approved,
                         answer>>

\* The back key with no prompt to deny: zerofido_navigation_callback stops
\* the worker, and so does zf_app_lifecycle_shutdown after it.
Quit == /\ "quit" \in Leaving /\ ui = "free" /\ prompt.state # "pending"
        /\ running' = FALSE
        /\ ui' = "mark"
        /\ stops' = 2
        /\ UNCHANGED <<s, stack, flags, connected, prompt, done, link, approved,
                       answer>>

\* zf_app_lifecycle_restart_transport, on a change of the transport.
Restart == /\ "restart" \in Leaving /\ ui = "free"
           /\ ui' = "mark"
           /\ stops' = 1
           /\ UNCHANGED <<s, stack, flags, connected, prompt, done, running,
                          link, approved, answer>>

\* zf_transport_usb_hid_stop: mark the session, release the semaphore, set
\* the flag.
StopMark == /\ ui = "mark"
            /\ s' = IF stack = <<>> THEN s
                    ELSE [s EXCEPT !.stopping = TRUE, !.cancel = TRUE]
            /\ ui' = "release"
            /\ UNCHANGED <<stack, flags, connected, prompt, done, running,
                           stops, link, approved, answer>>

StopRelease == /\ ui = "release"
               /\ done' = 1
               /\ ui' = "signal"
               /\ UNCHANGED <<s, stack, flags, connected, prompt, running,
                              stops, link, approved, answer>>

StopSignal == /\ ui = "signal"
              /\ flags' = flags \cup {"stop"}
              /\ stops' = stops - 1
              /\ ui' = IF stops = 1 THEN "join" ELSE "mark"
              /\ UNCHANGED <<s, stack, connected, prompt, done, running, link,
                             approved, answer>>

\* furi_thread_join.
Join == /\ ui = "join" /\ stack = <<>>
        /\ ui' = "joined"
        /\ UNCHANGED <<s, stack, flags, connected, prompt, done, running, stops,
                       link, approved, answer>>

Stop == StopMark \/ StopRelease \/ StopSignal \/ Join

-----------------------------------------------------------------------------
(* The host and the cable *)

Send == /\ sent < MaxReports
        /\ \E p \in Reports : rx' = Append(rx, p)
        /\ sent' = sent + 1
        /\ UNCHANGED <<s, stack, flags, connected, prompt, done, leaving,
                       unplugs, nested, approved, answer>>

\* The cable is pulled and put back; the driver loses what it held and
\* reports both.
Replug == /\ unplugs < MaxUnplugs
          /\ unplugs' = unplugs + 1
          /\ flags' = flags \cup {"connect", "disconnect"}
          /\ rx' = <<>>
          /\ UNCHANGED <<s, stack, sent, connected, prompt, done, leaving,
                         nested, approved, answer>>

-----------------------------------------------------------------------------

\* Channels have been assigned and the host is connected.
Init == /\ s = [Blank EXCEPT !.chans = Known]
        /\ stack = <<Main>>
        /\ rx = <<>> /\ flags = {} /\ connected = TRUE
        /\ prompt = [state |-> "idle", id |-> 0] /\ done = 0
        /\ running = TRUE /\ ui = "free" /\ stops = 0
        /\ sent = 0 /\ unplugs = 0 /\ nested = FALSE
        /\ approved = {}
        /\ answer = [told |-> "nothing", live |-> TRUE, committed |-> FALSE]

Next == \/ WorkerStep
        \/ Approve \/ Deny \/ Expire \/ Quit \/ Restart \/ Stop
        \/ Send \/ Replug

\* The worker thread runs, the UI thread finishes a stop it has begun, and
\* its tick comes back as long as it is not held up in a stop.
Spec == /\ Init /\ [][Next]_vars
        /\ WF_vars(WorkerStep) /\ WF_vars(Stop) /\ WF_vars(Expire)

-----------------------------------------------------------------------------
(* Properties *)

\* The variables keep their types.
TypeOK == /\ s \in Session
          /\ \A i \in DOMAIN stack :
                /\ stack[i].prompt \in 0..prompt.id
                /\ stack[i].gen \in 0..1
          /\ flags \subseteq {"stop", "connect", "disconnect"}
          /\ done \in 0..1
          /\ stops \in 0..2
          /\ approved \subseteq 1..prompt.id

\* User presence: a request that changes what is stored was approved in its
\* own prompt.  A semaphore released for another reason, the prompt of a
\* request handled meanwhile, or an answer to an earlier prompt will not do.
CommitHasConsent ==
    \A i \in DOMAIN stack :
        stack[i].committed => stack[i].prompt \in approved

\* A host that is told of a failure can rely on it: nothing was stored.  That
\* includes KEEPALIVE_CANCEL, however the CANCEL and the user's approval
\* crossed.
FailureMeansNoCommit ==
    answer.told \notin {"ok", "nothing"} => ~answer.committed

\* dispatch.c: the response of a request that was interrupted, by INIT or by a
\* disconnect, is discarded.
NoLateResponse == answer.told # "nothing" => answer.live

\* The same of requests below which no other one was dispatched: the check of
\* the generation works as long as no new request takes it over.
NoLateResponseAlone == ~nested => NoLateResponse

\* A request does not keep the worker: it ends when the user answers, when
\* the prompt expires, or when the host gives up, as long as the UI thread is
\* there to let the prompt expire.
RequestEnds == Len(stack) > 1 /\ ui = "free" ~> Len(stack) <= 1 \/ ui # "free"

\* The worker ends when the application is left, so that the join in
\* zf_app_lifecycle_shutdown returns.
QuitEnds == ui = "mark" /\ ~running ~> ui = "joined"

\* Every stop ends with the worker gone and its buffers scrubbed, the one for
\* a change of the transport too.
StopEnds == ui = "mark" ~> ui = "joined"
=============================================================================
