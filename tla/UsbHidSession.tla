--------------------------- MODULE UsbHidSession ---------------------------
(***************************************************************************)
(* One CTAPHID session (CtapHid) under every traffic a host can produce:   *)
(* reports of several channels in any order, the passing of time, the      *)
(* protocol that answers a complete message, and the cable.  The worker    *)
(* reads a report in one of two ways: in its loops, also while a request   *)
(* waits for the user, and in the poll of a long CTAP2 command.  The       *)
(* threads around the session are the subject of UsbHidWorker.             *)
(***************************************************************************)
EXTENDS CtapHid

VARIABLES s,      \* app->transport_state
          event   \* history: what the last step was, and whose report it read

vars == <<s, event>>

Event(via, by) == [via |-> via, by |-> by]

Init == /\ s = Blank
        /\ event = Event("start", NoCid)

\* The worker's loops read a report.
Receive(p) == /\ \E o \in HandlePacket(s, p) : s' = o.s
              /\ event' = Event("packet", p.cid)

\* A CTAP2 command reads a report between two of its steps.  Whatever stops
\* the command also marks the request as cancelled.
Poll(p) ==
    /\ s.processing /\ s.cmd = "CBOR" /\ ~s.cancel
    /\ \E o \in Control(s, p) :
          s' = IF o.cancels THEN [o.s EXCEPT !.cancel = TRUE] ELSE o.s
    /\ event' = Event("poll", p.cid)

\* The protocol is done and its response is sent.
Respond == /\ s.processing
           /\ s' = [s EXCEPT !.processing = FALSE]
           /\ event' = Event("respond", NoCid)

RunTick == /\ s' = Tick(s)
           /\ event' = Event("tick", NoCid)

\* on_disconnect, and the on_connect of the next report.
Disconnect == /\ s' = ExpireLock(Reset(s))
              /\ event' = Event("cable", NoCid)

TimePasses == /\ s' = Elapse(s)
              /\ event' = Event("time", NoCid)

Next == \/ \E p \in Packet : Receive(p) \/ Poll(p)
        \/ Respond \/ RunTick \/ Disconnect \/ TimePasses

\* The worker's loops call the tick at least every ZF_KEEPALIVE_INTERVAL_MS,
\* and time does pass.
Spec == /\ Init /\ [][Next]_vars
        /\ WF_vars(RunTick) /\ WF_vars(TimePasses)

-----------------------------------------------------------------------------
(* Properties *)

\* The session and the history have the types declared for them.
TypeOK == /\ s \in Session
          /\ event \in [via : {"start", "packet", "poll", "respond", "tick",
                               "cable", "time"},
                        by : Cid \cup {Broadcast, NoCid}]

\* A channel in use is assigned and stays so: zf_transport_remember_cid gives
\* away neither the channel of a message being assembled, nor that of a
\* request being processed, nor the lock's, and none of these is ever taken
\* by a channel that was not assigned.  The table holds each channel once and
\* never more than ZF_MAX_ALLOCATED_CIDS of them.
ChannelsInUseKept ==
    /\ s.active \/ s.processing => s.cid \in Allocated(s)
    /\ s.lock # NoCid => s.lock \in Allocated(s)
    /\ Len(s.chans) <= MaxChans
    /\ Cardinality(Allocated(s)) = Len(s.chans)

\* A message handed to its protocol, or on its way there, is made of the
\* reports of one channel, each once and in the order of their sequence
\* numbers, and of nothing left over from an abandoned message; an assembly
\* that is still open lacks a report.
AssembledInOrder ==
    s.active \/ s.processing =>
        /\ \A i \in 1..Len(s.got) : s.got[i] = [cid |-> s.cid, part |-> i - 1]
        /\ IF s.active THEN Len(s.got) < s.total /\ s.seq = Len(s.got) - 1
           ELSE Len(s.got) = s.total

\* A request being processed is ended early, or marked as cancelled, only by
\* a report of its own channel or by an INIT on the broadcast channel, never
\* by another application's channel.
NoForeignInterrupt ==
    [][ s.processing /\ (~s'.processing \/ (s'.cancel /\ ~s.cancel)) =>
          \/ event'.via \in {"respond", "cable"}
          \/ event'.by \in {s.cid, Broadcast} ]_vars

\* ZF_ASSEMBLY_TIMEOUT_MS: no host can leave a message half sent and keep
\* the device to itself, whatever else it sends meanwhile.
AssemblyEnds == s.active ~> ~s.active

\* CTAPHID_LOCK: while the lock of a channel runs, a report of another
\* channel changes nothing.  (The reader of a poll does not keep to it.)
LockBlocksOthers ==
    [][ /\ s.lock # NoCid /\ s.left > 0
        /\ event'.via \in {"packet", "poll"}
        /\ event'.by # s.lock
        => s' = s ]_vars
=============================================================================
