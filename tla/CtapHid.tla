------------------------------ MODULE CtapHid ------------------------------
(***************************************************************************)
(* The CTAPHID session of src/src/transport/usb_hid_session.c: ZfTransport-*)
(* State as a record, and what each handler makes of it.  A handler is an  *)
(* operator that returns the set of its outcomes, because a new channel    *)
(* identifier is drawn at random and because whether an assembled U2F      *)
(* message is well formed depends on bytes the model leaves out.           *)
(*                                                                         *)
(* Lengths count reports: the first report of a message carries one unit   *)
(* of its payload and each continuation one more.  The nonce of INIT and   *)
(* the byte of LOCK are one unit.                                          *)
(***************************************************************************)
EXTENDS Naturals, Sequences, FiniteSets

CONSTANTS Cid,        \* the channel identifiers that can be assigned
          Broadcast,  \* ZF_BROADCAST_CID
          NoCid,      \* ZF_RESERVED_CID
          MaxChans,   \* ZF_MAX_ALLOCATED_CIDS
          MaxLen,     \* ZF_MAX_MSG_SIZE
          Timeout,    \* ZF_ASSEMBLY_TIMEOUT_MS
          MaxLock     \* the ten seconds a lock can last

ASSUME ChannelAssumption == /\ Broadcast \notin Cid
                            /\ NoCid \notin Cid
                            /\ NoCid # Broadcast

ASSUME BoundAssumption == /\ MaxChans \in Nat \ {0}
                          /\ MaxLen \in Nat \ {0}
                          /\ Timeout \in Nat \ {0}
                          /\ MaxLock \in Nat \ {0}

Cmd == {"PING", "MSG", "WINK", "CBOR", "OTHER"}

\* One 64-byte report.  n is the length field of an initial report and the
\* sequence number of a continuation; arg is the byte LOCK carries.  A stub
\* is an initial report cut off before its length.
Report(type, cmds, ns, args) ==
    [type : {type}, cid : Cid \cup {Broadcast}, cmd : cmds, n : ns, arg : args]

Packet == Report("init", Cmd \cup {"INIT", "CANCEL"}, 0..(MaxLen + 1), {0})
          \cup Report("init", {"LOCK"}, 0..2, 0..(MaxLock + 1))
          \cup Report("cont", {"none"}, 0..MaxLen, {0})
          \cup Report("stub", {"none"}, {0}, {0})

\* got is the payload: whose report each unit came from, and which report of
\* its message that was.  age is the time since last_activity, left the time
\* to lock_expires_at, and chans the table with the least recently used first.
Session == [active : BOOLEAN, processing : BOOLEAN, cancel : BOOLEAN,
            stopping : BOOLEAN, gen : 0..2, cid : Cid \cup {NoCid},
            cmd : Cmd \cup {"none"}, total : 0..MaxLen,
            got : Seq([cid : Cid, part : Nat]), seq : 0..MaxLen,
            age : 0..Timeout, lock : Cid \cup {NoCid}, left : 0..MaxLock,
            chans : Seq(Cid)]

Blank == [active |-> FALSE, processing |-> FALSE, cancel |-> FALSE,
          stopping |-> FALSE, gen |-> 0, cid |-> NoCid, cmd |-> "none",
          total |-> 0, got |-> <<>>, seq |-> 0, age |-> 0,
          lock |-> NoCid, left |-> 0, chans |-> <<>>]

\* zf_transport_session_reset keeps the lock and the channels only.
Reset(s) == [Blank EXCEPT !.lock = s.lock, !.left = s.left, !.chans = s.chans]

ExpireLock(s) == [s EXCEPT !.lock = NoCid, !.left = 0]

RefreshLock(s) == IF s.lock # NoCid /\ s.left = 0 THEN ExpireLock(s) ELSE s

-----------------------------------------------------------------------------
(* The table of channels *)

Allocated(s) == {s.chans[i] : i \in DOMAIN s.chans}

Position(s, c) == CHOOSE i \in DOMAIN s.chans : s.chans[i] = c

\* The table without the entry at position i.
Without(s, i) == [j \in 1..(Len(s.chans) - 1) |-> s.chans[IF j < i THEN j ELSE j + 1]]

Touch(s, c) == IF c \in Allocated(s)
               THEN [s EXCEPT !.chans = Append(Without(s, Position(s, c)), c)]
               ELSE s

\* Where the channels are that a new one may replace, and the least recently
\* used of them.
Reclaimable(s) == {i \in DOMAIN s.chans : s.chans[i] \notin {s.cid, s.lock}}
LeastRecent(s) == {i \in Reclaimable(s) : \A j \in Reclaimable(s) : i <= j}

\* zf_transport_remember_cid for a channel that is not in the table; it fails
\* when the table is full of channels in use.
Remember(s, c) ==
    LET t == RefreshLock(s)
    IN  IF Len(s.chans) < MaxChans
        THEN {[s EXCEPT !.chans = Append(@, c)]}
        ELSE {[t EXCEPT !.chans = Append(Without(t, i), c)] : i \in LeastRecent(t)}

\* The sessions an allocation can leave behind; none when it fails.
Allocations(s) == UNION {Remember(s, c) : c \in Cid \ Allocated(s)}

-----------------------------------------------------------------------------
(* Outcomes: the session, the response, whether the pending prompt is to   *)
(* be cancelled, and whether a complete message goes to its protocol       *)

Reply(c, what) == [cid |-> c, what |-> what]

Silence == Reply(NoCid, "none")

Answer(s, c, what) ==
    [s |-> s, reply |-> Reply(c, what), cancels |-> FALSE, dispatches |-> FALSE]

Quiet(s) == Answer(s, NoCid, "none")

Busy(s, c) == s.active /\ c # s.cid

BusyOr(s, c, what) == Answer(s, c, IF c # s.cid THEN "busy" ELSE what)

\* zf_transport_dispatch_complete_message up to the call of the protocol.
Dispatch(s) ==
    [Quiet([s EXCEPT !.gen = @ + 1, !.processing = TRUE])
        EXCEPT !.dispatches = TRUE]

CompleteIfReady(s) ==
    LET t == [s EXCEPT !.active = FALSE]
    IN  CASE Len(s.got) # s.total -> {Quiet(s)}
          [] Len(s.got) = s.total /\ s.cmd = "OTHER" -> {Answer(t, s.cid, "cmd")}
          [] Len(s.got) = s.total /\ s.cmd = "MSG" ->
                {Dispatch(t), Answer(Reset(t), s.cid, "MSG")}
          [] OTHER -> {Dispatch(t)}

-----------------------------------------------------------------------------
(* Initial reports *)

ValidLength(cmd, n) == CASE cmd \in {"MSG", "CBOR"} -> n > 0
                         [] cmd = "WINK" -> n = 0
                         [] OTHER -> TRUE

\* zf_transport_begin_message and zf_transport_copy_init_payload.
Begin(s, p) ==
    IF p.n > MaxLen \/ ~ValidLength(p.cmd, p.n)
    THEN {Answer(Reset(s), p.cid, "len")}
    ELSE CompleteIfReady(
            [Reset(s) EXCEPT !.active = TRUE, !.cid = p.cid, !.cmd = p.cmd,
                             !.total = p.n,
                             !.got = IF p.n = 0 THEN <<>>
                                     ELSE <<[cid |-> p.cid, part |-> 0]>>])

\* Variant: CANCEL is taken from any channel.
CancelFromAnyone(s, p) ==
    IF s.processing /\ s.cmd = "CBOR"
    THEN {[Quiet([s EXCEPT !.cancel = TRUE]) EXCEPT !.cancels = TRUE]}
    ELSE {Quiet(s)}

Cancel(s, p) ==
    CASE p.n # 0 -> {Answer(s, p.cid, "len")}
      [] p.n = 0 /\ s.processing /\ s.cmd = "CBOR" /\ p.cid = s.cid ->
            {[Quiet([s EXCEPT !.cancel = TRUE]) EXCEPT !.cancels = TRUE]}
      [] OTHER -> {Quiet(s)}

\* Variant: a channel that is not assigned may take the lock.
LockUnassigned(s, p) ==
    IF p.n # 1 \/ p.cid \notin Cid \/ p.arg \notin 1..MaxLock THEN {Quiet(s)}
    ELSE {Answer([Touch(s, p.cid) EXCEPT !.lock = p.cid, !.left = p.arg],
                 p.cid, "LOCK")}

Lock(s, p) ==
    LET t == Touch(s, p.cid)
    IN  CASE p.n # 1 -> {Answer(s, p.cid, "len")}
          [] p.n = 1 /\ p.cid \notin Allocated(s) -> {Answer(s, p.cid, "channel")}
          [] p.n = 1 /\ p.cid \in Allocated(s) /\ p.arg > MaxLock ->
                {Answer(s, p.cid, "par")}
          [] OTHER ->
                {Answer(CASE p.arg > 0 -> [t EXCEPT !.lock = p.cid, !.left = p.arg]
                          [] p.arg = 0 /\ t.lock = p.cid -> ExpireLock(t)
                          [] OTHER -> t,
                        p.cid, "LOCK")}

\* INIT outside a running request: the assembly is abandoned.
InitIdle(s, p) ==
    CASE p.n # 1 -> {Answer(s, p.cid, "len")}
      [] p.n = 1 /\ p.cid = Broadcast ->
            IF Allocations(s) = {} THEN {Answer(s, p.cid, "other")}
            ELSE {Answer(Reset(t), p.cid, "INIT") : t \in Allocations(s)}
      [] p.n = 1 /\ p.cid \in Allocated(s) ->
            {Answer(Reset(Touch(s, p.cid)), p.cid, "INIT")}
      [] OTHER -> {Answer(s, p.cid, "channel")}

HandleInitPacket(s, p) ==
    CASE p.type = "stub" ->
            {Answer(s, p.cid, IF Busy(s, p.cid) THEN "busy" ELSE "len")}
      [] p.type # "stub" /\ p.cmd = "CANCEL" -> Cancel(s, p)
      [] p.type # "stub" /\ p.cmd # "CANCEL" /\ Busy(s, p.cid) ->
            {Answer(s, p.cid, "busy")}
      [] OTHER ->
            CASE p.cmd = "LOCK" -> Lock(s, p)
              [] p.cmd = "INIT" -> InitIdle(s, p)
              [] p.cmd \in Cmd /\ s.active -> {Answer(Reset(s), p.cid, "seq")}
              [] p.cmd \in Cmd /\ ~s.active /\ p.cid \notin Allocated(s) ->
                    {Answer(s, p.cid, "channel")}
              [] OTHER -> Begin(Touch(s, p.cid), p)

\* Variant: the channel of a continuation is not compared.
ContFromAnyone(s, p) ==
    IF ~s.active \/ p.n # s.seq \/ p.cid = Broadcast THEN {Quiet(s)}
    ELSE CompleteIfReady(
            [s EXCEPT !.seq = @ + 1,
                      !.got = Append(@, [cid |-> p.cid, part |-> p.n + 1])])

HandleContPacket(s, p) ==
    CASE ~s.active -> {Quiet(s)}
      [] s.active /\ (p.n # s.seq \/ p.cid # s.cid) ->
            {Answer(Reset(s), p.cid, "seq")}
      [] OTHER ->
            CompleteIfReady(
                [Touch(s, p.cid) EXCEPT
                    !.seq = @ + 1, !.age = 0,
                    !.got = Append(@, [cid |-> p.cid, part |-> p.n + 1])])

-----------------------------------------------------------------------------
(* Reports that arrive while a request is processed *)

\* INIT on the channel of the request.
Resync(s, p) ==
    CASE p.n # 1 -> {Answer(s, p.cid, "len")}
      [] p.n = 1 /\ p.cid \notin Allocated(s) -> {Answer(s, p.cid, "channel")}
      [] OTHER ->
            {[Answer([Touch(s, p.cid) EXCEPT !.processing = FALSE,
                                             !.gen = @ + 1],
                     p.cid, "INIT") EXCEPT !.cancels = TRUE]}

\* INIT on the broadcast channel.
Recover(s, p) ==
    CASE p.n # 1 -> {Answer(s, p.cid, "len")}
      [] p.n = 1 /\ Allocations(s) = {} -> {Answer(s, p.cid, "other")}
      [] OTHER ->
            {[Answer([t EXCEPT !.processing = FALSE, !.cancel = TRUE,
                               !.gen = @ + 1],
                     p.cid, "INIT") EXCEPT !.cancels = TRUE] :
                t \in Allocations(s)}

\* What both ways of reading reports during a request have in common.
Interrupt(s, p, otherwise) ==
    CASE p.type = "stub" -> {BusyOr(s, p.cid, "len")}
      [] p.type = "init" /\ p.cmd = "CANCEL" -> Cancel(s, p)
      [] p.type = "init" /\ p.cmd = "INIT" /\ p.cid = s.cid -> Resync(s, p)
      [] p.type = "init" /\ p.cmd = "INIT" /\ p.cid = Broadcast -> Recover(s, p)
      [] OTHER -> otherwise

\* zf_transport_session_handle_processing_control, the reader of a poll.  It
\* does not look at the lock.
Control(s, p) ==
    Interrupt(s, p, IF p.type = "init" /\ p.cid # s.cid
                    THEN {Answer(s, p.cid, "busy")} ELSE {Quiet(s)})

HandleProcessingPacket(s, p) ==
    Interrupt(s, p, IF p.type = "cont" THEN {Answer(s, p.cid, "seq")}
                    ELSE {BusyOr(s, p.cid, "seq")})

\* zf_transport_session_handle_packet, the reader of the worker's loops.
HandlePacket(u, p) ==
    LET s == RefreshLock(u)
    IN  CASE s.lock # NoCid /\ p.cid # s.lock -> {Answer(s, p.cid, "busy")}
          [] ~(s.lock # NoCid /\ p.cid # s.lock) /\ s.processing ->
                HandleProcessingPacket(s, p)
          [] OTHER -> IF p.type = "cont" THEN HandleContPacket(s, p)
                      ELSE HandleInitPacket(s, p)

\* Variant: the tick looks at the lock only.
TickLockOnly(s) == RefreshLock(s)

\* zf_transport_session_tick.
Tick(s) == LET t == IF s.active /\ s.age = Timeout THEN Reset(s) ELSE s
           IN  RefreshLock(t)

\* Time passes.
Elapse(s) == [s EXCEPT !.age = IF s.active /\ @ < Timeout THEN @ + 1 ELSE @,
                       !.left = IF @ > 0 THEN @ - 1 ELSE 0]
=============================================================================
