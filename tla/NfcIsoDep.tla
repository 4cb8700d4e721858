----------------------------- MODULE NfcIsoDep -----------------------------
(***************************************************************************)
(* The ISO-DEP link of the NFC transport: blocks, block numbers, chaining  *)
(* in both directions and the two caches from which lost blocks are sent   *)
(* again (src/src/transport/nfc_iso_dep.c, src/src/transport/nfc_engine.c).*)
(*                                                                         *)
(* The reader (external) numbers its blocks as ISO 14443-4 asks and takes  *)
(* only a block with the number it waits for.  When it gets nothing that   *)
(* it can use it goes one of two ways.  The way "iso" is that of the       *)
(* standard: R(NAK), or the R(ACK) once more while the card sends a chain, *)
(* and the own I-block only after an R(ACK) with the other number.  The    *)
(* way "repeat" is that of the tests: the own I-block once more.  Frames   *)
(* get lost in both directions.  A command is a number; its APDU fits into *)
(* one block or is split in two, and its response fills one block or a     *)
(* chain of them.                                                          *)
(***************************************************************************)
EXTENDS Naturals, Sequences

CONSTANTS MaxCmds,    \* bound: commands that the reader sends
          MaxLoss,    \* bound: frames lost
          MaxBlocks,  \* blocks of the longest response
          Bytes,      \* the bytes of each command: two may be the same
          Ways,       \* the ways in which readers recover
          DupLimit    \* reader_profile.rx_chain_duplicate_limit

Cmd  == 1..MaxCmds
Kind == {"select", "probe", "direct", "fragment"}

ASSUME LinkAssumption == /\ MaxCmds \in Nat /\ MaxLoss \in Nat
                         /\ MaxBlocks \in Nat \ {0} /\ DupLimit \in Nat \ {0}
                         /\ Bytes \in [Cmd -> Cmd] /\ Ways \subseteq {"iso", "repeat"}

VARIABLES air,    \* the frame on the air, or Silence
          rd,     \* the reader
          pcb,    \* iso_pcb: the number of the next block that is sent
          lastTx, \* iso4_last_tx
          tx,     \* the chain being sent
          rx,     \* the chain being received, and what is left in the arena
          done,   \* rx_complete_last: the last complete block and its answer
          arena,  \* the transport has a buffer attached
          lost,   \* how many frames were lost
          exec,   \* history: how often each command was carried out
          heard,  \* history: the last chain that was taken for an APDU
          spoilt  \* history: something happened that the card does not make good

card == <<pcb, lastTx, tx, rx, done, arena>>
linkVars == <<air, rd, card, lost, exec, heard, spoilt>>

Silence == [to |-> "none"]
Noise   == [to |-> "noise"]
Old     == 0     \* bytes of an earlier request that are still in the arena
None    == [t |-> "none"]

\* The APDU of command c: one block, or the two parts of a chain.
Whole(c) == <<Bytes[c], 0>>
Part(c, i) == <<Bytes[c], i>>

NoTx == [c |-> 0, next |-> 0, len |-> 0, end |-> FALSE]
NoRx == [open |-> FALSE, buf |-> << >>, num |-> 2, piece |-> << >>, dups |-> 0]
NoDone == [num |-> 2, piece |-> << >>, resp |-> None, pcb |-> 0, keeps |-> FALSE]
NoCmd == [c |-> 0, kind |-> "none", len |-> 0, split |-> FALSE]

\* The number before the first selection is that of an activation.
LinkInit ==
    /\ air = Silence
    /\ \E way \in Ways : rd = [num |-> 0, cmd |-> NoCmd, n |-> 0, sent |-> None, want |-> 1,
                               got |-> <<0, 0>>, way |-> way]
    /\ pcb = 0 /\ lastTx = None
    /\ tx = NoTx /\ rx = NoRx /\ done = NoDone /\ arena = TRUE
    /\ lost = 0
    /\ exec = [c \in Cmd |-> 0]
    /\ heard = << >> /\ spoilt = FALSE

-----------------------------------------------------------------------------
(* The reader                                                              *)

Toggle(b) == 1 - b
I(num, chain, body) == [t |-> "I", num |-> num, chain |-> chain, body |-> body]
R(t, num) == [t |-> t, num |-> num]

ToCard(f) == air' = [to |-> "card", f |-> f]
ToReader(f) == air' = [to |-> "reader", f |-> f]

Waiting == rd.cmd.c # 0

\* The block that carries the command, or the given part of it.
CommandBlock(num, cmd, i) ==
    IF cmd.split THEN I(num, i = 1, Part(cmd.c, i)) ELSE I(num, FALSE, Whole(cmd.c))

\* A new command that has the number and the bytes of the last one that was
\* answered: is_duplicate_complete_i_block takes it for a repetition.
Lookalike(f) == ~f.chain /\ f.num = done.num /\ f.body = done.piece

SendCommand ==
    /\ ~Waiting /\ air = Silence /\ rd.n < MaxCmds
    /\ \E kind \in Kind, len \in 1..MaxBlocks, split \in BOOLEAN :
         /\ kind # "direct" => len = 1 /\ ~split
         /\ LET cmd == [c |-> rd.n + 1, kind |-> kind, len |-> len, split |-> split]
                f   == CommandBlock(rd.num, cmd, 1)
            IN /\ rd' = [rd EXCEPT !.cmd = cmd, !.n = cmd.c, !.sent = f, !.want = 1,
                                   !.got = <<cmd.c, 0>>]
               /\ ToCard(f)
               /\ spoilt' = (spoilt \/ Lookalike(f))
    /\ UNCHANGED <<card, lost, exec, heard>>

\* The block that the reader waits for: it is the last one, or it is
\* acknowledged so that the next one follows.
Accept ==
    /\ air.to = "reader" /\ air.f.t = "I" /\ Waiting /\ air.f.num = rd.num
    /\ LET num == Toggle(rd.num)
           r == [rd EXCEPT !.num = num, !.got = air.f.body, !.want = rd.want + 1]
       IN IF air.f.chain
          THEN /\ rd' = [r EXCEPT !.sent = R("ACK", num)]
               /\ ToCard(R("ACK", num))
          ELSE /\ rd' = [r EXCEPT !.cmd = NoCmd, !.sent = None]
               /\ air' = Silence
    /\ UNCHANGED <<card, lost, exec, heard, spoilt>>

\* The first part of a split command was acknowledged.
Acknowledged == air.f = R("ACK", rd.num) /\ rd.sent.t = "I" /\ rd.sent.chain

NextPart ==
    /\ air.to = "reader" /\ Waiting /\ Acknowledged
    /\ LET f == CommandBlock(Toggle(rd.num), rd.cmd, 2)
       IN rd' = [rd EXCEPT !.num = Toggle(rd.num), !.sent = f] /\ ToCard(f)
    /\ UNCHANGED <<card, lost, exec, heard, spoilt>>

\* Nothing came in time, or nothing that can be used.
Unanswered ==
    /\ Waiting
    /\ \/ air \in {Silence, Noise}
       \/ air.to = "reader" /\ ~(air.f.t = "I" /\ air.f.num = rd.num) /\ ~Acknowledged

\* An R(ACK) with the other number: the card did not get the last block.
NotReceived == air.to = "reader" /\ air.f.t = "ACK" /\ air.f.num # rd.num

\* The last block once more: the R(ACK) while the card sends a chain (rule 5),
\* the I-block if the card did not get it (rule 6) or the reader repeats it.
SendAgain ==
    /\ Unanswered
    /\ rd.sent.t = "ACK" \/ rd.way = "repeat" \/ NotReceived
    /\ ToCard(rd.sent)
    /\ UNCHANGED <<rd, card, lost, exec, heard, spoilt>>

\* Rule 4: R(NAK); or an empty I-block, if the reader's chain is complete.
Nak ==
    /\ Unanswered /\ rd.sent.t = "I" /\ rd.way = "iso" /\ ~NotReceived
    /\ \E t \in {"NAK", "EMPTY"} :
         /\ t = "EMPTY" => ~rd.sent.chain
         /\ ToCard(R(t, rd.num))
    /\ UNCHANGED <<rd, card, lost, exec, heard, spoilt>>

\* What the card makes good for if it is lost: every block that asks for a
\* block; for a reader that repeats its I-block, that block and its answer;
\* otherwise the answer that it keeps, which that to a probe is not.  It does
\* not for a later block of a chain, since it goes on at the next R(ACK).
Mended ==
    \/ air.to = "card" /\ air.f.t # "I"
    \/ rd.sent.t = "I" /\ rd.way = "repeat"
    \/ /\ air.to = "reader" /\ rd.sent.t = "I" /\ ~rd.sent.chain
       /\ rd.cmd.kind # "probe"

\* A frame does not arrive; the reader may notice that there was one.
Lose ==
    /\ air.to \in {"card", "reader"} /\ lost < MaxLoss
    /\ lost' = lost + 1
    /\ air' = Silence \/ (air.to = "reader" /\ air' = Noise)
    /\ spoilt' = (spoilt \/ ~Mended)
    /\ UNCHANGED <<rd, card, exec, heard>>

-----------------------------------------------------------------------------
(* nfc_iso_dep.c: what the card sends                                      *)

\* send_frame caches an I-block; send_iso_response and send_apdu_payload
\* number it and toggle the number.
SendBlock(num, chain, body) ==
    /\ ToReader(I(num, chain, body))
    /\ lastTx' = I(num, chain, body)
    /\ pcb' = Toggle(num)

\* send_iso_response_preserving_replay
SendPreserving(num, body) ==
    /\ ToReader(I(num, FALSE, body))
    /\ lastTx' = IF lastTx = None THEN I(num, FALSE, body) ELSE lastTx
    /\ pcb' = Toggle(num)

SendAck(num) == ToReader(R("ACK", num)) /\ UNCHANGED <<pcb, lastTx>>

\* Variant: nothing is kept to be sent again.
ReplayNothing == air' = Silence /\ UNCHANGED <<pcb, lastTx>>

\* zf_transport_nfc_replay_last_iso_response: byte for byte.
Replay == ToReader(lastTx) /\ UNCHANGED <<pcb, lastTx>>

NoReply == air' = Silence /\ UNCHANGED <<pcb, lastTx>>

Received(t) == air.to = "card" /\ air.f.t = t

\* An R(NAK), of one byte or more.
OnNak ==
    /\ Received("NAK")
    /\ IF lastTx # None THEN Replay ELSE NoReply
    /\ UNCHANGED <<rd, tx, rx, done, arena, lost, exec, heard, spoilt>>

\* handle_empty_i_block
OnEmpty ==
    /\ Received("EMPTY")
    /\ IF lastTx # None THEN Replay ELSE SendAck(air.f.num)
    /\ UNCHANGED <<rd, tx, rx, done, arena, lost, exec, heard, spoilt>>

\* send_next_tx_chain_block, and the end of a chain.
NextBlock(num) ==
    /\ SendBlock(num, tx.next < tx.len, <<tx.c, tx.next>>)
    /\ tx' = IF tx.next < tx.len THEN [tx EXCEPT !.next = tx.next + 1]
             ELSE [NoTx EXCEPT !.end = TRUE]

OnAck ==
    /\ Received("ACK")
    /\ IF tx.c # 0 THEN NextBlock(pcb) ELSE NoReply /\ tx' = NoTx
    /\ UNCHANGED <<rd, rx, done, arena, lost, exec, heard, spoilt>>

-----------------------------------------------------------------------------
(* nfc_engine.c: an I-block with its number.  Every APDU that is answered  *)
(* in one block ends the chain that was being sent.                        *)

Num   == air.f.num
Piece == air.f.body

\* remember_complete_i_block, after the answer resp.
Remember(resp, p, k) ==
    done' = [num |-> Num, piece |-> Piece, resp |-> resp, pcb |-> p, keeps |-> k]

AnswerApdu(c) ==
    /\ SendBlock(Num, FALSE, <<c, 1>>)
    /\ tx' = NoTx
    /\ Remember(I(Num, FALSE, <<c, 1>>), Toggle(Num), FALSE)

\* handle_apdu, for the routes of nfc_dispatch.c that matter to the link.
\* SELECT resets the exchange; a CTAP message that is served at once leaves
\* its length behind; a fragment of a chained CTAP message stays in the
\* arena and opens the chain.
HandleApdu(c, kind, len) ==
    CASE kind = "select" ->
           /\ rx' = NoRx /\ arena' = TRUE
           /\ AnswerApdu(c)
           /\ UNCHANGED exec
      [] kind = "fragment" ->
           /\ rx' = [rx EXCEPT !.open = TRUE, !.buf = Append(@, Whole(c))]
           /\ arena' = TRUE
           /\ AnswerApdu(c)
           /\ UNCHANGED exec
      [] kind = "direct" ->
           /\ exec' = [exec EXCEPT ![c] = @ + 1]
           /\ rx' = [NoRx EXCEPT !.buf = <<<<Old, 0>>>>]
           /\ IF len = 1
              THEN arena' = FALSE /\ AnswerApdu(c)
              ELSE /\ arena' = TRUE
                   /\ SendBlock(Num, TRUE, <<c, 1>>)
                   /\ tx' = [c |-> c, next |-> 2, len |-> len, end |-> FALSE]
                   /\ Remember(I(Num, TRUE, <<c, 1>>), Toggle(Num), FALSE)

\* Variant: the answer is not kept for a repeated block.
NeverDuplicate == FALSE

\* Variant: the number of the block decides.
DuplicateNumber == done.num = Num

\* is_duplicate_complete_i_block
Duplicate == done.num = Num /\ done.piece = Piece

\* replay_complete_i_block_response
OnDuplicate ==
    /\ Received("I") /\ ~air.f.chain /\ ~rx.open /\ Duplicate
    /\ ToReader(done.resp)
    /\ pcb' = done.pcb
    /\ lastTx' = IF done.keeps THEN lastTx ELSE done.resp
    /\ tx' = [tx EXCEPT !.end = FALSE]
    /\ UNCHANGED <<rd, rx, done, arena, lost, exec, heard, spoilt>>

\* handle_native_desfire
OnProbe ==
    /\ Received("I") /\ ~air.f.chain /\ ~rx.open /\ ~Duplicate
    /\ rd.cmd.kind = "probe"
    /\ SendPreserving(Num, <<rd.cmd.c, 1>>)
    /\ Remember(I(Num, FALSE, <<rd.cmd.c, 1>>), Toggle(Num), TRUE)
    /\ tx' = [tx EXCEPT !.end = FALSE]
    /\ UNCHANGED <<rd, rx, arena, lost, exec, heard, spoilt>>

\* A command in one block.
OnCommand ==
    /\ Received("I") /\ ~air.f.chain /\ ~rx.open /\ ~Duplicate
    /\ rd.cmd.kind # "probe"
    /\ HandleApdu(rd.cmd.c, rd.cmd.kind, rd.cmd.len)
    /\ UNCHANGED <<rd, lost, heard, spoilt>>

\* reset_exchange_locked, as far as the link goes.
ResetLink == rx' = NoRx /\ done' = NoDone /\ tx' = NoTx

\* append_rx_chain_payload: a block is the one before it once more if its
\* number and its bytes are the same.
Repeated == rx.num = Num /\ rx.piece = Piece

\* The block is acknowledged, and the reader goes on.
ChainGoesOn ==
    /\ ToReader(R("ACK", Num))
    /\ pcb' = Num
    /\ tx' = [tx EXCEPT !.end = FALSE]
    /\ UNCHANGED <<lastTx, done>>

OnChainBlock ==
    /\ Received("I") /\ air.f.chain
    /\ \/ /\ ~arena                       \* no buffer: WRONG_LENGTH
          /\ SendBlock(Num, FALSE, <<rd.cmd.c, 1>>)
          /\ ResetLink
       \/ /\ arena /\ Repeated /\ rx.dups >= DupLimit
          /\ air' = Silence                \* stalled: nothing is sent
          /\ ResetLink
          /\ lastTx' = None /\ pcb' = Num
       \/ /\ arena /\ Repeated /\ rx.dups < DupLimit
          /\ rx' = [rx EXCEPT !.dups = @ + 1]
          /\ ChainGoesOn
       \/ /\ arena /\ ~Repeated
          /\ rx' = [open |-> TRUE, buf |-> Append(rx.buf, Piece), num |-> Num, piece |-> Piece,
                    dups |-> 0]
          /\ ChainGoesOn
    /\ UNCHANGED <<rd, arena, lost, exec, heard, spoilt>>

\* The block that ends a chain.  What was assembled is taken for an APDU;
\* bytes of something else in front of it make it one that is refused.
OnLastBlock ==
    /\ Received("I") /\ ~air.f.chain /\ rx.open
    /\ LET apdu == Append(rx.buf, Piece)
       IN /\ heard' = apdu
          /\ IF apdu = <<Part(rd.cmd.c, 1), Part(rd.cmd.c, 2)>>
             THEN HandleApdu(rd.cmd.c, rd.cmd.kind, rd.cmd.len)
             ELSE /\ rx' = NoRx /\ arena' = TRUE
                  /\ AnswerApdu(rd.cmd.c)
                  /\ UNCHANGED exec
    /\ UNCHANGED <<rd, lost, spoilt>>

-----------------------------------------------------------------------------
(* The reader drops the connection: S(DESELECT), field off, RATS.  The     *)
(* command that it was waiting for is given up, and another reader may     *)
(* come.                                                                   *)

NewActivation ==
    /\ air = Silence
    /\ \E way \in Ways :
         rd' = [rd EXCEPT !.num = 0, !.cmd = NoCmd, !.sent = None, !.want = 1, !.got = <<rd.n, 0>>,
                          !.way = way]
    /\ pcb' = 0 /\ lastTx' = None
    /\ ResetLink
    /\ spoilt' = FALSE
    /\ UNCHANGED <<air, arena, lost, exec, heard>>

Card == OnNak \/ OnEmpty \/ OnAck \/ OnDuplicate \/ OnProbe \/ OnCommand \/ OnChainBlock \/ OnLastBlock
LinkNext == \/ SendCommand \/ Accept \/ NextPart \/ SendAgain \/ Nak
            \/ Lose \/ Card \/ NewActivation

\* The card answers, and the reader takes what it hears and asks again.
LinkFairness == /\ WF_linkVars(Card) /\ WF_linkVars(Accept \/ NextPart)
                /\ WF_linkVars(SendAgain \/ Nak)
LinkSpec == LinkInit /\ [][LinkNext]_linkVars /\ LinkFairness

-----------------------------------------------------------------------------
Num2 == 0..2
Body == (0..MaxCmds) \X (0..MaxBlocks)
Block == [t : {"I"}, num : {0, 1}, chain : BOOLEAN, body : Body \cup (Cmd \X {0, 1, 2})]

\* The card's link state keeps its shape; the arena never holds more than
\* what was left of a request and one open chain.
LinkTypeOK ==
    /\ pcb \in {0, 1} /\ arena \in BOOLEAN
    /\ lastTx \in Block \cup {None}
    /\ tx.next <= tx.len + 1 /\ tx.c \in 0..MaxCmds
    /\ rx.dups \in 0..DupLimit
    /\ rx.open => rx.buf # << >>
    /\ Len(rx.buf) <= MaxCmds + 2

\* A command is carried out at most once, however often its blocks are lost
\* and sent again: a repeated block is answered from the cache.
ExecutedOnce == \A c \in Cmd : exec[c] <= 1

\* The block that the reader accepted last is the next block of the response
\* to the command that it sent last: a block of another response, a block
\* twice or a gap never reach it.
ResponseInOrder == rd.n # 0 => rd.got = <<rd.n, rd.want - 1>>

\* That holds from an activation until a frame is lost that the card does not
\* make good for, or a command looks like the one before: replays, probes in
\* between, repeated blocks and a lost R(ACK) do not spoil it.
MendedInOrder == ~spoilt => ResponseInOrder

\* While frames are lost only now and then, a reader that asks again gets
\* its whole response.
CommandCompletes == \A c \in Cmd : (rd.cmd.c = c) ~> (rd.cmd.c # c)

\* The same, unless something happens that the card does not make good for.
MendedCompletes == \A c \in Cmd : (rd.cmd.c = c) ~> (rd.cmd.c # c \/ spoilt)

\* What is taken for an APDU at the end of a chain is the two parts that the
\* reader sent.
AssembledAsSent == heard # << >> => \E c \in Cmd : heard = <<Part(c, 1), Part(c, 2)>>
=============================================================================
