------------------------- MODULE AtomicFileOutcome -------------------------
(***************************************************************************)
(* AtomicFile, observed call by call: every write, removal and recovery    *)
(* ends in one of the outcomes that FileOutcome lists, from which          *)
(* SignCounter builds its steps.                                           *)
(***************************************************************************)
EXTENDS AtomicFile

INSTANCE FileOutcome

VARIABLES start,   \* the two files when the running call began
          call,    \* the function that is running
          fault    \* 1 when a storage call of the running call has failed

\* A storage call changes its file or moves on; one that fails takes the
\* branch that the actions of AtomicFile mark by where they go next.
Failed ==
    \/ pc = "recover" /\ pc' = "recoverFailed"
    \/ pc = "recoverDropBackup" /\ backup # None /\ backup' = backup
    \/ pc \in {"openTemp", "writeTemp"} /\ pc' = "finish"
    \/ pc \in {"prepare", "copy", "copying"} /\ pc' = "abandon"
    \/ pc \in {"unlink", "relink"} /\ pc' = "recover"
    \/ pc = "dropBackup" /\ backupActive /\ backup' = backup
    \/ pc \in {"removeTemp", "removeBackup"} /\ pc' = "idle"
    \/ pc = "removePrimary" /\ ~ok'

Calls == [down |-> "recover", idle |-> IF pc' = "removeTemp" THEN "remove" ELSE "write"]

Begins == pc \in DOMAIN Calls /\ pc' # "down"

ObservedInit == Init /\ start = File(primary, backup) /\ call = "recover" /\ fault = 0

ObservedNext ==
    /\ Next
    /\ IF Begins
         THEN start' = File(primary, backup) /\ call' = Calls[pc] /\ fault' = 0
         ELSE UNCHANGED <<start, call>> /\ fault' = IF Failed THEN 1 ELSE fault

ObservedSpec == ObservedInit /\ [][ObservedNext]_<<vars, start, call, fault>>

Outcomes == [recover |-> RecoverOutcome(start),
             remove  |-> RemoveOutcome(start),
             write   |-> WriteOutcome(start, target)]

(***************************************************************************)
(* A call of zerofido_storage.c that returns, or is cut off by the loss of *)
(* power, leaves one of the outcomes that FileOutcome lists for it.        *)
(***************************************************************************)
OutcomeListed ==
    [][pc \notin {"idle", "down"} /\ pc' \in {"idle", "down"} =>
         [file |-> File(primary', backup'),
          end |-> IF pc' = "down" THEN "off" ELSE reply',
          cost |-> IF pc' = "down" THEN 0 ELSE fault'] \in Outcomes[call]]_<<vars, start, call, fault>>
=============================================================================
