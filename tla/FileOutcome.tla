---------------------------- MODULE FileOutcome ----------------------------
(***************************************************************************)
(* What one call of zf_storage_write_file_atomic,                          *)
(* zf_storage_recover_atomic_file or zf_storage_remove_atomic_file can     *)
(* leave behind, as seen by a caller that treats the call as one step.     *)
(* AtomicFileOutcome checks these sets against the calls step by step.     *)
(*                                                                         *)
(* A file is its primary and its backup; an outcome is the file, how the   *)
(* call ended (it returned true, it returned false, or the power went off  *)
(* inside it) and whether a storage call failed on the way.                *)
(***************************************************************************)
EXTENDS Naturals

CONSTANTS None, Torn

File(p, b) == [prim |-> p, bak |-> b]

Empty == File(None, None)

\* The content a recovery would leave at the path.
Whole(f) == IF f.prim # None THEN f.prim ELSE f.bak

Outcome(F, ends, cost) == [file : F, end : ends, cost : {cost}]

\* The new content is in place; the old one may stay behind in the backup.
Written(f, v) == {File(v, b) : b \in {None, Whole(f)}}

\* The old content is in place, with what was left of its backup, or only in
\* the backup.
NotWritten(f) ==
    {File(None, Whole(f))} \cup
    {File(Whole(f), b) : b \in IF Whole(f) = None THEN {None}
                               ELSE {None, Torn, Whole(f), f.bak}}

WriteOutcome(f, v) ==
    Outcome({File(v, None)}, {"true"}, 0) \cup
    Outcome(Written(f, v), {"true"}, 1) \cup
    Outcome(NotWritten(f), {"false"}, 1) \cup
    Outcome(Written(f, v) \cup NotWritten(f), {"off"}, 0)

\* A backup that cannot be removed does not make recovery fail.
RecoverOutcome(f) ==
    Outcome({File(Whole(f), None)}, {"true", "off"}, 0) \cup
    Outcome({f}, {"off"}, 0) \cup
    Outcome({f}, {IF f.prim = None THEN "false" ELSE "true"}, 1)

\* Variant: the removal forgets the backup.
RemoveOutcomePrimary(f) == Outcome({File(None, f.bak)}, {"true"}, 0)

RemoveOutcome(f) ==
    Outcome({Empty}, {"true"}, 0) \cup
    Outcome({f, File(f.prim, None)}, {"false"}, 1) \cup
    Outcome({f, File(f.prim, None), Empty}, {"off"}, 0)
=============================================================================
