---------------------------- MODULE SignCounter ----------------------------
(***************************************************************************)
(* The signature counter of one credential: its record file and its        *)
(* ".counter" file (src/src/store/record_format.c), its entry in the       *)
(* index kept in memory (src/src/zerofido_store.c), the assertions that    *)
(* advance it (src/src/ctap/commands/get_assertion.c and                   *)
(* src/src/ctap/core/assertion_queue.c), and what start-up makes of the    *)
(* files (src/src/store/recovery.c and src/src/store/bootstrap.c).         *)
(*                                                                         *)
(* A file operation is one step with the outcomes of FileOutcome; the      *)
(* power may go off inside it and between any two steps.                   *)
(***************************************************************************)
EXTENDS Integers, FileOutcome

CONSTANTS MaxCount,     \* UINT32_MAX
          Window,       \* ZF_COUNTER_RESERVATION_WINDOW
          LegacyCount,  \* the count of a record written by an older version
          MaxFaults     \* bound: steps in which a storage call fails

Count == 0..MaxCount

\* sign_count, and whether the record embeds an encrypted counter floor.
Record == [count : Count, floor : BOOLEAN]

ASSUME CountAssumption == /\ MaxCount \in Nat
                          /\ Window \in Nat \ {0}
                          /\ LegacyCount \in Count
                          /\ MaxFaults \in Nat

ASSUME ContentAssumption == /\ None # Torn
                            /\ None \notin Record \cup Count
                            /\ Torn \notin Record \cup Count

VARIABLES rec,      \* the record file
          ctr,      \* the .counter file
          entry,    \* the entry in app->store, or NoEntry
          pc,       \* the next step of the running operation
          todo,     \* the backups that start-up has not come to yet
          count,    \* record->sign_count of the assertion being made
          life,     \* history: none, live, leaving or deleted
          last,     \* history: the count of the last response
          above,    \* history: least count above the responses before it
          faults    \* steps in which a storage call failed

files   == <<rec, ctr>>
history == <<life, last, above>>
vars    == <<rec, ctr, entry, pc, todo, count, life, last, above, faults>>

NoEntry == [inUse |-> FALSE]

Entry(sign, high) == [inUse |-> TRUE, sign |-> sign, high |-> high]

Charge(cost) == /\ faults + cost <= MaxFaults
                /\ faults' = faults + cost

\* Memory is lost with the power.
PowerOff == /\ pc' = "down"
            /\ entry' = NoEntry
            /\ todo' = {}
            /\ count' = 0

\* An operation is over and leaves the index as it was.
Finish == /\ pc' = "idle"
          /\ UNCHANGED <<entry, todo>>
          /\ count' = 0

-----------------------------------------------------------------------------
(* store/record_format.c                                                   *)

\* Variant: the addition wraps.
HighWaterWraps(n) == (n + Window) % (MaxCount + 1)

\* zf_counter_reserved_high_water
HighWater(n) == IF MaxCount - n < Window THEN MaxCount ELSE n + Window

Loaded(O, n) == {[ctr |-> o.file, end |-> o.end, cost |-> o.cost, count |-> n] : o \in O}

Untouched(end, cost) == Outcome({ctr}, {end}, cost)

RaiseFloor(n) == Loaded(WriteOutcome(ctr, n), n)

\* zf_store_counter_floor_validate_fields: the larger count wins, and a
\* counter file that is behind, or that a record without a floor of its own
\* lacks, is written.
Validate(r) ==
    IF ctr.prim = None
      THEN IF r.floor THEN Loaded(Untouched("true", 0), r.count) ELSE RaiseFloor(r.count)
      ELSE IF ctr.prim < r.count THEN RaiseFloor(r.count)
           ELSE Loaded(Untouched("true", 0), ctr.prim)

\* Reading a record: the file may be missing or not decode, a read or a
\* decryption may fail although the file is good, or the counter decides.
Load == Loaded(Untouched("false", IF rec.prim \in Record THEN 1 ELSE 0), 0) \cup
        IF rec.prim \in Record THEN Validate(rec.prim) ELSE {}

-----------------------------------------------------------------------------
(* makeCredential, for the credential whose random id names these files.   *)

Unwritten == rec = Empty /\ ctr = Empty /\ entry = NoEntry /\ life = "none"

Create ==
    /\ pc = "idle" /\ Unwritten
    /\ \E o \in WriteOutcome(rec, [count |-> 0, floor |-> TRUE]) :
         /\ rec' = o.file
         /\ Charge(o.cost)
         /\ \/ o.end = "true" /\ pc' = "added" /\ UNCHANGED <<entry, todo, count>>
            \/ o.end = "false" /\ Finish
            \/ o.end = "off" /\ PowerOff
    /\ UNCHANGED <<ctr, history>>

\* zf_store_publish_added_record, after which the response goes out.
Added ==
    /\ pc = "added"
    /\ pc' = "idle"
    /\ entry' = Entry(0, 0)
    /\ life' = "live"
    /\ UNCHANGED <<files, todo, count, last, above, faults>>

\* The index has no room, or a credential that this one replaces could not
\* be removed: the record is taken back, and an error is the answer whether
\* or not that works.
Withdraw ==
    /\ pc = "added"
    /\ \E o \in RemoveOutcome(rec) :
         /\ rec' = o.file
         /\ Charge(o.cost)
         /\ IF o.end = "off" THEN PowerOff ELSE Finish
    /\ UNCHANGED <<ctr, history>>

-----------------------------------------------------------------------------
(* getAssertion and getNextAssertion                                       *)

\* zf_get_next_sign_count
NextCount(n) == n + 1

\* zf_ctap_load_and_prepare_assertion: the response is signed over the count
\* after the one on file, and refused when there is none.
Prepare ==
    /\ pc = "idle" /\ entry # NoEntry
    /\ \E l \in Load :
         /\ ctr' = l.ctr
         /\ Charge(l.cost)
         /\ \/ /\ l.end = "true" /\ l.count < MaxCount
               /\ count' = NextCount(l.count)
               /\ pc' = "reserve"
               /\ UNCHANGED <<entry, todo>>
            \/ (l.end = "false" \/ (l.end = "true" /\ l.count = MaxCount)) /\ Finish
            \/ l.end = "off" /\ PowerOff
    /\ UNCHANGED <<rec, history>>

\* The response cannot be built, or the transport reports a cancellation,
\* before anything is reserved.
Cancel == /\ pc = "reserve"
          /\ Finish
          /\ UNCHANGED <<files, history, faults>>

Reserving == count > entry.high

Target == IF Reserving THEN HighWater(count) ELSE entry.high

\* Variant: only the record is written.
ReserveCounterSkipped ==
    /\ pc = "reserve"
    /\ pc' = "rewrite"
    /\ UNCHANGED <<files, entry, todo, count, history, faults>>

\* zf_store_prepare_counter_advance: a count above the reserved ones reserves
\* a window, first in the counter file ...
ReserveCounter ==
    /\ pc = "reserve"
    /\ \E o \in IF count >= entry.sign /\ Reserving THEN WriteOutcome(ctr, Target)
                ELSE Untouched(IF count >= entry.sign THEN "true" ELSE "false", 0) :
         /\ ctr' = o.file
         /\ Charge(o.cost)
         /\ \/ o.end = "true" /\ pc' = "rewrite" /\ UNCHANGED <<entry, todo, count>>
            \/ o.end = "false" /\ Finish
            \/ o.end = "off" /\ PowerOff
    /\ UNCHANGED <<rec, history>>

\* ... and then in the record.
ReserveRecord ==
    /\ pc = "rewrite"
    /\ \E o \in IF Reserving THEN WriteOutcome(rec, [count |-> Target, floor |-> TRUE])
                ELSE Outcome({rec}, {"true"}, 0) :
         /\ rec' = o.file
         /\ Charge(o.cost)
         /\ \/ o.end = "true" /\ pc' = "publish" /\ UNCHANGED <<entry, todo, count>>
            \/ o.end = "false" /\ Finish
            \/ o.end = "off" /\ PowerOff
    /\ UNCHANGED <<ctr, history>>

\* zf_store_publish_counter_advance, after which the response goes out.
Publish ==
    /\ pc = "publish"
    /\ IF Target >= count /\ count >= entry.sign
         THEN /\ entry' = Entry(count, Target)
              /\ last' = count
              /\ above' = IF last + 1 > above THEN last + 1 ELSE above
              /\ life' = IF life = "none" THEN "live" ELSE life
         ELSE UNCHANGED <<entry, history>>
    /\ pc' = "idle"
    /\ count' = 0
    /\ UNCHANGED <<files, todo, faults>>

-----------------------------------------------------------------------------
(* Deletion, from the settings or by a new credential of the same user.    *)

\* zf_store_recovery_remove_record_paths: the record, then the counter.
Delete ==
    /\ pc = "idle" /\ entry # NoEntry
    /\ \E o \in RemoveOutcome(rec) :
         \E c \in IF o.end = "true" THEN RemoveOutcome(ctr) ELSE Untouched(o.end, 0) :
           /\ rec' = o.file
           /\ ctr' = c.file
           /\ Charge(o.cost + c.cost)
           /\ \/ /\ c.end = "true"
                 /\ pc' = "idle"
                 /\ entry' = NoEntry
                 /\ life' = "deleted"
                 /\ UNCHANGED <<todo, count>>
              \/ c.end = "false" /\ Finish /\ life' = "leaving"
              \/ c.end = "off" /\ PowerOff /\ life' = "leaving"
    /\ UNCHANGED <<last, above>>

-----------------------------------------------------------------------------
(* Start-up                                                                *)

Boot == /\ pc = "down"
        /\ pc' = "recover"
        /\ todo' = {"rec", "ctr"}
        /\ UNCHANGED <<files, entry, count, history, faults>>

\* The visitor goes on to the other files, or gives up when it returns false.
Visited(f, end) ==
    \/ end = "true" /\ todo' = todo \ {f} /\ UNCHANGED <<pc, entry, count>>
    \/ end = "false" /\ todo' = {} /\ UNCHANGED <<pc, entry, count>>
    \/ end = "off" /\ PowerOff

\* zf_store_recovery_recover_record_backup, once the primary is known to
\* load or not: a good primary makes the backup superfluous, and anything
\* else is replaced by the backup.
KeepPrimary == Outcome({File(rec.prim, None)}, {"true", "off"}, 0) \cup
               Outcome({rec}, {"false"}, 1)

RestoreBackup == Outcome({File(rec.bak, None)}, {"true", "off"}, 0) \cup
                 Outcome({rec, File(None, rec.bak)}, {"false"}, 1) \cup
                 Outcome({rec, File(None, rec.bak)}, {"off"}, 0)

\* Variant: the backup replaces the primary without a look at it.
RecoverRecordAlways ==
    /\ pc = "recover" /\ "rec" \in todo /\ rec.bak # None
    /\ \E o \in RestoreBackup : rec' = o.file /\ Charge(o.cost) /\ Visited("rec", o.end)
    /\ UNCHANGED <<ctr, history>>

RecoverRecord ==
    /\ pc = "recover" /\ "rec" \in todo /\ rec.bak # None
    /\ \E l \in Load :
         /\ ctr' = l.ctr
         /\ \/ /\ l.end = "off"
               /\ PowerOff
               /\ Charge(l.cost)
               /\ UNCHANGED rec
            \/ /\ l.end # "off"
               /\ \E o \in IF l.end = "true" THEN KeepPrimary ELSE RestoreBackup :
                    rec' = o.file /\ Charge(l.cost + o.cost) /\ Visited("rec", o.end)
    /\ UNCHANGED history

RecoverCounter ==
    /\ pc = "recover" /\ "ctr" \in todo /\ ctr.bak # None
    /\ \E o \in RecoverOutcome(ctr) :
         ctr' = o.file /\ Charge(o.cost) /\ Visited("ctr", o.end)
    /\ UNCHANGED <<rec, history>>

\* There is no backup to visit, or an error on another file ended the visit.
SkipBackups ==
    /\ pc = "recover" /\ todo # {}
    /\ todo' = {}
    /\ \/ Charge(1)
       \/ /\ "rec" \in todo => rec.bak = None
          /\ "ctr" \in todo => ctr.bak = None
          /\ UNCHANGED faults
    /\ UNCHANGED <<files, entry, pc, count, history>>

\* zf_store_bootstrap_index_visitor: a record that does not load is left out.
Index ==
    /\ pc = "recover" /\ todo = {}
    /\ \E l \in Load :
         /\ ctr' = l.ctr
         /\ Charge(l.cost)
         /\ \/ /\ l.end = "true"
               /\ entry' = Entry(l.count, l.count)
               /\ pc' = "idle"
               /\ UNCHANGED <<todo, count>>
            \/ l.end = "false" /\ Finish
            \/ l.end = "off" /\ PowerOff
    /\ UNCHANGED <<rec, history>>

Crash == /\ pc # "down"
         /\ PowerOff
         /\ UNCHANGED <<files, history, faults>>

-----------------------------------------------------------------------------
\* The credential does not exist yet, or an older version left its record,
\* without a floor, and perhaps a counter file that is behind.
Init ==
    /\ \/ rec = Empty /\ ctr = Empty /\ life = "none" /\ last = 0
       \/ /\ rec = File([count |-> LegacyCount, floor |-> FALSE], None)
          /\ ctr \in {Empty, File(0, None)}
          /\ life = "live"
          /\ last = LegacyCount
    /\ entry = NoEntry
    /\ pc = "down"
    /\ todo = {}
    /\ count = 0
    /\ above = 0
    /\ faults = 0

Next == \/ Create \/ Added \/ Withdraw
        \/ Prepare \/ Cancel \/ ReserveCounter \/ ReserveRecord \/ Publish
        \/ Delete
        \/ Boot \/ RecoverRecord \/ RecoverCounter \/ SkipBackups \/ Index
        \/ Crash

Spec == Init /\ [][Next]_vars

-----------------------------------------------------------------------------
(* Properties                                                              *)

FileOf(S) == [prim : S \cup {None, Torn}, bak : S \cup {None, Torn}]

TypeOK == /\ rec \in FileOf(Record)
          /\ ctr \in FileOf(Count)
          /\ ctr.prim # Torn
          /\ entry \in {NoEntry} \cup {Entry(s, h) : s, h \in Count}
          /\ pc \in {"down", "idle", "added", "reserve", "rewrite", "publish", "recover"}
          /\ todo \subseteq {"rec", "ctr"}
          /\ count \in Count
          /\ life \in {"none", "live", "leaving", "deleted"}
          /\ last \in Count
          /\ above \in 0..(MaxCount + 1)
          /\ faults \in 0..MaxFaults

(***************************************************************************)
(* zerofido_store.h: "Signature counters are monotonic across power loss". *)
(* The count of a response is above the counts of all responses before it, *)
(* through restarts and power losses at any point of a reservation.        *)
(***************************************************************************)
CountsGrow == last >= above

(***************************************************************************)
(* As long as no storage call has failed, a credential the relying party   *)
(* may know of is found by the next start, with a count no smaller than    *)
(* the last it was told, whenever the power goes off.                      *)
(***************************************************************************)
Sound(f, S) == Whole(f) \in S

CredentialSurvives ==
    life = "live" /\ faults = 0 =>
        /\ Sound(rec, Record)
        /\ \/ Whole(rec).count >= last
           \/ Sound(ctr, Count) /\ Whole(ctr) >= last

(***************************************************************************)
(* A credential whose deletion succeeded is not indexed again by any later *)
(* start, whatever was left of its files.                                  *)
(***************************************************************************)
DeletedStaysDeleted == life = "deleted" => entry = NoEntry

(***************************************************************************)
(* As long as no storage call has failed, the checks of                    *)
(* zf_store_prepare_counter_advance and zf_store_publish_counter_advance   *)
(* against the index never turn down an assertion prepared from the files, *)
(* so that no loss of power locks a credential out.  (After a failed write *)
(* of the counter file they do, until the next start.)                     *)
(***************************************************************************)
NeverLockedOut ==
    faults = 0 /\ pc \in {"reserve", "rewrite", "publish"} => count > entry.sign
=============================================================================
