------------------------- MODULE SignCounter_proofs -------------------------
(***************************************************************************)
(* Proofs about SignCounter, for every counter width, window and number of *)
(* faults.  Safe collects what holds whatever fails; Calm what holds as    *)
(* long as no storage call has failed, however often the power goes off.   *)
(* GrowInv, in the second half, counts failures: what the files still      *)
(* cover after none, one and two of them.                                  *)
(***************************************************************************)
EXTENDS SignCounter, TLAPS

-----------------------------------------------------------------------------
(* What the file operations leave behind.                                  *)

Ends == {"true", "false", "off"}

\* What zf_storage_write_file_atomic leaves: the new content or the old.
LEMMA WriteFacts ==
    ASSUME NEW S, None \notin S, Torn \notin S, NEW f \in FileOf(S), NEW v \in S,
           NEW o \in WriteOutcome(f, v)
    PROVE  /\ o.file \in FileOf(S)
           /\ o.cost \in {0, 1}
           /\ o.end \in Ends
           /\ Whole(o.file) \in {v, Whole(f)}
           /\ o.end = "true" => o.file.prim = v
           /\ o.end = "true" /\ o.cost = 0 => o.file.bak = None
           /\ o.end = "false" => o.cost = 1
BY DEF WriteOutcome, Outcome, Written, NotWritten, File, Whole, FileOf, Ends

\* What zf_storage_recover_atomic_file leaves: the content that was there.
LEMMA RecoverFacts ==
    ASSUME NEW S, None \notin S, Torn \notin S, NEW f \in FileOf(S),
           NEW o \in RecoverOutcome(f)
    PROVE  /\ o.file \in FileOf(S)
           /\ o.cost \in {0, 1}
           /\ o.end \in Ends
           /\ Whole(o.file) = Whole(f)
           /\ o.end = "true" /\ o.cost = 0 => o.file.bak = None
           /\ o.end = "false" => o.cost = 1
BY DEF RecoverOutcome, Outcome, File, Whole, FileOf, Ends

\* What zf_storage_remove_atomic_file leaves: nothing new.
LEMMA RemoveFacts ==
    ASSUME NEW S, None \notin S, Torn \notin S, NEW f \in FileOf(S),
           NEW o \in RemoveOutcome(f)
    PROVE  /\ o.file \in FileOf(S)
           /\ o.cost \in {0, 1}
           /\ o.end \in Ends
           /\ o.end = "true" => o.file = Empty
           /\ o.end = "false" => o.cost = 1
           /\ f.prim # None => Whole(o.file) \in {None, Whole(f)}
           /\ f.prim = None => Whole(o.file) \in {None, Whole(f)}
BY DEF RemoveOutcome, Outcome, File, Empty, Whole, FileOf, Ends

\* The reserved high-water mark is a count above the one it is made for.
LEMMA HighWaterFacts ==
    ASSUME NEW n \in Count
    PROVE  HighWater(n) \in Count /\ HighWater(n) >= n
BY CountAssumption DEF HighWater, Count

-----------------------------------------------------------------------------
(* The invariant.                                                          *)

Running == {"idle", "added", "reserve", "rewrite", "publish"}

Asserting == {"reserve", "rewrite", "publish"}

Safe == /\ TypeOK
        /\ Whole(ctr) # Torn
        /\ pc # "recover" => todo = {}
        /\ pc \in {"down", "recover"} => entry = NoEntry
        /\ pc \in Asserting => entry # NoEntry
        /\ life = "deleted" => entry = NoEntry /\ rec = Empty /\ pc \in {"down", "idle", "recover"}
        /\ pc = "added" => entry = NoEntry /\ life = "none"
        /\ life = "none" => last = 0 /\ above = 0

Calm == /\ Whole(rec) # Torn
        /\ Whole(rec) # None => Whole(rec).count >= last
        /\ life = "live" => Whole(rec) # None
        /\ pc # "down" /\ "rec" \notin todo => rec.bak = None
        /\ pc # "down" /\ "ctr" \notin todo => ctr.bak = None
        /\ entry # NoEntry =>
             /\ rec.prim \in Record
             /\ entry.sign <= entry.high
             /\ \/ entry.high <= rec.prim.count
                \/ ctr.prim # None /\ entry.high <= ctr.prim
        /\ pc \in Asserting => count > last /\ count > entry.high
        /\ pc = "added" => rec.prim \in Record
        /\ pc = "publish" => rec.prim.count = HighWater(count)
        /\ above <= last

Inv == Safe /\ (faults = 0 => Calm)

-----------------------------------------------------------------------------
(* Loading the record.                                                     *)

\* A record that loads yields a count that neither its own nor the one in
\* the counter file exceeds, and a load never takes the counter file away.
LEMMA LoadFacts ==
    ASSUME TypeOK, Whole(ctr) # Torn, NEW l \in Load
    PROVE  /\ l.ctr \in FileOf(Count) /\ l.ctr.prim # Torn /\ Whole(l.ctr) # Torn
           /\ l.cost \in {0, 1}
           /\ l.end \in Ends
           /\ l.end = "true" =>
                /\ rec.prim \in Record
                /\ l.count \in Count
                /\ l.count >= rec.prim.count
                /\ ctr.prim # None => l.count >= ctr.prim
           /\ l.end = "true" /\ l.cost = 0 =>
                /\ ctr.bak = None => l.ctr.bak = None
                /\ l.count = rec.prim.count \/ (l.ctr.prim # None /\ l.count <= l.ctr.prim)
                /\ ctr.prim # None => l.ctr.prim = ctr.prim \/ ctr.prim < rec.prim.count
           /\ l.end = "false" /\ rec.prim \in Record => l.cost = 1
           /\ l.end = "false" /\ rec.prim \notin Record => l.ctr = ctr
<1> None \notin Count /\ Torn \notin Count /\ None # Torn /\ None \notin Record
  BY ContentAssumption
<1> ctr \in FileOf(Count) /\ ctr.prim # Torn /\ ctr.prim \in Count \cup {None}
  BY DEF TypeOK, FileOf
<1>1. CASE l \in Loaded(Untouched("false", IF rec.prim \in Record THEN 1 ELSE 0), 0)
  BY <1>1 DEF Loaded, Untouched, Outcome, Ends
<1>2. CASE rec.prim \in Record /\ l \in Validate(rec.prim)
  <2> DEFINE r == rec.prim
  <2>0. r.count \in Count /\ r.count \in Int
    BY <1>2, CountAssumption DEF Record, Count
  <2>1. CASE l \in RaiseFloor(r.count) /\ (ctr.prim = None \/ ctr.prim < r.count)
    <3>1. PICK o \in WriteOutcome(ctr, r.count) :
             l = [ctr |-> o.file, end |-> o.end, cost |-> o.cost, count |-> r.count]
      BY <2>1 DEF RaiseFloor, Loaded
    <3>2. /\ o.file \in FileOf(Count) /\ o.cost \in {0, 1} /\ o.end \in Ends
          /\ Whole(o.file) \in {r.count, Whole(ctr)}
          /\ o.end = "true" => o.file.prim = r.count
          /\ o.end = "true" /\ o.cost = 0 => o.file.bak = None
          /\ o.end = "false" => o.cost = 1
      BY <2>0, WriteFacts
    <3>3. Whole(o.file) # Torn /\ o.file.prim # Torn
      BY <3>2, <2>0 DEF Whole
    <3> QED
      BY <3>1, <3>2, <3>3, <2>0, <2>1, <1>2, CountAssumption DEF Count
  <2>2. CASE ctr.prim = None /\ l \in Loaded(Untouched("true", 0), r.count)
    BY <2>0, <2>2, <1>2 DEF Loaded, Untouched, Outcome, Ends
  <2>3. CASE ctr.prim # None /\ ~(ctr.prim < r.count) /\ l \in Loaded(Untouched("true", 0), ctr.prim)
    BY <2>0, <2>3, <1>2, CountAssumption DEF Loaded, Untouched, Outcome, Ends, Count
  <2> QED
    BY <1>2, <2>1, <2>2, <2>3 DEF Validate
<1> QED
  BY <1>1, <1>2 DEF Load

-----------------------------------------------------------------------------
(* Facts every action uses.                                                *)

LEMMA Names ==
    /\ None # Torn
    /\ None \notin Count /\ Torn \notin Count
    /\ None \notin Record /\ Torn \notin Record
    /\ Count \subseteq Int /\ 0 \in Count /\ MaxCount \in Nat /\ MaxFaults \in Nat
    /\ \A c \in Count, b \in BOOLEAN : [count |-> c, floor |-> b] \in Record
    /\ \A s, h \in Count : Entry(s, h) # NoEntry
BY ContentAssumption, CountAssumption DEF Count, Record, Entry, NoEntry

\* A step that spends nothing on faults is a step of a calm behaviour.
LEMMA ChargeFacts ==
    ASSUME TypeOK, NEW cost \in Nat, Charge(cost)
    PROVE  /\ faults' \in 0..MaxFaults
           /\ faults' = 0 => faults = 0 /\ cost = 0
BY CountAssumption DEF TypeOK, Charge

\* What the entry of an indexed credential is.
LEMMA EntryFacts ==
    ASSUME TypeOK, entry # NoEntry
    PROVE  /\ entry = Entry(entry.sign, entry.high)
           /\ entry.sign \in Count /\ entry.high \in Count
BY DEF TypeOK, Entry

\* Losing the power keeps the invariant when the files do.
LEMMA PowerOffPreserves ==
    ASSUME Inv, PowerOff,
           rec' \in FileOf(Record), ctr' \in FileOf(Count), ctr'.prim # Torn,
           Whole(ctr)' # Torn, faults' \in 0..MaxFaults,
           life' \in {"none", "live", "leaving", "deleted"}, UNCHANGED <<last, above>>,
           life' = "deleted" => rec' = Empty, life' = "none" => life = "none",
           faults' = 0 => /\ faults = 0
                          /\ Whole(rec)' # Torn
                          /\ Whole(rec)' # None => Whole(rec)'.count >= last
                          /\ life' = "live" => Whole(rec)' # None
    PROVE  Inv'
<1>1. Safe'
  BY Names DEF Inv, Safe, PowerOff, TypeOK, Asserting
<1>2. ASSUME faults' = 0 PROVE Calm'
  BY <1>2 DEF Inv, Calm, PowerOff, Asserting
<1> QED
  BY <1>1, <1>2 DEF Inv

\* So does an operation that ends and leaves the index as it was.
LEMMA FinishPreserves ==
    ASSUME Inv, Finish, pc \in Running,
           rec' \in FileOf(Record), ctr' \in FileOf(Count), ctr'.prim # Torn,
           Whole(ctr)' # Torn, faults' \in 0..MaxFaults,
           UNCHANGED <<last, above>>, life' \in {life, "leaving"},
           life' = "deleted" => rec' = rec,
           faults' = 0 => /\ faults = 0
                          /\ UNCHANGED <<rec, life>>
                          /\ ctr.bak = None => ctr'.bak = None
                          /\ ctr.prim # None => \/ ctr'.prim = ctr.prim
                                                \/ rec.prim \in Record /\ ctr.prim < rec.prim.count
    PROVE  Inv'
<1>1. Safe'
  BY Names DEF Inv, Safe, Finish, TypeOK, Asserting, Running
<1>2. ASSUME faults' = 0 PROVE Calm'
  <2>1. entry # NoEntry => /\ entry.sign \in Int /\ entry.high \in Int
                           /\ rec.prim.count \in Int
                           /\ ctr.prim # None => ctr.prim \in Int
    BY <1>2, EntryFacts, Names DEF Inv, Safe, Calm, TypeOK, FileOf, Record
  <2> QED
    BY <1>2, <2>1 DEF Inv, Calm, Safe, Finish, Asserting, Whole, Running
<1> QED
  BY <1>1, <1>2 DEF Inv

-----------------------------------------------------------------------------
(* The actions, makeCredential first.                                      *)

LEMMA CreatePreserves == ASSUME Inv, Create PROVE Inv'
<1> DEFINE fresh == [count |-> 0, floor |-> TRUE]
<1>1. PICK o \in WriteOutcome(rec, fresh) :
         /\ rec' = o.file
         /\ Charge(o.cost)
         /\ \/ o.end = "true" /\ pc' = "added" /\ UNCHANGED <<entry, todo, count>>
            \/ o.end = "false" /\ Finish
            \/ o.end = "off" /\ PowerOff
  BY DEF Create
<1>2. /\ pc = "idle" /\ rec = Empty /\ ctr = Empty /\ entry = NoEntry /\ life = "none"
      /\ UNCHANGED <<ctr, life, last, above>>
  BY DEF Create, Unwritten, history
<1>3. fresh \in Record /\ rec \in FileOf(Record) /\ TypeOK
  <2>1. fresh \in Record
    BY CountAssumption DEF Record, Count
  <2> QED
    BY <2>1 DEF Inv, Safe, TypeOK
<1> HIDE DEF fresh
<1>4. /\ rec' \in FileOf(Record) /\ o.cost \in {0, 1} /\ o.end \in Ends
      /\ Whole(rec') \in {fresh, Whole(rec)}
      /\ o.end = "true" => rec'.prim = fresh
      /\ o.end = "true" /\ o.cost = 0 => rec'.bak = None
      /\ o.end = "false" => o.cost = 1
  BY <1>1, <1>3, Names, WriteFacts
<1>5. faults' \in 0..MaxFaults /\ (faults' = 0 => faults = 0 /\ o.cost = 0)
  BY <1>1, <1>3, <1>4, ChargeFacts
<1>6. fresh # None /\ fresh # Torn /\ fresh.count = 0 /\ last = 0 /\ above = 0 /\ Whole(rec) = None
  BY <1>2, <1>3, Names DEF fresh, Inv, Safe, Whole, Empty, File
<1>7. CASE o.end = "true" /\ pc' = "added" /\ UNCHANGED <<entry, todo, count>>
  <2>1. entry = NoEntry
    BY <1>2
  <2>2. Safe'
    BY <1>2, <1>4, <1>5, <1>7, <2>1 DEF Inv, Safe, TypeOK, Asserting
  <2>3. ASSUME faults' = 0 PROVE Calm'
    BY <1>2, <1>3, <1>4, <1>5, <1>6, <1>7, <2>1, <2>3, Names DEF Inv, Safe, Calm, Asserting, Whole, Empty, File
  <2> QED BY <2>2, <2>3 DEF Inv
<1>8. CASE o.end = "false" /\ Finish
  BY <1>2, <1>3, <1>4, <1>5, <1>8, FinishPreserves DEF Inv, Safe, TypeOK, Running
<1>9. CASE o.end = "off" /\ PowerOff
  BY <1>2, <1>3, <1>4, <1>5, <1>6, <1>9, PowerOffPreserves DEF Inv, Safe, TypeOK, Whole
<1> QED BY <1>1, <1>7, <1>8, <1>9

LEMMA AddedPreserves == ASSUME Inv, Added PROVE Inv'
<1>1. Safe'
  BY Names DEF Inv, Safe, Added, TypeOK, files, Asserting, Whole
<1>2. ASSUME faults' = 0 PROVE Calm'
  <2>1. Calm /\ pc = "added" /\ todo = {} /\ last = 0 /\ above = 0 /\ TypeOK
    BY <1>2 DEF Inv, Safe, Added
  <2>2. rec.prim.count \in Count /\ rec.prim.count >= 0
    BY <2>1, CountAssumption DEF Calm, Record, Count
  <2> QED
    BY <1>2, <2>1, <2>2, Names DEF Calm, Added, files, Asserting, Whole, Entry, TypeOK, FileOf, Record
<1> QED
  BY <1>1, <1>2 DEF Inv

LEMMA WithdrawPreserves == ASSUME Inv, Withdraw PROVE Inv'
<1>1. PICK o \in RemoveOutcome(rec) :
         /\ rec' = o.file
         /\ Charge(o.cost)
         /\ IF o.end = "off" THEN PowerOff ELSE Finish
  BY DEF Withdraw
<1>2. pc = "added" /\ entry = NoEntry /\ life = "none" /\ UNCHANGED <<ctr, life, last, above>>
  BY DEF Withdraw, history, Inv, Safe
<1>3. TypeOK /\ rec \in FileOf(Record)
  BY DEF Inv, Safe, TypeOK
<1>4. /\ rec' \in FileOf(Record) /\ o.cost \in {0, 1} /\ o.end \in Ends
      /\ o.end = "true" => rec' = Empty
      /\ Whole(rec') \in {None, Whole(rec)}
      /\ o.end = "false" => o.cost = 1
  BY <1>1, <1>3, Names, RemoveFacts
<1>5. faults' \in 0..MaxFaults /\ (faults' = 0 => faults = 0 /\ o.cost = 0)
  BY <1>1, <1>3, <1>4, ChargeFacts
<1>6. CASE o.end = "off"
  BY <1>1, <1>2, <1>3, <1>4, <1>5, <1>6, Names, PowerOffPreserves DEF Inv, Safe, Calm, TypeOK, Whole
<1>7. CASE o.end # "off"
  <2>1. Finish
    BY <1>1, <1>7
  <2>2. Safe'
    BY <1>2, <1>4, <1>5, <2>1 DEF Inv, Safe, Finish, TypeOK, Asserting
  <2>3. ASSUME faults' = 0 PROVE Calm'
    <3>1. rec' = Empty
      BY <1>4, <1>5, <1>7, <2>3 DEF Ends
    <3> QED
      BY <3>1, <1>2, <1>5, <2>1, <2>3, Names DEF Inv, Safe, Calm, Finish, Asserting, Whole, Empty, File
  <2> QED BY <2>2, <2>3 DEF Inv
<1> QED BY <1>6, <1>7

-----------------------------------------------------------------------------
(* getAssertion and getNextAssertion.                                      *)

LEMMA PreparePreserves == ASSUME Inv, Prepare PROVE Inv'
<1>1. PICK l \in Load :
         /\ ctr' = l.ctr
         /\ Charge(l.cost)
         /\ \/ /\ l.end = "true" /\ l.count < MaxCount
               /\ count' = NextCount(l.count)
               /\ pc' = "reserve"
               /\ UNCHANGED <<entry, todo>>
            \/ (l.end = "false" \/ (l.end = "true" /\ l.count = MaxCount)) /\ Finish
            \/ l.end = "off" /\ PowerOff
  BY DEF Prepare
<1>2. pc = "idle" /\ entry # NoEntry /\ UNCHANGED <<rec, life, last, above>>
  BY DEF Prepare, history
<1>3. TypeOK /\ Whole(ctr) # Torn /\ life # "deleted" /\ todo = {}
  BY <1>2 DEF Inv, Safe
<1>4. /\ l.ctr \in FileOf(Count) /\ l.ctr.prim # Torn /\ Whole(l.ctr) # Torn
      /\ l.cost \in {0, 1}
      /\ l.end \in Ends
      /\ l.end = "true" =>
           /\ rec.prim \in Record
           /\ l.count \in Count
           /\ l.count >= rec.prim.count
           /\ ctr.prim # None => l.count >= ctr.prim
      /\ l.end = "true" /\ l.cost = 0 =>
           /\ ctr.bak = None => l.ctr.bak = None
           /\ ctr.prim # None => l.ctr.prim = ctr.prim \/ ctr.prim < rec.prim.count
      /\ l.end = "false" /\ rec.prim \in Record => l.cost = 1
  BY <1>3, LoadFacts
<1>5. faults' \in 0..MaxFaults /\ (faults' = 0 => faults = 0 /\ l.cost = 0)
  BY <1>1, <1>3, <1>4, ChargeFacts
<1>6. rec \in FileOf(Record) /\ (faults = 0 => Calm)
  BY DEF Inv, Safe, TypeOK
<1>7. CASE /\ l.end = "true" /\ l.count < MaxCount
           /\ count' = NextCount(l.count)
           /\ pc' = "reserve"
           /\ UNCHANGED <<entry, todo>>
  <2>1. count' \in Count /\ count' = l.count + 1 /\ l.count \in Int
    BY <1>4, <1>7, CountAssumption DEF NextCount, Count
  <2>2. Safe'
    BY <1>1, <1>2, <1>3, <1>4, <1>5, <1>7, <2>1 DEF Inv, Safe, TypeOK, Asserting, Whole
  <2>3. ASSUME faults' = 0 PROVE Calm'
    <3>1. Calm /\ l.cost = 0
      BY <1>5, <1>6, <2>3
    <3>2. /\ entry.sign \in Int /\ entry.high \in Int /\ rec.prim.count \in Int
          /\ ctr.prim # None => ctr.prim \in Int
          /\ rec.prim # None /\ Whole(rec) = rec.prim /\ last \in Int
      BY <1>2, <1>3, <1>4, <1>7, EntryFacts, Names DEF TypeOK, FileOf, Record, Whole
    <3>3. count' > last /\ count' > entry.high
      BY <1>2, <1>4, <1>7, <2>1, <3>1, <3>2 DEF Calm
    <3> QED
      BY <1>1, <1>2, <1>3, <1>4, <1>7, <3>1, <3>2, <3>3 DEF Calm, Asserting, Whole
  <2> QED BY <2>2, <2>3 DEF Inv
<1>8. CASE (l.end = "false" \/ (l.end = "true" /\ l.count = MaxCount)) /\ Finish
  <2>1. faults = 0 => rec.prim \in Record
    BY <1>2, <1>6 DEF Calm
  <2> QED
    BY <1>1, <1>2, <1>3, <1>4, <1>5, <1>6, <1>8, <2>1, FinishPreserves DEF Running, TypeOK, Whole
<1>9. CASE l.end = "off" /\ PowerOff
  BY <1>1, <1>2, <1>3, <1>4, <1>5, <1>6, <1>9, PowerOffPreserves DEF TypeOK, Whole, Calm
<1> QED BY <1>1, <1>7, <1>8, <1>9

LEMMA CancelPreserves == ASSUME Inv, Cancel PROVE Inv'
BY FinishPreserves DEF Cancel, Inv, Safe, TypeOK, files, history, Running, Whole

LEMMA ReserveCounterPreserves == ASSUME Inv, ReserveCounter PROVE Inv'
<1>1. PICK o \in IF count >= entry.sign /\ Reserving THEN WriteOutcome(ctr, Target)
                 ELSE Untouched(IF count >= entry.sign THEN "true" ELSE "false", 0) :
         /\ ctr' = o.file
         /\ Charge(o.cost)
         /\ \/ o.end = "true" /\ pc' = "rewrite" /\ UNCHANGED <<entry, todo, count>>
            \/ o.end = "false" /\ Finish
            \/ o.end = "off" /\ PowerOff
  BY DEF ReserveCounter
<1>2. pc = "reserve" /\ entry # NoEntry /\ UNCHANGED <<rec, life, last, above>>
  BY DEF ReserveCounter, history, Inv, Safe, Asserting
<1>3. /\ TypeOK /\ Whole(ctr) # Torn /\ life # "deleted" /\ todo = {}
      /\ ctr \in FileOf(Count) /\ ctr.prim # Torn /\ rec \in FileOf(Record)
      /\ count \in Int /\ last \in Int /\ count \in Count
      /\ faults = 0 => Calm
  BY <1>2, Names DEF Inv, Safe, TypeOK
<1>4. entry.sign \in Count /\ entry.high \in Count /\ entry.sign \in Int /\ entry.high \in Int
  BY <1>2, <1>3, EntryFacts, Names
<1>5. Target \in Count /\ (Reserving => Target = HighWater(count) /\ Target >= count)
  BY <1>3, <1>4, HighWaterFacts DEF Target
<1>6. /\ o.file \in FileOf(Count) /\ o.cost \in {0, 1} /\ o.end \in Ends
      /\ Whole(o.file) # Torn /\ o.file.prim # Torn
      /\ count >= entry.sign /\ Reserving =>
           /\ o.end = "true" => o.file.prim = Target
           /\ o.end = "true" /\ o.cost = 0 => o.file.bak = None
           /\ o.end = "false" => o.cost = 1
  <2>1. CASE count >= entry.sign /\ Reserving
    <3>1. o \in WriteOutcome(ctr, Target)
      BY <1>1, <2>1
    <3>2. /\ o.file \in FileOf(Count) /\ o.cost \in {0, 1} /\ o.end \in Ends
          /\ Whole(o.file) \in {Target, Whole(ctr)}
          /\ o.end = "true" => o.file.prim = Target
          /\ o.end = "true" /\ o.cost = 0 => o.file.bak = None
          /\ o.end = "false" => o.cost = 1
      BY <1>3, <1>5, <3>1, Names, WriteFacts
    <3>3. Whole(o.file) # Torn /\ o.file.prim # Torn
      BY <1>3, <1>5, <3>2, Names DEF Whole
    <3> QED BY <3>2, <3>3
  <2>2. CASE ~(count >= entry.sign /\ Reserving)
    BY <1>1, <1>3, <2>2 DEF Untouched, Outcome, Ends
  <2> QED BY <2>1, <2>2
<1>7. faults' \in 0..MaxFaults /\ (faults' = 0 => faults = 0 /\ o.cost = 0)
  BY <1>1, <1>3, <1>6, ChargeFacts
<1>8. ASSUME faults' = 0 PROVE Calm /\ o.cost = 0 /\ count >= entry.sign /\ Reserving
  BY <1>2, <1>3, <1>4, <1>7, <1>8 DEF Calm, Asserting, Reserving
<1>9. CASE o.end = "true" /\ pc' = "rewrite" /\ UNCHANGED <<entry, todo, count>>
  <2>1. Safe'
    BY <1>1, <1>2, <1>3, <1>6, <1>7, <1>9 DEF Inv, Safe, TypeOK, Asserting, Whole
  <2>2. ASSUME faults' = 0 PROVE Calm'
    <3>1. ctr'.prim = Target /\ ctr'.bak = None /\ entry.high <= Target /\ Target # None
      BY <1>1, <1>3, <1>4, <1>5, <1>6, <1>8, <1>9, <2>2, Names DEF Reserving
    <3> QED
      BY <1>2, <1>3, <1>8, <1>9, <2>2, <3>1 DEF Calm, Asserting, Whole
  <2> QED BY <2>1, <2>2 DEF Inv
<1>10. CASE o.end = "false" /\ Finish
  BY <1>1, <1>2, <1>3, <1>6, <1>7, <1>8, <1>10, FinishPreserves DEF Running, TypeOK, Whole
<1>11. CASE o.end = "off" /\ PowerOff
  BY <1>1, <1>2, <1>3, <1>6, <1>7, <1>8, <1>11, PowerOffPreserves DEF TypeOK, Whole, Calm
<1> QED BY <1>1, <1>9, <1>10, <1>11

LEMMA ReserveRecordPreserves == ASSUME Inv, ReserveRecord PROVE Inv'
<1> DEFINE next == [count |-> Target, floor |-> TRUE]
<1>1. PICK o \in IF Reserving THEN WriteOutcome(rec, next) ELSE Outcome({rec}, {"true"}, 0) :
         /\ rec' = o.file
         /\ Charge(o.cost)
         /\ \/ o.end = "true" /\ pc' = "publish" /\ UNCHANGED <<entry, todo, count>>
            \/ o.end = "false" /\ Finish
            \/ o.end = "off" /\ PowerOff
  BY DEF ReserveRecord
<1>2. pc = "rewrite" /\ entry # NoEntry /\ UNCHANGED <<ctr, life, last, above>>
  BY DEF ReserveRecord, history, Inv, Safe, Asserting
<1>3. /\ TypeOK /\ Whole(ctr) # Torn /\ life # "deleted" /\ todo = {}
      /\ ctr \in FileOf(Count) /\ ctr.prim # Torn /\ rec \in FileOf(Record)
      /\ count \in Int /\ last \in Int /\ count \in Count
      /\ faults = 0 => Calm
  BY <1>2, Names DEF Inv, Safe, TypeOK
<1>4. entry.sign \in Count /\ entry.high \in Count /\ entry.sign \in Int /\ entry.high \in Int
  BY <1>2, <1>3, EntryFacts, Names
<1>5. /\ Target \in Count /\ Target \in Int
      /\ Reserving => Target = HighWater(count) /\ Target >= count
  BY <1>3, <1>4, Names, HighWaterFacts DEF Target
<1>6. next \in Record /\ next.count = Target /\ next # None /\ next # Torn
  <2>1. next \in Record /\ next.count = Target
    BY <1>5 DEF Record
  <2> QED BY <2>1, ContentAssumption
<1> HIDE DEF next
<1>7. /\ o.file \in FileOf(Record) /\ o.cost \in {0, 1} /\ o.end \in Ends
      /\ Reserving =>
           /\ Whole(o.file) \in {next, Whole(rec)}
           /\ o.end = "true" => o.file.prim = next
           /\ o.end = "true" /\ o.cost = 0 => o.file.bak = None
           /\ o.end = "false" => o.cost = 1
  <2>1. CASE Reserving
    BY <1>1, <1>3, <1>6, <2>1, Names, WriteFacts
  <2>2. CASE ~Reserving
    BY <1>1, <1>3, <2>2 DEF Outcome, Ends
  <2> QED BY <2>1, <2>2
<1>8. faults' \in 0..MaxFaults /\ (faults' = 0 => faults = 0 /\ o.cost = 0)
  BY <1>1, <1>3, <1>7, ChargeFacts
<1>9. ASSUME faults' = 0 PROVE Calm /\ o.cost = 0 /\ Reserving /\ Target > last /\ Target > entry.high
  BY <1>2, <1>3, <1>4, <1>5, <1>8, <1>9 DEF Calm, Asserting, Reserving
<1>10. CASE o.end = "true" /\ pc' = "publish" /\ UNCHANGED <<entry, todo, count>>
  <2>1. Safe'
    BY <1>1, <1>2, <1>3, <1>7, <1>8, <1>10 DEF Inv, Safe, TypeOK, Asserting, Whole
  <2>2. ASSUME faults' = 0 PROVE Calm'
    <3>1. rec'.prim = next /\ rec'.bak = None /\ next.count = HighWater(count)
      BY <1>1, <1>5, <1>6, <1>7, <1>9, <1>10, <2>2
    <3> QED
      BY <1>2, <1>3, <1>4, <1>5, <1>6, <1>9, <1>10, <2>2, <3>1 DEF Calm, Asserting, Whole
  <2> QED BY <2>1, <2>2 DEF Inv
<1>11. CASE o.end = "false" /\ Finish
  BY <1>1, <1>2, <1>3, <1>7, <1>8, <1>9, <1>11, FinishPreserves DEF Running, TypeOK, Whole
<1>12. CASE o.end = "off" /\ PowerOff
  <2>1. ASSUME faults' = 0
        PROVE /\ faults = 0
              /\ Whole(rec)' # Torn
              /\ Whole(rec)' # None => Whole(rec)'.count >= last
              /\ life' = "live" => Whole(rec)' # None
    BY <1>1, <1>2, <1>3, <1>5, <1>6, <1>7, <1>8, <1>9, <2>1 DEF Calm
  <2> QED
    BY <1>1, <1>2, <1>3, <1>7, <1>8, <1>12, <2>1, PowerOffPreserves DEF TypeOK, Whole
<1> QED BY <1>1, <1>10, <1>11, <1>12

LEMMA PublishPreserves == ASSUME Inv, Publish PROVE Inv'
<1>1. /\ pc = "publish" /\ pc' = "idle" /\ count' = 0 /\ UNCHANGED <<rec, ctr, todo, faults>>
      /\ entry # NoEntry /\ todo = {} /\ life # "deleted" /\ TypeOK
  BY DEF Publish, files, Inv, Safe, Asserting
<1>2. /\ entry.sign \in Count /\ entry.high \in Count /\ count \in Count
      /\ last \in Count /\ above \in 0..(MaxCount + 1)
      /\ entry.sign \in Int /\ entry.high \in Int /\ count \in Int /\ last \in Int /\ above \in Int
  BY <1>1, EntryFacts, Names DEF TypeOK
<1>3. Target \in Count /\ Target \in Int
  BY <1>2, HighWaterFacts, Names DEF Target
<1>4. CASE Target >= count /\ count >= entry.sign
  <2>1. /\ entry' = Entry(count, Target) /\ last' = count
        /\ above' = IF last + 1 > above THEN last + 1 ELSE above
        /\ life' = IF life = "none" THEN "live" ELSE life
    BY <1>4 DEF Publish
  <2>2. above' \in 0..(MaxCount + 1) /\ entry' # NoEntry
    BY <2>1, <1>2, <1>3, Names, CountAssumption DEF Count
  <2>3. Safe'
    BY <1>1, <1>2, <1>3, <2>1, <2>2, Names DEF Inv, Safe, TypeOK, Asserting, Whole
  <2>4. ASSUME faults' = 0 PROVE Calm'
    <3>1. /\ Calm /\ count > last /\ count > entry.high /\ rec.prim.count = HighWater(count)
          /\ rec.prim \in Record
      BY <1>1, <2>4 DEF Inv, Calm, Asserting
    <3>2. Target = HighWater(count) /\ Whole(rec) = rec.prim
      BY <3>1, Names DEF Target, Reserving, Whole
    <3>3. above' <= count /\ entry'.sign = count /\ entry'.high = Target
      BY <1>2, <2>1, <3>1 DEF Calm, Entry
    <3> QED
      BY <1>1, <1>2, <1>3, <1>4, <2>1, <2>4, <3>1, <3>2, <3>3, Names DEF Calm, Asserting, Whole
  <2> QED BY <2>3, <2>4 DEF Inv
<1>5. CASE ~(Target >= count /\ count >= entry.sign)
  <2>1. UNCHANGED <<entry, life, last, above>>
    BY <1>5 DEF Publish, history
  <2>2. Safe'
    BY <1>1, <2>1, Names DEF Inv, Safe, TypeOK, Asserting, Whole
  <2>3. faults' = 0 => Calm'
    BY <1>1, <2>1 DEF Inv, Calm, Asserting, Whole
  <2> QED BY <2>2, <2>3 DEF Inv
<1> QED BY <1>4, <1>5

LEMMA DeletePreserves == ASSUME Inv, Delete PROVE Inv'
<1>1. PICK o \in RemoveOutcome(rec) :
        \E c \in IF o.end = "true" THEN RemoveOutcome(ctr) ELSE Untouched(o.end, 0) :
           /\ rec' = o.file
           /\ ctr' = c.file
           /\ Charge(o.cost + c.cost)
           /\ \/ /\ c.end = "true"
                 /\ pc' = "idle"
                 /\ entry' = NoEntry
                 /\ life' = "deleted"
                 /\ UNCHANGED <<todo, count>>
              \/ c.end = "false" /\ Finish /\ life' = "leaving"
              \/ c.end = "off" /\ PowerOff /\ life' = "leaving"
  BY DEF Delete
<1>2. PICK c \in IF o.end = "true" THEN RemoveOutcome(ctr) ELSE Untouched(o.end, 0) :
           /\ rec' = o.file
           /\ ctr' = c.file
           /\ Charge(o.cost + c.cost)
           /\ \/ /\ c.end = "true"
                 /\ pc' = "idle"
                 /\ entry' = NoEntry
                 /\ life' = "deleted"
                 /\ UNCHANGED <<todo, count>>
              \/ c.end = "false" /\ Finish /\ life' = "leaving"
              \/ c.end = "off" /\ PowerOff /\ life' = "leaving"
  BY <1>1
<1>3. /\ pc = "idle" /\ entry # NoEntry /\ UNCHANGED <<last, above>>
      /\ TypeOK /\ Whole(ctr) # Torn /\ life # "deleted" /\ todo = {}
      /\ ctr \in FileOf(Count) /\ ctr.prim # Torn /\ rec \in FileOf(Record)
      /\ faults = 0 => Calm
  BY DEF Delete, Inv, Safe, TypeOK
<1>4. /\ rec' \in FileOf(Record) /\ o.cost \in {0, 1} /\ o.end \in Ends
      /\ o.end = "true" => rec' = Empty
      /\ Whole(rec') \in {None, Whole(rec)}
      /\ o.end = "false" => o.cost = 1
  BY <1>2, <1>3, Names, RemoveFacts
<1>5. /\ ctr' \in FileOf(Count) /\ c.cost \in {0, 1} /\ c.end \in Ends
      /\ Whole(ctr') # Torn /\ ctr'.prim # Torn
      /\ c.end = "true" => o.end = "true" /\ ctr' = Empty
      /\ c.end = "false" => c.cost = 1 \/ o.cost = 1
  <2>1. CASE o.end = "true"
    <3>1. /\ c.file \in FileOf(Count) /\ c.cost \in {0, 1} /\ c.end \in Ends
          /\ c.end = "true" => c.file = Empty
          /\ c.end = "false" => c.cost = 1
          /\ Whole(c.file) \in {None, Whole(ctr)}
      BY <1>2, <1>3, <2>1, Names, RemoveFacts
    <3> QED BY <1>2, <1>3, <2>1, <3>1, Names DEF Whole
  <2>2. CASE o.end # "true"
    BY <1>2, <1>3, <1>4, <2>2 DEF Untouched, Outcome, Ends
  <2> QED BY <2>1, <2>2
<1>6. /\ faults' \in 0..MaxFaults
      /\ faults' = 0 => faults = 0 /\ o.cost = 0 /\ c.cost = 0
  BY <1>2, <1>3, <1>4, <1>5, ChargeFacts
<1>7. CASE /\ c.end = "true" /\ pc' = "idle" /\ entry' = NoEntry /\ life' = "deleted"
           /\ UNCHANGED <<todo, count>>
  <2>1. Safe'
    BY <1>3, <1>4, <1>5, <1>6, <1>7 DEF Inv, Safe, TypeOK, Asserting
  <2>2. ASSUME faults' = 0 PROVE Calm'
    BY <1>3, <1>4, <1>5, <1>6, <1>7, <2>2, Names DEF Calm, Asserting, Whole, Empty, File
  <2> QED BY <2>1, <2>2 DEF Inv
<1>8. CASE c.end = "false" /\ Finish /\ life' = "leaving"
  BY <1>3, <1>4, <1>5, <1>6, <1>8, FinishPreserves DEF Running
<1>9. CASE c.end = "off" /\ PowerOff /\ life' = "leaving"
  BY <1>3, <1>4, <1>5, <1>6, <1>9, Names, PowerOffPreserves DEF Calm, Whole
<1> QED BY <1>2, <1>7, <1>8, <1>9

-----------------------------------------------------------------------------
(* Start-up.                                                               *)

LEMMA BootPreserves == ASSUME Inv, Boot PROVE Inv'
<1>1. Safe'
  BY DEF Inv, Safe, Boot, TypeOK, files, history, Asserting, Whole
<1>2. faults' = 0 => Calm'
  BY DEF Inv, Safe, Calm, Boot, files, history, Asserting, Whole
<1> QED BY <1>1, <1>2 DEF Inv

\* A visit that goes on, or gives up after a failure, leaves the index alone.
LEMMA VisitedPreserves ==
    ASSUME Inv, pc = "recover", NEW f \in {"rec", "ctr"}, NEW end \in Ends, Visited(f, end),
           rec' \in FileOf(Record), ctr' \in FileOf(Count), ctr'.prim # Torn,
           Whole(ctr)' # Torn, faults' \in 0..MaxFaults, UNCHANGED <<life, last, above>>,
           life = "deleted" => rec' = Empty,
           faults' = 0 => /\ faults = 0
                          /\ end # "false"
                          /\ Whole(rec)' = Whole(rec)
                          /\ rec.bak = None => rec'.bak = None
                          /\ ctr.bak = None => ctr'.bak = None
                          /\ end = "true" /\ f = "rec" => rec'.bak = None
                          /\ end = "true" /\ f = "ctr" => ctr'.bak = None
    PROVE  Inv'
<1>1. CASE end = "off"
  <2>1. PowerOff
    BY <1>1 DEF Visited
  <2> QED
    BY <2>1, PowerOffPreserves DEF Inv, Safe, TypeOK, Calm
<1>2. CASE end # "off"
  <2>0. todo \subseteq {"rec", "ctr"}
    BY DEF Inv, Safe, TypeOK
  <2>1. UNCHANGED <<pc, entry, count>> /\ todo' \subseteq {"rec", "ctr"}
    <3>1. CASE todo' = todo \ {f} /\ UNCHANGED <<pc, entry, count>>
      BY <2>0, <3>1, Zenon
    <3>2. CASE todo' = {} /\ UNCHANGED <<pc, entry, count>>
      BY <3>2, Zenon
    <3> QED BY <1>2, <3>1, <3>2, Zenon DEF Visited
  <2>2. Safe'
    BY <2>1 DEF Inv, Safe, TypeOK, Asserting
  <2>3. ASSUME faults' = 0 PROVE Calm'
    <3>1. todo' = todo \ {f} /\ end = "true"
      BY <1>2, <2>3 DEF Visited, Ends
    <3> QED
      BY <2>1, <2>3, <3>1 DEF Inv, Safe, Calm, Asserting
  <2> QED BY <2>2, <2>3 DEF Inv
<1> QED BY <1>1, <1>2

LEMMA RecoverCounterPreserves == ASSUME Inv, RecoverCounter PROVE Inv'
<1>1. PICK o \in RecoverOutcome(ctr) :
         ctr' = o.file /\ Charge(o.cost) /\ Visited("ctr", o.end)
  BY DEF RecoverCounter
<1>2. /\ pc = "recover" /\ UNCHANGED <<rec, life, last, above>>
      /\ TypeOK /\ Whole(ctr) # Torn /\ ctr \in FileOf(Count) /\ rec \in FileOf(Record)
      /\ life = "deleted" => rec = Empty
  BY DEF RecoverCounter, history, Inv, Safe, TypeOK
<1>3. /\ ctr' \in FileOf(Count) /\ o.cost \in {0, 1} /\ o.end \in Ends
      /\ Whole(ctr') = Whole(ctr)
      /\ o.end = "true" /\ o.cost = 0 => ctr'.bak = None
      /\ o.end = "false" => o.cost = 1
  BY <1>1, <1>2, Names, RecoverFacts
<1>4. faults' \in 0..MaxFaults /\ (faults' = 0 => faults = 0 /\ o.cost = 0)
  BY <1>1, <1>2, <1>3, ChargeFacts
<1>5. ctr'.prim # Torn /\ (ctr.bak = None => ctr'.bak = None)
  BY <1>1, <1>2, <1>3, Names DEF RecoverOutcome, Outcome, File, Whole, FileOf, TypeOK
<1> QED
  BY <1>1, <1>2, <1>3, <1>4, <1>5, VisitedPreserves DEF Whole

\* What zf_store_recovery_recover_record_backup leaves of a record file.
LEMMA KeepFacts ==
    ASSUME rec \in FileOf(Record), rec.prim # None, NEW o \in KeepPrimary
    PROVE  /\ o.file \in FileOf(Record) /\ o.cost \in {0, 1} /\ o.end \in Ends
           /\ Whole(o.file) = Whole(rec)
           /\ rec.bak = None => o.file.bak = None
           /\ o.end = "true" => o.file.bak = None
           /\ o.end = "false" => o.cost = 1
BY DEF KeepPrimary, Outcome, File, Whole, FileOf, Ends

LEMMA RestoreFacts ==
    ASSUME rec \in FileOf(Record), NEW o \in RestoreBackup
    PROVE  /\ o.file \in FileOf(Record) /\ o.cost \in {0, 1} /\ o.end \in Ends
           /\ rec.prim = None => Whole(o.file) = Whole(rec)
           /\ rec.bak = None => o.file.bak = None
           /\ o.end = "true" => o.file.bak = None
           /\ o.end = "false" => o.cost = 1
<1>1. CASE o \in Outcome({File(rec.bak, None)}, {"true", "off"}, 0)
  BY <1>1 DEF Outcome, File, Whole, FileOf, Ends
<1>2. CASE o \in Outcome({rec, File(None, rec.bak)}, {"false"}, 1)
  BY <1>2 DEF Outcome, File, Whole, FileOf, Ends
<1>3. CASE o \in Outcome({rec, File(None, rec.bak)}, {"off"}, 0)
  BY <1>3 DEF Outcome, File, Whole, FileOf, Ends
<1> QED BY <1>1, <1>2, <1>3 DEF RestoreBackup

LEMMA RecoverRecordPreserves == ASSUME Inv, RecoverRecord PROVE Inv'
<1>1. PICK l \in Load :
         /\ ctr' = l.ctr
         /\ \/ /\ l.end = "off"
               /\ PowerOff
               /\ Charge(l.cost)
               /\ UNCHANGED rec
            \/ /\ l.end # "off"
               /\ \E o \in IF l.end = "true" THEN KeepPrimary ELSE RestoreBackup :
                    rec' = o.file /\ Charge(l.cost + o.cost) /\ Visited("rec", o.end)
  BY DEF RecoverRecord
<1>2. /\ pc = "recover" /\ rec.bak # None /\ UNCHANGED <<life, last, above>>
      /\ TypeOK /\ Whole(ctr) # Torn /\ rec \in FileOf(Record) /\ life # "deleted"
      /\ life \in {"none", "live", "leaving", "deleted"}
      /\ faults = 0 => Calm
  BY DEF RecoverRecord, history, Inv, Safe, TypeOK, Empty, File
<1>3. /\ l.ctr \in FileOf(Count) /\ l.ctr.prim # Torn /\ Whole(l.ctr) # Torn
      /\ l.cost \in {0, 1}
      /\ l.end \in Ends
      /\ l.end = "true" => rec.prim \in Record
      /\ l.end = "true" /\ l.cost = 0 => (ctr.bak = None => l.ctr.bak = None)
      /\ l.end = "false" /\ rec.prim \in Record => l.cost = 1
      /\ l.end = "false" /\ rec.prim \notin Record => l.ctr = ctr
  BY <1>2, LoadFacts
<1>4. CASE l.end = "off" /\ PowerOff /\ Charge(l.cost) /\ UNCHANGED rec
  <2>1. faults' \in 0..MaxFaults /\ (faults' = 0 => faults = 0)
    BY <1>2, <1>3, <1>4, ChargeFacts
  <2> QED
    BY <1>1, <1>2, <1>3, <1>4, <2>1, PowerOffPreserves DEF Whole, Calm
<1>5. CASE l.end # "off"
  <2>1. PICK o \in IF l.end = "true" THEN KeepPrimary ELSE RestoreBackup :
            rec' = o.file /\ Charge(l.cost + o.cost) /\ Visited("rec", o.end)
    BY <1>1, <1>5
  <2>2. /\ rec' \in FileOf(Record) /\ o.cost \in {0, 1} /\ o.end \in Ends
        /\ l.end = "true" \/ rec.prim = None => Whole(rec') = Whole(rec)
        /\ rec.bak = None => rec'.bak = None
        /\ o.end = "true" => rec'.bak = None
        /\ o.end = "false" => o.cost = 1
    <3>1. CASE l.end = "true"
      BY <1>2, <1>3, <2>1, <3>1, Names, KeepFacts
    <3>2. CASE l.end # "true"
      BY <1>2, <2>1, <3>2, RestoreFacts
    <3> QED BY <3>1, <3>2
  <2>3. /\ faults' \in 0..MaxFaults
        /\ faults' = 0 => faults = 0 /\ l.cost = 0 /\ o.cost = 0
    BY <1>2, <1>3, <2>1, <2>2, ChargeFacts
  <2>4. ASSUME faults' = 0, l.end # "true" PROVE rec.prim = None
    <3>1. rec.prim \notin Record /\ Calm
      BY <1>2, <1>3, <1>5, <2>3, <2>4 DEF Ends
    <3> QED
      BY <1>2, <3>1 DEF Calm, Whole, FileOf
  <2>5. ASSUME faults' = 0
        PROVE  /\ faults = 0
               /\ o.end # "false"
               /\ Whole(rec)' = Whole(rec)
               /\ ctr.bak = None => ctr'.bak = None
    BY <1>1, <1>3, <1>5, <2>2, <2>3, <2>4, <2>5 DEF Ends, Whole
  <2> QED
    BY <1>1, <1>2, <1>3, <2>1, <2>2, <2>3, <2>5, VisitedPreserves DEF Whole
<1> QED BY <1>1, <1>4, <1>5

LEMMA SkipBackupsPreserves == ASSUME Inv, SkipBackups PROVE Inv'
<1>1. /\ pc = "recover" /\ todo' = {} /\ UNCHANGED <<rec, ctr, entry, pc, count, life, last, above>>
      /\ TypeOK
  BY DEF SkipBackups, files, history, Inv, Safe
<1>2. CASE Charge(1)
  <2>1. faults' \in 0..MaxFaults /\ faults' # 0
    BY <1>1, <1>2, ChargeFacts
  <2> QED
    BY <1>1, <2>1 DEF Inv, Safe, TypeOK, Asserting, Whole
<1>3. CASE /\ "rec" \in todo => rec.bak = None
           /\ "ctr" \in todo => ctr.bak = None
           /\ UNCHANGED faults
  <2>1. Safe'
    BY <1>1, <1>3 DEF Inv, Safe, TypeOK, Asserting, Whole
  <2>2. faults' = 0 => Calm'
    BY <1>1, <1>3 DEF Inv, Calm, Asserting, Whole
  <2> QED BY <2>1, <2>2 DEF Inv
<1> QED BY <1>2, <1>3 DEF SkipBackups

LEMMA IndexPreserves == ASSUME Inv, Index PROVE Inv'
<1>1. PICK l \in Load :
         /\ ctr' = l.ctr
         /\ Charge(l.cost)
         /\ \/ /\ l.end = "true"
               /\ entry' = Entry(l.count, l.count)
               /\ pc' = "idle"
               /\ UNCHANGED <<todo, count>>
            \/ l.end = "false" /\ Finish
            \/ l.end = "off" /\ PowerOff
  BY DEF Index
<1>2. /\ pc = "recover" /\ todo = {} /\ UNCHANGED <<rec, life, last, above>>
      /\ TypeOK /\ Whole(ctr) # Torn /\ rec \in FileOf(Record) /\ entry = NoEntry
      /\ life \in {"none", "live", "leaving", "deleted"}
      /\ life = "deleted" => rec = Empty
      /\ faults = 0 => Calm
  BY DEF Index, history, Inv, Safe, TypeOK
<1>3. /\ l.ctr \in FileOf(Count) /\ l.ctr.prim # Torn /\ Whole(l.ctr) # Torn
      /\ l.cost \in {0, 1}
      /\ l.end \in Ends
      /\ l.end = "true" => rec.prim \in Record /\ l.count \in Count
      /\ l.end = "true" /\ l.cost = 0 =>
           /\ ctr.bak = None => l.ctr.bak = None
           /\ l.count = rec.prim.count \/ (l.ctr.prim # None /\ l.count <= l.ctr.prim)
      /\ l.end = "false" /\ rec.prim \in Record => l.cost = 1
      /\ l.end = "false" /\ rec.prim \notin Record => l.ctr = ctr
  BY <1>2, LoadFacts
<1>4. faults' \in 0..MaxFaults /\ (faults' = 0 => faults = 0 /\ l.cost = 0)
  BY <1>1, <1>2, <1>3, ChargeFacts
<1>5. CASE /\ l.end = "true" /\ entry' = Entry(l.count, l.count) /\ pc' = "idle"
           /\ UNCHANGED <<todo, count>>
  <2>1. life # "deleted"
    BY <1>2, <1>3, <1>5, Names DEF Empty, File
  <2>2. Safe'
    BY <1>1, <1>2, <1>3, <1>4, <1>5, <2>1, Names DEF Inv, Safe, TypeOK, Asserting, Whole
  <2>3. ASSUME faults' = 0 PROVE Calm'
    <3>1. Calm /\ l.cost = 0 /\ entry'.sign = l.count /\ entry'.high = l.count
      BY <1>2, <1>4, <1>5, <2>3 DEF Entry
    <3>2. l.count \in Int /\ rec.prim.count \in Int
      BY <1>3, <1>5, Names DEF Record
    <3> QED
      BY <1>1, <1>2, <1>3, <1>5, <2>3, <3>1, <3>2 DEF Calm, Asserting, Whole
  <2> QED BY <2>2, <2>3 DEF Inv
<1>6. CASE l.end = "false" /\ Finish
  <2>0. UNCHANGED <<entry, todo>> /\ pc' = "idle" /\ count' = 0 /\ 0 \in Count
    BY <1>6, Names DEF Finish
  <2>1. Safe'
    BY <1>1, <1>2, <1>3, <1>4, <2>0 DEF Inv, Safe, TypeOK, Asserting, Whole
  <2>2. ASSUME faults' = 0 PROVE Calm'
    <3>1. Calm /\ l.ctr = ctr
      BY <1>2, <1>3, <1>4, <1>6, <2>2
    <3> QED
      BY <1>1, <1>2, <1>6, <2>2, <3>1 DEF Calm, Finish, Asserting, Whole
  <2> QED BY <2>1, <2>2 DEF Inv
<1>7. CASE l.end = "off" /\ PowerOff
  BY <1>1, <1>2, <1>3, <1>4, <1>7, PowerOffPreserves DEF Whole, Calm
<1> QED BY <1>1, <1>5, <1>6, <1>7

LEMMA CrashPreserves == ASSUME Inv, Crash PROVE Inv'
BY PowerOffPreserves DEF Crash, Inv, Safe, Calm, TypeOK, files, history, Whole

-----------------------------------------------------------------------------
(* The theorems.                                                           *)

LEMMA InitInv == Init => Inv
<1> SUFFICES ASSUME Init PROVE Inv
  OBVIOUS
<1> DEFINE legacy == [count |-> LegacyCount, floor |-> FALSE]
<1>1. legacy \in Record /\ legacy.count = LegacyCount
  BY CountAssumption DEF Record
<1>2. legacy # None /\ legacy # Torn
  BY <1>1, ContentAssumption
<1> HIDE DEF legacy
<1>3. \/ rec = Empty /\ ctr = Empty /\ life = "none" /\ last = 0
      \/ /\ rec = File(legacy, None)
         /\ ctr \in {Empty, File(0, None)}
         /\ life = "live"
         /\ last = LegacyCount
  BY DEF Init, legacy
<1>4. TypeOK
  <2>1. rec \in FileOf(Record) /\ ctr \in FileOf(Count) /\ ctr.prim # Torn
    BY <1>1, <1>3, Names DEF FileOf, File, Empty
  <2>2. last \in Count /\ above \in 0..(MaxCount + 1) /\ faults \in 0..MaxFaults
    BY <1>3, CountAssumption DEF Init, Count
  <2> QED
    BY <1>3, <2>1, <2>2, Names DEF Init, TypeOK
<1>5. Safe
  BY <1>3, <1>4, Names DEF Init, Safe, Whole, File, Empty, Asserting
<1>6. Calm
  <2>1. LegacyCount \in Int /\ LegacyCount >= 0
    BY CountAssumption DEF Count
  <2> QED
    BY <1>1, <1>2, <1>3, <2>1, Names DEF Init, Calm, Whole, File, Empty, Asserting
<1> QED BY <1>5, <1>6 DEF Inv

LEMMA NextInv == Inv /\ [Next]_vars => Inv'
<1> SUFFICES ASSUME Inv, [Next]_vars PROVE Inv'
  OBVIOUS
<1>1. CASE Next
  BY <1>1, CreatePreserves, AddedPreserves, WithdrawPreserves, PreparePreserves, CancelPreserves,
     ReserveCounterPreserves, ReserveRecordPreserves, PublishPreserves, DeletePreserves,
     BootPreserves, RecoverRecordPreserves, RecoverCounterPreserves, SkipBackupsPreserves,
     IndexPreserves, CrashPreserves DEF Next
<1>2. CASE UNCHANGED vars
  <2>1. Safe'
    BY <1>2 DEF vars, Inv, Safe, TypeOK, Whole, Asserting
  <2>2. faults' = 0 => Calm'
    BY <1>2 DEF vars, Inv, Calm, Whole, Asserting
  <2> QED BY <2>1, <2>2 DEF Inv
<1> QED BY <1>1, <1>2

\* Safe and Calm hold in every reachable state: what the credential store
\* keeps in its files and in its index, through every loss of power.
THEOREM Invariance == Spec => []Inv
BY InitInv, NextInv, PTL DEF Spec

\* Every variable keeps its type; in particular no reservation of
\* zf_counter_reserved_high_water leaves the 32 bits of a count.
THEOREM TypeCorrectness == Spec => []TypeOK
<1>1. Inv => TypeOK
  BY DEF Inv, Safe
<1> QED BY <1>1, Invariance, PTL

\* Until a storage call fails, a live credential can be found again in its
\* files with the last count it told, wherever a loss of power interrupts a
\* reservation, a deletion or a recovery.
THEOREM Survival == Spec => []CredentialSurvives
<1>1. Inv => CredentialSurvives
  <2> SUFFICES ASSUME Inv, life = "live", faults = 0
               PROVE  /\ Sound(rec, Record)
                      /\ Whole(rec).count >= last
    BY DEF CredentialSurvives
  <2>1. rec \in FileOf(Record) /\ Whole(rec) # None /\ Whole(rec) # Torn
    BY DEF Inv, Safe, TypeOK, Calm
  <2> QED
    BY <2>1 DEF Inv, Calm, Sound, Whole, FileOf
<1> QED BY <1>1, Invariance, PTL

\* Whatever fails, a credential whose deletion was reported to succeed is
\* never indexed again.
THEOREM NoResurrection == Spec => []DeletedStaysDeleted
<1>1. Inv => DeletedStaysDeleted
  BY DEF Inv, Safe, DeletedStaysDeleted
<1> QED BY <1>1, Invariance, PTL

\* Until a storage call fails, no assertion prepared from the files is turned
\* down by the index.
THEOREM NoLockout == Spec => []NeverLockedOut
<1>1. Inv => NeverLockedOut
  <2> SUFFICES ASSUME Inv, faults = 0, pc \in Asserting PROVE count > entry.sign
    BY DEF NeverLockedOut, Asserting
  <2>1. entry # NoEntry /\ TypeOK /\ Calm
    BY DEF Inv, Safe
  <2>2. entry.sign \in Int /\ entry.high \in Int /\ count \in Int
    BY <2>1, EntryFacts, Names DEF TypeOK
  <2> QED BY <2>1, <2>2 DEF Calm
<1> QED BY <1>1, Invariance, PTL

-----------------------------------------------------------------------------
(* Counts grow also when storage calls fail.  Held says what the files of  *)
(* the credential still cover after n failures, Ready what the running     *)
(* operation relies on.                                                    *)

\* A count is never just above another one, unless no count is left.
Apart(y, x) == y <= x \/ y >= x + 2 \/ y = MaxCount

\* The record file r and the counter file c: a reservation leaves room for
\* the count that it is made for, and a backup is older than its record.
Spaced(r, c) ==
    /\ r.prim \in Record /\ Whole(c) \in Count => Apart(Whole(c), r.prim.count)
    /\ r.bak \in Record /\ Whole(c) \in Count => Apart(Whole(c), r.bak.count)
    /\ r.prim \in Record /\ r.bak \in Record =>
          r.bak.count <= r.prim.count /\ Apart(r.prim.count, r.bak.count)

\* What recovery makes of the record file if nothing fails.
Found(r) == IF r.prim \in Record THEN r.prim ELSE r.bak

\* Before the first failure the record and its backup cover the count t.
BothCover(r, t) == /\ r.prim \in Record => r.prim.count >= t
                   /\ r.bak \in Record => r.bak.count >= t

\* After one the record does; if its backup does not, the counter file is
\* not behind the record.
RecordCovers(r, c, t) ==
    /\ Found(r) \in Record => Found(r).count >= t
    /\ r.prim \in Record /\ r.bak \in Record /\ r.bak.count < t =>
          r.prim.floor /\ Whole(c) \in Count /\ Whole(c) >= r.prim.count

\* After two, one of the two files does, and recovering the record does not
\* write over a counter file that has to be recovered.
OneCovers(r, c, t) ==
    Found(r) \in Record =>
        \/ Found(r).count >= t
        \/ /\ Whole(c) \in Count /\ Whole(c) >= t
           /\ c.prim = None /\ r.prim \in Record /\ ~r.prim.floor => r.bak = None

Held(r, c, n, t) == /\ Spaced(r, c)
                    /\ n = 0 => BothCover(r, t)
                    /\ n <= 1 => RecordCovers(r, c, t)
                    /\ n <= 2 => OneCovers(r, c, t)

\* The record, or the counter file as it is, covers t.
Loads(x, c, t) == x \in Record => x.count >= t \/ (c.prim \in Count /\ c.prim >= t)

\* A crash while the counter file is written leaves it to be recovered.
Sheltered(r, t) == r.prim \in Record => r.prim.count >= t \/ r.prim.floor \/ r.bak = None

-----------------------------------------------------------------------------
(* What the file operations make of Held.                                  *)

\* What is known of the contents of the two files.
LEMMA Contents ==
    ASSUME NEW r \in FileOf(Record), NEW c \in FileOf(Count), c.prim # Torn, Whole(c) # Torn
    PROVE  /\ r.prim \in Record \cup {None, Torn} /\ r.bak \in Record \cup {None, Torn}
           /\ r.prim \in Record => r.prim.count \in Count /\ r.prim.count \in Int
           /\ r.bak \in Record => r.bak.count \in Count /\ r.bak.count \in Int
           /\ c.prim \in Count \cup {None} /\ (c.prim \in Count => c.prim \in Int)
           /\ Whole(c) \in Count \cup {None} /\ (Whole(c) \in Count => Whole(c) \in Int)
           /\ Whole(c) = (IF c.prim # None THEN c.prim ELSE c.bak)
           /\ None # Torn /\ None \notin Record /\ Torn \notin Record
           /\ None \notin Count /\ Torn \notin Count
BY Names DEF FileOf, Record, Whole

\* A new reservation is apart from every count below the one it is made for.
LEMMA ReservesApart ==
    ASSUME NEW k \in Count, NEW x \in Count, k > x
    PROVE  /\ HighWater(k) \in Count /\ HighWater(k) >= k /\ HighWater(k) \in Int
           /\ Apart(HighWater(k), x)
BY CountAssumption DEF HighWater, Count, Apart

\* Failures take away from what has to hold.
LEMMA HeldLonger ==
    ASSUME NEW r, NEW c, NEW n \in Nat, NEW m \in Nat, n <= m, NEW t, Held(r, c, n, t)
    PROVE  Held(r, c, m, t)
<1>1. (m = 0 => n = 0) /\ (m <= 1 => n <= 1) /\ (m <= 2 => n <= 2)
  OBVIOUS
<1> QED BY <1>1 DEF Held

\* What a write leaves, as contents of the two files.
LEMMA WriteCases ==
    ASSUME NEW f, NEW v, NEW o \in WriteOutcome(f, v)
    PROVE  /\ \/ o.file.prim = v /\ o.file.bak \in {None, Whole(f)}
              \/ o.file.prim = None /\ o.file.bak = Whole(f)
              \/ /\ o.file.prim = Whole(f)
                 /\ o.file.bak \in {None, Torn, Whole(f), f.bak}
                 /\ Whole(f) = None => o.file.bak = None
           /\ o.end = "true" => o.file.prim = v
           /\ o.end = "true" /\ o.cost = 0 => o.file.bak = None
           /\ o.end = "false" => /\ o.file.prim = Whole(f) \/ o.file.prim = None
                                 /\ o.cost = 1
           /\ o.cost \in {0, 1} /\ o.end \in Ends
BY DEF WriteOutcome, Outcome, Written, NotWritten, File, Ends

\* Writing a reservation to the counter file.
LEMMA CounterWriteHeld ==
    ASSUME NEW r \in FileOf(Record), NEW c \in FileOf(Count), c.prim # Torn, Whole(c) # Torn,
           NEW n \in Nat, NEW t \in Count, NEW k \in Count,
           Held(r, c, n, t), r.prim \in Record, k > r.prim.count,
           n <= 2 => k > t /\ Loads(r.prim, c, t) /\ Sheltered(r, t),
           NEW o \in WriteOutcome(c, HighWater(k))
    PROVE  Held(r, o.file, n, t)
<1> DEFINE v == HighWater(k)
<1>1. v \in Count /\ v >= k /\ v \in Int /\ Apart(v, r.prim.count) /\ k \in Int /\ t \in Int
  BY Contents, ReservesApart, Names
<1>2. r.bak \in Record => Apart(v, r.bak.count) /\ v > r.bak.count
  <2> SUFFICES ASSUME r.bak \in Record PROVE Apart(v, r.bak.count) /\ v > r.bak.count
    OBVIOUS
  <2>1. r.bak.count \in Count /\ r.bak.count \in Int /\ r.prim.count \in Int
    BY Contents
  <2>2. k > r.bak.count
    BY <2>1, <1>1 DEF Held, Spaced
  <2> QED BY <1>1, <2>1, <2>2, ReservesApart
<1>3. /\ Whole(o.file) \in {v, Whole(c)}
      /\ o.file.prim # None => Whole(o.file) = o.file.prim
  <2>1. v # None
    BY <1>1, Names
  <2> QED BY <2>1, WriteFacts, Contents, <1>1, Names DEF Whole
<1> HIDE DEF v
<1>4. Spaced(r, o.file)
  BY <1>1, <1>2, <1>3 DEF Held, Spaced
<1>5. n <= 1 => RecordCovers(r, o.file, t)
  BY <1>1, <1>3, Contents DEF Held, RecordCovers
<1>6. n <= 2 => OneCovers(r, o.file, t)
  <2> SUFFICES ASSUME n <= 2, ~(r.prim.count >= t) PROVE OneCovers(r, o.file, t)
    BY DEF OneCovers, Found
  <2>1. Whole(c) \in Count /\ Whole(c) >= t /\ (r.prim.floor \/ r.bak = None)
    BY Contents DEF Loads, Sheltered
  <2> QED BY <1>1, <1>3, <2>1 DEF OneCovers
<1> QED BY <1>4, <1>5, <1>6 DEF Held

\* Writing a reservation to the record, behind the counter file.
LEMMA RecordWriteHeld ==
    ASSUME NEW r \in FileOf(Record), NEW c \in FileOf(Count), c.prim # Torn, Whole(c) # Torn,
           NEW n \in Nat, NEW t \in Count, NEW k \in Count,
           Held(r, c, n, t), r.prim \in Record, k > r.prim.count, n <= 2 => k > t,
           c.prim = HighWater(k), NEW v \in Record, v.count = HighWater(k), v.floor,
           NEW o \in WriteOutcome(r, v)
    PROVE  Held(o.file, c, n, t)
<1>1. /\ v.count \in Count /\ v.count >= k /\ v.count \in Int /\ Apart(v.count, r.prim.count)
      /\ k \in Int /\ t \in Int /\ r.prim.count \in Int /\ Whole(c) = v.count /\ Whole(r) = r.prim
      /\ Apart(v.count, v.count) /\ Apart(r.prim.count, r.prim.count) /\ c.prim # None
  BY Contents, ReservesApart, Names DEF Whole, Apart
<1>2. \/ o.file.prim = v /\ o.file.bak \in {None, r.prim}
      \/ o.file.prim = None /\ o.file.bak = r.prim
      \/ o.file.prim = r.prim /\ o.file.bak \in {None, Torn, r.prim, r.bak}
  BY <1>1, WriteCases
<1>3. None # Torn /\ None \notin Record /\ Torn \notin Record /\ r.bak \in Record \cup {None, Torn}
  BY Contents
<1>4. CASE o.file.prim = v /\ o.file.bak \in {None, r.prim}
  BY <1>1, <1>3, <1>4 DEF Held, Spaced, BothCover, RecordCovers, OneCovers, Found
<1>5. CASE o.file.prim = None /\ o.file.bak = r.prim
  BY <1>1, <1>3, <1>5 DEF Held, Spaced, BothCover, RecordCovers, OneCovers, Found
<1>6. CASE o.file.prim = r.prim /\ o.file.bak \in {None, Torn, r.prim, r.bak}
  BY <1>1, <1>3, <1>6 DEF Held, Spaced, BothCover, RecordCovers, OneCovers, Found
<1> QED BY <1>2, <1>4, <1>5, <1>6

\* A record file without its backup, and one that is gone.
LEMMA LessHeld ==
    ASSUME NEW r \in FileOf(Record), NEW c, NEW n \in Nat, NEW t, Held(r, c, n, t)
    PROVE  /\ Held(File(r.prim, None), c, n, t)
           /\ \A b : Held(Empty, b, n, t)
<1>1. Held(File(r.prim, None), c, n, t)
  BY Names DEF Held, Spaced, BothCover, RecordCovers, OneCovers, Found, File
<1>2. \A b : Held(Empty, b, n, t)
  BY Names DEF Held, Spaced, BothCover, RecordCovers, OneCovers, Found, File, Empty
<1> QED BY <1>1, <1>2

\* Removing the record.
LEMMA RemoveHeld ==
    ASSUME NEW r \in FileOf(Record), NEW c, NEW n \in Nat, NEW t, Held(r, c, n, t),
           NEW o \in RemoveOutcome(r)
    PROVE  Held(o.file, c, n, t)
<1>1. o.file \in {Empty, r, File(r.prim, None)}
  BY DEF RemoveOutcome, Outcome
<1> QED BY <1>1, LessHeld

\* Recovering the counter file.
LEMMA RecoverHeld ==
    ASSUME NEW r, NEW c \in FileOf(Count), c.prim # Torn, Whole(c) # Torn,
           NEW n, NEW t, Held(r, c, n, t), NEW o \in RecoverOutcome(c)
    PROVE  Held(r, o.file, n, t)
<1>1. o.file \in {c, File(Whole(c), None)} /\ Whole(o.file) = Whole(c)
  BY Names, RecoverFacts DEF RecoverOutcome, Outcome
<1>2. CASE o.file = c
  BY <1>2
<1>3. CASE o.file.prim = Whole(c)
  BY <1>1, <1>3, Names DEF Held, Spaced, RecordCovers, OneCovers
<1> QED BY <1>1, <1>2, <1>3 DEF File

\* Start-up restores the backup of a record that does not load, or that
\* failed to.
LEMMA RestoreHeld ==
    ASSUME NEW r \in FileOf(Record), NEW c \in FileOf(Count), c.prim # Torn, Whole(c) # Torn,
           NEW n \in Nat, NEW m \in Nat, n <= m, r.prim \in Record => n < m,
           NEW t \in Count, Held(r, c, n, t)
    PROVE  Held(File(r.bak, None), c, m, t) /\ Held(File(None, r.bak), c, m, t)
<1>1. /\ (m = 0 => n = 0 /\ r.prim \notin Record)
      /\ (m <= 1 => n <= 1 /\ (r.prim \in Record => n = 0))
      /\ (m <= 2 => n <= 2 /\ (r.prim \in Record => n <= 1))
  OBVIOUS
<1>2. r.bak \in Record => r.bak.count \in Int /\ t \in Int /\ (r.prim \in Record => r.prim.count \in Int)
  BY Contents, Names
<1>3. ASSUME NEW f, f \in {File(r.bak, None), File(None, r.bak)}
      PROVE  Held(f, c, m, t)
  <2>1. /\ \/ f.prim = r.bak /\ f.bak = None
           \/ f.prim = None /\ f.bak = r.bak
        /\ Found(f) \in Record => Found(f) = r.bak /\ r.bak \in Record
    BY <1>3, Names DEF File, Found
  <2>2. Spaced(f, c)
    BY <2>1, Names DEF Held, Spaced
  <2>3. m = 0 => BothCover(f, t)
    BY <1>1, <2>1, Names DEF Held, BothCover
  <2>4. m <= 1 => RecordCovers(f, c, t)
    BY <1>1, <2>1, Names DEF Held, BothCover, RecordCovers, Found
  <2>5. m <= 2 => OneCovers(f, c, t)
    <3> SUFFICES ASSUME m <= 2, r.bak \in Record, ~(r.bak.count >= t) PROVE OneCovers(f, c, t)
      BY <2>1 DEF OneCovers
    <3>1. Whole(c) \in Count /\ Whole(c) >= t
      <4>1. CASE r.prim \in Record
        BY <4>1, <1>1, <1>2, Contents DEF Held, RecordCovers, Found
      <4>2. CASE r.prim \notin Record
        BY <4>2, <1>1 DEF Held, OneCovers, Found
      <4> QED BY <4>1, <4>2
    <3> QED BY <3>1, <2>1, Names DEF OneCovers
  <2> QED BY <2>2, <2>3, <2>4, <2>5 DEF Held
<1> QED BY <1>3

\* What loading the record does to the counter file: nothing, or it raises
\* it to the count of the record.
LEMMA LoadCases ==
    ASSUME TypeOK, Whole(ctr) # Torn, NEW l \in Load
    PROVE  \/ /\ l.ctr = ctr /\ l.end # "off" /\ l.cost \in {0, 1}
              /\ l.end = "false" => l.cost = (IF rec.prim \in Record THEN 1 ELSE 0)
              /\ l.end = "true" => /\ rec.prim \in Record /\ l.cost = 0
                                   /\ IF ctr.prim = None THEN l.count = rec.prim.count
                                      ELSE l.count = ctr.prim /\ ctr.prim >= rec.prim.count
           \/ /\ rec.prim \in Record /\ l.count = rec.prim.count /\ l.cost \in {0, 1}
              /\ IF ctr.prim = None THEN ~rec.prim.floor ELSE ctr.prim < rec.prim.count
              /\ l.ctr.prim \in {None, rec.prim.count, Whole(ctr)}
              /\ Whole(l.ctr) \in {rec.prim.count, Whole(ctr)}
              /\ l.end = "true" => l.ctr.prim = rec.prim.count
              /\ l.end = "false" => l.cost = 1
<1>0. rec.prim \in Record => rec.prim.count \in Count /\ rec.prim.count \in Int
  BY Names DEF Record
<1>00. ctr \in FileOf(Count) /\ ctr.prim \in Count \cup {None} /\ (ctr.prim # None => ctr.prim \in Int)
  BY Names DEF TypeOK, FileOf
<1>1. CASE l \in Loaded(Untouched("false", IF rec.prim \in Record THEN 1 ELSE 0), 0)
  BY <1>1 DEF Loaded, Untouched, Outcome
<1>2. CASE rec.prim \in Record /\ l \in Validate(rec.prim)
  <2>1. CASE /\ l \in RaiseFloor(rec.prim.count)
             /\ IF ctr.prim = None THEN ~rec.prim.floor ELSE ctr.prim < rec.prim.count
    <3>1. PICK o \in WriteOutcome(ctr, rec.prim.count) :
             l = [ctr |-> o.file, end |-> o.end, cost |-> o.cost, count |-> rec.prim.count]
      BY <2>1 DEF RaiseFloor, Loaded
    <3>2. /\ Whole(o.file) \in {rec.prim.count, Whole(ctr)}
          /\ o.end = "true" => o.file.prim = rec.prim.count
          /\ o.end = "false" => o.cost = 1
          /\ o.cost \in {0, 1}
      BY <1>0, <1>00, <1>2, Names, WriteFacts
    <3>3. o.file.prim \in {None, rec.prim.count, Whole(ctr)}
      BY WriteCases
    <3> QED BY <3>1, <3>2, <3>3, <2>1, <1>2
  <2>2. CASE ctr.prim = None /\ l \in Loaded(Untouched("true", 0), rec.prim.count)
    BY <1>2, <2>2 DEF Loaded, Untouched, Outcome
  <2>3. CASE ctr.prim # None /\ ~(ctr.prim < rec.prim.count) /\ l \in Loaded(Untouched("true", 0), ctr.prim)
    BY <1>2, <2>3, <1>0, <1>00 DEF Loaded, Untouched, Outcome
  <2> QED BY <1>2, <2>1, <2>2, <2>3 DEF Validate
<1> QED BY <1>1, <1>2 DEF Load

\* Loading the record, where it may be loaded.
LEMMA LoadHeld ==
    ASSUME TypeOK, Whole(ctr) # Torn, NEW n \in Nat, NEW t \in Count, Held(rec, ctr, n, t),
           n <= 2 => Loads(rec.prim, ctr, t) \/ rec.bak # None,
           NEW l \in Load
    PROVE  /\ Held(rec, l.ctr, n, t)
           /\ n <= 2 /\ rec.prim \in Record => rec.prim.count >= t \/ l.ctr = ctr
           /\ n <= 1 /\ rec.prim \in Record /\ rec.bak \in Record =>
                 rec.bak.count >= t \/ l.ctr = ctr
<1>0. rec \in FileOf(Record) /\ ctr \in FileOf(Count) /\ ctr.prim # Torn /\ t \in Int
  BY Names DEF TypeOK
<1>1. CASE l.ctr = ctr
  BY <1>1
<1>2. CASE /\ rec.prim \in Record
           /\ IF ctr.prim = None THEN ~rec.prim.floor ELSE ctr.prim < rec.prim.count
           /\ Whole(l.ctr) \in {rec.prim.count, Whole(ctr)}
           /\ l.ctr # ctr
  <2>1. Spaced(rec, l.ctr)
    <3>1. Apart(rec.prim.count, rec.prim.count)
      BY <1>0, <1>2, Contents DEF Apart
    <3> QED BY <1>2, <3>1 DEF Held, Spaced
  <2>2. n <= 2 => rec.prim.count >= t
    <3> SUFFICES ASSUME n <= 2, ~(rec.prim.count >= t) PROVE FALSE
      OBVIOUS
    <3>1. rec.prim.count \in Int /\ Whole(ctr) \in Count /\ Whole(ctr) >= t /\ Whole(ctr) \in Int
      BY <1>0, <1>2, Contents DEF Held, OneCovers, Found
    <3>2. ctr.prim = None
      BY <1>0, <1>2, <3>1, Contents
    <3>3. rec.bak = None
      BY <1>2, <3>1, <3>2 DEF Held, OneCovers, Found
    <3> QED BY <1>2, <3>2, <3>3, Names DEF Loads
  <2>3. n <= 1 => (rec.bak \in Record => rec.bak.count >= t)
    <3> SUFFICES ASSUME n <= 1, rec.bak \in Record, ~(rec.bak.count >= t) PROVE FALSE
      OBVIOUS
    <3>1. /\ rec.prim.floor /\ Whole(ctr) \in Count /\ Whole(ctr) >= rec.prim.count
          /\ rec.prim.count \in Int /\ Whole(ctr) \in Int
      BY <1>0, <1>2, Contents DEF Held, RecordCovers
    <3> QED BY <1>0, <1>2, <3>1, Contents
  <2>4. n <= 1 => RecordCovers(rec, l.ctr, t)
    BY <1>0, <1>2, <2>2, <2>3, Contents DEF RecordCovers, Found
  <2>5. n <= 2 => OneCovers(rec, l.ctr, t)
    BY <1>2, <2>2 DEF OneCovers, Found
  <2> QED BY <2>1, <2>2, <2>3, <2>4, <2>5 DEF Held
<1> QED BY <1>1, <1>2, LoadCases

-----------------------------------------------------------------------------
(* What the running operation relies on.                                   *)

\* The index e lets no count pass that the files have not reserved: the next
\* count is above the reserved ones, or it is turned down.
FitsIn(e, r, c) ==
    e # NoEntry /\ r.prim \in Record =>
        \/ r.prim.count >= e.high
        \/ /\ r.prim.count + 1 < e.sign \/ c.prim = MaxCount
           /\ Whole(c) \in Count => Whole(c) <= r.prim.count \/ Whole(c) >= e.high

\* An assertion on its way.
Reserved ==
    /\ pc \in {"reserve", "rewrite"} => rec.prim \in Record /\ count > rec.prim.count
    /\ pc = "reserve" => /\ ctr.prim \in Count => count > ctr.prim
                         /\ count > entry.high \/ count < entry.sign
    /\ pc \in {"rewrite", "publish"} => count > entry.high /\ ctr.prim = HighWater(count)
    /\ pc = "publish" => rec.prim = [count |-> HighWater(count), floor |-> TRUE]
    /\ pc = "publish" /\ faults = 0 => rec.bak = None

\* Start-up has passed the counter file before the record.
Passed == pc = "recover" /\ "rec" \in todo /\ "ctr" \notin todo
             => ctr.prim # None \/ ctr.bak = None

\* What a load finds covers the last count, up to two failures.
Ready == /\ above <= last
         /\ pc \in Asserting => count > last
         /\ pc = "recover" /\ "rec" \in todo /\ "ctr" \notin todo => Loads(Found(rec), ctr, last)
         /\ pc # "down" /\ todo = {} => Loads(rec.prim, ctr, last)
         /\ pc # "down" /\ "rec" \notin todo => Sheltered(rec, last)

GrowInv == /\ Held(rec, ctr, faults, last)
           /\ FitsIn(entry, rec, ctr)
           /\ Reserved
           /\ Passed
           /\ faults <= 2 => Ready

\* The types of the variables.
LEMMA States ==
    ASSUME Inv
    PROVE  /\ TypeOK /\ rec \in FileOf(Record) /\ ctr \in FileOf(Count)
           /\ ctr.prim # Torn /\ Whole(ctr) # Torn
           /\ last \in Count /\ last \in Int /\ above \in Int /\ faults \in Nat
           /\ count \in Count /\ count \in Int
           /\ pc # "recover" => todo = {}
BY Names DEF Inv, Safe, TypeOK

\* Faults only add up.
LEMMA ChargeGrows ==
    ASSUME TypeOK, NEW cost \in Nat, Charge(cost)
    PROVE  faults' \in Nat /\ faults' = faults + cost /\ faults <= faults'
BY CountAssumption DEF TypeOK, Charge

\* Without power only the files are left.
LEMMA OffGrows ==
    ASSUME Inv, GrowInv, PowerOff, UNCHANGED <<last, above>>, faults' \in Nat, faults <= faults',
           Held(rec', ctr', faults', last)
    PROVE  GrowInv'
<1>1. faults' <= 2 => faults <= 2
  BY States
<1>2. Held(rec, ctr, faults, last)'
  BY DEF Held
<1>3. Reserved' /\ Passed' /\ FitsIn(entry, rec, ctr)'
  BY DEF PowerOff, Reserved, Passed, FitsIn
<1>4. faults' <= 2 => Ready'
  BY <1>1 DEF PowerOff, GrowInv, Ready, Asserting
<1> QED BY <1>2, <1>3, <1>4 DEF GrowInv

\* An operation ends and leaves the index as it was.
LEMMA FinishGrows ==
    ASSUME Inv, GrowInv, Finish, todo = {}, UNCHANGED <<last, above>>,
           faults' \in Nat, faults <= faults', Held(rec', ctr', faults', last),
           FitsIn(entry, rec', ctr'),
           faults' <= 2 => Loads(rec'.prim, ctr', last) /\ Sheltered(rec', last)
    PROVE  GrowInv'
<1>1. faults' <= 2 => faults <= 2
  BY States
<1>2. Held(rec, ctr, faults, last)' /\ FitsIn(entry, rec, ctr)'
  <2>1. last' = last /\ entry' = entry
    BY DEF Finish
  <2> QED BY <2>1
<1>3. Reserved' /\ Passed'
  BY DEF Finish, Reserved, Passed
<1>4. faults' <= 2 => Ready'
  BY <1>1 DEF Finish, GrowInv, Ready, Asserting, Loads, Sheltered
<1> QED BY <1>2, <1>3, <1>4 DEF GrowInv

\* Loading the record keeps the index in agreement with the files.
LEMMA LoadFits ==
    ASSUME TypeOK, Whole(ctr) # Torn, NEW l \in Load, FitsIn(entry, rec, ctr)
    PROVE  FitsIn(entry, rec, l.ctr)
<1>1. CASE l.ctr = ctr
  BY <1>1
<1>2. CASE /\ rec.prim \in Record
           /\ ctr.prim # None => ctr.prim < rec.prim.count
           /\ Whole(l.ctr) \in {rec.prim.count, Whole(ctr)}
  <2>1. rec.prim.count \in Int /\ rec.prim.count <= MaxCount /\ MaxCount \in Int /\ MaxCount # None
    BY <1>2, CountAssumption, ContentAssumption DEF Record, Count
  <2>2. ctr.prim # MaxCount
    BY <1>2, <2>1
  <2> QED BY <1>2, <2>1, <2>2 DEF FitsIn
<1> QED BY <1>1, <1>2, LoadCases

-----------------------------------------------------------------------------
(* The actions once more.                                                  *)

\* Before anything was told every count will do.
LEMMA FreshLoads ==
    ASSUME NEW r \in FileOf(Record), NEW c
    PROVE  Loads(r.prim, c, 0) /\ Loads(Found(r), c, 0) /\ Sheltered(r, 0)
<1>1. \A x \in Record : x.count >= 0
  BY CountAssumption DEF Record, Count
<1> QED BY <1>1 DEF Loads, Sheltered

LEMMA CreateGrows == ASSUME Inv, GrowInv, Inv', Create PROVE GrowInv'
<1> DEFINE fresh == [count |-> 0, floor |-> TRUE]
<1>1. PICK o \in WriteOutcome(rec, fresh) :
         /\ rec' = o.file
         /\ Charge(o.cost)
         /\ \/ o.end = "true" /\ pc' = "added" /\ UNCHANGED <<entry, todo, count>>
            \/ o.end = "false" /\ Finish
            \/ o.end = "off" /\ PowerOff
  BY DEF Create
<1>2. /\ pc = "idle" /\ rec = Empty /\ ctr = Empty /\ entry = NoEntry /\ life = "none"
      /\ UNCHANGED <<ctr, life, last, above>> /\ last = 0 /\ above = 0 /\ todo = {}
  BY States DEF Create, Unwritten, history, Inv, Safe
<1>3. fresh \in Record /\ fresh.count = 0
  BY CountAssumption DEF Record, Count
<1> HIDE DEF fresh
<1>4. /\ rec'.prim \in {fresh, None} /\ rec'.bak = None /\ o.cost \in {0, 1}
      /\ rec' \in FileOf(Record) /\ ctr' \in FileOf(Count)
  <2>1. Whole(rec) = None /\ rec.bak = None
    BY <1>2 DEF Whole, Empty, File
  <2>2. rec' \in FileOf(Record) /\ ctr' \in FileOf(Count)
    BY DEF Inv, Safe, TypeOK
  <2> QED BY <1>1, <2>1, <2>2, WriteCases
<1>5. faults' \in Nat /\ faults <= faults'
  BY <1>1, <1>4, States, ChargeGrows
<1>6. Held(rec', ctr', faults', last)
  <2>1. Whole(ctr') = None
    BY <1>2 DEF Whole, Empty, File
  <2> QED BY <1>2, <1>3, <1>4, <2>1, Names DEF Held, Spaced, BothCover, RecordCovers, OneCovers, Found
<1>7. Loads(rec'.prim, ctr', last) /\ Sheltered(rec', last)
  BY <1>2, <1>4, FreshLoads
<1>8. CASE o.end = "true" /\ pc' = "added" /\ UNCHANGED <<entry, todo, count>>
  <2>1. Held(rec, ctr, faults, last)'
    BY <1>2, <1>6
  <2>2. FitsIn(entry, rec, ctr)' /\ Reserved' /\ Passed'
    BY <1>2, <1>8 DEF FitsIn, Reserved, Passed
  <2>3. Ready'
    BY <1>2, <1>7, <1>8 DEF Ready, Asserting, Loads, Sheltered
  <2> QED BY <2>1, <2>2, <2>3 DEF GrowInv
<1>9. CASE o.end = "false" /\ Finish
  BY <1>2, <1>5, <1>6, <1>7, <1>9, FinishGrows DEF FitsIn
<1>10. CASE o.end = "off" /\ PowerOff
  BY <1>2, <1>5, <1>6, <1>10, OffGrows
<1> QED BY <1>1, <1>8, <1>9, <1>10

LEMMA AddedGrows == ASSUME Inv, GrowInv, Added PROVE GrowInv'
<1>1. /\ pc = "added" /\ pc' = "idle" /\ entry' = Entry(0, 0) /\ last = 0 /\ todo = {}
      /\ UNCHANGED <<rec, ctr, todo, count, last, above, faults>>
  BY States DEF Added, files, Inv, Safe
<1>2. FitsIn(entry, rec, ctr)'
  <2>1. \A x \in Record : x.count >= 0
    BY CountAssumption DEF Record, Count
  <2>2. FitsIn(Entry(0, 0), rec, ctr)
    BY <2>1 DEF FitsIn, Entry
  <2> QED BY <1>1, <2>2
<1>3. Held(rec, ctr, faults, last)'
  BY <1>1 DEF GrowInv
<1>4. Reserved' /\ Passed'
  BY <1>1 DEF Reserved, Passed
<1>5. faults' <= 2 => Ready'
  BY <1>1 DEF GrowInv, Ready, Asserting, Loads, Sheltered
<1> QED BY <1>2, <1>3, <1>4, <1>5 DEF GrowInv

LEMMA WithdrawGrows == ASSUME Inv, GrowInv, Inv', Withdraw PROVE GrowInv'
<1>1. PICK o \in RemoveOutcome(rec) :
         /\ rec' = o.file
         /\ Charge(o.cost)
         /\ IF o.end = "off" THEN PowerOff ELSE Finish
  BY DEF Withdraw
<1>2. /\ entry = NoEntry /\ UNCHANGED <<ctr, life, last, above>> /\ last = 0 /\ todo = {}
  BY States DEF Withdraw, history, Inv, Safe
<1>3. rec \in FileOf(Record) /\ rec' \in FileOf(Record) /\ o.cost \in {0, 1} /\ faults \in Nat
  BY <1>1, States, Names, RemoveFacts
<1>4. faults' \in Nat /\ faults <= faults'
  BY <1>1, <1>3, States, ChargeGrows
<1>5. Held(rec', ctr', faults', last)
  BY <1>1, <1>2, <1>3, <1>4, RemoveHeld, HeldLonger DEF GrowInv
<1>6. Loads(rec'.prim, ctr', last) /\ Sheltered(rec', last) /\ FitsIn(entry, rec', ctr')
  BY <1>2, <1>3, FreshLoads DEF FitsIn
<1> QED BY <1>1, <1>2, <1>4, <1>5, <1>6, OffGrows, FinishGrows

LEMMA PrepareGrows == ASSUME Inv, GrowInv, Prepare PROVE GrowInv'
<1>1. PICK l \in Load :
         /\ ctr' = l.ctr
         /\ Charge(l.cost)
         /\ \/ /\ l.end = "true" /\ l.count < MaxCount
               /\ count' = NextCount(l.count)
               /\ pc' = "reserve"
               /\ UNCHANGED <<entry, todo>>
            \/ (l.end = "false" \/ (l.end = "true" /\ l.count = MaxCount)) /\ Finish
            \/ l.end = "off" /\ PowerOff
  BY DEF Prepare
<1>2. pc = "idle" /\ entry # NoEntry /\ todo = {} /\ UNCHANGED <<rec, life, last, above>>
  BY States DEF Prepare, history
<1>3. /\ TypeOK /\ Whole(ctr) # Torn /\ rec \in FileOf(Record) /\ ctr \in FileOf(Count) /\ ctr.prim # Torn
      /\ last \in Count /\ last \in Int /\ faults \in Nat
      /\ entry.sign \in Int /\ entry.high \in Int
  BY <1>2, States, EntryFacts, Names
<1>4. faults' \in Nat /\ faults <= faults'
  <2>1. l.cost \in Nat
    BY <1>3, LoadCases
  <2> QED BY <1>1, <1>3, <2>1, ChargeGrows
<1>5. faults <= 2 => Ready /\ Loads(rec.prim, ctr, last) /\ Sheltered(rec, last)
  BY <1>2 DEF GrowInv, Ready
<1>6. /\ Held(rec, ctr', faults, last)
      /\ faults <= 2 /\ rec.prim \in Record => rec.prim.count >= last \/ ctr' = ctr
  BY <1>1, <1>3, <1>5, LoadHeld DEF GrowInv
<1>7. Held(rec', ctr', faults', last)
  BY <1>2, <1>3, <1>4, <1>6, HeldLonger
<1>8. FitsIn(entry, rec', ctr')
  BY <1>1, <1>2, <1>3, LoadFits DEF GrowInv
<1>9. faults' <= 2 => faults <= 2 /\ Loads(rec'.prim, ctr', last) /\ Sheltered(rec', last)
  BY <1>2, <1>3, <1>4, <1>5, <1>6 DEF Loads
<1>10. CASE /\ l.end = "true" /\ l.count < MaxCount
            /\ count' = NextCount(l.count)
            /\ pc' = "reserve"
            /\ UNCHANGED <<entry, todo>>
  <2>1. /\ rec.prim \in Record /\ rec.prim.count \in Int /\ l.count \in Int /\ MaxCount \in Int
        /\ ctr.prim # None => ctr.prim \in Int
        /\ l.count >= rec.prim.count
        /\ ctr.prim # None => l.count >= ctr.prim
        /\ l.count = rec.prim.count \/ (ctr.prim # None /\ l.count = ctr.prim)
        /\ ctr'.prim # None => l.count >= ctr'.prim
        /\ count' = l.count + 1
    BY <1>1, <1>3, <1>10, LoadCases, LoadFacts, Contents, Names DEF NextCount
  <2>2. count' > entry.high \/ count' < entry.sign
    <3>1. CASE rec.prim.count >= entry.high
      BY <1>3, <2>1, <3>1
    <3>2. CASE /\ rec.prim.count + 1 < entry.sign \/ ctr.prim = MaxCount
               /\ Whole(ctr) \in Count => Whole(ctr) <= rec.prim.count \/ Whole(ctr) >= entry.high
      <4>1. ctr.prim # None => ctr.prim <= rec.prim.count \/ ctr.prim >= entry.high
        BY <1>3, <3>2, Contents
      <4>2. ctr.prim # MaxCount
        BY <1>10, <2>1, CountAssumption, ContentAssumption DEF Count
      <4> QED BY <1>3, <2>1, <3>2, <4>1, <4>2
    <3> QED BY <1>2, <2>1, <3>1, <3>2 DEF GrowInv, FitsIn
  <2>3. faults' <= 2 => count' > last
    BY <1>3, <1>5, <1>9, <2>1, Contents DEF Loads
  <2>4. Held(rec, ctr, faults, last)' /\ FitsIn(entry, rec, ctr)'
    <3>1. last' = last /\ entry' = entry
      BY <1>2, <1>10
    <3> QED BY <3>1, <1>7, <1>8
  <2>5. Reserved' /\ Passed'
    <3>0. ctr'.prim \in Count => ctr'.prim \in Int /\ ctr'.prim # None
      BY CountAssumption, ContentAssumption DEF Count
    <3>1. count' > rec.prim.count /\ (ctr'.prim \in Count => count' > ctr'.prim)
      BY <2>1, <3>0
    <3>2. rec' = rec /\ entry' = entry /\ pc' = "reserve"
      BY <1>2, <1>10
    <3> QED BY <2>1, <2>2, <3>1, <3>2 DEF Reserved, Passed
  <2>6. faults' <= 2 => Ready'
    BY <1>2, <1>5, <1>9, <1>10, <2>3 DEF Ready, Asserting, Loads, Sheltered
  <2> QED BY <2>4, <2>5, <2>6 DEF GrowInv
<1>11. CASE Finish
  BY <1>2, <1>4, <1>7, <1>8, <1>9, <1>11, FinishGrows
<1>12. CASE PowerOff
  BY <1>2, <1>4, <1>7, <1>12, OffGrows
<1> QED BY <1>1, <1>10, <1>11, <1>12

LEMMA CancelGrows == ASSUME Inv, GrowInv, Cancel PROVE GrowInv'
<1>1. /\ pc = "reserve" /\ todo = {} /\ Finish /\ faults \in Nat
      /\ UNCHANGED <<rec, ctr, life, last, above, faults>>
  BY States DEF Cancel, files, history
<1>2. faults <= 2 => Loads(rec.prim, ctr, last) /\ Sheltered(rec, last)
  BY <1>1 DEF GrowInv, Ready
<1>3. /\ faults' \in Nat /\ faults <= faults' /\ Held(rec', ctr', faults', last)
      /\ FitsIn(entry, rec', ctr')
      /\ faults' <= 2 => Loads(rec'.prim, ctr', last) /\ Sheltered(rec', last)
  BY <1>1, <1>2 DEF GrowInv
<1> QED BY <1>1, <1>3, FinishGrows

LEMMA ReserveCounterGrows == ASSUME Inv, GrowInv, ReserveCounter PROVE GrowInv'
<1>1. PICK o \in IF count >= entry.sign /\ Reserving THEN WriteOutcome(ctr, Target)
                 ELSE Untouched(IF count >= entry.sign THEN "true" ELSE "false", 0) :
         /\ ctr' = o.file
         /\ Charge(o.cost)
         /\ \/ o.end = "true" /\ pc' = "rewrite" /\ UNCHANGED <<entry, todo, count>>
            \/ o.end = "false" /\ Finish
            \/ o.end = "off" /\ PowerOff
  BY DEF ReserveCounter
<1>2. pc = "reserve" /\ entry # NoEntry /\ todo = {} /\ UNCHANGED <<rec, life, last, above>>
  BY States DEF ReserveCounter, history, Inv, Safe, Asserting
<1>3. /\ TypeOK /\ Whole(ctr) # Torn /\ rec \in FileOf(Record) /\ ctr \in FileOf(Count) /\ ctr.prim # Torn
      /\ last \in Count /\ last \in Int /\ faults \in Nat /\ count \in Count /\ count \in Int
      /\ entry.sign \in Int /\ entry.high \in Int
  BY <1>2, States, EntryFacts, Names
<1>4. /\ rec.prim \in Record /\ count > rec.prim.count /\ rec.prim.count \in Int /\ rec.prim.count \in Count
      /\ ctr.prim \in Count => count > ctr.prim
      /\ count > entry.high \/ count < entry.sign
  BY <1>2, <1>3, Contents DEF GrowInv, Reserved
<1>5. faults <= 2 => Ready /\ Loads(rec.prim, ctr, last) /\ Sheltered(rec, last) /\ count > last
  BY <1>2 DEF GrowInv, Ready, Asserting
<1>6. CASE count >= entry.sign /\ Reserving
  <2>1. Target = HighWater(count) /\ o \in WriteOutcome(ctr, HighWater(count))
    BY <1>1, <1>6 DEF Target
  <2>2. Held(rec, ctr', faults, last)
    BY <1>1, <1>3, <1>4, <1>5, <2>1, CounterWriteHeld DEF GrowInv
  <2>3. /\ HighWater(count) \in Count /\ HighWater(count) \in Int /\ HighWater(count) >= count
        /\ o.end = "true" => ctr'.prim = HighWater(count)
        /\ o.end = "false" => o.cost = 1
        /\ Whole(ctr') \in {HighWater(count), Whole(ctr)}
        /\ o.cost \in {0, 1} /\ count > entry.high
    BY <1>1, <1>3, <1>4, <2>1, <1>6, ReservesApart, WriteFacts, Names DEF Reserving
  <2>4. faults' \in Nat /\ faults <= faults' /\ (o.end = "false" => faults < faults')
    BY <1>1, <1>3, <2>3, ChargeGrows
  <2>5. Held(rec', ctr', faults', last)
    BY <1>2, <1>3, <2>2, <2>4, HeldLonger
  <2>6. FitsIn(entry, rec', ctr')
    <3>1. ctr.prim # MaxCount
      BY <1>3, <1>4, CountAssumption DEF Count
    <3> QED BY <1>2, <1>3, <2>3, <3>1 DEF GrowInv, FitsIn
  <2>7. CASE o.end = "true" /\ pc' = "rewrite" /\ UNCHANGED <<entry, todo, count>>
    <3>1. Held(rec, ctr, faults, last)' /\ FitsIn(entry, rec, ctr)'
      <4>1. last' = last /\ entry' = entry
        BY <1>2, <2>7
      <4> QED BY <4>1, <2>5, <2>6
    <3>2. Reserved' /\ Passed'
      <4>1. rec' = rec /\ entry' = entry /\ count' = count /\ pc' = "rewrite"
        BY <1>2, <2>7
      <4> QED BY <1>4, <2>3, <2>7, <4>1 DEF Reserved, Passed
    <3>3. faults' <= 2 => Ready'
      <4> SUFFICES ASSUME faults' <= 2 PROVE Ready'
        OBVIOUS
      <4>1. ctr'.prim \in Count /\ ctr'.prim >= last /\ faults <= 2
        BY <1>3, <1>5, <2>3, <2>4, <2>7
      <4> QED BY <1>2, <1>5, <2>7, <4>1 DEF Ready, Asserting, Loads, Sheltered
    <3> QED BY <3>1, <3>2, <3>3 DEF GrowInv
  <2>8. CASE o.end = "false" /\ Finish
    <3>1. faults' <= 2 => rec.prim.count >= last
      <4>1. faults' <= 2 => faults <= 1
        BY <1>3, <2>4, <2>8
      <4> QED BY <1>4, <4>1 DEF GrowInv, Held, RecordCovers, Found
    <3>2. faults' <= 2 => Loads(rec'.prim, ctr', last) /\ Sheltered(rec', last)
      BY <1>2, <3>1 DEF Loads, Sheltered
    <3> QED BY <1>2, <2>4, <2>5, <2>6, <2>8, <3>2, FinishGrows
  <2>9. CASE o.end = "off" /\ PowerOff
    BY <1>2, <2>4, <2>5, <2>9, OffGrows
  <2> QED BY <1>1, <2>7, <2>8, <2>9
<1>7. CASE ~(count >= entry.sign /\ Reserving)
  <2>1. ~(count >= entry.sign)
    BY <1>3, <1>4, <1>7 DEF Reserving
  <2>2. ctr' = ctr /\ o.end = "false" /\ o.cost = 0
    BY <1>1, <2>1 DEF Untouched, Outcome
  <2>3. Finish /\ faults' \in Nat /\ faults <= faults' /\ faults' = faults
    BY <1>1, <1>3, <2>2, ChargeGrows
  <2>4. /\ Held(rec', ctr', faults', last) /\ FitsIn(entry, rec', ctr')
        /\ faults' <= 2 => Loads(rec'.prim, ctr', last) /\ Sheltered(rec', last)
    BY <1>2, <1>5, <2>2, <2>3 DEF GrowInv
  <2> QED BY <1>2, <2>3, <2>4, FinishGrows
<1> QED BY <1>6, <1>7

LEMMA ReserveRecordGrows == ASSUME Inv, GrowInv, ReserveRecord PROVE GrowInv'
<1> DEFINE v == [count |-> Target, floor |-> TRUE]
<1>1. PICK o \in IF Reserving THEN WriteOutcome(rec, v) ELSE Outcome({rec}, {"true"}, 0) :
         /\ rec' = o.file
         /\ Charge(o.cost)
         /\ \/ o.end = "true" /\ pc' = "publish" /\ UNCHANGED <<entry, todo, count>>
            \/ o.end = "false" /\ Finish
            \/ o.end = "off" /\ PowerOff
  BY DEF ReserveRecord
<1>2. pc = "rewrite" /\ entry # NoEntry /\ todo = {} /\ UNCHANGED <<ctr, life, last, above>>
  BY States DEF ReserveRecord, history, Inv, Safe, Asserting
<1>3. /\ TypeOK /\ Whole(ctr) # Torn /\ rec \in FileOf(Record) /\ ctr \in FileOf(Count) /\ ctr.prim # Torn
      /\ last \in Count /\ last \in Int /\ faults \in Nat /\ count \in Count /\ count \in Int
      /\ entry.sign \in Int /\ entry.high \in Int
  BY <1>2, States, EntryFacts, Names
<1>4. /\ rec.prim \in Record /\ count > rec.prim.count /\ rec.prim.count \in Int /\ rec.prim.count \in Count
      /\ count > entry.high /\ ctr.prim = HighWater(count)
  BY <1>2, <1>3, Contents DEF GrowInv, Reserved
<1>5. faults <= 2 => Ready /\ Loads(rec.prim, ctr, last) /\ Sheltered(rec, last) /\ count > last
  BY <1>2 DEF GrowInv, Ready, Asserting
<1>6. /\ v = [count |-> HighWater(count), floor |-> TRUE] /\ v \in Record
      /\ v.count = HighWater(count) /\ v.floor /\ o \in WriteOutcome(rec, v)
      /\ HighWater(count) \in Count /\ HighWater(count) \in Int /\ HighWater(count) >= count
  <2>1. Reserving /\ Target = HighWater(count)
    BY <1>4 DEF Reserving, Target
  <2>2. HighWater(count) \in Count /\ HighWater(count) \in Int /\ HighWater(count) >= count
    BY <1>3, HighWaterFacts, Names
  <2> QED BY <1>1, <2>1, <2>2 DEF Record
<1> HIDE DEF v
<1>7. Held(rec', ctr, faults, last)
  BY <1>1, <1>3, <1>4, <1>5, <1>6, RecordWriteHeld DEF GrowInv
<1>8. /\ \/ rec'.prim = v
         \/ rec'.prim = None
         \/ rec'.prim = rec.prim
      /\ o.end = "true" => rec'.prim = v
      /\ o.end = "true" /\ o.cost = 0 => rec'.bak = None
      /\ o.end = "false" => o.cost = 1 /\ (rec'.prim = rec.prim \/ rec'.prim = None)
      /\ o.cost \in {0, 1}
  <2>1. Whole(rec) = rec.prim
    BY <1>4, Names DEF Whole
  <2> QED BY <1>1, <1>6, <2>1, WriteCases
<1>9. /\ faults' \in Nat /\ faults <= faults' /\ (o.end = "false" => faults < faults')
      /\ faults' = 0 => o.cost = 0
  BY <1>1, <1>3, <1>8, ChargeGrows
<1>10. Held(rec', ctr', faults', last)
  BY <1>2, <1>3, <1>7, <1>9, HeldLonger
<1>11. Whole(ctr) = HighWater(count) /\ ctr.prim # None
  BY <1>4, <1>6, Names DEF Whole
<1>12. FitsIn(entry, rec', ctr')
  <2>1. FitsIn(entry, rec, ctr)
    BY DEF GrowInv
  <2> QED BY <1>2, <1>3, <1>4, <1>6, <1>8, <1>11, <2>1, Names DEF FitsIn
<1>13. faults <= 2 => ctr.prim \in Count /\ ctr.prim >= last /\ Loads(rec'.prim, ctr', last)
  BY <1>2, <1>3, <1>4, <1>5, <1>6 DEF Loads
<1>14. CASE o.end = "true" /\ pc' = "publish" /\ UNCHANGED <<entry, todo, count>>
  <2>0. last' = last /\ entry' = entry /\ count' = count /\ ctr' = ctr /\ pc' = "publish" /\ rec'.prim = v
    BY <1>2, <1>8, <1>14
  <2>1. Held(rec, ctr, faults, last)' /\ FitsIn(entry, rec, ctr)'
    BY <2>0, <1>10, <1>12
  <2>2. Reserved' /\ Passed'
    BY <2>0, <1>4, <1>6, <1>8, <1>9, <1>14 DEF Reserved, Passed
  <2>3. faults' <= 2 => Ready'
    <3> SUFFICES ASSUME faults' <= 2 PROVE Ready'
      OBVIOUS
    <3>1. faults <= 2 /\ Sheltered(rec', last)
      BY <1>3, <1>6, <1>9, <2>0 DEF Sheltered
    <3> QED BY <1>2, <1>5, <1>13, <1>14, <3>1 DEF Ready, Asserting, Loads, Sheltered
  <2> QED BY <2>1, <2>2, <2>3 DEF GrowInv
<1>15. CASE o.end = "false" /\ Finish
  <2>1. faults' <= 2 => rec.prim.count >= last /\ faults <= 2
    <3>1. faults' <= 2 => faults <= 1 /\ faults <= 2
      BY <1>3, <1>9, <1>15
    <3> QED BY <1>4, <3>1 DEF GrowInv, Held, RecordCovers, Found
  <2>2. faults' <= 2 => Loads(rec'.prim, ctr', last) /\ Sheltered(rec', last)
    BY <1>8, <1>13, <1>15, <2>1, Names DEF Sheltered
  <2> QED BY <1>2, <1>9, <1>10, <1>12, <1>15, <2>2, FinishGrows
<1>16. CASE o.end = "off" /\ PowerOff
  BY <1>2, <1>9, <1>10, <1>16, OffGrows
<1> QED BY <1>1, <1>14, <1>15, <1>16

LEMMA PublishGrows == ASSUME Inv, GrowInv, Publish PROVE GrowInv'
<1>1. /\ pc = "publish" /\ pc' = "idle" /\ todo = {} /\ UNCHANGED <<rec, ctr, todo, faults>>
      /\ entry # NoEntry
  BY States DEF Publish, files, Inv, Safe, Asserting
<1>2. /\ rec \in FileOf(Record) /\ ctr \in FileOf(Count) /\ ctr.prim # Torn /\ Whole(ctr) # Torn
      /\ last \in Int /\ above \in Int /\ faults \in Nat /\ count \in Count /\ count \in Int
      /\ entry.sign \in Int /\ entry.high \in Int
  BY <1>1, States, EntryFacts, Names
<1>3. /\ count > entry.high /\ ctr.prim = HighWater(count)
      /\ rec.prim = [count |-> HighWater(count), floor |-> TRUE]
      /\ faults = 0 => rec.bak = None
  BY <1>1 DEF GrowInv, Reserved
<1>4. /\ HighWater(count) \in Count /\ HighWater(count) \in Int /\ HighWater(count) >= count
      /\ rec.prim \in Record /\ rec.prim.count = HighWater(count) /\ rec.prim.floor
      /\ Whole(ctr) = HighWater(count)
  <2>1. HighWater(count) \in Count /\ HighWater(count) \in Int /\ HighWater(count) >= count
    BY <1>2, HighWaterFacts, Names
  <2> QED BY <1>3, <2>1, Names DEF Whole, Record
<1>5. faults <= 2 => Ready /\ count > last /\ above <= last
  BY <1>1 DEF GrowInv, Ready, Asserting
<1>6. CASE Target >= count /\ count >= entry.sign
  <2>1. /\ entry' = Entry(count, HighWater(count)) /\ last' = count
        /\ above' = IF last + 1 > above THEN last + 1 ELSE above
    BY <1>3, <1>6 DEF Publish, Target, Reserving
  <2>2. Held(rec, ctr, faults, count)
    <3>1. Spaced(rec, ctr) /\ Found(rec) = rec.prim
      BY <1>4 DEF GrowInv, Held, Found
    <3>2. faults = 0 => BothCover(rec, count)
      BY <1>3, <1>4, Names DEF BothCover
    <3>3. RecordCovers(rec, ctr, count) /\ OneCovers(rec, ctr, count)
      BY <1>4, <3>1 DEF RecordCovers, OneCovers
    <3> QED BY <3>1, <3>2, <3>3 DEF Held
  <2>3. FitsIn(Entry(count, HighWater(count)), rec, ctr)
    BY <1>4 DEF FitsIn, Entry
  <2>4. Held(rec, ctr, faults, last)' /\ FitsIn(entry, rec, ctr)'
    BY <1>1, <2>1, <2>2, <2>3
  <2>5. Reserved' /\ Passed'
    BY <1>1 DEF Reserved, Passed
  <2>6. faults' <= 2 => Ready'
    BY <1>1, <1>2, <1>4, <1>5, <2>1 DEF Ready, Asserting, Loads, Sheltered
  <2> QED BY <2>4, <2>5, <2>6 DEF GrowInv
<1>7. CASE ~(Target >= count /\ count >= entry.sign)
  <2>1. UNCHANGED <<entry, last, above>>
    BY <1>7 DEF Publish, history
  <2>2. Held(rec, ctr, faults, last)' /\ FitsIn(entry, rec, ctr)'
    BY <1>1, <2>1 DEF GrowInv
  <2>3. Reserved' /\ Passed'
    BY <1>1 DEF Reserved, Passed
  <2>4. faults' <= 2 => Ready'
    BY <1>1, <1>5, <2>1 DEF Ready, Asserting, Loads, Sheltered
  <2> QED BY <2>2, <2>3, <2>4 DEF GrowInv
<1> QED BY <1>6, <1>7

LEMMA DeleteGrows == ASSUME Inv, GrowInv, Delete PROVE GrowInv'
<1>1. PICK o \in RemoveOutcome(rec) :
        \E c \in IF o.end = "true" THEN RemoveOutcome(ctr) ELSE Untouched(o.end, 0) :
           /\ rec' = o.file
           /\ ctr' = c.file
           /\ Charge(o.cost + c.cost)
           /\ \/ c.end = "true" /\ pc' = "idle" /\ entry' = NoEntry /\ UNCHANGED <<todo, count>>
              \/ Finish
              \/ PowerOff
  BY DEF Delete
<1>2. PICK c \in IF o.end = "true" THEN RemoveOutcome(ctr) ELSE Untouched(o.end, 0) :
           /\ rec' = o.file
           /\ ctr' = c.file
           /\ Charge(o.cost + c.cost)
           /\ \/ c.end = "true" /\ pc' = "idle" /\ entry' = NoEntry /\ UNCHANGED <<todo, count>>
              \/ Finish
              \/ PowerOff
  BY <1>1
<1>3. /\ pc = "idle" /\ todo = {} /\ UNCHANGED <<last, above>>
      /\ TypeOK /\ rec \in FileOf(Record) /\ ctr \in FileOf(Count) /\ faults \in Nat
      /\ faults <= 2 => Ready /\ Loads(rec.prim, ctr, last) /\ Sheltered(rec, last)
  BY States DEF Delete, GrowInv, Ready
<1>4. /\ rec' \in {Empty, rec, File(rec.prim, None)} /\ o.cost \in {0, 1}
      /\ o.end = "true" => rec' = Empty
  BY <1>2 DEF RemoveOutcome, Outcome
<1>5. c.cost \in {0, 1} /\ (rec' # Empty => ctr' = ctr) /\ (o.end # "true" => ctr' = ctr)
  BY <1>2, <1>4 DEF RemoveOutcome, Outcome, Untouched
<1>6. faults' \in Nat /\ faults <= faults'
  BY <1>2, <1>3, <1>4, <1>5, ChargeGrows
<1>7. Held(rec', ctr', faults', last)
  <2>1. Held(rec', ctr', faults, last)
    BY <1>3, <1>4, <1>5, LessHeld DEF GrowInv
  <2> QED BY <1>3, <1>6, <2>1, HeldLonger
<1>8. /\ FitsIn(entry, rec', ctr')
      /\ faults <= 2 => Loads(rec'.prim, ctr', last) /\ Sheltered(rec', last)
  <2>1. CASE rec' = Empty
    BY <2>1, Names DEF FitsIn, Loads, Sheltered, Empty, File
  <2>2. CASE rec' # Empty
    <3>1. ctr' = ctr /\ rec'.prim = rec.prim /\ (rec'.bak = rec.bak \/ rec'.bak = None)
      BY <1>4, <1>5, <2>2 DEF File
    <3> QED BY <1>3, <3>1 DEF GrowInv, FitsIn, Loads, Sheltered
  <2> QED BY <2>1, <2>2
<1>9. faults' <= 2 => faults <= 2
  BY <1>3, <1>6
<1>10. CASE pc' = "idle" /\ entry' = NoEntry /\ UNCHANGED <<todo, count>>
  <2>1. Held(rec, ctr, faults, last)'
    BY <1>3, <1>7
  <2>2. FitsIn(entry, rec, ctr)' /\ Reserved' /\ Passed'
    BY <1>10 DEF FitsIn, Reserved, Passed
  <2>3. faults' <= 2 => Ready'
    BY <1>3, <1>8, <1>9, <1>10 DEF Ready, Asserting, Loads, Sheltered
  <2> QED BY <2>1, <2>2, <2>3 DEF GrowInv
<1>11. CASE Finish
  BY <1>3, <1>6, <1>7, <1>8, <1>9, <1>11, FinishGrows
<1>12. CASE PowerOff
  BY <1>3, <1>6, <1>7, <1>12, OffGrows
<1> QED BY <1>2, <1>10, <1>11, <1>12

LEMMA BootGrows == ASSUME Inv, GrowInv, Boot PROVE GrowInv'
<1>1. /\ pc' = "recover" /\ todo' = {"rec", "ctr"} /\ entry = NoEntry
      /\ UNCHANGED <<rec, ctr, entry, count, last, above, faults>>
  BY DEF Boot, files, history, Inv, Safe
<1>2. Held(rec, ctr, faults, last)' /\ FitsIn(entry, rec, ctr)'
  BY <1>1 DEF GrowInv
<1>3. Reserved' /\ Passed' /\ (faults' <= 2 => Ready')
  BY <1>1 DEF GrowInv, Reserved, Passed, Ready, Asserting
<1> QED BY <1>2, <1>3 DEF GrowInv

\* Start-up goes on to the next file, or gives up.
LEMMA VisitedGrows ==
    ASSUME Inv, GrowInv, pc = "recover", NEW f \in {"rec", "ctr"}, NEW end \in Ends,
           Visited(f, end), UNCHANGED <<last, above>>, faults' \in Nat, faults <= faults',
           Held(rec', ctr', faults', last),
           end = "true" /\ f = "ctr" => ctr'.prim # None \/ ctr'.bak = None,
           end = "false" /\ faults' <= 2 => Loads(rec'.prim, ctr', last) /\ Sheltered(rec', last),
           end = "true" /\ f = "ctr" /\ faults' <= 2 =>
              /\ "rec" \in todo => Loads(Found(rec'), ctr', last)
              /\ "rec" \notin todo => Loads(rec'.prim, ctr', last) /\ Sheltered(rec', last),
           end = "true" /\ f = "rec" /\ faults' <= 2 =>
              /\ Sheltered(rec', last)
              /\ "ctr" \notin todo => Loads(rec'.prim, ctr', last)
    PROVE  GrowInv'
<1>1. CASE end = "off"
  <2>1. PowerOff
    BY <1>1 DEF Visited
  <2> QED BY <2>1, OffGrows
<1>2. CASE end # "off"
  <2>1. /\ UNCHANGED <<pc, entry, count>> /\ entry = NoEntry
        /\ \/ end = "true" /\ todo' = todo \ {f}
           \/ end = "false" /\ todo' = {}
    BY <1>2 DEF Visited, Inv, Safe
  <2>2. Held(rec, ctr, faults, last)' /\ FitsIn(entry, rec, ctr)' /\ Reserved'
    BY <2>1 DEF FitsIn, Reserved
  <2>3. Passed'
    BY <2>1 DEF Passed
  <2>4. faults' <= 2 => Ready'
    <3> SUFFICES ASSUME faults' <= 2 PROVE Ready'
      OBVIOUS
    <3>1. above <= last /\ faults <= 2 /\ todo \subseteq {"rec", "ctr"}
      BY States DEF GrowInv, Ready, Inv, Safe, TypeOK
    <3>2. CASE end = "false" /\ todo' = {}
      BY <2>1, <3>1, <3>2 DEF Ready, Asserting, Loads, Sheltered
    <3>3. CASE end = "true" /\ todo' = todo \ {f} /\ f = "rec"
      BY <2>1, <3>1, <3>3 DEF Ready, Asserting, Loads, Sheltered
    <3>4. CASE end = "true" /\ todo' = todo \ {f} /\ f = "ctr"
      BY <2>1, <3>1, <3>4 DEF Ready, Asserting, Loads, Sheltered, Found
    <3> QED BY <2>1, <3>2, <3>3, <3>4
  <2> QED BY <2>2, <2>3, <2>4 DEF GrowInv
<1> QED BY <1>1, <1>2

LEMMA RecoverCounterGrows == ASSUME Inv, GrowInv, RecoverCounter PROVE GrowInv'
<1>1. PICK o \in RecoverOutcome(ctr) :
         ctr' = o.file /\ Charge(o.cost) /\ Visited("ctr", o.end)
  BY DEF RecoverCounter
<1>2. /\ pc = "recover" /\ UNCHANGED <<rec, life, last, above>> /\ TypeOK
      /\ rec \in FileOf(Record) /\ ctr \in FileOf(Count) /\ ctr.prim # Torn /\ Whole(ctr) # Torn
      /\ faults \in Nat /\ last \in Int
  BY States DEF RecoverCounter, history
<1>3. /\ o.cost \in {0, 1} /\ o.end \in Ends
      /\ o.end = "false" => o.cost = 1
      /\ o.end = "true" => /\ ctr'.prim = Whole(ctr) \/ ctr' = ctr
                           /\ ctr'.prim # None \/ ctr'.bak = None
                           /\ Whole(ctr') = Whole(ctr)
  <2>1. \/ o.file.prim = Whole(ctr) /\ o.file.bak = None /\ o.cost = 0 /\ o.end \in {"true", "off"}
        \/ o.file = ctr /\ o.cost = 0 /\ o.end = "off"
        \/ o.file = ctr /\ o.cost = 1 /\ o.end = IF ctr.prim = None THEN "false" ELSE "true"
    BY DEF RecoverOutcome, Outcome, File
  <2>2. Whole(o.file) = Whole(ctr)
    BY <1>2, Names, RecoverFacts
  <2> QED BY <1>1, <2>1, <2>2 DEF Ends, Whole
<1>4. faults' \in Nat /\ faults <= faults' /\ (o.end = "false" => faults < faults')
  BY <1>1, <1>2, <1>3, ChargeGrows
<1>5. Held(rec', ctr', faults', last)
  <2>1. Held(rec, ctr', faults, last)
    BY <1>1, <1>2, RecoverHeld DEF GrowInv
  <2> QED BY <1>2, <1>4, <2>1, HeldLonger
<1>6. ASSUME o.end = "false", faults' <= 2
      PROVE  Loads(rec'.prim, ctr', last) /\ Sheltered(rec', last)
  <2>1. faults <= 1
    BY <1>2, <1>4, <1>6
  <2> QED BY <1>2, <2>1 DEF GrowInv, Held, RecordCovers, Found, Loads, Sheltered
<1>7. ASSUME o.end = "true", faults' <= 2
      PROVE  /\ Loads(Found(rec'), ctr', last) /\ Loads(rec'.prim, ctr', last)
             /\ "rec" \notin todo => Sheltered(rec', last)
  <2>1. faults <= 2 /\ OneCovers(rec, ctr, last)
    BY <1>2, <1>4, <1>7 DEF GrowInv, Held
  <2>2. Whole(ctr) \in Count => ctr'.prim = Whole(ctr)
    BY <1>3, <1>7, Names DEF Whole
  <2>3. Loads(Found(rec'), ctr', last)
    BY <1>2, <2>1, <2>2 DEF OneCovers, Loads
  <2>4. Loads(rec'.prim, ctr', last)
    BY <2>3 DEF Loads, Found
  <2>5. "rec" \notin todo => Sheltered(rec, last)
    BY <1>2, <2>1 DEF GrowInv, Ready
  <2> QED BY <1>2, <2>3, <2>4, <2>5
<1> QED BY <1>1, <1>2, <1>3, <1>4, <1>5, <1>6, <1>7, VisitedGrows

LEMMA RecoverRecordGrows == ASSUME Inv, GrowInv, RecoverRecord PROVE GrowInv'
<1>1. PICK l \in Load :
         /\ ctr' = l.ctr
         /\ \/ /\ l.end = "off"
               /\ PowerOff
               /\ Charge(l.cost)
               /\ UNCHANGED rec
            \/ /\ l.end # "off"
               /\ \E o \in IF l.end = "true" THEN KeepPrimary ELSE RestoreBackup :
                    rec' = o.file /\ Charge(l.cost + o.cost) /\ Visited("rec", o.end)
  BY DEF RecoverRecord
<1>2. /\ pc = "recover" /\ "rec" \in todo /\ rec.bak # None /\ UNCHANGED <<life, last, above>>
      /\ TypeOK /\ rec \in FileOf(Record) /\ ctr \in FileOf(Count) /\ ctr.prim # Torn /\ Whole(ctr) # Torn
      /\ faults \in Nat /\ last \in Int /\ last \in Count
  BY States DEF RecoverRecord, history
<1>3. /\ Held(rec, ctr', faults, last)
      /\ faults <= 2 /\ rec.prim \in Record => rec.prim.count >= last \/ ctr' = ctr
      /\ faults <= 1 /\ rec.prim \in Record /\ rec.bak \in Record =>
            rec.bak.count >= last \/ ctr' = ctr
  BY <1>1, <1>2, LoadHeld DEF GrowInv
<1>4. /\ l.cost \in {0, 1} /\ l.end \in Ends
      /\ l.end = "true" => rec.prim \in Record
      /\ l.end = "false" /\ rec.prim \in Record => l.cost = 1
      /\ l.end = "false" /\ rec.prim \notin Record => ctr' = ctr
      /\ ctr' \in FileOf(Count) /\ ctr'.prim # Torn /\ Whole(ctr') # Torn
  BY <1>1, <1>2, LoadFacts
<1>5. CASE l.end = "off" /\ PowerOff /\ Charge(l.cost) /\ UNCHANGED rec
  <2>1. faults' \in Nat /\ faults <= faults'
    BY <1>2, <1>4, <1>5, ChargeGrows
  <2>2. Held(rec', ctr', faults', last)
    BY <1>2, <1>3, <1>5, <2>1, HeldLonger
  <2> QED BY <1>2, <1>5, <2>1, <2>2, OffGrows
<1>6. CASE l.end = "true"
  <2>1. PICK o \in KeepPrimary : rec' = o.file /\ Charge(l.cost + o.cost) /\ Visited("rec", o.end)
    BY <1>1, <1>6
  <2>2. \/ rec' = File(rec.prim, None) /\ o.cost = 0 /\ o.end \in {"true", "off"}
        \/ rec' = rec /\ o.cost = 1 /\ o.end = "false"
    BY <2>1 DEF KeepPrimary, Outcome
  <2>3. /\ faults' \in Nat /\ faults <= faults' /\ o.end \in Ends
        /\ o.end = "false" => faults < faults'
    BY <1>2, <1>4, <2>1, <2>2, ChargeGrows DEF Ends
  <2>4. Held(rec', ctr', faults', last)
    <3>1. Held(rec', ctr', faults, last)
      BY <1>2, <1>3, <2>2, LessHeld
    <3> QED BY <1>2, <2>3, <3>1, HeldLonger
  <2>5. ASSUME o.end = "false", faults' <= 2
        PROVE  Loads(rec'.prim, ctr', last) /\ Sheltered(rec', last)
    <3>1. faults <= 1 /\ rec' = rec
      BY <1>2, <2>2, <2>3, <2>5
    <3> QED BY <1>3, <3>1 DEF Held, RecordCovers, Found, Loads, Sheltered
  <2>6. ASSUME o.end = "true", faults' <= 2
        PROVE  /\ Sheltered(rec', last)
               /\ "ctr" \notin todo => Loads(rec'.prim, ctr', last)
    <3>1. faults <= 2 /\ rec'.prim = rec.prim /\ rec'.bak = None /\ Found(rec) = rec.prim
      BY <1>2, <1>4, <1>6, <2>2, <2>3, <2>6 DEF File, Found
    <3>2. "ctr" \notin todo => Loads(rec.prim, ctr, last)
      BY <1>2, <3>1 DEF GrowInv, Ready
    <3> QED BY <1>3, <3>1, <3>2 DEF Loads, Sheltered
  <2> QED BY <1>2, <2>1, <2>3, <2>4, <2>5, <2>6, VisitedGrows
<1>7. CASE l.end = "false"
  <2>1. PICK o \in RestoreBackup : rec' = o.file /\ Charge(l.cost + o.cost) /\ Visited("rec", o.end)
    BY <1>1, <1>7
  <2>2. \/ rec' = File(rec.bak, None) /\ o.cost = 0 /\ o.end \in {"true", "off"}
        \/ rec' \in {rec, File(None, rec.bak)} /\ o.cost = 1 /\ o.end = "false"
        \/ rec' \in {rec, File(None, rec.bak)} /\ o.cost = 0 /\ o.end = "off"
    BY <2>1 DEF RestoreBackup, Outcome
  <2>3. /\ faults' \in Nat /\ faults <= faults' /\ o.end \in Ends
        /\ rec.prim \in Record => faults < faults'
        /\ o.end = "false" => faults < faults' /\ (rec.prim \in Record => faults + 1 < faults')
    BY <1>2, <1>4, <1>7, <2>1, <2>2, ChargeGrows DEF Ends
  <2>4. Held(rec', ctr', faults', last)
    <3>1. /\ Held(rec, ctr', faults', last)
          /\ Held(File(rec.bak, None), ctr', faults', last)
          /\ Held(File(None, rec.bak), ctr', faults', last)
      BY <1>2, <1>3, <1>4, <2>3, RestoreHeld, HeldLonger
    <3> QED BY <2>2, <3>1
  <2>5. ASSUME o.end = "false", faults' <= 2
        PROVE  Loads(rec'.prim, ctr', last) /\ Sheltered(rec', last)
    <3>1. rec'.prim = rec.prim \/ rec'.prim = None
      BY <2>2, <2>5 DEF File
    <3>2. rec.prim \in Record => rec.prim.count >= last
      <4>1. faults <= 1
        BY <1>2, <2>3, <2>5
      <4> QED BY <1>3, <4>1 DEF Held, RecordCovers, Found
    <3> QED BY <3>1, <3>2, Names DEF Loads, Sheltered
  <2>6. ASSUME o.end = "true", faults' <= 2
        PROVE  /\ Sheltered(rec', last)
               /\ "ctr" \notin todo => Loads(rec'.prim, ctr', last)
    <3>1. rec'.prim = rec.bak /\ rec'.bak = None /\ Sheltered(rec', last)
      BY <2>2, <2>6 DEF File, Sheltered
    <3>2. ASSUME "ctr" \notin todo, rec.bak \in Record, ~(rec.bak.count >= last)
          PROVE  ctr'.prim \in Count /\ ctr'.prim >= last
      <4>1. CASE rec.prim \in Record
        <5>1. faults <= 1
          BY <1>2, <2>3, <2>6, <4>1
        <5>2. ctr' = ctr /\ Whole(ctr) \in Count /\ Whole(ctr) >= rec.prim.count /\ rec.prim.count >= last
          BY <1>2, <1>3, <3>2, <4>1, <5>1, Contents DEF Held, RecordCovers, Found
        <5>3. ctr.prim = Whole(ctr)
          BY <1>2, <3>2, <5>2, Names DEF GrowInv, Passed, Whole
        <5> QED BY <1>2, <4>1, <5>2, <5>3, Contents
      <4>2. CASE rec.prim \notin Record
        BY <1>2, <1>4, <1>7, <2>3, <2>6, <3>2, <4>2 DEF GrowInv, Ready, Loads, Found
      <4> QED BY <4>1, <4>2
    <3> QED BY <3>1, <3>2 DEF Loads
  <2> QED BY <1>2, <2>1, <2>3, <2>4, <2>5, <2>6, VisitedGrows
<1> QED BY <1>1, <1>4, <1>5, <1>6, <1>7 DEF Ends

LEMMA SkipBackupsGrows == ASSUME Inv, GrowInv, SkipBackups PROVE GrowInv'
<1>1. /\ pc = "recover" /\ todo # {} /\ todo' = {} /\ todo \subseteq {"rec", "ctr"} /\ TypeOK
      /\ UNCHANGED <<rec, ctr, entry, pc, count, last, above>>
      /\ entry = NoEntry /\ faults \in Nat /\ ctr.prim # Torn /\ Whole(ctr) # Torn
  BY States DEF SkipBackups, files, history, Inv, Safe, TypeOK
<1>2. faults' \in Nat /\ faults <= faults' /\ (faults' # faults => faults < faults')
  <2>1. CASE Charge(1)
    BY <1>1, <2>1, ChargeGrows
  <2>2. CASE UNCHANGED faults
    BY <1>1, <2>2
  <2> QED BY <2>1, <2>2 DEF SkipBackups
<1>3. Held(rec, ctr, faults, last)'
  BY <1>1, <1>2, HeldLonger DEF GrowInv
<1>4. FitsIn(entry, rec, ctr)' /\ Reserved' /\ Passed'
  BY <1>1 DEF FitsIn, Reserved, Passed
<1>5. ASSUME faults' <= 2 PROVE Loads(rec.prim, ctr, last) /\ Sheltered(rec, last)
  <2>0. faults <= 2 /\ Ready /\ OneCovers(rec, ctr, last)
    BY <1>1, <1>2, <1>5 DEF GrowInv, Held
  <2>1. CASE faults' # faults
    <3>1. faults <= 1
      BY <1>1, <1>2, <1>5, <2>1
    <3> QED BY <3>1 DEF GrowInv, Held, RecordCovers, Found, Loads, Sheltered
  <2>2. CASE faults' = faults
    <3>1. ("rec" \in todo => rec.bak = None) /\ ("ctr" \in todo => ctr.bak = None)
      BY <1>1, <2>2, ChargeGrows DEF SkipBackups
    <3>2. Sheltered(rec, last)
      BY <1>1, <2>0, <3>1 DEF Ready, Sheltered
    <3>3. CASE "ctr" \in todo
      BY <1>1, <2>0, <3>1, <3>2, <3>3, Names DEF OneCovers, Found, Loads, Whole
    <3>4. CASE "ctr" \notin todo
      <4>1. "rec" \in todo
        BY <1>1, <3>4
      <4> QED BY <1>1, <2>0, <3>2, <3>4, <4>1 DEF Ready, Loads, Found
    <3> QED BY <3>2, <3>3, <3>4
  <2> QED BY <2>1, <2>2
<1>6. faults' <= 2 => Ready'
  BY <1>1, <1>2, <1>5 DEF GrowInv, Ready, Asserting, Loads, Sheltered
<1> QED BY <1>3, <1>4, <1>6 DEF GrowInv

LEMMA IndexGrows == ASSUME Inv, GrowInv, Index PROVE GrowInv'
<1>1. PICK l \in Load :
         /\ ctr' = l.ctr
         /\ Charge(l.cost)
         /\ \/ /\ l.end = "true"
               /\ entry' = Entry(l.count, l.count)
               /\ pc' = "idle"
               /\ UNCHANGED <<todo, count>>
            \/ l.end = "false" /\ Finish
            \/ l.end = "off" /\ PowerOff
  BY DEF Index
<1>2. /\ pc = "recover" /\ todo = {} /\ entry = NoEntry /\ UNCHANGED <<rec, life, last, above>>
      /\ TypeOK /\ rec \in FileOf(Record) /\ ctr \in FileOf(Count) /\ ctr.prim # Torn /\ Whole(ctr) # Torn
      /\ faults \in Nat /\ last \in Int /\ last \in Count
      /\ faults <= 2 => Ready /\ Loads(rec.prim, ctr, last) /\ Sheltered(rec, last)
  BY States DEF Index, history, Inv, Safe, GrowInv, Ready
<1>3. faults' \in Nat /\ faults <= faults'
  <2>1. l.cost \in Nat
    BY <1>2, LoadCases
  <2> QED BY <1>1, <1>2, <2>1, ChargeGrows
<1>4. /\ Held(rec, ctr', faults, last)
      /\ faults <= 2 /\ rec.prim \in Record => rec.prim.count >= last \/ ctr' = ctr
  BY <1>1, <1>2, LoadHeld DEF GrowInv
<1>5. Held(rec', ctr', faults', last)
  BY <1>2, <1>3, <1>4, HeldLonger
<1>6. faults' <= 2 => faults <= 2 /\ Loads(rec'.prim, ctr', last) /\ Sheltered(rec', last)
  BY <1>2, <1>3, <1>4 DEF Loads
<1>7. CASE /\ l.end = "true" /\ entry' = Entry(l.count, l.count) /\ pc' = "idle"
           /\ UNCHANGED <<todo, count>>
  <2>1. FitsIn(Entry(l.count, l.count), rec, ctr')
    <3>1. /\ rec.prim \in Record /\ rec.prim.count \in Int /\ rec.prim.count \in Count
          /\ \/ l.count = rec.prim.count
             \/ /\ ctr' = ctr /\ ctr.prim # None /\ l.count = ctr.prim /\ ctr.prim \in Int
                /\ ctr.prim \in Count /\ Whole(ctr) = ctr.prim
      BY <1>1, <1>2, <1>7, LoadCases, Contents
    <3>2. CASE l.count = rec.prim.count
      BY <3>1, <3>2 DEF FitsIn, Entry
    <3>3. CASE /\ ctr' = ctr /\ ctr.prim # None /\ l.count = ctr.prim /\ ctr.prim \in Int
               /\ ctr.prim \in Count /\ Whole(ctr) = ctr.prim
      <4>1. Apart(ctr.prim, rec.prim.count)
        BY <3>1, <3>3 DEF GrowInv, Held, Spaced
      <4> QED BY <3>1, <3>3, <4>1 DEF FitsIn, Entry, Apart
    <3> QED BY <3>1, <3>2, <3>3
  <2>2. Held(rec, ctr, faults, last)' /\ FitsIn(entry, rec, ctr)'
    <3>1. rec' = rec /\ last' = last /\ entry' = Entry(l.count, l.count)
      BY <1>2, <1>7
    <3> QED BY <1>5, <2>1, <3>1
  <2>3. Reserved' /\ Passed'
    BY <1>7 DEF Reserved, Passed
  <2>4. faults' <= 2 => Ready'
    BY <1>2, <1>6, <1>7 DEF Ready, Asserting, Loads, Sheltered
  <2> QED BY <2>2, <2>3, <2>4 DEF GrowInv
<1>8. CASE Finish
  BY <1>2, <1>3, <1>5, <1>6, <1>8, FinishGrows DEF FitsIn
<1>9. CASE PowerOff
  BY <1>2, <1>3, <1>5, <1>9, OffGrows
<1> QED BY <1>1, <1>7, <1>8, <1>9

LEMMA CrashGrows == ASSUME Inv, GrowInv, Crash PROVE GrowInv'
<1>1. PowerOff /\ UNCHANGED <<rec, ctr, last, above, faults>> /\ faults \in Nat
  BY States DEF Crash, files, history
<1>2. Held(rec', ctr', faults', last) /\ faults' \in Nat /\ faults <= faults'
  BY <1>1 DEF GrowInv
<1> QED BY <1>1, <1>2, OffGrows

LEMMA InitGrows == Init => GrowInv
<1> SUFFICES ASSUME Init PROVE GrowInv
  OBVIOUS
<1> DEFINE legacy == [count |-> LegacyCount, floor |-> FALSE]
<1>1. legacy \in Record /\ legacy.count = LegacyCount /\ LegacyCount \in Int /\ LegacyCount >= 0
  BY CountAssumption DEF Record, Count
<1> HIDE DEF legacy
<1>2. /\ \/ rec = Empty /\ ctr = Empty
         \/ rec = File(legacy, None) /\ ctr \in {Empty, File(0, None)} /\ last = LegacyCount
      /\ entry = NoEntry /\ pc = "down" /\ todo = {} /\ above = 0 /\ faults = 0
      /\ last \in Int /\ above <= last
  BY <1>1 DEF Init, legacy
<1>3. Whole(ctr) = None \/ Whole(ctr) = 0
  BY <1>2 DEF Whole, File, Empty
<1>4. Held(rec, ctr, faults, last)
  <2>1. CASE rec = Empty
    BY <2>1, Names DEF Held, Spaced, BothCover, RecordCovers, OneCovers, Found, Empty, File
  <2>2. CASE rec = File(legacy, None) /\ last = LegacyCount
    <3>1. rec.prim = legacy /\ rec.bak = None /\ None \notin Record /\ None \notin Count
      BY <2>2, Names DEF File
    <3>2. Spaced(rec, ctr)
      BY <1>1, <1>3, <3>1 DEF Spaced, Apart
    <3> QED BY <1>1, <2>2, <3>1, <3>2 DEF Held, BothCover, RecordCovers, OneCovers, Found
  <2> QED BY <1>2, <2>1, <2>2
<1>5. FitsIn(entry, rec, ctr) /\ Reserved /\ Passed /\ Ready
  BY <1>2 DEF FitsIn, Reserved, Passed, Ready, Asserting
<1> QED BY <1>4, <1>5 DEF GrowInv

LEMMA NextGrows == Inv /\ GrowInv /\ Inv' /\ [Next]_vars => GrowInv'
<1> SUFFICES ASSUME Inv, GrowInv, Inv', [Next]_vars PROVE GrowInv'
  OBVIOUS
<1>1. CASE Next
  BY <1>1, CreateGrows, AddedGrows, WithdrawGrows, PrepareGrows, CancelGrows,
     ReserveCounterGrows, ReserveRecordGrows, PublishGrows, DeleteGrows, BootGrows,
     RecoverRecordGrows, RecoverCounterGrows, SkipBackupsGrows, IndexGrows, CrashGrows DEF Next
<1>2. CASE UNCHANGED vars
  <2>1. UNCHANGED <<rec, ctr, entry, pc, todo, count, last, above, faults>>
    BY <1>2 DEF vars
  <2>2. Held(rec, ctr, faults, last)' /\ FitsIn(entry, rec, ctr)'
    BY <2>1 DEF GrowInv
  <2>3. Reserved' /\ Passed'
    BY <2>1 DEF GrowInv, Reserved, Passed
  <2>4. faults' <= 2 => Ready'
    BY <2>1 DEF GrowInv, Ready, Asserting, Loads, Sheltered, Found
  <2> QED BY <2>2, <2>3, <2>4 DEF GrowInv
<1> QED BY <1>1, <1>2

\* What the files of a credential cover after no, one and two failed storage
\* calls, at every point of a reservation, a recovery or a deletion.
THEOREM GrowInvariance == Spec => []GrowInv
BY InitGrows, NextGrows, Invariance, PTL DEF Spec

\* As long as at most two storage calls have failed, the count of a response
\* is above those of all responses before it, however often and wherever the
\* power goes off.
THEOREM CountsGrowHolds == Spec => [](faults <= 2 => CountsGrow)
<1>1. Inv /\ GrowInv => (faults <= 2 => CountsGrow)
  BY States DEF GrowInv, Ready, CountsGrow
<1> QED BY <1>1, Invariance, GrowInvariance, PTL

\* So a device on which no more than two storage calls fail never tells a
\* count twice.
THEOREM CountsAlwaysGrow == ASSUME MaxFaults <= 2 PROVE Spec => []CountsGrow
<1>1. Inv => faults <= 2
  BY CountAssumption DEF Inv, Safe, TypeOK
<1> QED BY <1>1, Invariance, CountsGrowHolds, PTL
=============================================================================
