----------------------------- MODULE U2f_proofs -----------------------------
(***************************************************************************)
(* Proofs about U2f, for every number of keys, pairs, counts and faults.   *)
(* Control says which step follows which: the initialisation is called     *)
(* from a request or on its own, and itself calls the rebuild of the       *)
(* attestation pair, which calls its clean-up.  Files is what is on file   *)
(* at each step, Memory what u2f_data holds of it.  Costs is why two       *)
(* failures are harmless and three are not: it takes three to reach the    *)
(* writing of a new counter while the old one sits in its backup.          *)
(* Covered and Settled are the promises that depend on how many storage    *)
(* calls have failed.                                                      *)
(***************************************************************************)
EXTENDS U2f, SequenceTheorems, TLAPS

-----------------------------------------------------------------------------
(* The invariant.                                                          *)

\* The steps of a request or a reset; of the initialisation; of the rebuild
\* of the attestation pair; and of the clean-up inside it.

Outer     == {"off", "idle", "approve", "parse", "wipeKey", "wipeCount"}
Loading   == {"recover", "assets", "loadPair", "loadKey", "noKey", "newKey",
              "loadCount", "noCount", "newCount"}
Building  == {"ensure", "writeCert", "writeKey", "verify"}
Dropping  == {"dropCert", "dropKey"}
\* The steps before a device key is in memory, and those after it that lead
\* to its counter.
Unwritten == {"loadKey", "noKey", "newKey"}
Counting  == {"loadCount", "noCount", "newCount"}

Steps == Outer \cup Loading \cup Building \cup Dropping

\* Who called the initialisation: nobody, or a request not yet approved.
Asker == IF approved THEN {"idle"} ELSE {"idle", "approve"}

\* Which steps wait for the current one to return.
Control ==
    /\ pc \in Steps
    /\ pc \in Outer => then = << >>
    /\ pc \in Loading => \E x \in Asker : then = <<x>>
    /\ pc \in Building => \E x \in Asker : then = <<"loadPair", x>>
    /\ pc \in Dropping =>
         \E x \in Asker : \/ then = <<"loadPair", x>>
                          \/ \E y \in {"writeCert", "dropCert"} : then = <<y, "loadPair", x>>

\* What is on file: whole content or none; a device key that was made, and
\* under which nothing was signed before it was.
Files ==
    /\ TypeOK
    /\ \A f \in {cert, ckey, key, cnt} : Whole(f) # Torn
    /\ Whole(key) \in (1..keys) \cup {None}
    /\ \A k \in Key : k > keys => sent[k] = 0
    /\ pc = "wipeCount" => Whole(key) = None
    /\ pc = "writeKey" => pairs \in Pair

\* What is in memory: nothing until the initialisation loads it, then what is
\* on file, with the count within the high-water mark that is on file.
Memory ==
    /\ pc \in {"wipeKey", "wipeCount", "recover", "assets", "loadPair"}
              \cup Building \cup Dropping => inst = NoInst
    /\ pc \in {"idle", "approve"} /\ ~inst.ready => inst = NoInst
    /\ pc \in Unwritten => ~inst.ready /\ inst.key = None
    /\ pc \in Counting => ~inst.ready /\ inst.key # None
    /\ pc = "parse" => inst.ready
    /\ pc # "off" =>
         /\ inst.present => pc = "parse"
         /\ pc = "approve" => ~approved
         /\ pc = "parse" => inst.present = approved
         /\ inst.key # None => inst.key = Whole(key)
         /\ inst.certKey # None => Whole(cert) = inst.certKey /\ Whole(ckey) = inst.certKey
         /\ inst.ready => /\ inst.key # None
                          /\ inst.counter <= inst.high /\ Whole(cnt) \in inst.high..MaxCount

\* The counter is only in its backup.
Stranded == cnt.prim = None /\ cnt.bak # None
\* Each step past a stranded counter without restoring it is another failure.
Costs ==
    /\ Stranded /\ pc \in Loading \cup Building \cup Dropping /\ pc # "recover" => faults >= 1
    /\ Stranded /\ pc = "noCount" => faults >= 2
    /\ Stranded /\ pc = "newCount" => faults >= 3
    /\ pc = "newCount" => cnt.prim = None

\* The count on file covers what was sent under the key on file.
CountKept(kf, cf) ==
    \A k \in Key : Whole(kf) = k =>
        Whole(cf) \in sent[k]..MaxCount \/ (Whole(cf) = None /\ sent[k] = 0)

\* What holds while at most two storage calls have failed.
Covered ==
    /\ CountKept(key, cnt)
    /\ pc # "off" /\ inst.ready => sent[inst.key] <= inst.counter
    /\ CountsGrow

\* What holds while no storage call has failed: the pair that was sent stays.
Settled == \A p \in served : Whole(cert) = p /\ Whole(ckey) = p /\ pc \notin Building \cup Dropping

\* The inductive invariant.
IInv ==
       /\ Control /\ Files /\ Memory /\ Costs
       /\ PresencePerRequest /\ CertificateMatches
       /\ faults <= 2 => Covered
       /\ faults = 0 => Settled

-----------------------------------------------------------------------------
(* What the file operations leave behind.                                  *)

Ends == {"true", "false", "off"}

\* The names and numbers of the model are different things.
LEMMA Names ==
    /\ None # Torn
    /\ None \notin Nat /\ Torn \notin Nat
    /\ Count \subseteq Nat /\ Key \subseteq Nat /\ Pair \subseteq Nat
    /\ None \notin Count /\ Torn \notin Count
    /\ None \notin Key /\ Torn \notin Key
    /\ None \notin Pair /\ Torn \notin Pair
    /\ 0 \in Count
    /\ MaxCount \in Nat /\ MaxKeys \in Nat /\ MaxPairs \in Nat /\ MaxFaults \in Nat
BY U2fAssumption, PairAssumption DEF Count, Key, Pair

\* What zf_storage_write_file_atomic leaves: the new content or the old.
LEMMA WriteFacts ==
    ASSUME NEW S, None \notin S, Torn \notin S, None # Torn,
           NEW f \in FileOf(S), Whole(f) # Torn, NEW v \in S,
           NEW o \in WriteOutcome(f, v)
    PROVE  /\ o.file \in FileOf(S)
           /\ o.cost \in {0, 1}
           /\ o.end \in Ends
           /\ Whole(o.file) \in {v, Whole(f)}
           /\ Whole(o.file) # Torn
           /\ o.end = "true" => Whole(o.file) = v
           /\ o.end = "false" => Whole(o.file) = Whole(f) /\ o.cost = 1
<1>1. o \in [file : Written(f, v) \cup NotWritten(f), end : Ends, cost : {0, 1}]
  BY DEF WriteOutcome, Outcome, Written, Ends
<1>2. /\ o.end = "true" => o.file \in Written(f, v)
      /\ o.end = "false" => o.file \in NotWritten(f) /\ o.cost = 1
  BY DEF WriteOutcome, Outcome, Written, Ends
<1>3. \A g \in Written(f, v) : g \in FileOf(S) /\ Whole(g) = v
  BY DEF Written, File, Whole, FileOf
<1>4. \A g \in NotWritten(f) : g \in FileOf(S) /\ Whole(g) = Whole(f)
  BY DEF NotWritten, File, Whole, FileOf
<1> QED BY <1>1, <1>2, <1>3, <1>4

\* What a recovery leaves: the content that was there, in place unless a
\* storage call failed.
LEMMA RecoveredFacts ==
    ASSUME NEW S, None \notin S, Torn \notin S, None # Torn,
           NEW f \in FileOf(S), Whole(f) # Torn,
           NEW o \in Recovered(f)
    PROVE  /\ o.file \in FileOf(S)
           /\ o.cost \in {0, 1}
           /\ o.end \in Ends
           /\ Whole(o.file) = Whole(f)
           /\ o.end # "off" /\ o.file.prim = None /\ Whole(f) # None => o.end = "false" /\ o.cost = 1
           /\ o.end = "false" => o.cost = 1
BY DEF Recovered, RecoverOutcome, Outcome, File, Whole, FileOf, Ends

\* What a recovery and a read leave, and what was read.
LEMMA ReadFacts ==
    ASSUME NEW S, None \notin S, Torn \notin S, None # Torn,
           NEW f \in FileOf(S), Whole(f) # Torn,
           NEW o \in ReadOutcome(f)
    PROVE  /\ o.file \in FileOf(S)
           /\ o.cost \in {0, 1, 2}
           /\ o.end \in Ends
           /\ Whole(o.file) = Whole(f)
           /\ o.got \in S \cup {None}
           /\ o.got # None => o.got = Whole(f) /\ o.end = "true"
           /\ o.end # "off" /\ o.got = None /\ Whole(f) # None => o.cost >= 1
<1>1. PICK p \in Recovered(f) :
         /\ o.file = p.file /\ o.end = p.end
         /\ \/ o.got = (IF p.end = "true" THEN p.file.prim ELSE None) /\ o.cost = p.cost + 0
            \/ o.got = None /\ o.cost = p.cost + 1
  BY DEF ReadOutcome
<1>2. /\ p.file \in FileOf(S) /\ p.cost \in {0, 1} /\ p.end \in Ends
      /\ Whole(p.file) = Whole(f)
      /\ p.end # "off" /\ p.file.prim = None /\ Whole(f) # None => p.end = "false" /\ p.cost = 1
      /\ p.end = "false" => p.cost = 1
  BY RecoveredFacts
<1>3. p.file.prim \in S \cup {None} /\ (p.file.prim # None => Whole(p.file) = p.file.prim)
  BY <1>2 DEF FileOf, Whole
<1> QED BY <1>1, <1>2, <1>3 DEF Ends

\* What zf_storage_remove_atomic_file leaves: nothing new.
LEMMA RemoveFacts ==
    ASSUME NEW S, None \notin S, Torn \notin S, None # Torn,
           NEW f \in FileOf(S), Whole(f) # Torn,
           NEW o \in RemoveOutcome(f)
    PROVE  /\ o.file \in FileOf(S)
           /\ o.cost \in {0, 1}
           /\ o.end \in Ends
           /\ Whole(o.file) \in {None, Whole(f)}
           /\ Whole(o.file) # Torn
           /\ o.end = "true" => Whole(o.file) = None
           /\ o.end = "false" => o.cost = 1
BY DEF RemoveOutcome, Outcome, File, Empty, Whole, FileOf, Ends

\* The reserved high-water mark is a count that is not below its argument.
LEMMA HighWaterFacts ==
    ASSUME NEW n \in Count
    PROVE  HighWater(n) \in Count /\ n <= HighWater(n)
BY U2fAssumption DEF HighWater, Count

\* Failed storage calls are only ever added.
LEMMA ChargeFacts ==
    ASSUME TypeOK, NEW cost \in Nat, Charge(cost)
    PROVE  faults' \in 0..MaxFaults /\ faults' = faults + cost /\ faults \in Nat /\ faults' \in Nat
BY PairAssumption DEF TypeOK, Charge

-----------------------------------------------------------------------------
(* Where the running operation goes on.                                    *)

\* Two steps, and three, as what a call puts in front of the rest.
LEMMA PushOne == ASSUME NEW x, NEW y PROVE <<x>> \o <<y>> = <<x, y>>
<1> DEFINE S == {x, y}
           c == <<x>> \o <<y>>
           d == <<x, y>>
<1>1. <<x>> \in Seq(S) /\ <<y>> \in Seq(S) /\ d \in Seq(S)
  OBVIOUS
<1>2. /\ Len(<<x>>) = 1 /\ Len(<<y>>) = 1 /\ Len(d) = 2
      /\ <<x>>[1] = x /\ <<y>>[1] = y /\ d[1] = x /\ d[2] = y
  OBVIOUS
<1>3. c \in Seq(S) /\ Len(c) = 2 /\ c[1] = x /\ c[2] = y
  BY <1>1, <1>2, ConcatProperties
<1>4. Len(d) = Len(c) /\ \A i \in 1..Len(c) : c[i] = d[i]
  BY <1>2, <1>3
<1> HIDE DEF S, c, d
<1>5. c = d
  BY <1>1, <1>3, <1>4, SeqEqual
<1> QED BY <1>5 DEF c, d

\* A call in front of two waiting steps.
LEMMA PushTwo == ASSUME NEW x, NEW y, NEW z PROVE <<x>> \o <<y, z>> = <<x, y, z>>
<1> DEFINE S == {x, y, z}
           c == <<x>> \o <<y, z>>
           d == <<x, y, z>>
<1>1. <<x>> \in Seq(S) /\ <<y, z>> \in Seq(S) /\ d \in Seq(S)
  OBVIOUS
<1>2. /\ Len(<<x>>) = 1 /\ Len(<<y, z>>) = 2 /\ Len(d) = 3
      /\ <<x>>[1] = x /\ <<y, z>>[1] = y /\ <<y, z>>[2] = z
      /\ d[1] = x /\ d[2] = y /\ d[3] = z
  OBVIOUS
<1>3. c \in Seq(S) /\ Len(c) = 3 /\ c[1] = x /\ c[2] = y /\ c[3] = z
  BY <1>1, <1>2, ConcatProperties
<1>4. Len(d) = Len(c) /\ \A i \in 1..Len(c) : c[i] = d[i]
  BY <1>2, <1>3
<1> HIDE DEF S, c, d
<1>5. c = d
  BY <1>1, <1>3, <1>4, SeqEqual
<1> QED BY <1>5 DEF c, d

\* The first of two steps, and of three, and what is left.
LEMMA TakeOne == ASSUME NEW x, NEW y PROVE Head(<<x, y>>) = x /\ Tail(<<x, y>>) = <<y>>
OBVIOUS

\* The first of three waiting steps, and the rest.
LEMMA TakeTwo == ASSUME NEW x, NEW y, NEW z PROVE Head(<<x, y, z>>) = x /\ Tail(<<x, y, z>>) = <<y, z>>
OBVIOUS

\* The steps of the different operations are different.
LEMMA Disjoint ==
    /\ \A p \in Outer : p \notin Loading \cup Building \cup Dropping
    /\ \A p \in Loading : p \notin Outer \cup Building \cup Dropping
    /\ \A p \in Building : p \notin Outer \cup Loading \cup Dropping
    /\ \A p \in Dropping : p \notin Outer \cup Loading \cup Building
    /\ Steps = Outer \cup Loading \cup Building \cup Dropping
BY DEF Steps, Outer, Loading, Building, Dropping

\* A step of the initialisation is followed by another one.
LEMMA GotoLoading ==
    ASSUME Control, pc \in Loading, pc' \in Loading, UNCHANGED <<then, approved>>
    PROVE  Control'
BY Disjoint DEF Control, Asker

\* The initialisation is over: back to the request that asked for it, if any.
LEMMA ReturnLoading ==
    ASSUME Control, pc \in Loading, Return, UNCHANGED approved
    PROVE  /\ Control'
           /\ pc' \in {"idle", "approve"}
           /\ pc' = "approve" => ~approved'
<1>1. PICK x \in Asker : then = <<x>>
  BY DEF Control
<1>2. pc' = x /\ then' = << >>
  BY <1>1 DEF Return
<1>3. x \in {"idle", "approve"} /\ (x = "approve" => ~approved) /\ x \in Outer
  BY DEF Asker, Outer
<1> QED BY <1>2, <1>3, Disjoint DEF Control

\* The pair is there or could not be made: it is loaded next.
LEMMA ReturnBuilding ==
    ASSUME Control, pc \in Building, Return, UNCHANGED approved
    PROVE  Control' /\ pc' = "loadPair"
<1>1. PICK x \in Asker : then = <<"loadPair", x>>
  BY DEF Control
<1>2. pc' = "loadPair" /\ then' = <<x>>
  BY <1>1, TakeOne, Zenon DEF Return
<1>4. x \in Asker'
  BY DEF Asker
<1>3. "loadPair" \in Loading
  BY DEF Loading
<1> QED BY <1>2, <1>3, <1>4, Disjoint DEF Control

\* A clean-up returns to what called it.
LEMMA ReturnDropping ==
    ASSUME Control, pc \in Dropping, Return, UNCHANGED approved
    PROVE  Control' /\ pc' \in {"loadPair", "writeCert", "dropCert"}
<1>1. PICK x \in Asker : \/ then = <<"loadPair", x>>
                         \/ \E y \in {"writeCert", "dropCert"} : then = <<y, "loadPair", x>>
  BY DEF Control
<1>2. x \in Asker'
  BY DEF Asker
<1>3. /\ "loadPair" \in Loading
      /\ "writeCert" \in Building
      /\ "dropCert" \in Dropping
  BY DEF Loading, Building, Dropping
<1>4. CASE then = <<"loadPair", x>>
  <2>1. pc' = "loadPair" /\ then' = <<x>>
    BY <1>4, TakeOne, Zenon DEF Return
  <2> QED BY <1>2, <1>3, <2>1, Disjoint DEF Control
<1>5. ASSUME NEW y \in {"writeCert", "dropCert"}, then = <<y, "loadPair", x>>
      PROVE  Control' /\ pc' \in {"loadPair", "writeCert", "dropCert"}
  <2>1. pc' = y /\ then' = <<"loadPair", x>>
    BY <1>5, TakeTwo, Zenon DEF Return
  <2>2. pc' \in Building \cup Dropping /\ pc' \in {"loadPair", "writeCert", "dropCert"}
    BY <1>3, <2>1
  <2> QED BY <1>2, <2>1, <2>2, Disjoint DEF Control
<1> QED BY <1>1, <1>4, <1>5

\* The steps of a build, and of a clean-up, follow one another.
LEMMA GotoBuilding ==
    ASSUME Control, UNCHANGED <<then, approved>>,
           \/ pc \in Building /\ pc' \in Building \cup Dropping
           \/ pc \in Dropping /\ pc' \in Dropping
    PROVE  Control'
BY Disjoint DEF Control, Asker

\* A build starts with a clean-up, and one that fails ends with two.
LEMMA CallDropping ==
    ASSUME Control, pc \in Building, UNCHANGED approved,
           NEW y \in {"writeCert", "dropCert"}, Call(<<"dropCert", y>>)
    PROVE  Control' /\ pc' = "dropCert"
<1>1. PICK x \in Asker : then = <<"loadPair", x>>
  BY DEF Control
<1>2. pc' = "dropCert" /\ then' = <<y, "loadPair", x>>
  <2>1. Head(<<"dropCert", y>>) = "dropCert" /\ Tail(<<"dropCert", y>>) = <<y>>
    BY TakeOne, Zenon
  <2>2. <<y>> \o <<"loadPair", x>> = <<y, "loadPair", x>>
    BY PushTwo, Zenon
  <2> QED BY <1>1, <2>1, <2>2, Zenon DEF Call
<1>4. x \in Asker'
  BY DEF Asker
<1>3. "dropCert" \in Dropping
  BY DEF Dropping
<1> QED BY <1>2, <1>3, <1>4, Disjoint DEF Control

\* The pair is rebuilt in the course of the initialisation.
LEMMA CallEnsure ==
    ASSUME Control, pc = "assets", UNCHANGED approved, Call(<<"ensure", "loadPair">>)
    PROVE  Control' /\ pc' = "ensure"
<1>1. pc \in Loading /\ "ensure" \in Building
  BY DEF Loading, Building
<1>2. PICK x \in Asker : then = <<x>>
  BY <1>1 DEF Control
<1>3. pc' = "ensure" /\ then' = <<"loadPair", x>>
  BY <1>2, TakeOne, PushOne, Zenon DEF Call
<1>4. x \in Asker'
  BY DEF Asker
<1> QED BY <1>1, <1>3, <1>4, Disjoint DEF Control

\* The initialisation is called, from a request or on its own.
LEMMA CallRecover ==
    ASSUME Control, pc \in Outer, NEW x \in {"idle", "approve"},
           Call(<<"recover", x>>), x = "approve" => ~approved'
    PROVE  Control' /\ pc' = "recover"
<1>1. then = << >> /\ "recover" \in Loading
  BY DEF Control, Loading
<1>2. pc' = "recover" /\ then' = <<x>> /\ x \in Asker'
  BY <1>1 DEF Call, Asker
<1> QED BY <1>1, <1>2, Disjoint DEF Control

-----------------------------------------------------------------------------
(* Steps that several actions end with.                                    *)

\* The parts of the invariant, and what the numbers in it are.
LEMMA Parts ==
    ASSUME IInv
    PROVE  /\ Control /\ Files /\ TypeOK /\ Memory /\ Costs
           /\ faults \in Nat /\ faults \in 0..MaxFaults
           /\ faults <= 2 => Covered /\ CountKept(key, cnt) /\ CountsGrow
           /\ cert \in FileOf(Pair) /\ ckey \in FileOf(Pair) /\ pairs \in 0..MaxPairs
           /\ Whole(cert) # Torn /\ Whole(ckey) # Torn
           /\ key \in FileOf(Key) /\ cnt \in FileOf(Count)
           /\ Whole(key) # Torn /\ Whole(cnt) # Torn
<1>1. Control /\ Files /\ TypeOK /\ Memory /\ Costs
  BY DEF IInv, Files
<1>2. faults <= 2 => Covered /\ CountKept(key, cnt) /\ CountsGrow
  BY DEF IInv, Covered
<1>3. faults \in Nat /\ faults \in 0..MaxFaults
  BY <1>1, PairAssumption DEF TypeOK
<1>4. /\ cert \in FileOf(Pair) /\ ckey \in FileOf(Pair) /\ pairs \in 0..MaxPairs
      /\ key \in FileOf(Key) /\ cnt \in FileOf(Count)
  BY <1>1 DEF TypeOK
<1>5. Whole(cert) # Torn /\ Whole(ckey) # Torn /\ Whole(key) # Torn /\ Whole(cnt) # Torn
  BY <1>1 DEF Files
<1> QED BY <1>1, <1>2, <1>3, <1>4, <1>5

\* When the power goes off, what is on file is all that matters.
LEMMA PowerOffPreserves ==
    ASSUME IInv, PowerOff, Files', UNCHANGED answers,
           faults' >= faults, faults \in Nat, faults' \in Nat,
           faults' <= 2 => CountKept(key', cnt'),
           faults' = 0 => \A p \in served : Whole(cert') = p /\ Whole(ckey') = p
    PROVE  IInv'
<1>0. pc' = "off" /\ then' = << >>
  BY DEF PowerOff
<1>1. Memory' /\ Costs'
  BY <1>0 DEF Memory, Costs, Outer, Loading, Building, Dropping, Unwritten, Counting
<1>2. Control'
  BY <1>0, Disjoint DEF Control, Outer
<1>5. PresencePerRequest' /\ CertificateMatches'
  BY DEF IInv, PresencePerRequest, CertificateMatches, answers
<1>3. faults' <= 2 => Covered'
  BY <1>0 DEF IInv, Covered, CountKept, CountsGrow, answers
<1>4. faults' = 0 => Settled'
  BY DEF Settled, answers, PowerOff, Building, Dropping
<1> QED BY <1>1, <1>2, <1>3, <1>4, <1>5 DEF IInv

\* The files, when none of them is given a new device key.
LEMMA FilesPreserved ==
    ASSUME Files,
           cert' \in FileOf(Pair), ckey' \in FileOf(Pair), pairs' \in 0..MaxPairs,
           key' \in FileOf(Key), cnt' \in FileOf(Count), UNCHANGED <<keys, sent>>,
           \A f \in {cert', ckey', cnt'} : Whole(f) # Torn,
           Whole(key') \in {None, Whole(key)},
           inst' \in Instance, req' \in Request \cup {NoReq},
           served' \subseteq Pair, faults' \in 0..MaxFaults,
           pc' = "wipeCount" => Whole(key') = None,
           pc' = "writeKey" => pairs' \in Pair
    PROVE  Files'
<1>1. TypeOK'
  BY DEF Files, TypeOK
<1>2. Whole(key') # Torn /\ Whole(key') \in (1..keys) \cup {None}
  BY U2fAssumption DEF Files
<1> QED BY <1>1, <1>2 DEF Files

\* The initialisation up to the loading of the pair: nothing is in memory.
LEMMA BlankPreserves ==
    ASSUME IInv, Control', Files', inst = NoInst, UNCHANGED <<inst, approved, answers, key>>,
           pc' \in {"assets", "loadPair"} \cup Building \cup Dropping,
           Whole(cnt') = Whole(cnt),
           cnt'.prim = None /\ cnt'.bak # None => faults' >= 1,
           faults' >= faults, faults \in Nat, faults' \in Nat,
           faults' = 0 => \A p \in served : /\ Whole(cert') = p /\ Whole(ckey') = p
                                            /\ pc' \notin Building \cup Dropping
    PROVE  IInv'
<1>1. /\ pc' \notin {"off", "idle", "approve", "parse", "wipeKey", "wipeCount", "loadKey",
                     "noKey", "newKey", "loadCount", "noCount", "newCount", "recover"}
  BY DEF Building, Dropping
<1>2. Memory'
  BY <1>1 DEF Memory, NoInst, Unwritten, Counting
<1>3. Costs'
  BY <1>1 DEF Costs, Stranded
<1>4. PresencePerRequest' /\ CertificateMatches'
  BY DEF IInv, PresencePerRequest, CertificateMatches, answers
<1>5. faults' <= 2 => Covered'
  BY <1>1, Parts DEF Covered, CountKept, CountsGrow, answers, NoInst
<1>6. faults' = 0 => Settled'
  BY DEF Settled, answers
<1> QED BY <1>2, <1>3, <1>4, <1>5, <1>6 DEF IInv

-----------------------------------------------------------------------------
(* The attestation pair.                                                   *)

Rebuilding == {"assets", "loadPair"} \cup Building \cup Dropping

\* Steps of the pair leave the device key, the counter and the instance alone.
LEMMA PairPreserves ==
    ASSUME IInv, pc \in Rebuilding, UNCHANGED <<stored, inst, req, history>>,
           cert' \in FileOf(Pair), ckey' \in FileOf(Pair), pairs' \in 0..MaxPairs,
           Whole(cert') # Torn, Whole(ckey') # Torn,
           faults' \in 0..MaxFaults, faults' >= faults,
           (Control' /\ pc' \in Rebuilding) \/ PowerOff,
           pc' = "writeKey" => pairs' \in Pair,
           faults' = 0 => \A p \in served : /\ Whole(cert') = p /\ Whole(ckey') = p
                                            /\ pc' \notin Building \cup Dropping
    PROVE  IInv'
<1>1. /\ pc \notin {"off", "wipeCount", "recover"}
      /\ pc \in Loading \cup Building \cup Dropping
  BY DEF Rebuilding, Loading, Building, Dropping
<1>2. inst = NoInst
  BY DEF IInv, Memory, Rebuilding
<1>3. Files /\ TypeOK /\ faults \in Nat /\ faults' \in Nat
  BY Parts, PairAssumption
<1>4. UNCHANGED <<key, cnt, keys, inst, req, approved, answers, sent, served>>
  BY DEF stored, history, answers
<1>5. pc' # "wipeCount"
  BY DEF Rebuilding, Building, Dropping, PowerOff
<1>6. Files'
  BY <1>3, <1>4, <1>5, FilesPreserved DEF Files, TypeOK
<1>7. cnt.prim = None /\ cnt.bak # None => faults >= 1
  BY <1>1 DEF IInv, Costs, Stranded
<1>8. CASE Control' /\ pc' \in Rebuilding
  BY <1>2, <1>3, <1>4, <1>6, <1>7, <1>8, BlankPreserves DEF Rebuilding
<1>9. CASE PowerOff
  <2>1. faults' <= 2 => CountKept(key', cnt')
    BY <1>3, <1>4, Parts
  <2> QED BY <1>3, <1>4, <1>6, <1>9, <2>1, PowerOffPreserves
<1> QED BY <1>8, <1>9

\* Both files of the pair are recovered and read.
LEMMA PairRead ==
    ASSUME Files, NEW c \in ReadOutcome(cert), NEW k \in ReadOutcome(ckey),
           cert' = c.file, ckey' = k.file, Charge(c.cost + k.cost)
    PROVE  /\ cert' \in FileOf(Pair) /\ ckey' \in FileOf(Pair)
           /\ Whole(cert') = Whole(cert) /\ Whole(ckey') = Whole(ckey)
           /\ Whole(cert') # Torn /\ Whole(ckey') # Torn
           /\ faults' \in 0..MaxFaults /\ faults' >= faults
           /\ faults \in Nat /\ faults' \in Nat
           /\ k.got \in Pair \cup {None}
           /\ Matches(c.got, k.got) => /\ k.got # None
                                       /\ k.got = Whole(cert) /\ k.got = Whole(ckey)
           /\ faults' = 0 /\ "off" \notin {c.end, k.end} =>
                /\ faults = 0
                /\ \A p \in Pair : Whole(cert) = p /\ Whole(ckey) = p => Matches(c.got, k.got)
<1>1. /\ cert \in FileOf(Pair) /\ ckey \in FileOf(Pair)
      /\ Whole(cert) # Torn /\ Whole(ckey) # Torn /\ TypeOK
  BY DEF Files, TypeOK
<1>2. /\ c.file \in FileOf(Pair) /\ c.cost \in {0, 1, 2}
      /\ Whole(c.file) = Whole(cert)
      /\ c.got # None => c.got = Whole(cert) /\ c.end = "true"
      /\ c.end # "off" /\ c.got = None /\ Whole(cert) # None => c.cost >= 1
  BY <1>1, Names, ReadFacts
<1>3. /\ k.file \in FileOf(Pair) /\ k.cost \in {0, 1, 2}
      /\ Whole(k.file) = Whole(ckey)
      /\ k.got \in Pair \cup {None}
      /\ k.got # None => k.got = Whole(ckey) /\ k.end = "true"
      /\ k.end # "off" /\ k.got = None /\ Whole(ckey) # None => k.cost >= 1
  BY <1>1, Names, ReadFacts
<1>4. c.cost + k.cost \in Nat /\ (c.cost + k.cost = 0 => c.cost = 0 /\ k.cost = 0)
  BY <1>2, <1>3
<1>5. /\ faults' \in 0..MaxFaults /\ faults' = faults + (c.cost + k.cost)
      /\ faults \in Nat /\ faults' \in Nat
  BY <1>1, <1>4, ChargeFacts
<1>6. faults' = 0 => faults = 0 /\ c.cost = 0 /\ k.cost = 0
  BY <1>2, <1>3, <1>5
<1>7. Matches(c.got, k.got) => k.got # None /\ k.got = Whole(cert) /\ k.got = Whole(ckey)
  BY <1>2, <1>3 DEF Matches
<1>8. ASSUME faults' = 0, "off" \notin {c.end, k.end}, NEW p \in Pair, Whole(cert) = p, Whole(ckey) = p
      PROVE  Matches(c.got, k.got)
  <2>1. c.cost = 0 /\ k.cost = 0 /\ c.end # "off" /\ k.end # "off" /\ p # None
    BY <1>6, <1>8, Names
  <2>2. c.got # None /\ k.got # None
    BY <1>2, <1>3, <1>8, <2>1
  <2> QED BY <1>2, <1>3, <1>8, <2>2 DEF Matches
<1> QED BY <1>1, <1>2, <1>3, <1>5, <1>6, <1>7, <1>8

\* While every registration so far carried the pair on file, nothing is rebuilt.
LEMMA SettledPair ==
    ASSUME IInv, faults = 0
    PROVE  /\ served \subseteq Pair
           /\ \A p \in served : Whole(cert) = p /\ Whole(ckey) = p /\ pc \notin Building \cup Dropping
BY Parts DEF IInv, Settled, TypeOK

\* u2f_init looks at the pair: it is there, or it is rebuilt.
LEMMA CheckAssetsPreserves == ASSUME IInv, CheckAssets PROVE IInv'
<1>1. PICK c \in ReadOutcome(cert), k \in ReadOutcome(ckey) :
         /\ cert' = c.file /\ ckey' = k.file /\ Charge(c.cost + k.cost)
         /\ IF "off" \in {c.end, k.end} THEN PowerOff
            ELSE IF Matches(c.got, k.got) THEN Goto("loadPair") ELSE Call(<<"ensure", "loadPair">>)
  BY DEF CheckAssets, CheckPair
<1>2. pc = "assets" /\ UNCHANGED <<pairs, stored, inst, req, history>>
  BY DEF CheckAssets, CheckPair
<1>3. /\ pc \in Rebuilding /\ pc \in Loading /\ "ensure" \in Rebuilding /\ "loadPair" \in Rebuilding
      /\ "loadPair" \in Loading /\ "loadPair" \notin Building \cup Dropping
      /\ "off" \notin Building \cup Dropping
  BY <1>2 DEF Rebuilding, Loading, Building, Dropping
<1>4. Files /\ Control /\ pairs \in 0..MaxPairs /\ UNCHANGED approved
  BY <1>2, Parts DEF history
<1>5. (Control' /\ pc' \in Rebuilding) \/ PowerOff
  <2>1. CASE Goto("loadPair")
    BY <1>2, <1>3, <1>4, <2>1, GotoLoading DEF Goto
  <2>2. CASE Call(<<"ensure", "loadPair">>)
    BY <1>2, <1>3, <1>4, <2>2, CallEnsure
  <2> QED BY <1>1, <2>1, <2>2
<1>6. faults' = 0 => \A p \in served : /\ Whole(cert') = p /\ Whole(ckey') = p
                                       /\ pc' \notin Building \cup Dropping
  <2> SUFFICES ASSUME faults' = 0, NEW p \in served
               PROVE  Whole(cert') = p /\ Whole(ckey') = p /\ pc' \notin Building \cup Dropping
    OBVIOUS
  <2>1. faults = 0
    BY <1>1, <1>4, PairRead
  <2>2. p \in Pair /\ Whole(cert) = p /\ Whole(ckey) = p
    BY <2>1, SettledPair
  <2>3. "off" \notin {c.end, k.end} => Matches(c.got, k.got)
    BY <1>1, <1>4, <2>2, PairRead
  <2>4. pc' \in {"off", "loadPair"}
    BY <1>1, <2>3 DEF PowerOff, Goto
  <2> QED BY <1>1, <1>3, <1>4, <2>2, <2>4, PairRead
<1>7. pc' # "writeKey"
  BY <1>1, <1>2, <1>4, CallEnsure DEF PowerOff, Goto
<1> QED BY <1>1, <1>2, <1>3, <1>4, <1>5, <1>6, <1>7, PairRead, PairPreserves

\* A step of a build is only ever taken when it does not matter: before the
\* first registration, or after a storage call failed.
LEMMA RebuildPreserves ==
    ASSUME IInv, pc \in Building \cup Dropping, UNCHANGED <<stored, inst, req, history>>,
           cert' \in FileOf(Pair), ckey' \in FileOf(Pair), pairs' \in 0..MaxPairs,
           Whole(cert') # Torn, Whole(ckey') # Torn,
           faults' \in 0..MaxFaults, faults' >= faults,
           (Control' /\ pc' \in Rebuilding) \/ PowerOff,
           pc' = "writeKey" => pairs' \in Pair
    PROVE  IInv'
<1>1. faults' = 0 => faults = 0
  BY Parts, PairAssumption
<1>2. faults' = 0 => \A p \in served : FALSE
  BY <1>1, SettledPair
<1> QED BY <1>2, PairPreserves DEF Rebuilding

\* zf_local_attestation_ensure_assets: the pair is there, or it is made anew.
LEMMA EnsurePreserves == ASSUME IInv, EnsureAssets, UNCHANGED <<stored, inst, req, history>> PROVE IInv'
<1>1. PICK c \in ReadOutcome(cert), k \in ReadOutcome(ckey) :
         /\ cert' = c.file /\ ckey' = k.file /\ Charge(c.cost + k.cost)
         /\ IF "off" \in {c.end, k.end} THEN PowerOff
            ELSE IF Matches(c.got, k.got) THEN Return ELSE Call(<<"dropCert", "writeCert">>)
  BY DEF EnsureAssets, CheckPair
<1>2. pc = "ensure" /\ pairs' = pairs
  BY DEF EnsureAssets, CheckPair
<1>3. pc \in Building /\ "loadPair" \in Rebuilding /\ "dropCert" \in Rebuilding
  BY <1>2 DEF Rebuilding, Building, Dropping
<1>4. Files /\ Control /\ pairs \in 0..MaxPairs /\ UNCHANGED approved
  BY <1>2, Parts DEF history
<1>5. (Control' /\ pc' \in Rebuilding) \/ PowerOff
  BY <1>1, <1>3, <1>4, ReturnBuilding, CallDropping
<1>6. pc' # "writeKey"
  BY <1>1, <1>3, <1>4, ReturnBuilding, CallDropping DEF PowerOff
<1> QED BY <1>1, <1>2, <1>3, <1>4, <1>5, <1>6, PairRead, RebuildPreserves

\* The pair just written is read back: it is there, or it is cleaned up.
LEMMA VerifyPreserves == ASSUME IInv, Verify, UNCHANGED <<stored, inst, req, history>> PROVE IInv'
<1>1. PICK c \in ReadOutcome(cert), k \in ReadOutcome(ckey) :
         /\ cert' = c.file /\ ckey' = k.file /\ Charge(c.cost + k.cost)
         /\ IF "off" \in {c.end, k.end} THEN PowerOff
            ELSE IF Matches(c.got, k.got) THEN Return ELSE Goto("dropCert")
  BY DEF Verify, CheckPair
<1>2. pc = "verify" /\ pairs' = pairs
  BY DEF Verify, CheckPair
<1>3. pc \in Building /\ "loadPair" \in Rebuilding /\ "dropCert" \in Rebuilding /\ "dropCert" \in Dropping
  BY <1>2 DEF Rebuilding, Building, Dropping
<1>4. Files /\ Control /\ pairs \in 0..MaxPairs /\ UNCHANGED approved
  BY <1>2, Parts DEF history
<1>5. (Control' /\ pc' \in Rebuilding) \/ PowerOff
  <2>1. CASE Return
    BY <1>3, <1>4, <2>1, ReturnBuilding
  <2>2. CASE Goto("dropCert")
    BY <1>3, <1>4, <2>2, GotoBuilding DEF Goto
  <2> QED BY <1>1, <2>1, <2>2
<1>6. pc' # "writeKey"
  BY <1>1, <1>3, <1>4, ReturnBuilding DEF PowerOff, Goto
<1> QED BY <1>1, <1>2, <1>3, <1>4, <1>5, <1>6, PairRead, RebuildPreserves

\* A clean-up removes the certificate first,
LEMMA DropCertPreserves == ASSUME IInv, DropCert, UNCHANGED <<stored, inst, req, history>> PROVE IInv'
<1>1. PICK o \in RemoveOutcome(cert) :
         /\ cert' = o.file /\ Charge(o.cost)
         /\ \/ o.end = "true" /\ Goto("dropKey")
            \/ o.end = "false" /\ Return
            \/ o.end = "off" /\ PowerOff
  BY DEF DropCert
<1>2. pc = "dropCert" /\ UNCHANGED <<ckey, pairs>>
  BY DEF DropCert
<1>3. /\ pc \in Dropping /\ "dropKey" \in Dropping /\ "dropKey" \in Rebuilding
      /\ {"loadPair", "writeCert", "dropCert"} \subseteq Rebuilding
  BY <1>2 DEF Rebuilding, Building, Dropping
<1>4. /\ Files /\ TypeOK /\ Control /\ pairs \in 0..MaxPairs /\ UNCHANGED approved
      /\ cert \in FileOf(Pair) /\ ckey \in FileOf(Pair) /\ Whole(cert) # Torn /\ Whole(ckey) # Torn
  BY <1>2, Parts DEF history
<1>5. (Control' /\ pc' \in Rebuilding) \/ PowerOff
  <2>1. CASE Goto("dropKey")
    BY <1>3, <1>4, <2>1, GotoBuilding DEF Goto
  <2>2. CASE Return
    BY <1>3, <1>4, <2>2, ReturnDropping
  <2> QED BY <1>1, <2>1, <2>2
<1>6. o.file \in FileOf(Pair) /\ o.cost \in {0, 1} /\ Whole(o.file) # Torn
  BY <1>1, <1>4, Names, RemoveFacts
<1>7. faults' \in 0..MaxFaults /\ faults' >= faults
  BY <1>1, <1>4, <1>6, ChargeFacts
<1>8. pc' # "writeKey"
  BY <1>1, <1>3, <1>4, ReturnDropping DEF PowerOff, Goto
<1> QED BY <1>1, <1>2, <1>3, <1>4, <1>5, <1>6, <1>7, <1>8, RebuildPreserves

\* and then its key.
LEMMA DropKeyPreserves == ASSUME IInv, DropKey, UNCHANGED <<stored, inst, req, history>> PROVE IInv'
<1>1. PICK o \in RemoveOutcome(ckey) :
         /\ ckey' = o.file /\ Charge(o.cost)
         /\ IF o.end = "off" THEN PowerOff ELSE Return
  BY DEF DropKey
<1>2. pc = "dropKey" /\ UNCHANGED <<cert, pairs>>
  BY DEF DropKey
<1>3. pc \in Dropping /\ {"loadPair", "writeCert", "dropCert"} \subseteq Rebuilding
  BY <1>2 DEF Rebuilding, Building, Dropping
<1>4. /\ Files /\ TypeOK /\ Control /\ pairs \in 0..MaxPairs /\ UNCHANGED approved
      /\ cert \in FileOf(Pair) /\ ckey \in FileOf(Pair) /\ Whole(cert) # Torn /\ Whole(ckey) # Torn
  BY <1>2, Parts DEF history
<1>5. (Control' /\ pc' \in Rebuilding) \/ PowerOff
  BY <1>1, <1>3, <1>4, ReturnDropping
<1>6. o.file \in FileOf(Pair) /\ o.cost \in {0, 1} /\ Whole(o.file) # Torn
  BY <1>1, <1>4, Names, RemoveFacts
<1>7. faults' \in 0..MaxFaults /\ faults' >= faults
  BY <1>1, <1>4, <1>6, ChargeFacts
<1>8. pc' # "writeKey"
  BY <1>1, <1>3, <1>4, ReturnDropping DEF PowerOff
<1> QED BY <1>1, <1>2, <1>3, <1>4, <1>5, <1>6, <1>7, <1>8, RebuildPreserves

\* A build writes a new certificate,
LEMMA WriteCertPreserves == ASSUME IInv, WriteCert, UNCHANGED <<stored, inst, req, history>> PROVE IInv'
<1>1. PICK o \in WriteOutcome(cert, pairs + 1) :
         /\ cert' = o.file /\ Charge(o.cost)
         /\ \/ o.end = "true" /\ Goto("writeKey")
            \/ o.end = "false" /\ CleanUpTwice
            \/ o.end = "off" /\ PowerOff
  BY DEF WriteCert
<1>2. pc = "writeCert" /\ UNCHANGED ckey /\ pairs < MaxPairs /\ pairs' = pairs + 1
  BY DEF WriteCert
<1>3. pc \in Building /\ "writeKey" \in Building /\ {"writeKey", "dropCert"} \subseteq Rebuilding
  BY <1>2 DEF Rebuilding, Building, Dropping
<1>4. /\ Files /\ TypeOK /\ Control /\ pairs \in 0..MaxPairs /\ UNCHANGED approved
      /\ cert \in FileOf(Pair) /\ ckey \in FileOf(Pair) /\ Whole(cert) # Torn /\ Whole(ckey) # Torn
  BY <1>2, Parts DEF history
<1>5. (Control' /\ pc' \in Rebuilding) \/ PowerOff
  <2>1. CASE Goto("writeKey")
    BY <1>3, <1>4, <2>1, GotoBuilding DEF Goto
  <2>2. CASE CleanUpTwice
    BY <1>3, <1>4, <2>2, CallDropping DEF CleanUpTwice
  <2> QED BY <1>1, <2>1, <2>2
<1>6. pairs + 1 \in Pair /\ pairs' \in 0..MaxPairs
  BY <1>2, <1>4, PairAssumption DEF Pair
<1>7. o.file \in FileOf(Pair) /\ o.cost \in {0, 1} /\ Whole(o.file) # Torn
  BY <1>1, <1>4, <1>6, Names, WriteFacts
<1>8. faults' \in 0..MaxFaults /\ faults' >= faults
  BY <1>1, <1>4, <1>7, ChargeFacts
<1> QED BY <1>1, <1>2, <1>3, <1>4, <1>5, <1>6, <1>7, <1>8, RebuildPreserves

\* and then the key that belongs to it.
LEMMA WriteKeyPreserves == ASSUME IInv, WriteKey, UNCHANGED <<stored, inst, req, history>> PROVE IInv'
<1>1. PICK o \in WriteOutcome(ckey, pairs) :
         /\ ckey' = o.file /\ Charge(o.cost)
         /\ \/ o.end = "true" /\ Goto("verify")
            \/ o.end = "false" /\ CleanUpTwice
            \/ o.end = "off" /\ PowerOff
  BY DEF WriteKey
<1>2. pc = "writeKey" /\ UNCHANGED <<cert, pairs>>
  BY DEF WriteKey
<1>3. pc \in Building /\ "verify" \in Building /\ {"verify", "dropCert"} \subseteq Rebuilding
  BY <1>2 DEF Rebuilding, Building, Dropping
<1>4. /\ Files /\ TypeOK /\ Control /\ pairs \in 0..MaxPairs /\ UNCHANGED approved
      /\ cert \in FileOf(Pair) /\ ckey \in FileOf(Pair) /\ Whole(cert) # Torn /\ Whole(ckey) # Torn
  BY <1>2, Parts DEF history
<1>5. (Control' /\ pc' \in Rebuilding) \/ PowerOff
  <2>1. CASE Goto("verify")
    BY <1>3, <1>4, <2>1, GotoBuilding DEF Goto
  <2>2. CASE CleanUpTwice
    BY <1>3, <1>4, <2>2, CallDropping DEF CleanUpTwice
  <2> QED BY <1>1, <2>1, <2>2
<1>6. pairs \in Pair
  BY <1>2, <1>4 DEF Files
<1>7. o.file \in FileOf(Pair) /\ o.cost \in {0, 1} /\ Whole(o.file) # Torn
  BY <1>1, <1>4, <1>6, Names, WriteFacts
<1>8. faults' \in 0..MaxFaults /\ faults' >= faults
  BY <1>1, <1>4, <1>7, ChargeFacts
<1> QED BY <1>1, <1>2, <1>3, <1>4, <1>5, <1>6, <1>7, <1>8, RebuildPreserves

\* No new pair could be made: the build ends with its clean-up.
LEMMA GenerateFailsPreserves == ASSUME IInv, GenerateFails, UNCHANGED <<stored, inst, req, history>> PROVE IInv'
<1>1. pc = "writeCert" /\ Charge(1) /\ Goto("dropCert") /\ UNCHANGED <<cert, ckey, pairs>>
  BY DEF GenerateFails, pairFiles
<1>2. pc \in Building /\ "dropCert" \in Dropping /\ "dropCert" \in Rebuilding
  BY <1>1 DEF Rebuilding, Building, Dropping
<1>3. /\ TypeOK /\ Control /\ pairs \in 0..MaxPairs /\ UNCHANGED approved
      /\ cert \in FileOf(Pair) /\ ckey \in FileOf(Pair) /\ Whole(cert) # Torn /\ Whole(ckey) # Torn
  BY Parts DEF history
<1>4. Control' /\ pc' \in Rebuilding
  BY <1>1, <1>2, <1>3, GotoBuilding DEF Goto
<1>5. faults' \in 0..MaxFaults /\ faults' >= faults
  BY <1>1, <1>3, Parts, ChargeFacts
<1> QED BY <1>1, <1>2, <1>3, <1>4, <1>5, RebuildPreserves DEF Goto

\* Every step of the rebuild of the pair.
LEMMA RebuildAssetsPreserves == ASSUME IInv, RebuildAssets PROVE IInv'
BY EnsurePreserves, DropCertPreserves, DropKeyPreserves, WriteCertPreserves, WriteKeyPreserves,
   VerifyPreserves, GenerateFailsPreserves DEF RebuildAssets, RebuildPair

-----------------------------------------------------------------------------
(* The rest of the initialisation.                                         *)

\* A step towards the count on file keeps the invariant when the files do.
LEMMA LoadingPreserves ==
    ASSUME IInv, Control', Files', Costs', pc' \in Unwritten \cup Counting,
           inst'.ready = FALSE, inst'.present = FALSE,
           pc' \in Unwritten => inst'.key = None,
           pc' \in Counting => inst'.key # None /\ inst'.key = Whole(key'),
           inst'.certKey # None => Whole(cert') = inst'.certKey /\ Whole(ckey') = inst'.certKey,
           UNCHANGED answers, faults' >= faults, faults' \in Nat,
           faults' <= 2 => CountKept(key', cnt'),
           faults' = 0 => \A p \in served : Whole(cert') = p /\ Whole(ckey') = p
    PROVE  IInv'
<1>1. /\ pc' \notin {"off", "idle", "approve", "parse", "wipeKey", "wipeCount", "recover",
                     "assets", "loadPair"} \cup Building \cup Dropping
      /\ pc' \in Unwritten => pc' \notin Counting
  BY DEF Unwritten, Counting, Building, Dropping
<1>2. Memory'
  BY <1>1 DEF Memory
<1>3. PresencePerRequest' /\ CertificateMatches'
  BY DEF IInv, PresencePerRequest, CertificateMatches, answers
<1>4. faults' <= 2 => Covered'
  BY Parts DEF Covered, CountKept, CountsGrow, answers
<1>5. faults' = 0 => Settled'
  BY <1>1 DEF Settled, answers
<1> QED BY <1>2, <1>3, <1>4, <1>5 DEF IInv

\* An operation that ends keeps the invariant when the files and the
\* instance do.
LEMMA OuterPreserves ==
    ASSUME IInv, Control', Files', Memory', pc' \in Outer, UNCHANGED answers,
           faults' >= faults, faults' \in Nat,
           faults' <= 2 => /\ CountKept(key', cnt')
                           /\ inst'.ready => sent[inst'.key] <= inst'.counter,
           faults' = 0 => \A p \in served : Whole(cert') = p /\ Whole(ckey') = p
    PROVE  IInv'
<1>1. pc' \notin Loading \cup Building \cup Dropping
  BY Disjoint
<1>2. Costs'
  BY <1>1 DEF Costs, Loading
<1>3. PresencePerRequest' /\ CertificateMatches'
  BY DEF IInv, PresencePerRequest, CertificateMatches, answers
<1>4. faults' <= 2 => Covered'
  BY Parts DEF Covered, CountKept, CountsGrow, answers
<1>5. faults' = 0 => Settled'
  BY <1>1 DEF Settled, answers
<1> QED BY <1>2, <1>3, <1>4, <1>5 DEF IInv

\* The initialisation gives up and leaves no instance.
LEMMA InitFailsPreserves ==
    ASSUME IInv, pc \in Loading, InitFails, Files', UNCHANGED <<approved, answers>>,
           faults' >= faults, faults' \in Nat,
           faults' <= 2 => CountKept(key', cnt'),
           faults' = 0 => \A p \in served : Whole(cert') = p /\ Whole(ckey') = p
    PROVE  IInv'
<1>1. Control' /\ pc' \in {"idle", "approve"} /\ (pc' = "approve" => ~approved') /\ inst' = NoInst
  BY Parts, ReturnLoading DEF InitFails
<1>2. Memory' /\ pc' \in Outer
  BY <1>1 DEF Memory, NoInst, Building, Dropping, Unwritten, Counting, Outer
<1> QED BY <1>1, <1>2, OuterPreserves DEF NoInst

\* Everything the initialisation reads or writes after the pair is loaded.
LEMMA RecoverFilesPreserves == ASSUME IInv, RecoverFiles PROVE IInv'
<1>1. PICK k \in Recovered(key), c \in Recovered(cnt) :
         /\ key' = k.file /\ cnt' = c.file /\ Charge(k.cost + c.cost)
         /\ IF "off" \in {k.end, c.end} THEN PowerOff ELSE Goto("assets")
  BY DEF RecoverFiles, RecoverStored
<1>2. /\ pc = "recover"
      /\ UNCHANGED <<cert, ckey, pairs, keys, inst, req, approved, answers, sent, served>>
  BY DEF RecoverFiles, pairFiles, history, answers
<1>3. /\ k.file \in FileOf(Key) /\ k.cost \in {0, 1} /\ Whole(k.file) = Whole(key)
  BY <1>1, Parts, Names, RecoveredFacts
<1>4. /\ c.file \in FileOf(Count) /\ c.cost \in {0, 1} /\ Whole(c.file) = Whole(cnt)
      /\ c.end # "off" /\ c.file.prim = None /\ Whole(cnt) # None => c.cost = 1
  BY <1>1, Parts, Names, RecoveredFacts
<1>5. /\ faults \in Nat /\ faults' \in Nat /\ faults' \in 0..MaxFaults
      /\ faults' = faults + (k.cost + c.cost)
  BY <1>1, <1>3, <1>4, Parts, ChargeFacts
<1>6. faults' >= faults /\ faults' >= c.cost /\ (faults' = 0 => faults = 0)
  BY <1>3, <1>4, <1>5
<1>7. pc' \in {"off", "assets"}
  BY <1>1 DEF PowerOff, Goto
<1>8. Files'
  BY <1>1, <1>2, <1>3, <1>4, <1>5, <1>7, Parts, FilesPreserved DEF TypeOK
<1>9. faults' = 0 => \A p \in served : Whole(cert') = p /\ Whole(ckey') = p
  BY <1>2, <1>6, SettledPair
<1>10. faults' <= 2 => CountKept(key', cnt')
  BY <1>1, <1>3, <1>4, <1>5, <1>6, Parts DEF CountKept
<1>11. CASE PowerOff
  BY <1>2, <1>5, <1>6, <1>8, <1>9, <1>10, <1>11, PowerOffPreserves
<1>12. CASE "off" \notin {k.end, c.end} /\ Goto("assets")
  <2>1. Control' /\ pc' = "assets" /\ pc' \notin Building \cup Dropping
    BY <1>2, <1>12, Parts, GotoLoading DEF Goto, Loading, Building, Dropping
  <2>2. inst = NoInst
    BY <1>2, Parts DEF Memory
  <2>3. cnt'.prim = None /\ cnt'.bak # None => faults' >= 1
    BY <1>1, <1>4, <1>6, <1>12 DEF Whole
  <2>4. PresencePerRequest' /\ CertificateMatches'
    BY <1>2 DEF IInv, PresencePerRequest, CertificateMatches, answers
  <2>5. Memory'
    BY <1>2, <2>1, <2>2 DEF Memory, NoInst, Unwritten, Counting
  <2>6. Costs'
    BY <2>1, <2>3 DEF Costs, Stranded
  <2>7. faults' <= 2 => Covered'
    BY <1>2, <1>5, <1>6, <1>10, <2>2, Parts DEF Covered, CountKept, CountsGrow, answers, NoInst
  <2>8. faults' = 0 => Settled'
    BY <1>2, <1>9, <2>1 DEF Settled
  <2> QED BY <1>8, <2>1, <2>4, <2>5, <2>6, <2>7, <2>8 DEF IInv
<1> QED BY <1>1, <1>11, <1>12

\* The pair is loaded into the instance, if it is there.
LEMMA LoadPairPreserves == ASSUME IInv, LoadPair PROVE IInv'
<1>1. PICK c \in ReadOutcome(cert), k \in ReadOutcome(ckey) :
         /\ cert' = c.file /\ ckey' = k.file /\ Charge(c.cost + k.cost)
         /\ IF "off" \in {c.end, k.end} THEN PowerOff /\ UNCHANGED inst
            ELSE /\ inst' = [NoInst EXCEPT !.certKey = IF Matches(c.got, k.got) THEN k.got ELSE None]
                 /\ Goto("loadKey")
  BY DEF LoadPair
<1>2. /\ pc = "loadPair"
      /\ UNCHANGED <<pairs, key, cnt, keys, req, approved, answers, sent, served>>
  BY DEF LoadPair, stored, history, answers
<1>3. /\ cert' \in FileOf(Pair) /\ ckey' \in FileOf(Pair)
      /\ Whole(cert') = Whole(cert) /\ Whole(ckey') = Whole(ckey)
      /\ Whole(cert') # Torn /\ Whole(ckey') # Torn
      /\ faults' \in 0..MaxFaults /\ faults' >= faults
      /\ faults \in Nat /\ faults' \in Nat
      /\ k.got \in Pair \cup {None}
      /\ Matches(c.got, k.got) => k.got # None /\ k.got = Whole(cert) /\ k.got = Whole(ckey)
  BY <1>1, Parts, PairRead
<1>4. inst' \in Instance
  <2>1. inst \in Instance
    BY Parts DEF TypeOK
  <2>2. \A x \in Pair \cup {None} : [NoInst EXCEPT !.certKey = x] \in Instance
    BY Names DEF NoInst, Instance
  <2> QED BY <1>1, <1>3, <2>1, <2>2
<1>5. pc' \in {"off", "loadKey"}
  BY <1>1 DEF PowerOff, Goto
<1>6. Files'
  BY <1>1, <1>2, <1>3, <1>4, <1>5, Parts, FilesPreserved DEF TypeOK
<1>7. faults' = 0 => \A p \in served : Whole(cert') = p /\ Whole(ckey') = p
  BY <1>2, <1>3, SettledPair
<1>8. faults' <= 2 => CountKept(key', cnt')
  BY <1>2, <1>3, Parts
<1>9. CASE PowerOff
  BY <1>2, <1>3, <1>6, <1>7, <1>8, <1>9, PowerOffPreserves
<1>10. CASE /\ inst' = [NoInst EXCEPT !.certKey = IF Matches(c.got, k.got) THEN k.got ELSE None]
            /\ Goto("loadKey")
  <2>1. Control' /\ pc' = "loadKey" /\ pc' \in Unwritten /\ pc' \notin Counting
    BY <1>2, <1>10, Parts, GotoLoading DEF Goto, Loading, Unwritten, Counting
  <2>2. Costs'
    BY <1>2, <1>3, <2>1, Parts DEF Costs, Stranded, Loading
  <2>3. /\ inst'.ready = FALSE /\ inst'.present = FALSE /\ inst'.key = None
        /\ inst'.certKey # None => Whole(cert') = inst'.certKey /\ Whole(ckey') = inst'.certKey
    BY <1>3, <1>10 DEF NoInst
  <2> QED BY <1>2, <1>3, <1>6, <1>7, <1>8, <2>1, <2>2, <2>3, LoadingPreserves
<1> QED BY <1>1, <1>9, <1>10

\* What is in memory between the loading of the pair and that of the count.
LEMMA LoadingInst ==
    ASSUME IInv, pc \in Unwritten \cup Counting
    PROVE  /\ pc \in Loading /\ pc \notin {"off", "recover"}
           /\ inst \in Instance /\ inst.ready = FALSE /\ inst.present = FALSE
           /\ pc \in Unwritten => inst.key = None
           /\ pc \in Counting => inst.key # None /\ inst.key = Whole(key)
           /\ inst.certKey # None => Whole(cert) = inst.certKey /\ Whole(ckey) = inst.certKey
<1>1. pc \in Loading /\ pc \notin {"off", "recover", "parse"}
  BY DEF Unwritten, Counting, Loading
<1>2. inst \in Instance /\ inst.ready \in BOOLEAN /\ inst.present \in BOOLEAN
  BY Parts DEF TypeOK, Instance
<1> QED BY <1>1, <1>2, Parts DEF Memory

\* The device key is loaded, or was not found.
LEMMA LoadKeyPreserves == ASSUME IInv, LoadKey PROVE IInv'
<1>1. PICK o \in ReadOutcome(key) :
         /\ key' = o.file /\ Charge(o.cost)
         /\ CASE o.end = "off" -> PowerOff /\ UNCHANGED inst
              [] o.end # "off" /\ o.got # None ->
                   inst' = [inst EXCEPT !.key = o.got] /\ Goto("loadCount")
              [] OTHER -> Goto("noKey") /\ UNCHANGED inst
  BY DEF LoadKey
<1>2. /\ pc = "loadKey"
      /\ UNCHANGED <<cert, ckey, pairs, cnt, keys, req, approved, answers, sent, served>>
  BY DEF LoadKey, pairFiles, history, answers
<1>3. pc \in Unwritten /\ pc \in Loading /\ pc \notin Counting
  BY <1>2 DEF Unwritten, Counting, Loading
<1>4. /\ o.file \in FileOf(Key) /\ o.cost \in {0, 1, 2} /\ Whole(o.file) = Whole(key)
      /\ o.got \in Key \cup {None} /\ (o.got # None => o.got = Whole(key))
  BY <1>1, Parts, Names, ReadFacts
<1>5. faults \in Nat /\ faults' \in Nat /\ faults' \in 0..MaxFaults /\ faults' = faults + o.cost
  BY <1>1, <1>4, Parts, ChargeFacts
<1>6. faults' >= faults /\ (faults' = 0 => faults = 0)
  BY <1>4, <1>5
<1>7. /\ \/ PowerOff /\ UNCHANGED inst
         \/ o.got # None /\ inst' = [inst EXCEPT !.key = o.got] /\ Goto("loadCount")
         \/ Goto("noKey") /\ UNCHANGED inst
  BY <1>1
<1>8. inst' \in Instance
  BY <1>3, <1>4, <1>7, LoadingInst DEF Instance
<1>9. pc' \in {"off", "loadCount", "noKey"}
  BY <1>7 DEF PowerOff, Goto
<1>10. Files'
  BY <1>1, <1>2, <1>4, <1>5, <1>8, <1>9, Parts, FilesPreserved DEF TypeOK
<1>11. faults' = 0 => \A p \in served : Whole(cert') = p /\ Whole(ckey') = p
  BY <1>2, <1>6, SettledPair
<1>12. faults' <= 2 => CountKept(key', cnt')
  BY <1>1, <1>2, <1>4, <1>5, <1>6, Parts DEF CountKept
<1>13. CASE PowerOff
  BY <1>2, <1>5, <1>6, <1>10, <1>11, <1>12, <1>13, PowerOffPreserves
<1>14. ASSUME ~PowerOff PROVE IInv'
  <2>1. /\ Control' /\ pc' \in {"loadCount", "noKey"} /\ pc' \in Unwritten \cup Counting
    BY <1>2, <1>3, <1>7, <1>14, Parts, GotoLoading DEF Goto, Loading, Unwritten, Counting
  <2>2. Costs'
    BY <1>2, <1>6, <2>1, <1>5, Parts DEF Costs, Stranded, Loading
  <2>3. /\ inst'.ready = FALSE /\ inst'.present = FALSE
        /\ pc' \in Unwritten => inst'.key = None
        /\ pc' \in Counting => inst'.key # None /\ inst'.key = Whole(key')
        /\ inst'.certKey # None => Whole(cert') = inst'.certKey /\ Whole(ckey') = inst'.certKey
    BY <1>1, <1>2, <1>3, <1>4, <1>7, <1>14, LoadingInst DEF Goto, Unwritten, Counting, Instance
  <2> QED BY <1>2, <1>5, <1>6, <1>10, <1>11, <1>12, <2>1, <2>2, <2>3, LoadingPreserves
<1> QED BY <1>13, <1>14

\* There is no device key, or u2f_init cannot tell and gives up.
LEMMA NoKeyPreserves == ASSUME IInv, NoKey PROVE IInv'
<1>1. PICK o \in Recovered(key) :
         /\ key' = o.file /\ Charge(o.cost)
         /\ IF o.end = "off" THEN PowerOff /\ UNCHANGED inst
            ELSE IF o.file.prim # None THEN InitFails
            ELSE Goto("newKey") /\ UNCHANGED inst
  BY DEF NoKey
<1>2. /\ pc = "noKey"
      /\ UNCHANGED <<cert, ckey, pairs, cnt, keys, req, approved, answers, sent, served>>
  BY DEF NoKey, pairFiles, history, answers
<1>3. pc \in Unwritten /\ pc \in Loading /\ pc \notin Counting
  BY <1>2 DEF Unwritten, Counting, Loading
<1>4. o.file \in FileOf(Key) /\ o.cost \in {0, 1} /\ Whole(o.file) = Whole(key)
  BY <1>1, Parts, Names, RecoveredFacts
<1>5. faults \in Nat /\ faults' \in Nat /\ faults' \in 0..MaxFaults /\ faults' = faults + o.cost
  BY <1>1, <1>4, Parts, ChargeFacts
<1>6. faults' >= faults /\ (faults' = 0 => faults = 0)
  BY <1>4, <1>5
<1>7. \/ PowerOff /\ UNCHANGED inst
      \/ InitFails
      \/ Goto("newKey") /\ UNCHANGED inst
  BY <1>1
<1>8. inst' \in Instance
  <2>1. NoInst \in Instance
    BY Names DEF NoInst, Instance
  <2> QED BY <1>3, <1>7, <2>1, LoadingInst DEF InitFails
<1>9. pc' \in {"off", "idle", "approve", "newKey"}
  BY <1>2, <1>3, <1>7, Parts, ReturnLoading DEF PowerOff, Goto, InitFails
<1>10. Files'
  BY <1>1, <1>2, <1>4, <1>5, <1>8, <1>9, Parts, FilesPreserved DEF TypeOK
<1>11. faults' = 0 => \A p \in served : Whole(cert') = p /\ Whole(ckey') = p
  BY <1>2, <1>6, SettledPair
<1>12. faults' <= 2 => CountKept(key', cnt')
  BY <1>1, <1>2, <1>4, <1>5, <1>6, Parts DEF CountKept
<1>13. CASE PowerOff
  BY <1>2, <1>5, <1>6, <1>10, <1>11, <1>12, <1>13, PowerOffPreserves
<1>14. CASE InitFails
  BY <1>2, <1>3, <1>5, <1>6, <1>10, <1>11, <1>12, <1>14, InitFailsPreserves
<1>15. CASE Goto("newKey") /\ UNCHANGED inst
  <2>1. Control' /\ pc' = "newKey" /\ pc' \in Unwritten /\ pc' \notin Counting
    BY <1>2, <1>3, <1>15, Parts, GotoLoading DEF Goto, Loading, Unwritten, Counting
  <2>2. Costs'
    BY <1>2, <1>5, <1>6, <2>1, Parts DEF Costs, Stranded, Loading
  <2> QED BY <1>2, <1>3, <1>5, <1>6, <1>10, <1>11, <1>12, <1>15, <2>1, <2>2, LoadingInst, LoadingPreserves
<1> QED BY <1>7, <1>13, <1>14, <1>15

\* No response was signed with a device key that is new.
LEMMA NewKeyPreserves == ASSUME IInv, NewKey PROVE IInv'
<1>1. PICK o \in WriteOutcome(key, keys + 1) :
         /\ key' = o.file /\ Charge(o.cost)
         /\ \/ o.end = "true" /\ inst' = [inst EXCEPT !.key = keys + 1] /\ Goto("loadCount")
            \/ o.end = "false" /\ InitFails
            \/ o.end = "off" /\ PowerOff /\ UNCHANGED inst
  BY DEF NewKey
<1>2. /\ pc = "newKey" /\ keys < MaxKeys /\ keys' = keys + 1
      /\ UNCHANGED <<cert, ckey, pairs, cnt, req, approved, answers, sent, served>>
  BY DEF NewKey, pairFiles, history, answers
<1>3. pc \in Unwritten /\ pc \in Loading /\ pc \notin Counting
  BY <1>2 DEF Unwritten, Counting, Loading
<1>4. keys \in 0..MaxKeys /\ keys \in Nat /\ keys + 1 \in Key /\ keys' \in 0..MaxKeys
  BY <1>2, Parts, U2fAssumption DEF TypeOK, Key
<1>5. /\ o.file \in FileOf(Key) /\ o.cost \in {0, 1} /\ o.end \in Ends
      /\ Whole(o.file) \in {keys + 1, Whole(key)} /\ Whole(o.file) # Torn
      /\ o.end = "true" => Whole(o.file) = keys + 1
  BY <1>1, <1>4, Parts, Names, WriteFacts
<1>6. faults \in Nat /\ faults' \in Nat /\ faults' \in 0..MaxFaults /\ faults' = faults + o.cost
  BY <1>1, <1>5, Parts, ChargeFacts
<1>7. faults' >= faults /\ (faults' = 0 => faults = 0)
  BY <1>5, <1>6
<1>8. inst' \in Instance
  <2>1. NoInst \in Instance
    BY Names DEF NoInst, Instance
  <2> QED BY <1>1, <1>3, <1>4, <2>1, LoadingInst DEF InitFails, Instance
<1>9. pc' \in {"off", "idle", "approve", "loadCount"}
  BY <1>1, <1>2, <1>3, Parts, ReturnLoading DEF PowerOff, Goto, InitFails
<1>10. \A k \in Key : k > keys => sent[k] = 0
  BY Parts DEF Files
<1>11. Files'
  <2>1. TypeOK'
    BY <1>1, <1>2, <1>4, <1>5, <1>6, <1>8, Parts DEF TypeOK
  <2>2. Whole(key') \in (1..keys') \cup {None}
    <3>1. Whole(key) \in (1..keys) \cup {None}
      BY Parts DEF Files
    <3> QED BY <1>1, <1>2, <1>4, <1>5, <3>1
  <2>3. \A k \in Key : k > keys' => sent'[k] = 0
    BY <1>2, <1>4, <1>10, Names
  <2> QED BY <1>1, <1>2, <1>5, <1>9, <2>1, <2>2, <2>3, Parts DEF Files
<1>12. faults' = 0 => \A p \in served : Whole(cert') = p /\ Whole(ckey') = p
  BY <1>2, <1>7, SettledPair
<1>13. faults' <= 2 => CountKept(key', cnt')
  <2> SUFFICES ASSUME faults' <= 2, NEW k \in Key, Whole(key') = k
               PROVE  Whole(cnt) \in sent[k]..MaxCount \/ (Whole(cnt) = None /\ sent[k] = 0)
    BY <1>2 DEF CountKept
  <2>1. CASE k = keys + 1
    <3>1. sent[k] = 0
      BY <1>4, <1>10, <2>1
    <3>2. Whole(cnt) \in Count \cup {None}
      BY Parts DEF Whole, FileOf
    <3> QED BY <3>1, <3>2 DEF Count
  <2>2. CASE k # keys + 1
    <3>1. Whole(key) = k
      BY <1>1, <1>5, <2>2
    <3> QED BY <1>6, <1>7, <3>1, Parts DEF CountKept
  <2> QED BY <2>1, <2>2
<1>14. CASE o.end = "true" /\ inst' = [inst EXCEPT !.key = keys + 1] /\ Goto("loadCount")
  <2>1. Control' /\ pc' = "loadCount" /\ pc' \in Counting /\ pc' \notin Unwritten
    BY <1>2, <1>3, <1>14, Parts, GotoLoading DEF Goto, Loading, Unwritten, Counting
  <2>2. Costs'
    BY <1>2, <1>6, <1>7, <2>1, Parts DEF Costs, Stranded, Loading
  <2>3. /\ inst'.ready = FALSE /\ inst'.present = FALSE
        /\ inst'.key # None /\ inst'.key = Whole(key')
        /\ inst'.certKey = inst.certKey
    BY <1>1, <1>3, <1>4, <1>5, <1>14, Names, LoadingInst DEF Instance
  <2>4. inst'.certKey # None => Whole(cert') = inst'.certKey /\ Whole(ckey') = inst'.certKey
    BY <1>2, <1>3, <2>3, LoadingInst
  <2> QED BY <1>2, <1>6, <1>7, <1>11, <1>12, <1>13, <2>1, <2>2, <2>3, <2>4, LoadingPreserves
<1>15. CASE InitFails
  BY <1>2, <1>3, <1>6, <1>7, <1>11, <1>12, <1>13, <1>15, InitFailsPreserves
<1>16. CASE PowerOff
  BY <1>2, <1>6, <1>7, <1>11, <1>12, <1>13, <1>16, PowerOffPreserves
<1> QED BY <1>1, <1>14, <1>15, <1>16

\* The instance is ready, with the count on file.
LEMMA ReadyPreserves ==
    ASSUME IInv, pc \in Counting, NEW n \in Count, Ready(n), Files', Whole(cnt') = n,
           UNCHANGED <<cert, ckey, key, approved, answers, served, sent>>,
           faults' >= faults, faults' \in Nat,
           faults' <= 2 => CountKept(key', cnt')
    PROVE  IInv'
<1>1. Control' /\ pc' \in {"idle", "approve"} /\ (pc' = "approve" => ~approved')
  BY Parts, LoadingInst, ReturnLoading DEF Ready
<1>2. /\ inst' = [inst EXCEPT !.ready = TRUE, !.counter = n, !.high = n]
      /\ inst \in Instance
  BY LoadingInst DEF Ready
<1>3. /\ inst'.ready = TRUE /\ inst'.counter = n /\ inst'.high = n /\ inst'.key = inst.key
      /\ inst'.certKey = inst.certKey /\ inst'.present = inst.present
  BY <1>2 DEF Instance
<1>4. /\ inst.present = FALSE /\ inst.key # None /\ inst.key = Whole(key) /\ inst.key \in Key
      /\ inst.certKey # None => Whole(cert) = inst.certKey /\ Whole(ckey) = inst.certKey
  BY <1>2, LoadingInst DEF Instance
<1>5. n <= n /\ n \in n..MaxCount
  BY U2fAssumption DEF Count
<1>6. Memory' /\ pc' \in Outer
  BY <1>1, <1>3, <1>4, <1>5 DEF Memory, Building, Dropping, Unwritten, Counting, Outer
<1>7. faults' <= 2 => sent[inst'.key] <= inst'.counter
  BY <1>3, <1>4, Names DEF CountKept
<1>8. faults' = 0 => \A p \in served : Whole(cert') = p /\ Whole(ckey') = p
  BY Parts, SettledPair
<1> QED BY <1>1, <1>6, <1>7, <1>8, OuterPreserves

\* The counter is loaded: it covers what was sent under the device key.
LEMMA LoadCountPreserves == ASSUME IInv, LoadCount PROVE IInv'
<1>1. PICK o \in ReadOutcome(cnt) :
         /\ cnt' = o.file /\ Charge(o.cost)
         /\ CASE o.end = "off" -> PowerOff /\ UNCHANGED inst
              [] o.end # "off" /\ o.got # None -> Ready(o.got)
              [] OTHER -> Goto("noCount") /\ UNCHANGED inst
  BY DEF LoadCount
<1>2. /\ pc = "loadCount"
      /\ UNCHANGED <<cert, ckey, pairs, key, keys, req, approved, answers, sent, served>>
  BY DEF LoadCount, pairFiles, history, answers
<1>3. pc \in Counting /\ pc \in Loading /\ pc \notin Unwritten
  BY <1>2 DEF Unwritten, Counting, Loading
<1>4. /\ o.file \in FileOf(Count) /\ o.cost \in {0, 1, 2} /\ Whole(o.file) = Whole(cnt)
      /\ o.got \in Count \cup {None} /\ (o.got # None => o.got = Whole(cnt))
      /\ o.end # "off" /\ o.got = None /\ Whole(cnt) # None => o.cost >= 1
  BY <1>1, Parts, Names, ReadFacts
<1>5. faults \in Nat /\ faults' \in Nat /\ faults' \in 0..MaxFaults /\ faults' = faults + o.cost
  BY <1>1, <1>4, Parts, ChargeFacts
<1>6. faults' >= faults /\ (faults' = 0 => faults = 0)
  BY <1>4, <1>5
<1>7. \/ PowerOff /\ UNCHANGED inst
      \/ o.got # None /\ Ready(o.got)
      \/ o.end # "off" /\ o.got = None /\ Goto("noCount") /\ UNCHANGED inst
  BY <1>1
<1>8. inst' \in Instance
  BY <1>3, <1>4, <1>7, LoadingInst DEF Instance, Ready
<1>9. pc' \in {"off", "idle", "approve", "noCount"}
  BY <1>2, <1>3, <1>7, Parts, ReturnLoading DEF PowerOff, Goto, Ready
<1>10. Files'
  BY <1>1, <1>2, <1>4, <1>5, <1>8, <1>9, Parts, FilesPreserved DEF TypeOK
<1>11. faults' = 0 => \A p \in served : Whole(cert') = p /\ Whole(ckey') = p
  BY <1>2, <1>6, SettledPair
<1>12. faults' <= 2 => CountKept(key', cnt')
  BY <1>1, <1>2, <1>4, <1>5, <1>6, Parts DEF CountKept
<1>13. CASE PowerOff
  BY <1>2, <1>5, <1>6, <1>10, <1>11, <1>12, <1>13, PowerOffPreserves
<1>14. CASE o.got # None /\ Ready(o.got)
  BY <1>1, <1>2, <1>3, <1>4, <1>5, <1>6, <1>10, <1>12, <1>14, ReadyPreserves
<1>15. CASE o.end # "off" /\ o.got = None /\ Goto("noCount") /\ UNCHANGED inst
  <2>1. Control' /\ pc' = "noCount" /\ pc' \in Counting /\ pc' \notin Unwritten
    BY <1>2, <1>3, <1>15, Parts, GotoLoading DEF Goto, Loading, Unwritten, Counting
  <2>2. cnt'.prim = None /\ cnt'.bak # None => faults' >= 2
    <3> SUFFICES ASSUME cnt'.prim = None, cnt'.bak # None PROVE faults' >= 2
      OBVIOUS
    <3>1. Whole(cnt) # None
      BY <1>1, <1>4 DEF Whole
    <3>2. o.cost >= 1
      BY <1>4, <1>15, <3>1
    <3>3. faults = 0 => cnt.prim # None \/ cnt.bak = None
      BY <1>2, <1>3, Parts DEF Costs, Stranded
    <3>4. cnt.prim # None => o.file.prim # None
      BY <1>1, <1>2, Parts DEF ReadOutcome, Recovered, RecoverOutcome, Outcome, File, Whole, FileOf
    <3>5. cnt.prim = None /\ cnt.bak # None
      BY <1>1, <3>1, <3>4 DEF Whole
    <3>6. faults # 0
      BY <3>3, <3>5
    <3> QED BY <1>4, <1>5, <3>2, <3>6
  <2>3. Costs'
    BY <1>5, <2>1, <2>2 DEF Costs, Stranded, Loading
  <2> QED BY <1>2, <1>3, <1>5, <1>6, <1>10, <1>11, <1>12, <1>15, <2>1, <2>3, LoadingInst, LoadingPreserves
<1> QED BY <1>7, <1>13, <1>14, <1>15

\* There is no counter, or u2f_init cannot tell and gives up.
LEMMA NoCountPreserves == ASSUME IInv, NoCount PROVE IInv'
<1>1. PICK o \in Recovered(cnt) :
         /\ cnt' = o.file /\ Charge(o.cost)
         /\ IF o.end = "off" THEN PowerOff /\ UNCHANGED inst
            ELSE IF o.file.prim # None THEN InitFails
            ELSE Goto("newCount") /\ UNCHANGED inst
  BY DEF NoCount
<1>2. /\ pc = "noCount"
      /\ UNCHANGED <<cert, ckey, pairs, key, keys, req, approved, answers, sent, served>>
  BY DEF NoCount, pairFiles, history, answers
<1>3. pc \in Counting /\ pc \in Loading /\ pc \notin Unwritten
  BY <1>2 DEF Unwritten, Counting, Loading
<1>4. /\ o.file \in FileOf(Count) /\ o.cost \in {0, 1} /\ Whole(o.file) = Whole(cnt)
      /\ o.end # "off" /\ o.file.prim = None /\ Whole(cnt) # None => o.cost = 1
  BY <1>1, Parts, Names, RecoveredFacts
<1>5. faults \in Nat /\ faults' \in Nat /\ faults' \in 0..MaxFaults /\ faults' = faults + o.cost
  BY <1>1, <1>4, Parts, ChargeFacts
<1>6. faults' >= faults /\ (faults' = 0 => faults = 0)
  BY <1>4, <1>5
<1>7. \/ PowerOff /\ UNCHANGED inst
      \/ InitFails
      \/ o.end # "off" /\ o.file.prim = None /\ Goto("newCount") /\ UNCHANGED inst
  BY <1>1
<1>8. inst' \in Instance
  <2>1. NoInst \in Instance
    BY Names DEF NoInst, Instance
  <2> QED BY <1>3, <1>7, <2>1, LoadingInst DEF InitFails
<1>9. pc' \in {"off", "idle", "approve", "newCount"}
  BY <1>2, <1>3, <1>7, Parts, ReturnLoading DEF PowerOff, Goto, InitFails
<1>10. Files'
  BY <1>1, <1>2, <1>4, <1>5, <1>8, <1>9, Parts, FilesPreserved DEF TypeOK
<1>11. faults' = 0 => \A p \in served : Whole(cert') = p /\ Whole(ckey') = p
  BY <1>2, <1>6, SettledPair
<1>12. faults' <= 2 => CountKept(key', cnt')
  BY <1>1, <1>2, <1>4, <1>5, <1>6, Parts DEF CountKept
<1>13. CASE PowerOff
  BY <1>2, <1>5, <1>6, <1>10, <1>11, <1>12, <1>13, PowerOffPreserves
<1>14. CASE InitFails
  BY <1>2, <1>3, <1>5, <1>6, <1>10, <1>11, <1>12, <1>14, InitFailsPreserves
<1>15. CASE o.end # "off" /\ o.file.prim = None /\ Goto("newCount") /\ UNCHANGED inst
  <2>1. Control' /\ pc' = "newCount" /\ pc' \in Counting /\ pc' \notin Unwritten
    BY <1>2, <1>3, <1>15, Parts, GotoLoading DEF Goto, Loading, Unwritten, Counting
  <2>2. cnt'.prim = None /\ cnt'.bak # None => faults' >= 3
    <3> SUFFICES ASSUME cnt'.bak # None PROVE faults' >= 3
      OBVIOUS
    <3>1. Whole(cnt) # None
      BY <1>1, <1>4, <1>15 DEF Whole
    <3>2. o.cost = 1
      BY <1>4, <1>15, <3>1
    <3>3. cnt.prim # None => o.file.prim # None
      BY <1>1, <1>2, Parts DEF Recovered, RecoverOutcome, Outcome, File, Whole, FileOf
    <3>4. cnt.prim = None /\ cnt.bak # None
      BY <1>15, <3>1, <3>3 DEF Whole
    <3>5. faults >= 2
      BY <1>2, <3>4, Parts DEF Costs, Stranded
    <3> QED BY <1>5, <3>2, <3>5
  <2>3. Costs'
    BY <1>1, <1>5, <1>15, <2>1, <2>2 DEF Costs, Stranded, Loading
  <2> QED BY <1>2, <1>3, <1>5, <1>6, <1>10, <1>11, <1>12, <1>15, <2>1, <2>3, LoadingInst, LoadingPreserves
<1> QED BY <1>7, <1>13, <1>14, <1>15

\* A count of zero is written only where no count was used, unless three
\* storage calls have failed.
LEMMA NewCountPreserves == ASSUME IInv, NewCount PROVE IInv'
<1>1. PICK o \in WriteOutcome(cnt, 0) :
         /\ cnt' = o.file /\ Charge(o.cost)
         /\ \/ o.end = "true" /\ Ready(0)
            \/ o.end = "false" /\ InitFails
            \/ o.end = "off" /\ PowerOff /\ UNCHANGED inst
  BY DEF NewCount
<1>2. /\ pc = "newCount"
      /\ UNCHANGED <<cert, ckey, pairs, key, keys, req, approved, answers, sent, served>>
  BY DEF NewCount, pairFiles, history, answers
<1>3. pc \in Counting /\ pc \in Loading /\ pc \notin Unwritten
  BY <1>2 DEF Unwritten, Counting, Loading
<1>4. /\ o.file \in FileOf(Count) /\ o.cost \in {0, 1} /\ o.end \in Ends
      /\ Whole(o.file) \in {0, Whole(cnt)} /\ Whole(o.file) # Torn
      /\ o.end = "true" => Whole(o.file) = 0
  BY <1>1, Parts, Names, WriteFacts
<1>5. faults \in Nat /\ faults' \in Nat /\ faults' \in 0..MaxFaults /\ faults' = faults + o.cost
  BY <1>1, <1>4, Parts, ChargeFacts
<1>6. faults' >= faults /\ (faults' = 0 => faults = 0)
  BY <1>4, <1>5
<1>7. inst' \in Instance
  <2>1. NoInst \in Instance
    BY Names DEF NoInst, Instance
  <2> QED BY <1>1, <1>3, <2>1, Names, LoadingInst DEF InitFails, Ready, Instance
<1>8. pc' \in {"off", "idle", "approve"}
  BY <1>1, <1>2, <1>3, Parts, ReturnLoading DEF PowerOff, Ready, InitFails
<1>9. Files'
  BY <1>1, <1>2, <1>4, <1>5, <1>7, <1>8, Parts, FilesPreserved DEF TypeOK
<1>10. faults' = 0 => \A p \in served : Whole(cert') = p /\ Whole(ckey') = p
  BY <1>2, <1>6, SettledPair
<1>11. faults' <= 2 => CountKept(key', cnt')
  <2> SUFFICES ASSUME faults' <= 2, NEW k \in Key, Whole(key) = k
               PROVE  Whole(cnt') \in sent[k]..MaxCount \/ (Whole(cnt') = None /\ sent[k] = 0)
    BY <1>2 DEF CountKept
  <2>1. faults <= 2
    BY <1>5, <1>6
  <2>2. Whole(cnt) = None
    BY <1>2, <1>5, <2>1, Parts DEF Costs, Stranded, Whole
  <2>3. sent[k] = 0
    <3>1. sent[k] \in Nat
      BY Parts, Names DEF TypeOK
    <3>2. None \notin sent[k]..MaxCount
      BY <3>1, Names
    <3> QED BY <2>1, <2>2, <3>2, Parts DEF CountKept
  <2> QED BY <1>1, <1>4, <2>2, <2>3, Names
<1>12. CASE o.end = "true" /\ Ready(0)
  BY <1>1, <1>2, <1>3, <1>4, <1>5, <1>6, <1>9, <1>11, <1>12, Names, ReadyPreserves
<1>13. CASE InitFails
  BY <1>2, <1>3, <1>5, <1>6, <1>9, <1>10, <1>11, <1>13, InitFailsPreserves
<1>14. CASE PowerOff
  BY <1>2, <1>5, <1>6, <1>9, <1>10, <1>11, <1>14, PowerOffPreserves
<1> QED BY <1>1, <1>12, <1>13, <1>14

-----------------------------------------------------------------------------
(* Requests.                                                               *)

\* Steps that leave the files alone.
LEMMA SameFiles ==
    ASSUME IInv, UNCHANGED <<cert, ckey, pairs, key, cnt, keys, sent, served>>,
           inst' \in Instance, req' \in Request \cup {NoReq},
           faults' \in 0..MaxFaults, faults' >= faults,
           pc' \notin {"wipeCount", "writeKey"}
    PROVE  /\ Files'
           /\ faults' \in Nat
           /\ faults' <= 2 => CountKept(key', cnt')
           /\ faults' = 0 => \A p \in served : Whole(cert') = p /\ Whole(ckey') = p
<1>1. faults' \in Nat /\ faults \in Nat
  BY Parts, PairAssumption
<1>2. Files'
  BY Parts, FilesPreserved DEF TypeOK
<1>3. faults' <= 2 => CountKept(key', cnt')
  BY <1>1, Parts
<1>4. faults' = 0 => \A p \in served : Whole(cert') = p /\ Whole(ckey') = p
  BY <1>1, SettledPair
<1> QED BY <1>1, <1>2, <1>3, <1>4

\* The instance and the request have their types.
LEMMA InstFacts ==
    ASSUME IInv
    PROVE  /\ inst \in Instance /\ NoInst \in Instance
           /\ req \in Request \cup {NoReq}
           /\ faults \in 0..MaxFaults /\ faults \in Nat /\ faults >= faults
<1>1. NoInst \in Instance
  BY Names DEF NoInst, Instance
<1> QED BY <1>1, Parts DEF TypeOK

\* The initialisation is called: nothing is in memory.
LEMMA RecoverPreserves ==
    ASSUME IInv, Control', Files', pc' = "recover", inst' = NoInst, UNCHANGED answers,
           faults' >= faults, faults' \in Nat,
           faults' <= 2 => CountKept(key', cnt'),
           faults' = 0 => \A p \in served : Whole(cert') = p /\ Whole(ckey') = p
    PROVE  IInv'
<1>1. Memory'
  BY DEF Memory, NoInst, Unwritten, Counting
<1>2. Costs'
  BY DEF Costs
<1>3. PresencePerRequest' /\ CertificateMatches'
  BY DEF IInv, PresencePerRequest, CertificateMatches, answers
<1>4. faults' <= 2 => Covered'
  BY Parts DEF Covered, CountKept, CountsGrow, answers, NoInst
<1>5. faults' = 0 => Settled'
  BY DEF Settled, answers, Building, Dropping
<1> QED BY <1>1, <1>2, <1>3, <1>4, <1>5 DEF IInv

\* The application starts.
LEMMA StartPreserves == ASSUME IInv, Start PROVE IInv'
<1>1. /\ pc = "off" /\ pc' = "recover" /\ then' = <<"idle">> /\ inst' = NoInst /\ req' = NoReq
      /\ UNCHANGED <<cert, ckey, pairs, faults, key, cnt, keys, answers, sent, served>>
  BY DEF Start, pairFiles, stored, history, answers
<1>2. Control'
  BY <1>1, Disjoint DEF Control, Asker, Loading
<1>3. /\ Files' /\ faults' \in Nat /\ faults' >= faults
      /\ faults' <= 2 => CountKept(key', cnt')
      /\ faults' = 0 => \A p \in served : Whole(cert') = p /\ Whole(ckey') = p
  BY <1>1, InstFacts, SameFiles
<1> QED BY <1>1, <1>2, <1>3, RecoverPreserves

\* A request arrives.
LEMMA ReceivePreserves == ASSUME IInv, NEW r \in Request, Receive(r) PROVE IInv'
<1>1. /\ pc = "idle" /\ req' = r /\ approved' = FALSE
      /\ UNCHANGED <<cert, ckey, pairs, faults, key, cnt, keys, inst, answers, sent, served>>
  BY DEF Receive, pairFiles, stored, answers
<1>2. \/ inst.ready /\ Goto("approve")
      \/ ~inst.ready /\ Call(<<"recover", "approve">>)
  BY DEF Receive
<1>3. pc \in Outer /\ "approve" \in Outer
  BY <1>1 DEF Outer
<1>4. CASE inst.ready /\ Goto("approve")
  <2>1. pc' = "approve" /\ then' = then
    BY <1>4 DEF Goto
  <2>2. Control'
    BY <1>3, <2>1, Disjoint, Parts DEF Control
  <2>3. Memory'
    BY <1>1, <1>4, <2>1, Parts DEF Memory, Building, Dropping, Unwritten, Counting
  <2>4. /\ Files' /\ faults' \in Nat /\ faults' >= faults
        /\ faults' <= 2 => CountKept(key', cnt')
        /\ faults' = 0 => \A p \in served : Whole(cert') = p /\ Whole(ckey') = p
    BY <1>1, <2>1, InstFacts, SameFiles
  <2>5. faults' <= 2 => sent[inst'.key] <= inst'.counter
    BY <1>1, <1>4, Parts DEF Covered
  <2> QED BY <1>1, <1>3, <2>1, <2>2, <2>3, <2>4, <2>5, OuterPreserves
<1>5. CASE ~inst.ready /\ Call(<<"recover", "approve">>)
  <2>1. Control' /\ pc' = "recover"
    BY <1>1, <1>3, <1>5, Parts, CallRecover
  <2>2. inst' = NoInst
    BY <1>1, <1>5, Parts DEF Memory
  <2>3. /\ Files' /\ faults' \in Nat /\ faults' >= faults
        /\ faults' <= 2 => CountKept(key', cnt')
        /\ faults' = 0 => \A p \in served : Whole(cert') = p /\ Whole(ckey') = p
    BY <1>1, <2>1, InstFacts, SameFiles
  <2> QED BY <1>1, <2>1, <2>2, <2>3, RecoverPreserves
<1> QED BY <1>2, <1>4, <1>5

\* A wink initialises U2F if it is not.
LEMMA WinkPreserves == ASSUME IInv, Wink PROVE IInv'
<1>1. /\ pc = "idle" /\ ~inst.ready /\ Call(<<"recover", "idle">>)
      /\ UNCHANGED <<cert, ckey, pairs, faults, key, cnt, keys, inst, req, approved, answers, sent, served>>
  BY DEF Wink, pairFiles, stored, history, answers
<1>2. Control' /\ pc' = "recover"
  BY <1>1, Parts, CallRecover DEF Outer
<1>3. inst' = NoInst
  BY <1>1, Parts DEF Memory
<1>4. /\ Files' /\ faults' \in Nat /\ faults' >= faults
      /\ faults' <= 2 => CountKept(key', cnt')
      /\ faults' = 0 => \A p \in served : Whole(cert') = p /\ Whole(ckey') = p
  BY <1>1, <1>2, InstFacts, SameFiles
<1> QED BY <1>1, <1>2, <1>3, <1>4, RecoverPreserves

\* The user touches the device for the request at hand.
LEMMA ApprovePreserves == ASSUME IInv, Approve PROVE IInv'
<1>1. /\ pc = "approve" /\ inst.ready /\ inst' = [inst EXCEPT !.present = TRUE] /\ approved' = TRUE
      /\ pc' = "parse" /\ then' = then
      /\ UNCHANGED <<cert, ckey, pairs, faults, key, cnt, keys, req, answers, sent, served>>
  BY DEF Approve, Goto, pairFiles, stored, answers
<1>2. Control' /\ pc' \in Outer
  BY <1>1, Disjoint, Parts DEF Control, Outer
<1>3. /\ inst' \in Instance /\ inst'.present = TRUE /\ inst'.ready = inst.ready /\ inst'.key = inst.key
      /\ inst'.certKey = inst.certKey /\ inst'.counter = inst.counter /\ inst'.high = inst.high
  BY <1>1, InstFacts DEF Instance
<1>4. Memory'
  BY <1>1, <1>3, Parts DEF Memory, Building, Dropping, Unwritten, Counting
<1>5. /\ Files' /\ faults' \in Nat /\ faults' >= faults
      /\ faults' <= 2 => CountKept(key', cnt')
      /\ faults' = 0 => \A p \in served : Whole(cert') = p /\ Whole(ckey') = p
  BY <1>1, <1>3, InstFacts, SameFiles
<1>6. faults' <= 2 => sent[inst'.key] <= inst'.counter
  BY <1>1, <1>3, Parts DEF Covered
<1> QED BY <1>1, <1>2, <1>4, <1>5, <1>6, OuterPreserves

\* A request that needs no touch is parsed as it is.
LEMMA NeedsNonePreserves == ASSUME IInv, NeedsNone PROVE IInv'
<1>1. /\ pc = "approve" /\ inst.ready /\ pc' = "parse" /\ then' = then
      /\ UNCHANGED <<cert, ckey, pairs, faults, key, cnt, keys, inst, req, approved, answers, sent, served>>
  BY DEF NeedsNone, Goto, pairFiles, stored, history, answers
<1>2. Control' /\ pc' \in Outer
  BY <1>1, Disjoint, Parts DEF Control, Outer
<1>3. inst.present = FALSE /\ approved = FALSE
  <2>1. inst.present \in BOOLEAN
    BY InstFacts DEF Instance
  <2> QED BY <1>1, <2>1, Parts DEF Memory
<1>4. Memory'
  BY <1>1, <1>3, Parts DEF Memory, Building, Dropping, Unwritten, Counting
<1>5. /\ Files' /\ faults' \in Nat /\ faults' >= faults
      /\ faults' <= 2 => CountKept(key', cnt')
      /\ faults' = 0 => \A p \in served : Whole(cert') = p /\ Whole(ckey') = p
  BY <1>1, InstFacts, SameFiles
<1>6. faults' <= 2 => sent[inst'.key] <= inst'.counter
  BY <1>1, Parts DEF Covered
<1> QED BY <1>1, <1>2, <1>4, <1>5, <1>6, OuterPreserves

\* A request ends without a signature.
LEMMA DonePreserves ==
    ASSUME IInv, pc \in {"approve", "parse"}, pc' = "idle",
           inst' = [inst EXCEPT !.present = FALSE], req' = NoReq,
           UNCHANGED <<then, cert, ckey, pairs, key, cnt, keys, approved, answers, sent, served>>,
           faults' \in 0..MaxFaults, faults' >= faults
    PROVE  IInv'
<1>1. Control' /\ pc' \in Outer
  BY Disjoint, Parts DEF Control, Outer
<1>2. /\ inst' \in Instance /\ inst'.present = FALSE /\ inst'.ready = inst.ready /\ inst'.key = inst.key
      /\ inst'.certKey = inst.certKey /\ inst'.counter = inst.counter /\ inst'.high = inst.high
  BY InstFacts DEF Instance
<1>3. ~inst'.ready => inst' = NoInst
  <2>1. ~inst.ready => inst = NoInst
    BY Parts DEF Memory
  <2>2. [NoInst EXCEPT !.present = FALSE] = NoInst
    <3>1. NoInst.present = FALSE /\ NoInst \in Instance
      BY InstFacts DEF NoInst
    <3> QED BY <3>1 DEF Instance
  <2> QED BY <1>2, <2>1, <2>2
<1>4. Memory'
  BY <1>2, <1>3, Parts DEF Memory, Building, Dropping, Unwritten, Counting
<1>5. /\ Files' /\ faults' \in Nat
      /\ faults' <= 2 => CountKept(key', cnt')
      /\ faults' = 0 => \A p \in served : Whole(cert') = p /\ Whole(ckey') = p
  BY <1>2, InstFacts, SameFiles
<1>6. faults' <= 2 /\ inst'.ready => sent[inst'.key] <= inst'.counter
  BY <1>2, <1>5, Parts DEF Covered
<1> QED BY <1>1, <1>4, <1>5, <1>6, OuterPreserves

\* The user's touch is dropped whichever way a request ends.
LEMMA PresentDropped ==
    ASSUME IInv, NEW i \in {inst, [inst EXCEPT !.present = FALSE]}, Done(i)
    PROVE  /\ inst' = [inst EXCEPT !.present = FALSE] /\ req' = NoReq
           /\ pc' = "idle" /\ then' = then
<1>1. [[inst EXCEPT !.present = FALSE] EXCEPT !.present = FALSE] = [inst EXCEPT !.present = FALSE]
  BY InstFacts DEF Instance
<1> QED BY <1>1 DEF Done, ClearPresent

\* The user does not touch the device.
LEMMA RefusePreserves == ASSUME IInv, Refuse PROVE IInv'
<1>1. /\ pc = "approve" /\ pc' = "idle" /\ inst' = [inst EXCEPT !.present = FALSE] /\ req' = NoReq
      /\ UNCHANGED <<then, cert, ckey, pairs, faults, key, cnt, keys, approved, answers, sent, served>>
  BY DEF Refuse, pairFiles, stored, history, answers
<1> QED BY <1>1, InstFacts, DonePreserves

\* The version is answered.
LEMMA VersionPreserves == ASSUME IInv, Version PROVE IInv'
<1>1. /\ pc = "parse" /\ Done(inst)
      /\ UNCHANGED <<cert, ckey, pairs, faults, key, cnt, keys, approved, answers, sent, served>>
  BY DEF Version, pairFiles, stored, history, answers
<1> QED BY <1>1, InstFacts, PresentDropped, DonePreserves

\* There is no attestation to register with, or the registration fails.
LEMMA RegisterFailsPreserves == ASSUME IInv, RegisterFails PROVE IInv'
<1>1. /\ pc = "parse"
      /\ UNCHANGED <<cert, ckey, pairs, key, cnt, keys, approved, answers, sent, served>>
  BY DEF RegisterFails, pairFiles, stored, history, answers
<1>2. \/ Done(inst) /\ UNCHANGED faults
      \/ Done([inst EXCEPT !.present = FALSE]) /\ Charge(1)
  BY DEF RegisterFails
<1>3. faults' \in 0..MaxFaults /\ faults' >= faults
  BY <1>2, Parts, InstFacts, ChargeFacts
<1> QED BY <1>1, <1>2, <1>3, InstFacts, PresentDropped, DonePreserves

\* An authentication is refused by its checks.
LEMMA AuthenticateRefusePreserves == ASSUME IInv, AuthenticateRefuse PROVE IInv'
<1>1. /\ pc = "parse" /\ Done(inst)
      /\ UNCHANGED <<cert, ckey, pairs, faults, key, cnt, keys, approved, answers, sent, served>>
  BY DEF AuthenticateRefuse, pairFiles, stored, history, answers
<1> QED BY <1>1, InstFacts, PresentDropped, DonePreserves

\* An authentication fails to sign.
LEMMA AuthenticateFailsPreserves == ASSUME IInv, AuthenticateFails PROVE IInv'
<1>1. /\ pc = "parse" /\ Charge(1)
      /\ UNCHANGED <<cert, ckey, pairs, key, cnt, keys, approved, answers, sent, served>>
  BY DEF AuthenticateFails, pairFiles, stored, history, answers
<1>2. Done(inst) \/ Done([inst EXCEPT !.present = FALSE])
  BY DEF AuthenticateFails, Consumed
<1>3. faults' \in 0..MaxFaults /\ faults' >= faults
  BY <1>1, Parts, ChargeFacts
<1> QED BY <1>1, <1>2, <1>3, InstFacts, PresentDropped, DonePreserves

\* The certificate that is sent is the one on file, which goes with the key in
\* memory; and if no storage call failed, it is the one sent before.
LEMMA RegisterPreserves == ASSUME IInv, Register PROVE IInv'
<1>1. PICK o \in Recovered(cert) :
         /\ cert' = o.file /\ Charge(o.cost)
         /\ IF o.end = "off" THEN PowerOff /\ UNCHANGED <<inst, req, answers>>
            ELSE /\ o.file.prim # None
                 /\ Done([inst EXCEPT !.present = FALSE])
                 /\ resp' = [op |-> "register", cert |-> o.file.prim, by |-> inst.certKey,
                             flag |-> TRUE, touched |-> approved]
                 /\ served' = served \cup {o.file.prim}
                 /\ UNCHANGED sent
  BY DEF Register
<1>2. /\ pc = "parse" /\ inst.certKey # None /\ inst.present
      /\ UNCHANGED <<ckey, pairs, key, cnt, keys, approved>>
  BY DEF Register, stored
<1>3. o.file \in FileOf(Pair) /\ o.cost \in {0, 1} /\ Whole(o.file) = Whole(cert)
  BY <1>1, Parts, Names, RecoveredFacts
<1>4. faults \in Nat /\ faults' \in Nat /\ faults' \in 0..MaxFaults /\ faults' = faults + o.cost
  BY <1>1, <1>3, Parts, ChargeFacts
<1>5. faults' >= faults /\ (faults' = 0 => faults = 0)
  BY <1>3, <1>4
<1>6. Whole(cert) = inst.certKey /\ Whole(ckey) = inst.certKey /\ inst.ready /\ inst.present = approved
  BY <1>2, Parts DEF Memory
<1>7. faults' <= 2 => CountKept(key, cnt) /\ CountsGrow
  BY <1>4, <1>5, Parts
<1>8. CASE PowerOff /\ UNCHANGED <<inst, req, answers>>
  <2>1. UNCHANGED <<sent, served>> /\ pc' = "off"
    BY <1>8 DEF answers, PowerOff
  <2>2. Files'
    BY <1>1, <1>2, <1>3, <1>4, <1>8, <2>1, Parts, FilesPreserved DEF TypeOK
  <2>3. faults' <= 2 => CountKept(key', cnt')
    BY <1>2, <1>7
  <2>4. faults' = 0 => \A p \in served : Whole(cert') = p /\ Whole(ckey') = p
    BY <1>1, <1>2, <1>3, <1>5, SettledPair
  <2> QED BY <1>4, <1>5, <1>8, <2>2, <2>3, <2>4, PowerOffPreserves
<1>9. CASE /\ o.file.prim # None
           /\ Done([inst EXCEPT !.present = FALSE])
           /\ resp' = [op |-> "register", cert |-> o.file.prim, by |-> inst.certKey,
                       flag |-> TRUE, touched |-> approved]
           /\ served' = served \cup {o.file.prim}
           /\ UNCHANGED sent
  <2>1. /\ inst' = [inst EXCEPT !.present = FALSE] /\ req' = NoReq /\ pc' = "idle" /\ then' = then
    BY <1>9, PresentDropped
  <2>2. Control'
    BY <1>2, <2>1, Disjoint, Parts DEF Control, Outer
  <2>3. /\ inst' \in Instance /\ inst'.present = FALSE /\ inst'.ready = inst.ready /\ inst'.key = inst.key
        /\ inst'.certKey = inst.certKey /\ inst'.counter = inst.counter /\ inst'.high = inst.high
    BY <2>1, InstFacts DEF Instance
  <2>4. o.file.prim = inst.certKey /\ o.file.prim \in Pair
    BY <1>3, <1>6, <1>9 DEF Whole, FileOf
  <2>5. Files'
    BY <1>1, <1>2, <1>3, <1>4, <1>9, <2>1, <2>3, <2>4, Parts, FilesPreserved DEF TypeOK
  <2>6. Memory'
    BY <1>1, <1>2, <1>3, <1>6, <2>1, <2>3, Parts DEF Memory, Building, Dropping, Unwritten, Counting
  <2>7. Costs'
    BY <2>1 DEF Costs, Loading, Building, Dropping
  <2>8. PresencePerRequest' /\ CertificateMatches' /\ CountsGrow'
    BY <1>2, <1>6, <1>9, <2>4 DEF PresencePerRequest, CertificateMatches, CountsGrow
  <2>9. faults' <= 2 => Covered'
    <3> SUFFICES ASSUME faults' <= 2 PROVE Covered'
      OBVIOUS
    <3>1. CountKept(key, cnt)'
      BY <1>2, <1>7, <1>9 DEF CountKept
    <3>2. inst'.ready => sent'[inst'.key] <= inst'.counter
      BY <1>2, <1>4, <1>5, <1>9, <2>3, Parts DEF Covered
    <3> QED BY <2>8, <3>1, <3>2 DEF Covered
  <2>10. faults' = 0 => Settled'
    <3> SUFFICES ASSUME faults' = 0, NEW p \in served'
                 PROVE  Whole(cert') = p /\ Whole(ckey') = p /\ pc' \notin Building \cup Dropping
      BY DEF Settled
    <3>1. pc' \notin Building \cup Dropping
      BY <2>1 DEF Building, Dropping
    <3>2. p \in served => Whole(cert) = p /\ Whole(ckey) = p
      BY <1>5, SettledPair
    <3> QED BY <1>1, <1>2, <1>3, <1>6, <1>9, <2>4, <3>1, <3>2
  <2> QED BY <2>2, <2>5, <2>6, <2>7, <2>8, <2>9, <2>10 DEF IInv
<1> QED BY <1>1, <1>8, <1>9

\* The signature carries a count above the last one under the same key, and
\* the count on file is not below it.
LEMMA SignPreserves ==
    ASSUME IInv, Accepted, NEW h \in Count, inst.counter + 1 <= h, Whole(cnt') \in h..MaxCount,
           Sign([inst EXCEPT !.high = h]), cnt' \in FileOf(Count),
           UNCHANGED <<cert, ckey, pairs, key, keys, approved>>,
           faults' \in 0..MaxFaults, faults' >= faults
    PROVE  IInv'
<1> DEFINE n == inst.counter + 1
<1>1. /\ pc = "parse" /\ inst.counter # MaxCount /\ req \in Request \cup {NoReq} /\ inst \in Instance
      /\ req.op = "authenticate" /\ req.handle = inst.key
  BY InstFacts DEF Accepted
<1>2. /\ inst.key # None /\ inst.key = Whole(key) /\ inst.present = approved /\ inst.ready
      /\ inst.certKey # None => Whole(cert) = inst.certKey /\ Whole(ckey) = inst.certKey
  BY <1>1, Parts DEF Memory
<1>3. inst.key \in Key /\ inst.counter \in Count /\ n \in Count /\ n \in Nat
  <2>1. inst.key \in Key /\ inst.counter \in Count
    BY <1>1, <1>2 DEF Instance
  <2> QED BY <1>1, <2>1, U2fAssumption DEF Count
<1> HIDE DEF n
<1>4. /\ inst' = [inst EXCEPT !.high = h, !.present = FALSE, !.counter = n]
      /\ req' = NoReq /\ pc' = "idle" /\ then' = then
      /\ resp' = [op |-> "authenticate", key |-> inst.key, count |-> n,
                  above |-> sent[inst.key], flag |-> inst.present, touched |-> approved]
      /\ sent' = [sent EXCEPT ![inst.key] = n]
      /\ served' = served
  BY <1>1 DEF Sign, Done, ClearPresent, Consumed, Instance, n
<1>5. /\ inst' \in Instance /\ inst'.present = FALSE /\ inst'.ready = inst.ready /\ inst'.key = inst.key
      /\ inst'.certKey = inst.certKey /\ inst'.counter = n /\ inst'.high = h
  BY <1>1, <1>3, <1>4 DEF Instance
<1>6. Control'
  BY <1>1, <1>4, Disjoint, Parts DEF Control, Outer
<1>7. sent \in [Key -> Count] /\ sent' \in [Key -> Count] /\ sent'[inst.key] = n
  BY <1>3, <1>4, Parts DEF TypeOK
<1>8. Whole(cnt') # Torn
  BY Names DEF Count
<1>9. Files'
  <2>1. TypeOK'
    BY <1>4, <1>5, <1>7, Parts DEF TypeOK
  <2>2. \A k \in Key : k > keys => sent'[k] = 0
    <3>1. inst.key \in 1..keys
      BY <1>2, Parts DEF Files
    <3>2. keys \in Nat
      BY Parts, U2fAssumption DEF TypeOK
    <3>3. \A k \in Key : k > keys => k # inst.key
      BY <3>1, <3>2, Names
    <3> QED BY <1>4, <1>7, <3>3, Parts DEF Files
  <2> QED BY <1>4, <1>8, <2>1, <2>2, Parts DEF Files
<1>10. Memory'
  <2>1. n <= h
    BY DEF n
  <2> QED BY <1>2, <1>4, <1>5, <2>1 DEF Memory, Building, Dropping, Unwritten, Counting
<1>11. Costs'
  BY <1>4 DEF Costs, Loading, Building, Dropping
<1>12. PresencePerRequest' /\ CertificateMatches'
  BY <1>2, <1>4 DEF PresencePerRequest, CertificateMatches
<1>13. faults \in Nat /\ faults' \in Nat
  BY Parts, PairAssumption
<1>14. faults' <= 2 => Covered'
  <2> SUFFICES ASSUME faults' <= 2 PROVE Covered'
    OBVIOUS
  <2>1. sent[inst.key] <= inst.counter
    BY <1>1, <1>2, <1>13, Parts DEF Covered
  <2>2. n > sent[inst.key] /\ n \in n..MaxCount
    BY <1>3, <1>7, <2>1, U2fAssumption DEF n, Count
  <2>3. CountsGrow'
    BY <1>4, <2>2 DEF CountsGrow
  <2>4. CountKept(key, cnt)'
    <3> SUFFICES ASSUME NEW k \in Key, Whole(key) = k PROVE Whole(cnt') \in sent'[k]..MaxCount
      BY DEF CountKept
    <3>1. sent'[k] = n
      BY <1>2, <1>7
    <3>2. n <= h
      BY DEF n
    <3> QED BY <1>3, <3>1, <3>2, Names DEF Count
  <2> QED BY <1>3, <1>4, <1>5, <1>7, <2>3, <2>4 DEF Covered
<1>15. faults' = 0 => Settled'
  <2>1. pc' \notin Building \cup Dropping
    BY <1>4 DEF Building, Dropping
  <2> QED BY <1>4, <1>13, <2>1, SettledPair DEF Settled
<1> QED BY <1>6, <1>9, <1>10, <1>11, <1>12, <1>14, <1>15 DEF IInv

\* An authentication within the reserved counts is signed.
LEMMA AuthenticatePreserves == ASSUME IInv, Authenticate PROVE IInv'
<1>1. /\ Accepted /\ inst.counter + 1 <= inst.high /\ Sign(inst)
      /\ UNCHANGED <<cert, ckey, pairs, faults, key, cnt, keys, approved>>
  BY DEF Authenticate, pairFiles, stored
<1>2. inst \in Instance /\ inst.high \in Count /\ [inst EXCEPT !.high = inst.high] = inst
  BY InstFacts DEF Instance
<1>3. pc = "parse"
  BY <1>1 DEF Accepted
<1>4. Whole(cnt') \in inst.high..MaxCount
  BY <1>1, <1>3, Parts DEF Memory
<1>5. Sign([inst EXCEPT !.high = inst.high])
  BY <1>1, <1>2
<1> QED BY <1>1, <1>2, <1>4, <1>5, Parts, InstFacts, SignPreserves

\* An authentication past the reserved counts writes a new high-water mark first.
LEMMA AuthenticateReservePreserves == ASSUME IInv, AuthenticateReserve PROVE IInv'
<1> DEFINE n == inst.counter + 1
           h == HighWater(n)
<1>1. PICK o \in WriteOutcome(cnt, h) :
         /\ cnt' = o.file /\ Charge(o.cost)
         /\ \/ o.end = "true" /\ Sign([inst EXCEPT !.high = h])
            \/ o.end = "false" /\ Done(Consumed(inst)) /\ UNCHANGED answers
            \/ o.end = "off" /\ PowerOff /\ UNCHANGED <<inst, req, answers>>
  BY DEF AuthenticateReserve
<1>2. /\ Accepted /\ n > inst.high /\ UNCHANGED <<cert, ckey, pairs, key, keys, approved>>
  BY DEF AuthenticateReserve, pairFiles
<1>3. pc = "parse" /\ inst.counter # MaxCount /\ inst \in Instance
  BY <1>2, InstFacts DEF Accepted
<1>4. inst.counter \in Count /\ n \in Count /\ h \in Count /\ n <= h
  <2>1. inst.counter \in Count
    BY <1>3 DEF Instance
  <2>2. n \in Count
    BY <1>3, <2>1, U2fAssumption DEF Count
  <2> QED BY <2>1, <2>2, HighWaterFacts
<1> HIDE DEF h
<1>5. /\ o.file \in FileOf(Count) /\ o.cost \in {0, 1} /\ o.end \in Ends
      /\ Whole(o.file) \in {h, Whole(cnt)} /\ Whole(o.file) # Torn
      /\ o.end = "true" => Whole(o.file) = h
      /\ o.end = "false" => Whole(o.file) = Whole(cnt)
  BY <1>1, <1>4, Parts, Names, WriteFacts
<1>6. faults \in Nat /\ faults' \in Nat /\ faults' \in 0..MaxFaults /\ faults' = faults + o.cost
  BY <1>1, <1>5, Parts, ChargeFacts
<1>7. faults' >= faults /\ (faults' = 0 => faults = 0)
  BY <1>5, <1>6
<1>8. /\ inst.ready /\ inst.key # None /\ inst.key = Whole(key) /\ inst.key \in Key
      /\ Whole(cnt) \in inst.high..MaxCount
  BY <1>3, Parts DEF Memory, Instance
<1>9. CASE o.end = "true" /\ Sign([inst EXCEPT !.high = h])
  <2>1. Whole(cnt') \in h..MaxCount
    BY <1>1, <1>4, <1>5, <1>9, U2fAssumption DEF Count
  <2> QED BY <1>1, <1>2, <1>4, <1>5, <1>6, <1>7, <1>9, <2>1, SignPreserves
<1>10. faults' <= 2 => /\ sent[inst.key] <= inst.counter
                       /\ \A k \in Key : Whole(key) = k => Whole(cnt') \in sent[k]..MaxCount
  <2> SUFFICES ASSUME faults' <= 2
               PROVE  /\ sent[inst.key] <= inst.counter
                      /\ Whole(cnt') \in sent[inst.key]..MaxCount
    BY <1>8
  <2>1. sent[inst.key] <= inst.counter /\ CountKept(key, cnt) /\ sent[inst.key] \in Nat
    <3>1. faults <= 2 /\ pc # "off"
      BY <1>3, <1>6, <1>7
    <3>2. sent \in [Key -> Count]
      BY Parts DEF TypeOK
    <3>3. sent[inst.key] \in Nat
      BY <1>8, <3>2, Names
    <3> QED BY <1>8, <3>1, <3>3, Parts DEF Covered
  <2>2. Whole(cnt) \in sent[inst.key]..MaxCount
    <3>1. None \notin inst.high..MaxCount
      BY <1>3, Names DEF Instance, Count
    <3> QED BY <1>8, <2>1, <3>1 DEF CountKept
  <2>3. h \in sent[inst.key]..MaxCount
    BY <1>4, <2>1, U2fAssumption DEF Count
  <2> QED BY <1>1, <1>5, <2>1, <2>2, <2>3
<1>11. CASE o.end = "false" /\ Done(Consumed(inst)) /\ UNCHANGED answers
  <2>1. /\ inst' = [inst EXCEPT !.present = FALSE] /\ req' = NoReq /\ pc' = "idle" /\ then' = then
    BY <1>11, PresentDropped DEF Consumed
  <2>2. UNCHANGED <<sent, served>> /\ Control' /\ pc' \in Outer
    BY <1>2, <1>3, <1>11, <2>1, Disjoint, Parts DEF Control, Outer, answers
  <2>3. /\ inst' \in Instance /\ inst'.present = FALSE /\ inst'.ready = inst.ready /\ inst'.key = inst.key
        /\ inst'.certKey = inst.certKey /\ inst'.counter = inst.counter /\ inst'.high = inst.high
    BY <2>1, InstFacts DEF Instance
  <2>4. Files'
    BY <1>1, <1>2, <1>5, <1>6, <2>1, <2>2, <2>3, Parts, FilesPreserved DEF TypeOK
  <2>5. Memory'
    BY <1>1, <1>2, <1>3, <1>5, <1>8, <1>11, <2>1, <2>3, Parts DEF Memory, Building, Dropping, Unwritten, Counting
  <2>6. faults' <= 2 => CountKept(key', cnt') /\ sent[inst'.key] <= inst'.counter
    BY <1>2, <1>10, <2>3 DEF CountKept
  <2>7. faults' = 0 => \A p \in served : Whole(cert') = p /\ Whole(ckey') = p
    BY <1>2, <1>7, SettledPair
  <2> QED BY <1>6, <1>7, <1>11, <2>2, <2>4, <2>5, <2>6, <2>7, OuterPreserves
<1>12. CASE o.end = "off" /\ PowerOff /\ UNCHANGED <<inst, req, answers>>
  <2>1. UNCHANGED <<sent, served>> /\ pc' = "off"
    BY <1>12 DEF answers, PowerOff
  <2>2. Files'
    BY <1>1, <1>2, <1>5, <1>6, <1>12, <2>1, Parts, FilesPreserved DEF TypeOK
  <2>3. faults' <= 2 => CountKept(key', cnt')
    BY <1>2, <1>10 DEF CountKept
  <2>4. faults' = 0 => \A p \in served : Whole(cert') = p /\ Whole(ckey') = p
    BY <1>2, <1>7, SettledPair
  <2> QED BY <1>6, <1>7, <1>12, <2>2, <2>3, <2>4, PowerOffPreserves
<1> QED BY <1>1, <1>9, <1>11, <1>12

-----------------------------------------------------------------------------
(* Reset and power.                                                        *)

\* The power goes off, or the application is closed.
LEMMA StopPreserves == ASSUME IInv, Stop PROVE IInv'
<1>1. /\ PowerOff
      /\ UNCHANGED <<cert, ckey, pairs, faults, key, cnt, keys, inst, req, approved, answers, sent, served>>
  BY DEF Stop, pairFiles, stored, history, answers
<1>2. /\ Files' /\ faults' \in Nat /\ faults' >= faults
      /\ faults' <= 2 => CountKept(key', cnt')
      /\ faults' = 0 => \A p \in served : Whole(cert') = p /\ Whole(ckey') = p
  BY <1>1, InstFacts, SameFiles DEF PowerOff
<1> QED BY <1>1, <1>2, InstFacts, PowerOffPreserves

\* Between requests, with nothing in memory.
LEMMA BarePreserves ==
    ASSUME IInv, pc \in Outer, pc' \in {"idle", "wipeKey", "wipeCount"}, then' = then,
           inst' = NoInst, Files', UNCHANGED <<approved, answers>>,
           faults' >= faults, faults' \in Nat,
           faults' <= 2 => CountKept(key', cnt'),
           faults' = 0 => \A p \in served : Whole(cert') = p /\ Whole(ckey') = p
    PROVE  IInv'
<1>1. Control' /\ pc' \in Outer
  BY Disjoint, Parts DEF Control, Outer
<1>2. Memory'
  BY DEF Memory, NoInst, Building, Dropping, Unwritten, Counting
<1> QED BY <1>1, <1>2, OuterPreserves DEF NoInst

\* A reset frees the instance.
LEMMA ResetPreserves == ASSUME IInv, Reset PROVE IInv'
<1>1. /\ pc = "idle" /\ pc' = "wipeKey" /\ then' = then /\ inst' = NoInst
      /\ UNCHANGED <<cert, ckey, pairs, faults, key, cnt, keys, req, approved, answers, sent, served>>
  BY DEF Reset, Goto, pairFiles, stored, history, answers
<1>2. /\ Files' /\ faults' \in Nat /\ faults' >= faults
      /\ faults' <= 2 => CountKept(key', cnt')
      /\ faults' = 0 => \A p \in served : Whole(cert') = p /\ Whole(ckey') = p
  BY <1>1, InstFacts, SameFiles
<1> QED BY <1>1, <1>2, BarePreserves DEF Outer

\* The device key goes first.
LEMMA WipeKeyPreserves == ASSUME IInv, WipeKey PROVE IInv'
<1>1. PICK o \in RemoveOutcome(key) :
         /\ key' = o.file /\ Charge(o.cost)
         /\ \/ o.end = "true" /\ Goto("wipeCount")
            \/ o.end = "false" /\ Goto("idle")
            \/ o.end = "off" /\ PowerOff
  BY DEF WipeKey
<1>2. /\ pc = "wipeKey"
      /\ UNCHANGED <<cert, ckey, pairs, cnt, keys, inst, req, approved, answers, sent, served>>
  BY DEF WipeKey, pairFiles, history, answers
<1>3. /\ o.file \in FileOf(Key) /\ o.cost \in {0, 1} /\ o.end \in Ends
      /\ Whole(o.file) \in {None, Whole(key)}
      /\ o.end = "true" => Whole(o.file) = None
  BY <1>1, Parts, Names, RemoveFacts
<1>4. faults \in Nat /\ faults' \in Nat /\ faults' \in 0..MaxFaults /\ faults' = faults + o.cost
  BY <1>1, <1>3, Parts, ChargeFacts
<1>5. faults' >= faults /\ (faults' = 0 => faults = 0)
  BY <1>3, <1>4
<1>6. /\ pc' \in {"off", "idle", "wipeCount"} /\ (pc' = "wipeCount" => Whole(key') = None)
  BY <1>1, <1>3 DEF PowerOff, Goto
<1>7. inst = NoInst
  BY <1>2, Parts DEF Memory
<1>8. Files'
  BY <1>1, <1>2, <1>3, <1>4, <1>6, Parts, FilesPreserved DEF TypeOK
<1>9. faults' <= 2 => CountKept(key', cnt')
  BY <1>1, <1>2, <1>3, <1>4, <1>5, Parts, Names DEF CountKept
<1>10. faults' = 0 => \A p \in served : Whole(cert') = p /\ Whole(ckey') = p
  BY <1>2, <1>5, SettledPair
<1>11. CASE PowerOff
  BY <1>2, <1>4, <1>5, <1>8, <1>9, <1>10, <1>11, PowerOffPreserves
<1>12. CASE ~PowerOff
  <2>1. pc' \in {"idle", "wipeCount"} /\ then' = then /\ pc \in Outer
    BY <1>1, <1>2, <1>12 DEF Goto, Outer
  <2> QED BY <1>2, <1>4, <1>5, <1>7, <1>8, <1>9, <1>10, <2>1, BarePreserves
<1> QED BY <1>11, <1>12

\* The counter goes once the device key is gone.
LEMMA WipeCountPreserves == ASSUME IInv, WipeCount PROVE IInv'
<1>1. PICK o \in RemoveOutcome(cnt) :
         /\ cnt' = o.file
         /\ \/ o.end = "true" /\ Charge(o.cost) /\ Call(<<"recover", "idle">>)
            \/ o.end = "true" /\ Charge(o.cost + 1) /\ Goto("idle")
            \/ o.end = "false" /\ Charge(o.cost) /\ Goto("idle")
            \/ o.end = "off" /\ Charge(o.cost) /\ PowerOff
  BY DEF WipeCount
<1>2. /\ pc = "wipeCount"
      /\ UNCHANGED <<cert, ckey, pairs, key, keys, inst, req, approved, answers, sent, served>>
  BY DEF WipeCount, pairFiles, history, answers
<1>3. o.file \in FileOf(Count) /\ o.cost \in {0, 1} /\ Whole(o.file) # Torn
  BY <1>1, Parts, Names, RemoveFacts
<1>4. o.cost \in Nat /\ o.cost + 1 \in Nat /\ (Charge(o.cost) \/ Charge(o.cost + 1))
  BY <1>1, <1>3
<1>5. /\ faults \in Nat /\ faults' \in Nat /\ faults' \in 0..MaxFaults
      /\ faults' = faults + o.cost \/ faults' = faults + (o.cost + 1)
  BY <1>4, Parts, ChargeFacts
<1>6. faults' >= faults /\ (faults' = 0 => faults = 0)
  BY <1>3, <1>5
<1>7. pc \in Outer /\ Control
  BY <1>2, Parts DEF Outer
<1>8. \/ Control' /\ pc' = "recover"
      \/ pc' = "idle" /\ then' = then
      \/ PowerOff
  BY <1>1, <1>2, <1>7, CallRecover DEF Goto
<1>9. inst = NoInst /\ Whole(key) = None
  BY <1>2, Parts DEF Memory, Files
<1>10. Files'
  BY <1>1, <1>2, <1>3, <1>5, <1>8, <1>9, Parts, FilesPreserved DEF TypeOK, PowerOff
<1>11. CountKept(key', cnt')
  BY <1>2, <1>9, Names DEF CountKept
<1>12. faults' = 0 => \A p \in served : Whole(cert') = p /\ Whole(ckey') = p
  BY <1>2, <1>6, SettledPair
<1>13. CASE Control' /\ pc' = "recover"
  BY <1>2, <1>5, <1>6, <1>9, <1>10, <1>11, <1>12, <1>13, RecoverPreserves
<1>14. CASE pc' = "idle" /\ then' = then
  BY <1>2, <1>5, <1>6, <1>7, <1>9, <1>10, <1>11, <1>12, <1>14, BarePreserves
<1>15. CASE PowerOff
  BY <1>2, <1>5, <1>6, <1>10, <1>11, <1>12, <1>15, PowerOffPreserves
<1> QED BY <1>8, <1>13, <1>14, <1>15

-----------------------------------------------------------------------------
(* The theorems.                                                           *)

\* The invariant holds of a new device.
LEMMA InitHolds == ASSUME Init PROVE IInv
<1>1. Control
  BY Disjoint DEF Init, Control, Outer
<1>2. Empty \in FileOf(Pair) /\ Empty \in FileOf(Key) /\ Empty \in FileOf(Count) /\ Whole(Empty) = None
  BY DEF Empty, File, FileOf, Whole
<1>3. NoInst \in Instance
  BY Names DEF NoInst, Instance
<1>4. TypeOK
  BY <1>2, <1>3, Names DEF Init, TypeOK
<1>5. Files
  BY <1>2, <1>4, Names DEF Init, Files
<1>6. Memory /\ Costs
  BY DEF Init, Memory, Costs, Loading, Building, Dropping, Unwritten, Counting
<1>7. PresencePerRequest /\ CertificateMatches
  BY DEF Init, NoResp, PresencePerRequest, CertificateMatches
<1>8. Covered
  BY <1>2, Names DEF Init, Covered, CountKept, CountsGrow, NoResp
<1>9. Settled
  BY DEF Init, Settled
<1> QED BY <1>1, <1>5, <1>6, <1>7, <1>8, <1>9 DEF IInv

\* A step of something else leaves the invariant alone.
LEMMA StutterPreserves == ASSUME IInv, UNCHANGED vars PROVE IInv'
BY DEF IInv, Control, Asker, Files, TypeOK, Memory, Costs, Stranded, Covered, CountKept, Settled,
       CountsGrow, PresencePerRequest, CertificateMatches, vars, stored, history, answers

\* Every step preserves the invariant.
LEMMA NextPreserves == ASSUME IInv, [Next]_vars PROVE IInv'
<1>1. CASE Initialise
  BY <1>1, StartPreserves, RecoverFilesPreserves, CheckAssetsPreserves, RebuildAssetsPreserves,
     LoadPairPreserves, LoadKeyPreserves, NoKeyPreserves, NewKeyPreserves, LoadCountPreserves,
     NoCountPreserves, NewCountPreserves DEF Initialise
<1>2. CASE Serve
  BY <1>2, ReceivePreserves, WinkPreserves, ApprovePreserves, NeedsNonePreserves, RefusePreserves,
     VersionPreserves, RegisterPreserves, RegisterFailsPreserves, AuthenticatePreserves,
     AuthenticateReservePreserves, AuthenticateRefusePreserves, AuthenticateFailsPreserves DEF Serve
<1>3. CASE Reset \/ WipeKey \/ WipeCount \/ Stop
  BY <1>3, ResetPreserves, WipeKeyPreserves, WipeCountPreserves, StopPreserves
<1> QED BY <1>1, <1>2, <1>3, StutterPreserves DEF Next

\* The invariant holds in every state of U2F.
THEOREM Invariance == Spec => []IInv
<1>1. Init => IInv
  BY InitHolds
<1>2. IInv /\ [Next]_vars => IInv'
  BY NextPreserves
<1> QED BY <1>1, <1>2, PTL DEF Spec

\* The four files hold what their writers put there, and the instance is one
\* that u2f_init can leave behind.
THEOREM TypeCorrect == Spec => []TypeOK
<1>1. IInv => TypeOK
  BY DEF IInv, Files
<1> QED BY <1>1, Invariance, PTL

\* While no more than two storage calls have failed, every authentication
\* response carries a larger count than those before it under the same device
\* key, whatever power failures and resets lie between them: the high-water
\* mark of u2f_data_cnt_reserve covers them all.  A third failure can strand
\* the counter in its backup for the whole of u2f_init, which then starts a
\* new one at zero under the old key.
THEOREM CountsGrowHolds == Spec => [](faults <= 2 => CountsGrow)
<1>1. IInv => (faults <= 2 => CountsGrow)
  BY DEF IInv, Covered
<1> QED BY <1>1, Invariance, PTL

\* So the counts grow throughout when two failures are all there are.
THEOREM CountsAlwaysGrow == ASSUME MaxFaults <= 2 PROVE Spec => []CountsGrow
<1>1. IInv => CountsGrow
  BY Parts, PairAssumption
<1> QED BY <1>1, Invariance, PTL

\* A response says that the user was present exactly when the user approved
\* that request.
THEOREM PresencePerRequestHolds == Spec => []PresencePerRequest
<1>1. IInv => PresencePerRequest
  BY DEF IInv
<1> QED BY <1>1, Invariance, PTL

\* The certificate that a registration sends belongs to the key that signs it,
\* whichever storage calls failed before.
THEOREM CertificateMatchesHolds == Spec => []CertificateMatches
<1>1. IInv => CertificateMatches
  BY DEF IInv
<1> QED BY <1>1, Invariance, PTL

\* As long as no storage call fails, every registration carries the same
\* certificate, across power failures and resets.
THEOREM IdentityStableHolds == Spec => []IdentityStable
<1>1. IInv => IdentityStable
  BY DEF IInv, Settled, IdentityStable
<1> QED BY <1>1, Invariance, PTL
=============================================================================
