----------------------- MODULE UsbHidSession_proofs -----------------------
(***************************************************************************)
(* What holds of a CTAPHID session for every number of channels, every     *)
(* length of a message and every table: a channel in use stays assigned,   *)
(* a message is made of the reports of one channel in order, and only the  *)
(* channel of a request, or a broadcast INIT, ends the request.            *)
(*                                                                         *)
(* Everything is said of a session as a record, because a handler is an    *)
(* operator from a session to its outcomes: Good is what a session keeps,  *)
(* and each handler gets one lemma that it makes a good session of a good  *)
(* one.  The steps of the specification then only cite those.              *)
(***************************************************************************)
EXTENDS UsbHidSession, FiniteSetTheorems, TLAPS

\* The parts of Good.  The table holds no channel twice and is not too long.
Distinct(q) == \A i, j \in DOMAIN q : q[i] = q[j] => i = j

Table(t) == Distinct(t.chans) /\ Len(t.chans) <= MaxChans

\* A message is assembled or processed, never both; the generation tells how
\* far it is.
Phase(t) == /\ t.active => ~t.processing /\ t.gen = 0
            /\ t.processing => t.gen = 1

\* The channel of the message and that of the lock are assigned.
InUse(t) == /\ t.active \/ t.processing => t.cid \in Allocated(t)
            /\ t.lock # NoCid => t.lock \in Allocated(t)

\* The payload, report by report.
Parts(t) == \A i \in 1..Len(t.got) : t.got[i] = [cid |-> t.cid, part |-> i - 1]

InOrder(t) ==
    t.active \/ t.processing =>
        /\ Parts(t)
        /\ IF t.active THEN Len(t.got) < t.total /\ t.seq = Len(t.got) - 1
           ELSE Len(t.got) = t.total

\* What every handler keeps.
Good(t) == t \in Session /\ Table(t) /\ Phase(t) /\ InUse(t) /\ InOrder(t)

\* If the report p ends or cancels the request of t, it has the right to.
Mine(t, u, p) ==
    t.processing /\ (~u.processing \/ (u.cancel /\ ~t.cancel))
        => p.cid \in {t.cid, Broadcast}

\* What is shown of every outcome o of the report p.
Fair(t, o, p) == /\ Good(o.s)
                 /\ Mine(t, o.s, p)
                 /\ o.cancels => p.cid \in {t.cid, Broadcast}

-----------------------------------------------------------------------------

(* The table of channels *)

\* The table as a sequence: without its entry at i, and its channels.
Drop(q, i) == [j \in 1..(Len(q) - 1) |-> q[IF j < i THEN j ELSE j + 1]]
Elems(q) == {q[i] : i \in DOMAIN q}

\* Taking an entry out of a table without duplicates takes out its channel.
LEMMA DropFacts ==
    ASSUME NEW q \in Seq(Cid), NEW i \in DOMAIN q, Distinct(q)
    PROVE  /\ Drop(q, i) \in Seq(Cid)
           /\ Len(Drop(q, i)) = Len(q) - 1
           /\ Distinct(Drop(q, i))
           /\ Elems(Drop(q, i)) = Elems(q) \ {q[i]}
  <1>1. Len(q) \in Nat /\ DOMAIN q = 1..Len(q) /\ \A j \in 1..Len(q) : q[j] \in Cid
    OBVIOUS
  <1>2. Len(q) - 1 \in Nat /\ i \in 1..Len(q)
    BY <1>1
  <1> DEFINE n == Len(q) - 1
             r == Drop(q, i)
  <1>3. /\ r \in Seq(Cid) /\ Len(r) = n /\ DOMAIN r = 1..n
        /\ \A j \in 1..n : r[j] = q[IF j < i THEN j ELSE j + 1]
    <2>1. r = [j \in 1..n |-> q[IF j < i THEN j ELSE j + 1]]
      BY DEF Drop
    <2>2. \A j \in 1..n : (IF j < i THEN j ELSE j + 1) \in 1..Len(q)
      BY <1>1, <1>2
    <2>3. r \in [1..n -> Cid]
      BY <1>1, <2>1, <2>2, Zenon
    <2> QED
      BY <1>2, <2>1, <2>3
  <1>4. Distinct(r)
    <2> SUFFICES ASSUME NEW j \in 1..n, NEW k \in 1..n, r[j] = r[k] PROVE j = k
      BY <1>3, Zenon DEF Distinct
    <2>1. \A m \in 1..n : (IF m < i THEN m ELSE m + 1) \in DOMAIN q
      BY <1>1, <1>2
    <2>2. (IF j < i THEN j ELSE j + 1) = (IF k < i THEN k ELSE k + 1)
      BY <1>3, <2>1, Zenon DEF Distinct
    <2> QED
      BY <1>2, <2>2
  <1>5. \A j \in 1..n : r[j] \in Elems(q) \ {q[i]}
    <2> TAKE j \in 1..n
    <2>1. (IF j < i THEN j ELSE j + 1) \in DOMAIN q /\ (IF j < i THEN j ELSE j + 1) # i
      BY <1>1, <1>2
    <2> QED
      BY <1>3, <2>1, Zenon DEF Distinct, Elems
  <1>6. \A k \in DOMAIN q : k # i => \E j \in 1..n : r[j] = q[k]
    <2> SUFFICES ASSUME NEW k \in DOMAIN q, k # i PROVE \E j \in 1..n : r[j] = q[k]
      OBVIOUS
    <2> DEFINE j == IF k < i THEN k ELSE k - 1
    <2>0. k \in 1..Len(q)
      BY <1>1
    <2>1. j \in 1..n /\ (IF j < i THEN j ELSE j + 1) = k
      <3>1. CASE k < i
        BY <3>1, <2>0, <1>2
      <3>2. CASE ~(k < i)
        <4>1. k > i /\ j = k - 1
          BY <3>2, <2>0, <1>2
        <4> HIDE DEF j
        <4> QED
          BY <4>1, <2>0, <1>2
      <3> QED
        BY <3>1, <3>2
    <2> HIDE DEF j
    <2> QED
      BY <1>3, <2>1, Zenon
  <1>7. Elems(r) = Elems(q) \ {q[i]}
    <2>1. Elems(r) \subseteq Elems(q) \ {q[i]}
      BY <1>3, <1>5, Zenon DEF Elems
    <2>2. Elems(q) \ {q[i]} \subseteq Elems(r)
      <3> SUFFICES ASSUME NEW k \in DOMAIN q, q[k] # q[i] PROVE q[k] \in Elems(r)
        BY Zenon DEF Elems
      <3>1. PICK j \in 1..n : r[j] = q[k]
        BY <1>6, Zenon
      <3> QED
        BY <1>3, <3>1, Zenon DEF Elems
    <2> QED
      BY <2>1, <2>2, Zenon
  <1> QED
    BY <1>3, <1>4, <1>7

\* A channel that is not in the table can be put at its end.
LEMMA AppendFacts ==
    ASSUME NEW q \in Seq(Cid), NEW c \in Cid, Distinct(q), c \notin Elems(q)
    PROVE  /\ Append(q, c) \in Seq(Cid)
           /\ Len(Append(q, c)) = Len(q) + 1
           /\ Distinct(Append(q, c))
           /\ Elems(Append(q, c)) = Elems(q) \cup {c}
  <1> DEFINE n == Len(q)
             r == Append(q, c)
  <1>1. n \in Nat /\ DOMAIN q = 1..n
    OBVIOUS
  <1>2. /\ r \in Seq(Cid) /\ Len(r) = n + 1 /\ DOMAIN r = 1..(n + 1)
        /\ \A j \in 1..n : r[j] = q[j]
        /\ r[n + 1] = c
    OBVIOUS
  <1>3. \A j \in 1..(n + 1) : j \in 1..n \/ j = n + 1
    BY <1>1
  <1>4. n + 1 \in 1..(n + 1) /\ \A j \in 1..n : j \in 1..(n + 1)
    BY <1>1
  <1> HIDE DEF n, r
  <1>5. Distinct(r)
    BY <1>1, <1>2, <1>3, Zenon DEF Distinct, Elems
  <1>6. Elems(r) = Elems(q) \cup {c}
    <2>1. Elems(r) \subseteq Elems(q) \cup {c}
      BY <1>1, <1>2, <1>3, Zenon DEF Elems
    <2>2. Elems(q) \cup {c} \subseteq Elems(r)
      BY <1>1, <1>2, <1>4, Zenon DEF Elems
    <2> QED
      BY <2>1, <2>2, Zenon
  <1> QED
    BY <1>2, <1>5, <1>6 DEF n, r

\* A table without duplicates holds as many channels as it has entries.
LEMMA DistinctCounts ==
    ASSUME NEW q \in Seq(Cid), Distinct(q)
    PROVE  Cardinality(Elems(q)) = Len(q)
  <1>1. Len(q) \in Nat /\ DOMAIN q = 1..Len(q) /\ q \in [1..Len(q) -> Cid]
    OBVIOUS
  <1>2. q \in [1..Len(q) -> Elems(q)]
    BY <1>1 DEF Elems
  <1>3. q \in Surjection(1..Len(q), Elems(q))
    BY <1>1, <1>2, Zenon DEF Surjection, Elems
  <1>4. q \in Injection(1..Len(q), Elems(q))
    BY <1>1, <1>2, Zenon DEF Injection, IsInjective, Distinct
  <1>5. IsFiniteSet(1..Len(q)) /\ Cardinality(1..Len(q)) = Len(q)
    BY <1>1, FS_Interval
  <1>6. Cardinality(Elems(q)) = Cardinality(1..Len(q))
    BY <1>3, <1>4, <1>5, FS_Surjection, Zenon
  <1> QED
    BY <1>5, <1>6

-----------------------------------------------------------------------------

(* The helpers of the handlers *)

\* The fields of a session have their types.
LEMMA GoodTypes ==
    ASSUME NEW t, Good(t)
    PROVE  /\ t.active \in BOOLEAN /\ t.processing \in BOOLEAN
           /\ t.cancel \in BOOLEAN /\ t.stopping \in BOOLEAN
           /\ t.gen \in 0..2 /\ t.cid \in Cid \cup {NoCid}
           /\ t.cmd \in Cmd \cup {"none"} /\ t.total \in 0..MaxLen
           /\ t.got \in Seq([cid : Cid, part : Nat]) /\ t.seq \in 0..MaxLen
           /\ t.age \in 0..Timeout /\ t.lock \in Cid \cup {NoCid}
           /\ t.left \in 0..MaxLock /\ t.chans \in Seq(Cid)
  BY DEF Good, Session

\* The table may be replaced by one that still holds the channels in use.
LEMMA TableChange ==
    ASSUME NEW t, Good(t), NEW q \in Seq(Cid), Distinct(q), Len(q) <= MaxChans,
           t.active \/ t.processing => t.cid \in Elems(q),
           t.lock # NoCid => t.lock \in Elems(q)
    PROVE  /\ Good([t EXCEPT !.chans = q])
           /\ Allocated([t EXCEPT !.chans = q]) = Elems(q)
  <1> DEFINE u == [t EXCEPT !.chans = q]
  <1>1. t \in Session
    BY DEF Good
  <1>2. u \in Session /\ u.chans = q
    BY <1>1 DEF Session
  <1>3. /\ u.active = t.active /\ u.processing = t.processing /\ u.gen = t.gen
        /\ u.cid = t.cid /\ u.lock = t.lock /\ u.got = t.got
        /\ u.total = t.total /\ u.seq = t.seq
    BY <1>1 DEF Session
  <1> HIDE DEF u
  <1>4. Allocated(u) = Elems(q)
    BY <1>2, Zenon DEF Allocated, Elems
  <1>5. Table(u)
    BY <1>2, Zenon DEF Table
  <1>6. Phase(u)
    BY <1>3, Zenon DEF Good, Phase
  <1>7. InUse(u)
    BY <1>3, <1>4, Zenon DEF InUse
  <1>8. InOrder(u)
    BY <1>3, Zenon DEF Good, InOrder, Parts
  <1>9. Good(u)
    BY <1>2, <1>5, <1>6, <1>7, <1>8, Zenon DEF Good
  <1> QED
    BY <1>4, <1>9 DEF u

\* zf_transport_touch_cid moves a channel to the end and changes nothing else.
LEMMA TouchGood ==
    ASSUME NEW t, Good(t), NEW c
    PROVE  /\ Good(Touch(t, c))
           /\ Allocated(Touch(t, c)) = Allocated(t)
           /\ \E q : Touch(t, c) = [t EXCEPT !.chans = q]
  <1>1. CASE c \notin Allocated(t)
    <2>1. Touch(t, c) = t
      BY <1>1, Zenon DEF Touch
    <2>2. t = [t EXCEPT !.chans = t.chans]
      BY DEF Good, Session
    <2> QED
      BY <2>1, <2>2, Zenon
  <1>2. CASE c \in Allocated(t)
    <2> DEFINE q == t.chans
               i == Position(t, c)
               r == Append(Drop(q, i), c)
    <2>1. q \in Seq(Cid) /\ Distinct(q) /\ Len(q) <= MaxChans /\ Len(q) \in Nat
      BY GoodTypes DEF Good, Table
    <2>2. i \in DOMAIN q /\ q[i] = c
      BY <1>2, Zenon DEF Allocated, Position
    <2>3. Touch(t, c) = [t EXCEPT !.chans = r]
      BY <1>2, Zenon DEF Touch, Without, Drop
    <2>4. c \in Cid
      BY <2>1, <2>2
    <2> HIDE DEF q, i
    <2>5. /\ Drop(q, i) \in Seq(Cid) /\ Len(Drop(q, i)) = Len(q) - 1
          /\ Distinct(Drop(q, i)) /\ Elems(Drop(q, i)) = Elems(q) \ {c}
      BY <2>1, <2>2, DropFacts
    <2>6. c \notin Elems(Drop(q, i))
      BY <2>5, Zenon
    <2>7. /\ r \in Seq(Cid) /\ Len(r) = Len(Drop(q, i)) + 1
          /\ Distinct(r) /\ Elems(r) = Elems(Drop(q, i)) \cup {c}
      BY <2>4, <2>5, <2>6, AppendFacts, Zenon
    <2>8. Len(r) <= MaxChans
      BY <2>1, <2>5, <2>7
    <2>9. Elems(q) = Allocated(t)
      BY Zenon DEF Elems, Allocated, q
    <2>10. Elems(r) = Allocated(t)
      BY <2>5, <2>7, <2>9, <1>2, Zenon
    <2> HIDE DEF r
    <2>11. InUse(t)
      BY DEF Good
    <2>12. Good([t EXCEPT !.chans = r]) /\ Allocated([t EXCEPT !.chans = r]) = Elems(r)
      BY <2>7, <2>8, <2>10, <2>11, TableChange, Zenon DEF InUse
    <2> QED
      BY <2>3, <2>10, <2>12, Zenon
  <1> QED
    BY <1>1, <1>2, Zenon

\* Dropping the lock is always allowed.
LEMMA ExpireGood ==
    ASSUME NEW t, Good(t)
    PROVE  Good(ExpireLock(t))
  <1> DEFINE u == ExpireLock(t)
  <1>1. t \in Session
    BY DEF Good
  <1>0. 0 \in 0..MaxLock /\ NoCid \in Cid \cup {NoCid}
    BY BoundAssumption
  <1>2. u \in Session /\ u.lock = NoCid
    BY <1>0, <1>1, Zenon DEF Session, ExpireLock
  <1>3. /\ u.active = t.active /\ u.processing = t.processing /\ u.gen = t.gen
        /\ u.cid = t.cid /\ u.chans = t.chans /\ u.got = t.got
        /\ u.total = t.total /\ u.seq = t.seq
    BY <1>1 DEF Session, ExpireLock
  <1> HIDE DEF u
  <1> QED
    <2>1. Table(u)
      BY <1>3, Zenon DEF Good, Table
    <2>2. Phase(u)
      BY <1>3, Zenon DEF Good, Phase
    <2>3. Allocated(u) = Allocated(t)
      BY <1>3, Zenon DEF Allocated
    <2>4. InUse(u)
      BY <1>2, <1>3, <2>3, Zenon DEF Good, InUse
    <2>5. InOrder(u)
      BY <1>3, Zenon DEF Good, InOrder, Parts
    <2> QED
      BY <1>2, <2>1, <2>2, <2>4, <2>5, Zenon DEF Good, u

\* What RefreshLock leaves alone.
Kept(t, u) == /\ u.active = t.active /\ u.processing = t.processing
              /\ u.cancel = t.cancel /\ u.cid = t.cid /\ u.cmd = t.cmd
              /\ u.chans = t.chans

\* The refresh of the lock touches the lock only.
LEMMA RefreshGood ==
    ASSUME NEW t, Good(t)
    PROVE  Good(RefreshLock(t)) /\ Kept(t, RefreshLock(t))
  <1>1. Kept(t, ExpireLock(t)) /\ Kept(t, t)
    BY DEF Kept, ExpireLock, Good, Session
  <1> QED
    BY <1>1, ExpireGood, Zenon DEF RefreshLock

\* The session of a fresh start is one.
LEMMA BlankSession == Blank \in Session
  <1>1. /\ 0 \in 0..2 /\ 0 \in 0..MaxLen /\ 0 \in 0..Timeout /\ 0 \in 0..MaxLock
        /\ NoCid \in Cid \cup {NoCid} /\ "none" \in Cmd \cup {"none"}
        /\ << >> \in Seq([cid : Cid, part : Nat]) /\ << >> \in Seq(Cid)
    BY BoundAssumption
  <1> QED
    BY <1>1, Zenon DEF Blank, Session

\* A session without a message, with the lock and the table of t.
Empty(t, u) ==
    /\ u \in Session
    /\ ~u.active /\ ~u.processing /\ u.gen = 0
    /\ u.got = << >> /\ u.seq = 0
    /\ u.lock = t.lock /\ u.chans = t.chans

\* zf_transport_session_reset leaves no message and keeps the lock and the table.
LEMMA ResetEmpty ==
    ASSUME NEW t, Good(t)
    PROVE  Empty(t, Reset(t))
  <1>1. t.lock \in Cid \cup {NoCid} /\ t.left \in 0..MaxLock /\ t.chans \in Seq(Cid)
    BY GoodTypes
  <1> DEFINE a == [Blank EXCEPT !.lock = t.lock]
             b == [a EXCEPT !.left = t.left]
             c == [b EXCEPT !.chans = t.chans]
  <1>2. a \in Session /\ a.lock = t.lock
    BY <1>1, BlankSession DEF Session
  <1>3. ~a.active /\ ~a.processing /\ a.gen = 0 /\ a.got = << >> /\ a.seq = 0
    BY DEF Blank
  <1> HIDE DEF a
  <1>4. b \in Session /\ b.lock = t.lock
    BY <1>1, <1>2 DEF Session
  <1>5. ~b.active /\ ~b.processing /\ b.gen = 0 /\ b.got = << >> /\ b.seq = 0
    BY <1>2, <1>3 DEF Session
  <1> HIDE DEF b
  <1>6. c \in Session /\ c.lock = t.lock /\ c.chans = t.chans
    BY <1>1, <1>4 DEF Session
  <1>7. ~c.active /\ ~c.processing /\ c.gen = 0 /\ c.got = << >> /\ c.seq = 0
    BY <1>4, <1>5 DEF Session
  <1>8. c = Reset(t)
    BY DEF a, b, c, Reset
  <1> QED
    BY <1>6, <1>7, <1>8, Zenon DEF Empty

\* A session without a message is good when its table is.
LEMMA EmptyGood ==
    ASSUME NEW t, Good(t), NEW u, Empty(t, u)
    PROVE  Good(u)
  <1>1. Allocated(u) = Allocated(t)
    BY Zenon DEF Empty, Allocated
  <1> QED
    BY <1>1, Zenon DEF Empty, Good, Table, Phase, InUse, InOrder

\* So a reset is always allowed.
LEMMA ResetGood ==
    ASSUME NEW t, Good(t)
    PROVE  Good(Reset(t))
  BY ResetEmpty, EmptyGood, Zenon

\* zf_transport_remember_cid: the new channel displaces none that is in use,
\* and the message goes on as it was.
LEMMA AllocateGood ==
    ASSUME NEW t, Good(t), NEW u \in Allocations(t)
    PROVE  /\ Good(u)
           /\ u.active = t.active /\ u.processing = t.processing
           /\ u.cancel = t.cancel /\ u.cid = t.cid /\ u.gen = t.gen
  <1>1. PICK c \in Cid \ Allocated(t) : u \in Remember(t, c)
    BY Zenon DEF Allocations
  <1>2. \A v : Good(v) /\ v.chans = t.chans
               => v.chans \in Seq(Cid) /\ Distinct(v.chans) /\ Len(v.chans) <= MaxChans
                  /\ Allocated(v) = Elems(v.chans) /\ c \notin Elems(v.chans) /\ InUse(v)
    BY <1>1, GoodTypes, Zenon DEF Good, Table, Allocated, Elems
  <1>3. CASE Len(t.chans) < MaxChans
    <2> DEFINE q == t.chans
               r == Append(q, c)
    <2>1. u = [t EXCEPT !.chans = r]
      BY <1>1, <1>3, Zenon DEF Remember
    <2>2. /\ q \in Seq(Cid) /\ Distinct(q)
          /\ Allocated(t) = Elems(q) /\ c \notin Elems(q) /\ InUse(t)
      BY <1>2, Zenon
    <2> HIDE DEF q
    <2>3. /\ r \in Seq(Cid) /\ Len(r) = Len(q) + 1
          /\ Distinct(r) /\ Elems(r) = Elems(q) \cup {c}
      BY <1>1, <2>2, AppendFacts, Zenon
    <2>4. Len(r) <= MaxChans
      BY <1>3, <2>2, <2>3, BoundAssumption DEF q
    <2> HIDE DEF r
    <2>5. Good(u)
      BY <2>1, <2>2, <2>3, <2>4, TableChange, Zenon DEF InUse
    <2>6. /\ u.active = t.active /\ u.processing = t.processing
          /\ u.cancel = t.cancel /\ u.cid = t.cid /\ u.gen = t.gen
      BY <2>1 DEF Good, Session
    <2> QED
      BY <2>5, <2>6
  <1>4. CASE ~(Len(t.chans) < MaxChans)
    <2> DEFINE v == RefreshLock(t)
    <2>1. Good(v) /\ Kept(t, v) /\ v.gen = t.gen
      <3>1. v.gen = t.gen
        BY DEF Good, Session, RefreshLock, ExpireLock
      <3> QED
        BY <3>1, RefreshGood
    <2>2. PICK i \in LeastRecent(v) : u = [v EXCEPT !.chans = Append(Without(v, i), c)]
      BY <1>1, <1>4, Zenon DEF Remember
    <2> HIDE DEF v
    <2> DEFINE q == v.chans
               r == Append(Drop(q, i), c)
    <2>3. i \in DOMAIN q /\ q[i] \notin {v.cid, v.lock}
      BY <2>2, Zenon DEF LeastRecent, Reclaimable
    <2>4. u = [v EXCEPT !.chans = r]
      BY <2>2, Zenon DEF Without, Drop
    <2>5. /\ q \in Seq(Cid) /\ Distinct(q) /\ Len(q) <= MaxChans
          /\ Allocated(v) = Elems(q) /\ c \notin Elems(q) /\ InUse(v)
      BY <1>2, <2>1, Zenon DEF Kept
    <2> HIDE DEF q
    <2>6. /\ Drop(q, i) \in Seq(Cid) /\ Len(Drop(q, i)) = Len(q) - 1
          /\ Distinct(Drop(q, i)) /\ Elems(Drop(q, i)) = Elems(q) \ {q[i]}
      BY <2>3, <2>5, DropFacts
    <2>7. /\ r \in Seq(Cid) /\ Len(r) = Len(Drop(q, i)) + 1
          /\ Distinct(r) /\ Elems(r) = Elems(Drop(q, i)) \cup {c}
      BY <1>1, <2>5, <2>6, AppendFacts, Zenon
    <2>8. Len(r) <= MaxChans
      BY <2>5, <2>6, <2>7, BoundAssumption
    <2> HIDE DEF r
    <2>9. Good(u)
      BY <2>1, <2>3, <2>4, <2>5, <2>6, <2>7, <2>8, TableChange, Zenon DEF InUse
    <2>10. /\ u.active = v.active /\ u.processing = v.processing
           /\ u.cancel = v.cancel /\ u.cid = v.cid /\ u.gen = v.gen
      BY <2>1, <2>4 DEF Good, Session
    <2> QED
      BY <2>1, <2>9, <2>10, Zenon DEF Kept
  <1> QED
    BY <1>3, <1>4

-----------------------------------------------------------------------------

(* The assembly of a message *)

\* The fields of a report have their types.
LEMMA PacketTypes ==
    ASSUME NEW p \in Packet
    PROVE  /\ p.cid \in Cid \cup {Broadcast} /\ p.n \in Nat /\ p.arg \in Nat
           /\ p.type \in {"init", "cont", "stub"}
           /\ p.type = "init" => p.cmd \in Cmd \cup {"INIT", "CANCEL", "LOCK"}
  BY BoundAssumption DEF Packet, Report

\* An outcome that leaves a good session and no prompt to cancel.
Clean(o) == Good(o.s) /\ ~o.cancels

\* An answer is as clean as the session it leaves.
LEMMA AnswerClean ==
    ASSUME NEW t, Good(t), NEW c, NEW w
    PROVE  Clean(Answer(t, c, w))
  BY DEF Answer, Clean

\* So is silence, and a hand-over to the protocol.
LEMMA QuietClean ==
    ASSUME NEW t, Good(t)
    PROVE  Clean(Quiet(t)) /\ Clean([Quiet(t) EXCEPT !.dispatches = TRUE])
  BY DEF Answer, Quiet, Clean

\* A session whose message may just have become complete.
Ready(t) == /\ t \in Session /\ Table(t) /\ InUse(t)
            /\ t.active /\ ~t.processing /\ t.gen = 0
            /\ Parts(t) /\ Len(t.got) <= t.total
            /\ t.seq = Len(t.got) - 1 \/ Len(t.got) = t.total

\* zf_transport_complete_if_ready: the message stays open and lacks a report,
\* or is closed and complete.
LEMMA CompleteGood ==
    ASSUME NEW t, Ready(t), NEW o \in CompleteIfReady(t)
    PROVE  Clean(o)
  <1>0. /\ t \in Session /\ t.active \in BOOLEAN /\ t.total \in Nat
        /\ Len(t.got) \in Nat /\ t.active /\ ~t.processing /\ t.gen = 0
    BY BoundAssumption DEF Ready, Session
  <1>1. CASE Len(t.got) # t.total
    <2>1. o = Quiet(t)
      BY <1>1, Zenon DEF CompleteIfReady
    <2>2. InOrder(t)
      BY <1>0, <1>1 DEF Ready, InOrder
    <2>3. Good(t)
      BY <1>0, <2>2, Zenon DEF Ready, Good, Phase
    <2> QED
      BY <2>1, <2>3, QuietClean, Zenon
  <1>2. CASE Len(t.got) = t.total
    <2> DEFINE u == [t EXCEPT !.active = FALSE]
               w == [u EXCEPT !.gen = @ + 1]
               v == [w EXCEPT !.processing = TRUE]
    <2>1. /\ u \in Session /\ u.active = FALSE /\ u.processing = t.processing
          /\ u.lock = t.lock /\ u.chans = t.chans /\ u.gen = t.gen
          /\ u.got = t.got /\ u.total = t.total /\ u.cid = t.cid
      BY <1>0 DEF Session
    <2>2. Allocated(u) = Allocated(t)
      BY <2>1, Zenon DEF Allocated
    <2>3. Good(u)
      BY <1>0, <2>1, <2>2, Zenon DEF Ready, Good, Table, Phase, InUse, InOrder
    <2> HIDE DEF u
    <2>4. /\ v \in Session /\ v.active = u.active /\ v.processing = TRUE
          /\ v.lock = u.lock /\ v.chans = u.chans /\ v.gen = u.gen + 1
          /\ v.got = u.got /\ v.total = u.total /\ v.cid = u.cid
      <3>1. u \in Session /\ u.gen + 1 \in 0..2
        BY <1>0, <2>1
      <3>2. /\ w \in Session /\ w.active = u.active /\ w.lock = u.lock
            /\ w.chans = u.chans /\ w.gen = u.gen + 1 /\ w.got = u.got
            /\ w.total = u.total /\ w.cid = u.cid
        BY <3>1 DEF Session
      <3> HIDE DEF w
      <3>3. /\ v \in Session /\ v.active = w.active /\ v.processing = TRUE
            /\ v.lock = w.lock /\ v.chans = w.chans /\ v.gen = w.gen
            /\ v.got = w.got /\ v.total = w.total /\ v.cid = w.cid
        BY <3>2 DEF Session
      <3> HIDE DEF v
      <3> QED
        BY <3>2, <3>3, Zenon
    <2>5. v.gen = 1
      BY <1>0, <2>1, <2>4
    <2> HIDE DEF v
    <2>6. Allocated(v) = Allocated(t)
      BY <2>1, <2>4, Zenon DEF Allocated
    <2>7. Table(v) /\ Phase(v) /\ InUse(v)
      BY <1>0, <2>1, <2>4, <2>5, <2>6, Zenon DEF Ready, Table, Phase, InUse
    <2>8. v.got = t.got /\ v.total = t.total /\ v.cid = t.cid /\ v.active = FALSE
      BY <2>1, <2>4, Zenon
    <2>9. InOrder(v)
      BY <1>2, <2>8, Zenon DEF Ready, InOrder, Parts
    <2>10. Good(v)
      BY <2>4, <2>7, <2>9, Zenon DEF Good
    <2>11. o \in {Answer(u, t.cid, "cmd"), Dispatch(u), Answer(Reset(u), t.cid, "MSG")}
      BY <1>2 DEF CompleteIfReady, u
    <2>12. Dispatch(u) = [Quiet(v) EXCEPT !.dispatches = TRUE]
      BY Zenon DEF Dispatch, v, w
    <2>13. Good(Reset(u))
      BY <2>3, ResetGood, Zenon
    <2>14. Clean(Answer(u, t.cid, "cmd")) /\ Clean(Answer(Reset(u), t.cid, "MSG"))
      BY <2>3, <2>13, AnswerClean, Zenon
    <2>15. Clean(Dispatch(u))
      BY <2>10, <2>12, QuietClean, Zenon
    <2> QED
      BY <2>11, <2>14, <2>15, Zenon
  <1> QED
    BY <1>1, <1>2

\* The first report of a message on an assigned channel.
LEMMA BeginGood ==
    ASSUME NEW t, Good(t), NEW p \in Packet, p.type = "init", p.cmd \in Cmd,
           p.cid \in Allocated(t), NEW o \in Begin(t, p)
    PROVE  Clean(o)
  <1>0. p.n \in Nat /\ p.cid \in Cid /\ MaxLen \in Nat
    BY PacketTypes, GoodTypes, BoundAssumption DEF Allocated
  <1>1. CASE p.n > MaxLen \/ ~ValidLength(p.cmd, p.n)
    <2>1. o = Answer(Reset(t), p.cid, "len")
      BY <1>1, Zenon DEF Begin
    <2> QED
      BY <2>1, ResetGood, AnswerClean, Zenon
  <1>2. CASE ~(p.n > MaxLen \/ ~ValidLength(p.cmd, p.n))
    <2> DEFINE r == Reset(t)
               g == IF p.n = 0 THEN <<>> ELSE <<[cid |-> p.cid, part |-> 0]>>
               u == [r EXCEPT !.active = TRUE, !.cid = p.cid, !.cmd = p.cmd,
                              !.total = p.n, !.got = g]
    <2>1. o \in CompleteIfReady(u)
      BY <1>2, Zenon DEF Begin
    <2>2. Empty(t, r)
      BY ResetEmpty, Zenon
    <2>3. /\ g \in Seq([cid : Cid, part : Nat]) /\ Len(g) <= p.n
          /\ Len(g) - 1 = 0 \/ Len(g) = p.n
          /\ \A i \in 1..Len(g) : g[i] = [cid |-> p.cid, part |-> i - 1]
      <3>1. CASE p.n = 0
        <4>1. g = << >>
          BY <3>1
        <4> HIDE DEF g
        <4> QED
          BY <3>1, <4>1
      <3>2. CASE p.n # 0
        <4>1. g = <<[cid |-> p.cid, part |-> 0]>>
          BY <3>2
        <4>2. [cid |-> p.cid, part |-> 0] \in [cid : Cid, part : Nat]
          BY <1>0
        <4> HIDE DEF g
        <4>3. /\ g \in Seq([cid : Cid, part : Nat]) /\ Len(g) = 1
              /\ g[1] = [cid |-> p.cid, part |-> 0]
          BY <4>1, <4>2
        <4>4. \A i \in 1..Len(g) : i = 1 /\ i - 1 = 0
          BY <4>3
        <4>5. Len(g) <= p.n /\ Len(g) - 1 = 0
          BY <1>0, <3>2, <4>3
        <4> QED
          BY <4>3, <4>4, <4>5, Zenon
      <3> QED
        BY <3>1, <3>2
    <2> HIDE DEF r, g
    <2>4. p.n \in 0..MaxLen
      BY <1>0, <1>2
    <2>5. /\ u \in Session /\ u.active = TRUE /\ u.cid = p.cid /\ u.total = p.n
          /\ u.got = g
      BY <1>0, <2>2, <2>3, <2>4 DEF Empty, Session
    <2>6. /\ u.processing = r.processing /\ u.lock = r.lock /\ u.chans = r.chans
          /\ u.gen = r.gen /\ u.seq = r.seq
      BY <2>2 DEF Empty, Session
    <2> HIDE DEF u
    <2>7. /\ ~u.processing /\ u.lock = t.lock /\ u.chans = t.chans
          /\ u.gen = 0 /\ u.seq = 0
      BY <2>2, <2>6, Zenon DEF Empty
    <2>8. Allocated(u) = Allocated(t)
      BY <2>7, Zenon DEF Allocated
    <2>9. Table(u) /\ InUse(u)
      BY <2>5, <2>7, <2>8, Zenon DEF Good, Table, InUse
    <2>10. /\ Parts(u) /\ Len(u.got) <= u.total
           /\ u.seq = Len(u.got) - 1 \/ Len(u.got) = u.total
      BY <2>3, <2>5, <2>7, Zenon DEF Parts
    <2>11. Ready(u)
      BY <2>5, <2>7, <2>9, <2>10, Zenon DEF Ready
    <2> QED
      BY <2>1, <2>11, CompleteGood, Zenon
  <1> QED
    BY <1>1, <1>2

\* A continuation: its sequence number is the place its part gets.
LEMMA ContGood ==
    ASSUME NEW t, Good(t), NEW p \in Packet, NEW o \in HandleContPacket(t, p)
    PROVE  Clean(o)
  <1>1. CASE ~t.active
    <2>1. o = Quiet(t)
      BY <1>1 DEF HandleContPacket
    <2> QED
      BY <2>1, QuietClean, Zenon
  <1>2. CASE t.active /\ (p.n # t.seq \/ p.cid # t.cid)
    <2>1. o = Answer(Reset(t), p.cid, "seq")
      BY <1>2 DEF HandleContPacket
    <2> QED
      BY <2>1, ResetGood, AnswerClean, Zenon
  <1>3. CASE t.active /\ ~(p.n # t.seq \/ p.cid # t.cid)
    <2> DEFINE r == Touch(t, p.cid)
               e == [cid |-> p.cid, part |-> p.n + 1]
               g == Append(r.got, e)
               u == [r EXCEPT !.seq = @ + 1, !.age = 0, !.got = g]
    <2>1. o \in CompleteIfReady(u)
      BY <1>3 DEF HandleContPacket
    <2>2. Good(r) /\ Allocated(r) = Allocated(t)
      BY TouchGood, Zenon
    <2>3. r.active = t.active /\ r.seq = t.seq /\ r.cid = t.cid
      <3>1. PICK q : r = [t EXCEPT !.chans = q]
        BY TouchGood, Zenon
      <3> QED
        BY <3>1 DEF Good, Session
    <2> HIDE DEF r
    <2>4. r.active /\ p.n = r.seq /\ p.cid = r.cid
      BY <1>3, <2>3
    <2>5. /\ ~r.processing /\ r.gen = 0 /\ r.cid \in Allocated(r)
          /\ Parts(r) /\ Len(r.got) < r.total /\ r.seq = Len(r.got) - 1
      BY <2>2, <2>4, Zenon DEF Good, Phase, InUse, InOrder
    <2>6. /\ r.got \in Seq([cid : Cid, part : Nat]) /\ Len(r.got) \in Nat
          /\ r.total \in 0..MaxLen /\ r.seq \in 0..MaxLen
      <3>1. /\ r.got \in Seq([cid : Cid, part : Nat])
            /\ r.total \in 0..MaxLen /\ r.seq \in 0..MaxLen
        BY <2>2, GoodTypes, Zenon
      <3>2. Len(r.got) \in Nat
        BY <3>1
      <3> QED
        BY <3>1, <3>2
    <2>7. e \in [cid : Cid, part : Nat] /\ p.n + 1 = Len(r.got)
      <3>1. r.cid \in Cid
        BY <2>2, <2>5, GoodTypes DEF Allocated
      <3> QED
        BY <2>4, <2>5, <2>6, <3>1
    <2>8. r.seq + 1 \in 0..MaxLen /\ r.seq + 1 = Len(r.got) /\ Len(r.got) + 1 <= r.total
      BY <2>5, <2>6, BoundAssumption
    <2>9. /\ g \in Seq([cid : Cid, part : Nat]) /\ Len(g) = Len(r.got) + 1
          /\ \A i \in 1..Len(r.got) : g[i] = r.got[i]
          /\ g[Len(r.got) + 1] = e
      BY <2>6, <2>7 DEF Good
    <2>10. \A i \in 1..Len(g) : \/ i \in 1..Len(r.got)
                                \/ i = Len(r.got) + 1 /\ i - 1 = Len(r.got)
      BY <2>6, <2>9
    <2>11. \A i \in 1..Len(g) : g[i] = [cid |-> r.cid, part |-> i - 1]
      <3> TAKE i \in 1..Len(g)
      <3>1. CASE i \in 1..Len(r.got)
        BY <2>5, <2>9, <3>1, Zenon DEF Parts
      <3>2. CASE i = Len(r.got) + 1 /\ i - 1 = Len(r.got)
        BY <2>4, <2>7, <2>9, <3>2, Zenon
      <3> QED
        BY <2>10, <3>1, <3>2, Zenon
    <2>12. 0 \in 0..Timeout
      BY BoundAssumption
    <2> HIDE DEF g, e
    <2>13. /\ u \in Session /\ u.got = g /\ u.seq = r.seq + 1
      BY <2>2, <2>8, <2>9, <2>12 DEF Good, Session
    <2>14. /\ u.active = r.active /\ u.processing = r.processing /\ u.gen = r.gen
           /\ u.cid = r.cid /\ u.total = r.total /\ u.lock = r.lock /\ u.chans = r.chans
      BY <2>2 DEF Good, Session
    <2> HIDE DEF u
    <2>15. Allocated(u) = Allocated(r)
      BY <2>14, Zenon DEF Allocated
    <2>16. Table(u) /\ InUse(u)
      BY <2>2, <2>14, <2>15, Zenon DEF Good, Table, InUse
    <2>17. Parts(u) /\ Len(u.got) <= u.total /\ u.seq = Len(u.got) - 1
      <3>1. Parts(u)
        BY <2>11, <2>13, <2>14, Zenon DEF Parts
      <3>2. Len(u.got) = Len(r.got) + 1 /\ u.total = r.total /\ u.seq = Len(r.got)
        BY <2>8, <2>9, <2>13, <2>14, Zenon
      <3>3. \A k \in Nat : k = (k + 1) - 1
        OBVIOUS
      <3>4. Len(r.got) = (Len(r.got) + 1) - 1
        BY <2>6, <3>3, Zenon
      <3>5. u.seq = Len(u.got) - 1
        BY <3>2, <3>4, Zenon
      <3> QED
        BY <2>8, <3>1, <3>2, <3>5, Zenon
    <2>18. Ready(u)
      BY <2>4, <2>5, <2>13, <2>14, <2>16, <2>17, Zenon DEF Ready
    <2> QED
      BY <2>1, <2>18, CompleteGood, Zenon
  <1> QED
    BY <1>1, <1>2, <1>3

\* Marking a request as cancelled does not disturb the session.
LEMMA MarkGood ==
    ASSUME NEW t, Good(t)
    PROVE  Good([t EXCEPT !.cancel = TRUE])
  <1> DEFINE u == [t EXCEPT !.cancel = TRUE]
  <1>1. /\ u \in Session /\ u.active = t.active /\ u.processing = t.processing
        /\ u.lock = t.lock /\ u.chans = t.chans /\ u.gen = t.gen /\ u.got = t.got
        /\ u.total = t.total /\ u.cid = t.cid /\ u.seq = t.seq
    BY DEF Good, Session
  <1> HIDE DEF u
  <1>2. Allocated(u) = Allocated(t)
    BY <1>1, Zenon DEF Allocated
  <1>3. Table(u) /\ Phase(u) /\ InUse(u)
    BY <1>1, <1>2, Zenon DEF Good, Table, Phase, InUse
  <1>4. InOrder(u)
    BY <1>1, Zenon DEF Good, InOrder, Parts
  <1> QED
    BY <1>1, <1>3, <1>4, Zenon DEF Good, u

\* The request is over: no message is left to keep in order.
LEMMA EndGood ==
    ASSUME NEW t, Good(t), t.processing, NEW b \in BOOLEAN, NEW n \in 0..2
    PROVE  /\ Good([t EXCEPT !.processing = FALSE])
           /\ Good([t EXCEPT !.processing = FALSE, !.gen = n])
           /\ Good([t EXCEPT !.processing = FALSE, !.cancel = b, !.gen = n])
  <1>1. t \in Session /\ ~t.active /\ Table(t) /\ InUse(t)
    BY Zenon DEF Good, Phase
  <1>2. \A u \in Session :
            /\ u.active = t.active /\ ~u.processing
            /\ u.lock = t.lock /\ u.chans = t.chans
            => Good(u)
    BY <1>1, Zenon DEF Good, Table, Phase, InUse, InOrder, Allocated
  <1> DEFINE u == [t EXCEPT !.processing = FALSE]
             v == [u EXCEPT !.gen = n]
             w == [u EXCEPT !.cancel = b]
             x == [w EXCEPT !.gen = n]
  <1>3. /\ u \in Session /\ u.active = t.active /\ ~u.processing
        /\ u.lock = t.lock /\ u.chans = t.chans
    BY <1>1 DEF Session
  <1>4. Good(u)
    BY <1>2, <1>3, Zenon
  <1> HIDE DEF u
  <1>5. /\ v \in Session /\ v.active = u.active /\ ~v.processing
        /\ v.lock = u.lock /\ v.chans = u.chans
    BY <1>3 DEF Session
  <1>6. /\ w \in Session /\ w.active = u.active /\ ~w.processing
        /\ w.lock = u.lock /\ w.chans = u.chans
    BY <1>3 DEF Session
  <1> HIDE DEF w
  <1>7. /\ x \in Session /\ x.active = w.active /\ ~x.processing
        /\ x.lock = w.lock /\ x.chans = w.chans
    BY <1>6 DEF Session
  <1> HIDE DEF v, x
  <1>8. Good(v) /\ Good(x)
    BY <1>2, <1>3, <1>5, <1>6, <1>7, Zenon
  <1> QED
    BY <1>4, <1>8 DEF u, v, w, x

\* CTAPHID_LOCK: only an assigned channel gets the lock.
LEMMA LockGood ==
    ASSUME NEW t, Good(t), NEW p \in Packet, NEW o \in Lock(t, p)
    PROVE  Clean(o)
  <1> DEFINE r == Touch(t, p.cid)
             u == [r EXCEPT !.lock = p.cid]
             v == [u EXCEPT !.left = p.arg]
  <1>0. Good(r) /\ Allocated(r) = Allocated(t)
    BY TouchGood, Zenon
  <1>1. CASE p.n # 1 \/ p.cid \notin Allocated(t) \/ p.arg > MaxLock
    <2>1. \E w : o = Answer(t, p.cid, w)
      BY <1>1 DEF Lock
    <2> QED
      BY <2>1, AnswerClean, Zenon
  <1>2. CASE p.n = 1 /\ p.cid \in Allocated(t) /\ ~(p.arg > MaxLock)
    <2>1. \/ o = Answer(v, p.cid, "LOCK")
          \/ o = Answer(ExpireLock(r), p.cid, "LOCK")
          \/ o = Answer(r, p.cid, "LOCK")
      BY <1>2 DEF Lock
    <2>2. p.cid \in Cid /\ p.arg \in 0..MaxLock
      BY <1>2, GoodTypes, PacketTypes, BoundAssumption DEF Allocated
    <2> HIDE DEF r
    <2>3. /\ u \in Session /\ u.active = r.active /\ u.processing = r.processing
          /\ u.lock = p.cid /\ u.chans = r.chans /\ u.gen = r.gen /\ u.got = r.got
          /\ u.total = r.total /\ u.cid = r.cid /\ u.seq = r.seq
      BY <1>0, <2>2 DEF Good, Session
    <2> HIDE DEF u
    <2>4. /\ v \in Session /\ v.active = u.active /\ v.processing = u.processing
          /\ v.lock = u.lock /\ v.chans = u.chans /\ v.gen = u.gen /\ v.got = u.got
          /\ v.total = u.total /\ v.cid = u.cid /\ v.seq = u.seq
      BY <2>2, <2>3 DEF Session
    <2> HIDE DEF v
    <2>5. /\ v.active = r.active /\ v.processing = r.processing
          /\ v.lock = p.cid /\ v.chans = r.chans /\ v.gen = r.gen /\ v.got = r.got
          /\ v.total = r.total /\ v.cid = r.cid /\ v.seq = r.seq
      BY <2>3, <2>4, Zenon
    <2>6. Allocated(v) = Allocated(r)
      BY <2>5, Zenon DEF Allocated
    <2>7. Table(v) /\ Phase(v) /\ InUse(v)
      BY <1>0, <1>2, <2>5, <2>6, Zenon DEF Good, Table, Phase, InUse
    <2>8. InOrder(v)
      BY <1>0, <2>5, Zenon DEF Good, InOrder, Parts
    <2>9. Good(v)
      BY <2>4, <2>7, <2>8, Zenon DEF Good
    <2>10. Good(ExpireLock(r))
      BY <1>0, ExpireGood, Zenon
    <2> QED
      BY <1>0, <2>1, <2>9, <2>10, AnswerClean, Zenon
  <1> QED
    BY <1>1, <1>2

\* CTAPHID_INIT outside a request.
LEMMA InitIdleGood ==
    ASSUME NEW t, Good(t), NEW p \in Packet, NEW o \in InitIdle(t, p)
    PROVE  Clean(o)
  <1>1. \/ \E w : o = Answer(t, p.cid, w)
        \/ \E u \in Allocations(t) : o = Answer(Reset(u), p.cid, "INIT")
        \/ o = Answer(Reset(Touch(t, p.cid)), p.cid, "INIT")
    BY DEF InitIdle
  <1>2. Good(Reset(Touch(t, p.cid)))
    BY TouchGood, ResetGood, Zenon
  <1>3. \A u \in Allocations(t) : Good(Reset(u))
    BY AllocateGood, ResetGood, Zenon
  <1> QED
    BY <1>1, <1>2, <1>3, AnswerClean, Zenon

\* Every initial report outside a request.
LEMMA InitGood ==
    ASSUME NEW t, Good(t), ~t.processing, NEW p \in Packet, p.type # "cont",
           NEW o \in HandleInitPacket(t, p)
    PROVE  Clean(o)
  <1>1. \/ \E w : o = Answer(t, p.cid, w)
        \/ p.type = "init" /\ o \in Cancel(t, p)
        \/ o \in Lock(t, p)
        \/ o \in InitIdle(t, p)
        \/ o = Answer(Reset(t), p.cid, "seq")
        \/ /\ p.type = "init" /\ p.cmd \in Cmd /\ p.cid \in Allocated(t)
           /\ o \in Begin(Touch(t, p.cid), p)
    BY PacketTypes DEF HandleInitPacket
  <1>2. ASSUME o \in Cancel(t, p) PROVE Clean(o)
    <2>1. o = Answer(t, p.cid, "len") \/ o = Quiet(t)
      BY <1>2 DEF Cancel
    <2> QED
      BY <2>1, AnswerClean, QuietClean, Zenon
  <1>3. ASSUME p.type = "init", p.cmd \in Cmd, p.cid \in Allocated(t),
               o \in Begin(Touch(t, p.cid), p)
        PROVE  Clean(o)
    <2>1. Good(Touch(t, p.cid)) /\ p.cid \in Allocated(Touch(t, p.cid))
      BY <1>3, TouchGood, Zenon
    <2> QED
      BY <1>3, <2>1, BeginGood, Zenon
  <1>4. Good(Reset(t))
    BY ResetGood, Zenon
  <1> QED
    BY <1>1, <1>2, <1>3, <1>4, LockGood, InitIdleGood, AnswerClean, Zenon

-----------------------------------------------------------------------------

(* Reports during a request, and whose they are *)

\* An outcome that leaves the request alone is nobody's interruption.
LEMMA CleanFair ==
    ASSUME NEW t, NEW o, Clean(o), NEW p,
           ~t.processing \/ (o.s.processing = t.processing /\ o.s.cancel = t.cancel)
    PROVE  Fair(t, o, p)
  BY DEF Clean, Fair, Mine

\* Nor is one that changes nothing.
LEMMA SameFair ==
    ASSUME NEW t, Good(t), NEW p, NEW c, NEW w
    PROVE  Fair(t, Answer(t, c, w), p) /\ Fair(t, Quiet(t), p)
  BY DEF Answer, Quiet, Fair, Mine

\* CTAPHID_CANCEL works on the request of its own channel only.
LEMMA CancelFair ==
    ASSUME NEW t, Good(t), NEW p, NEW o \in Cancel(t, p)
    PROVE  Fair(t, o, p)
  <1>1. \/ o = Answer(t, p.cid, "len")
        \/ o = Quiet(t)
        \/ /\ p.cid = t.cid
           /\ o = [Quiet([t EXCEPT !.cancel = TRUE]) EXCEPT !.cancels = TRUE]
    BY DEF Cancel
  <1>2. ASSUME p.cid = t.cid,
               o = [Quiet([t EXCEPT !.cancel = TRUE]) EXCEPT !.cancels = TRUE]
        PROVE  Fair(t, o, p)
    <2>1. o.s = [t EXCEPT !.cancel = TRUE]
      BY <1>2 DEF Quiet, Answer
    <2> QED
      BY <1>2, <2>1, MarkGood, Zenon DEF Fair, Mine
  <1> QED
    BY <1>1, <1>2, SameFair, Zenon

\* INIT on the channel of the request ends it.
LEMMA ResyncFair ==
    ASSUME NEW t, Good(t), t.processing, NEW p, p.cid = t.cid, NEW o \in Resync(t, p)
    PROVE  Fair(t, o, p)
  <1> DEFINE r == Touch(t, p.cid)
             u == [r EXCEPT !.processing = FALSE, !.gen = @ + 1]
  <1>1. \/ \E w : o = Answer(t, p.cid, w)
        \/ o = [Answer(u, p.cid, "INIT") EXCEPT !.cancels = TRUE]
    BY DEF Resync
  <1>2. Good(r) /\ r.processing
    <2>1. PICK q : r = [t EXCEPT !.chans = q]
      BY TouchGood, Zenon
    <2>2. r.processing
      BY <2>1 DEF Good, Session
    <2> QED
      BY <2>2, TouchGood, Zenon
  <1> HIDE DEF r
  <1>3. r.gen + 1 \in 0..2
    BY <1>2 DEF Good, Phase
  <1>4. Good(u)
    BY <1>2, <1>3, EndGood, Zenon
  <1> HIDE DEF u
  <1>5. ASSUME o = [Answer(u, p.cid, "INIT") EXCEPT !.cancels = TRUE]
        PROVE  Fair(t, o, p)
    <2>1. o.s = u
      BY <1>5 DEF Answer
    <2> QED
      BY <1>4, <2>1, Zenon DEF Fair, Mine
  <1> QED
    BY <1>1, <1>5, SameFair, Zenon

\* INIT on the broadcast channel ends it and assigns another channel.
LEMMA RecoverFair ==
    ASSUME NEW t, Good(t), t.processing, NEW p, p.cid = Broadcast, NEW o \in Recover(t, p)
    PROVE  Fair(t, o, p)
  <1>1. \/ \E w : o = Answer(t, p.cid, w)
        \/ \E r \in Allocations(t) :
              o = [Answer([r EXCEPT !.processing = FALSE, !.cancel = TRUE, !.gen = @ + 1],
                          p.cid, "INIT") EXCEPT !.cancels = TRUE]
    BY DEF Recover
  <1>2. ASSUME NEW r \in Allocations(t),
               o = [Answer([r EXCEPT !.processing = FALSE, !.cancel = TRUE, !.gen = @ + 1],
                          p.cid, "INIT") EXCEPT !.cancels = TRUE]
        PROVE  Fair(t, o, p)
    <2> DEFINE u == [r EXCEPT !.processing = FALSE, !.cancel = TRUE, !.gen = @ + 1]
    <2>1. Good(r) /\ r.processing
      BY AllocateGood, Zenon
    <2>2. r.gen + 1 \in 0..2
      BY <2>1 DEF Good, Phase
    <2>3. TRUE \in BOOLEAN
      OBVIOUS
    <2>4. Good(u)
      BY <2>1, <2>2, <2>3, EndGood, Zenon
    <2> HIDE DEF u
    <2>5. o = [Answer(u, p.cid, "INIT") EXCEPT !.cancels = TRUE]
      BY <1>2, Zenon DEF u
    <2>6. o.s = u
      BY <2>5 DEF Answer
    <2> QED
      BY <2>4, <2>6, Zenon DEF Fair, Mine
  <1> QED
    BY <1>1, <1>2, SameFair, Zenon

\* Both readers of reports during a request.
LEMMA InterruptFair ==
    ASSUME NEW t, Good(t), t.processing, NEW p \in Packet,
           NEW o \in Control(t, p) \cup HandleProcessingPacket(t, p)
    PROVE  Fair(t, o, p)
  <1>1. \/ \E w : o = Answer(t, p.cid, w)
        \/ o = Quiet(t)
        \/ o \in Cancel(t, p)
        \/ p.cid = t.cid /\ o \in Resync(t, p)
        \/ p.cid = Broadcast /\ o \in Recover(t, p)
    BY DEF Control, HandleProcessingPacket, Interrupt, BusyOr
  <1> QED
    BY <1>1, SameFair, CancelFair, ResyncFair, RecoverFair, Zenon

\* Every report, in every phase: a refresh of the lock comes first.
LEMMA PacketFair ==
    ASSUME NEW t, Good(t), NEW p \in Packet, NEW o \in HandlePacket(t, p)
    PROVE  Fair(t, o, p)
  <1> DEFINE r == RefreshLock(t)
  <1>1. Good(r) /\ Kept(t, r)
    BY RefreshGood, Zenon
  <1>2. \/ o = Answer(r, p.cid, "busy")
        \/ r.processing /\ o \in HandleProcessingPacket(r, p)
        \/ ~r.processing /\ o \in HandleContPacket(r, p)
        \/ ~r.processing /\ p.type # "cont" /\ o \in HandleInitPacket(r, p)
    BY DEF HandlePacket
  <1> HIDE DEF r
  <1>3. Fair(r, o, p)
    <2>1. ASSUME ~r.processing, Clean(o) PROVE Fair(r, o, p)
      BY <2>1, CleanFair, Zenon
    <2> QED
      BY <1>1, <1>2, <2>1, SameFair, InterruptFair, ContGood, InitGood, Zenon
  <1> QED
    BY <1>1, <1>3, Zenon DEF Fair, Mine, Kept

\* The passing of time changes the clocks only.
LEMMA ElapseGood ==
    ASSUME NEW t, Good(t)
    PROVE  /\ Good(Elapse(t))
           /\ Elapse(t).processing = t.processing /\ Elapse(t).cancel = t.cancel
  <1> DEFINE a == IF t.active /\ t.age < Timeout THEN t.age + 1 ELSE t.age
             l == IF t.left > 0 THEN t.left - 1 ELSE 0
             u == [t EXCEPT !.age = a]
             v == [u EXCEPT !.left = l]
  <1>1. a \in 0..Timeout /\ l \in 0..MaxLock
    <2>1. t.age \in 0..Timeout /\ t.left \in 0..MaxLock
      BY GoodTypes, Zenon
    <2> QED
      BY <2>1, BoundAssumption
  <1> HIDE DEF a, l
  <1>2. /\ u \in Session /\ u.active = t.active /\ u.processing = t.processing
        /\ u.lock = t.lock /\ u.chans = t.chans /\ u.gen = t.gen /\ u.got = t.got
        /\ u.total = t.total /\ u.cid = t.cid /\ u.seq = t.seq
        /\ u.cancel = t.cancel /\ u.left = t.left
    BY <1>1 DEF Good, Session
  <1> HIDE DEF u
  <1>3. /\ v \in Session /\ v.active = u.active /\ v.processing = u.processing
        /\ v.lock = u.lock /\ v.chans = u.chans /\ v.gen = u.gen /\ v.got = u.got
        /\ v.total = u.total /\ v.cid = u.cid /\ v.seq = u.seq /\ v.cancel = u.cancel
    BY <1>1, <1>2 DEF Session
  <1>4. v = Elapse(t)
    BY <1>2, Zenon DEF Elapse, a, l, u, v
  <1> HIDE DEF v
  <1>5. Allocated(v) = Allocated(t)
    BY <1>2, <1>3, Zenon DEF Allocated
  <1>6. Table(v) /\ Phase(v) /\ InUse(v)
    BY <1>2, <1>3, <1>5, Zenon DEF Good, Table, Phase, InUse
  <1>7. InOrder(v)
    BY <1>2, <1>3, Zenon DEF Good, InOrder, Parts
  <1> QED
    BY <1>2, <1>3, <1>4, <1>6, <1>7, Zenon DEF Good

\* zf_transport_session_tick gives up an assembly, never a request.
LEMMA TickGood ==
    ASSUME NEW t, Good(t)
    PROVE  /\ Good(Tick(t))
           /\ t.processing => /\ Tick(t).processing = t.processing
                              /\ Tick(t).cancel = t.cancel
  <1>1. CASE t.active /\ t.age = Timeout
    <2>1. Tick(t) = RefreshLock(Reset(t)) /\ ~t.processing
      BY <1>1, Zenon DEF Tick, Good, Phase
    <2> QED
      BY <2>1, ResetGood, RefreshGood, Zenon
  <1>2. CASE ~(t.active /\ t.age = Timeout)
    <2>1. Tick(t) = RefreshLock(t)
      BY <1>2, Zenon DEF Tick
    <2> QED
      BY <2>1, RefreshGood, Zenon DEF Kept
  <1> QED
    BY <1>1, <1>2

-----------------------------------------------------------------------------

(* The specification *)

\* The history has its type.
EventType == event \in [via : {"start", "packet", "poll", "respond", "tick",
                               "cable", "time"},
                        by : Cid \cup {Broadcast, NoCid}]

\* The inductive invariant.
IInv == Good(s) /\ EventType

\* What NoForeignInterrupt says of one step.
Undisturbed == s.processing /\ (~s'.processing \/ (s'.cancel /\ ~s.cancel)) =>
                  \/ event'.via \in {"respond", "cable"}
                  \/ event'.by \in {s.cid, Broadcast}

\* The fresh session is good.
LEMMA BlankGood == Good(Blank)
  <1>1. ~Blank.active /\ ~Blank.processing /\ Blank.lock = NoCid /\ Blank.chans = << >>
    BY DEF Blank
  <1>2. Len(<< >>) <= MaxChans /\ Distinct(<< >>)
    BY BoundAssumption DEF Distinct
  <1> QED
    BY <1>1, <1>2, BlankSession, Zenon DEF Good, Table, Phase, InUse, InOrder

\* What a step writes into the history.
LEMMA EventFields ==
    ASSUME NEW via \in {"start", "packet", "poll", "respond", "tick", "cable", "time"},
           NEW by \in Cid \cup {Broadcast, NoCid}, event' = Event(via, by)
    PROVE  EventType' /\ event'.via = via /\ event'.by = by
  BY DEF Event, EventType

\* The invariant holds initially.
LEMMA InitInv == Init => IInv
  BY BlankGood, SMT DEF Init, IInv, EventType, Event

\* A report read by the worker's loops.
LEMMA ReceiveStep ==
    ASSUME IInv, NEW p \in Packet, Receive(p)
    PROVE  IInv' /\ Undisturbed
  <1>1. PICK o \in HandlePacket(s, p) : s' = o.s
    BY Zenon DEF Receive
  <1>2. p.cid \in Cid \cup {Broadcast, NoCid}
    BY PacketTypes, Zenon
  <1>3. EventType' /\ event'.by = p.cid
    BY <1>2, EventFields, Zenon DEF Receive
  <1>4. Fair(s, o, p)
    BY PacketFair, Zenon DEF IInv
  <1>5. Good(s')
    BY <1>1, <1>4, Zenon DEF Fair
  <1>6. Undisturbed
    BY <1>1, <1>3, <1>4, Zenon DEF Fair, Mine, Undisturbed
  <1> QED
    BY <1>3, <1>5, <1>6, Zenon DEF IInv

\* A report read by the poll of a CTAP2 command: what stops the command came
\* from someone who may.
LEMMA PollStep ==
    ASSUME IInv, NEW p \in Packet, Poll(p)
    PROVE  IInv' /\ Undisturbed
  <1>1. PICK o \in Control(s, p) :
            s' = IF o.cancels THEN [o.s EXCEPT !.cancel = TRUE] ELSE o.s
    BY Zenon DEF Poll
  <1>2. p.cid \in Cid \cup {Broadcast, NoCid}
    BY PacketTypes, Zenon
  <1>3. EventType' /\ event'.by = p.cid
    BY <1>2, EventFields, Zenon DEF Poll
  <1>4. s.processing
    BY Zenon DEF Poll
  <1>5. Fair(s, o, p)
    BY <1>4, InterruptFair, Zenon DEF IInv
  <1>6. Good(s')
    BY <1>1, <1>5, MarkGood, Zenon DEF Fair
  <1>7. Undisturbed
    <2>1. CASE o.cancels
      BY <1>3, <1>5, <2>1, Zenon DEF Fair, Undisturbed
    <2>2. CASE ~o.cancels
      BY <1>1, <1>3, <1>5, <2>2, Zenon DEF Fair, Mine, Undisturbed
    <2> QED
      BY <2>1, <2>2
  <1> QED
    BY <1>3, <1>6, <1>7, Zenon DEF IInv

\* Every step keeps the invariant and interrupts no request it should not.
LEMMA StepInv ==
    ASSUME IInv, [Next]_vars
    PROVE  IInv' /\ (UNCHANGED vars \/ Undisturbed)
  <1>1. CASE \E p \in Packet : Receive(p) \/ Poll(p)
    BY <1>1, ReceiveStep, PollStep, Zenon
  <1>2. CASE Respond
    <2>0. TRUE \in BOOLEAN /\ 0 \in 0..2
      OBVIOUS
    <2>1. Good(s')
      BY <1>2, <2>0, EndGood, Zenon DEF Respond, IInv
    <2>2. EventType' /\ event'.via = "respond"
      BY <1>2, EventFields, Zenon DEF Respond
    <2> QED
      BY <2>1, <2>2, Zenon DEF IInv, Undisturbed
  <1>3. CASE RunTick
    <2>1. /\ Good(s')
          /\ s.processing => s'.processing = s.processing /\ s'.cancel = s.cancel
      BY <1>3, TickGood, Zenon DEF RunTick, IInv
    <2>2. EventType'
      BY <1>3, EventFields, Zenon DEF RunTick
    <2> QED
      BY <2>1, <2>2, Zenon DEF IInv, Undisturbed
  <1>4. CASE Disconnect
    <2>1. Good(s')
      BY <1>4, ResetGood, ExpireGood, Zenon DEF Disconnect, IInv
    <2>2. EventType' /\ event'.via = "cable"
      BY <1>4, EventFields, Zenon DEF Disconnect
    <2> QED
      BY <2>1, <2>2, Zenon DEF IInv, Undisturbed
  <1>5. CASE TimePasses
    <2>1. Good(s') /\ s'.processing = s.processing /\ s'.cancel = s.cancel
      BY <1>5, ElapseGood, Zenon DEF TimePasses, IInv
    <2>2. EventType'
      BY <1>5, EventFields, Zenon DEF TimePasses
    <2> QED
      BY <2>1, <2>2, Zenon DEF IInv, Undisturbed
  <1>6. CASE UNCHANGED vars
    BY <1>6, Zenon DEF vars, IInv, EventType
  <1> QED
    BY <1>1, <1>2, <1>3, <1>4, <1>5, <1>6, Zenon DEF Next

\* The session is good in every reachable state of usb_hid_session.c.
THEOREM Invariance == Spec => []IInv
  <1>1. IInv /\ [Next]_vars => IInv'
    BY StepInv, Zenon
  <1> QED
    BY <1>1, InitInv, PTL DEF Spec

\* The session and the history have their types, so the length and the
\* sequence number of an assembly never pass ZF_MAX_MSG_SIZE.
THEOREM TypeCorrect == Spec => []TypeOK
  <1>1. IInv => TypeOK
    BY Zenon DEF IInv, Good, EventType, TypeOK
  <1> QED
    BY <1>1, Invariance, PTL

\* zf_transport_remember_cid never gives away the channel of a message or of
\* the lock, none is used that was not assigned, and the table holds each
\* channel once and at most ZF_MAX_ALLOCATED_CIDS of them.
THEOREM ChannelsInUseKeptHolds == Spec => []ChannelsInUseKept
  <1>1. IInv => ChannelsInUseKept
    <2> SUFFICES ASSUME IInv PROVE ChannelsInUseKept
      OBVIOUS
    <2>1. /\ s.chans \in Seq(Cid) /\ Distinct(s.chans)
          /\ Len(s.chans) <= MaxChans /\ InUse(s)
      BY GoodTypes, Zenon DEF IInv, Good, Table
    <2>2. Cardinality(Elems(s.chans)) = Len(s.chans)
      BY <2>1, DistinctCounts, Zenon
    <2>3. Elems(s.chans) = Allocated(s)
      BY Zenon DEF Elems, Allocated
    <2> QED
      BY <2>1, <2>2, <2>3, Zenon DEF InUse, ChannelsInUseKept
  <1> QED
    BY <1>1, Invariance, PTL

\* What zf_transport_handle_init_packet and zf_transport_handle_cont_packet
\* assemble is one channel's message, each report once and in order, whatever
\* else is sent in between.
THEOREM AssembledInOrderHolds == Spec => []AssembledInOrder
  <1>1. IInv => AssembledInOrder
    BY Zenon DEF IInv, Good, InOrder, Parts, AssembledInOrder
  <1> QED
    BY <1>1, Invariance, PTL

\* Neither zf_transport_session_handle_packet nor the reader of a poll lets a
\* report of another channel end or cancel a request, short of an INIT on the
\* broadcast channel.
THEOREM NoForeignInterruptHolds == Spec => NoForeignInterrupt
  <1>1. IInv /\ [Next]_vars => [Undisturbed]_vars
    BY StepInv, Zenon
  <1>2. Spec => [][Undisturbed]_vars
    BY <1>1, Invariance, PTL DEF Spec
  <1> QED
    BY <1>2 DEF NoForeignInterrupt, Undisturbed
=============================================================================
