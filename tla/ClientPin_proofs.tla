-------------------------- MODULE ClientPin_proofs --------------------------
(***************************************************************************)
(* Proofs about ClientPin for any sets of PINs and relying parties and any *)
(* limits.                                                                 *)
(***************************************************************************)
EXTENDS ClientPin, TLAPS

Owned(m) == m \in Memory /\ m.pinSet /\ m.pin \in Pin

\* The functions of retry.c and plaintext.c keep the type of the state.
LEMMA MemoryFunctions ==
  ASSUME NEW m, Owned(m)
  PROVE  /\ Owned(ClearBlock(m))
         /\ Owned(NoteMismatch(m))
         /\ Owned(Spend(m))
         /\ Owned(Refill(m))
         /\ Owned(ForceBlock(m))
         /\ RecordOf(m) \in PinRecord
  <1> USE LimitAssumption DEF Owned, Memory
  <1>1. Owned(ClearBlock(m))
    BY DEF ClearBlock
  <1>2. \A x : Owned(x) => Owned(NoteMismatch(x))
    <2> SUFFICES ASSUME NEW x, Owned(x) PROVE Owned(NoteMismatch(x))
      OBVIOUS
    <2> DEFINE n == OneMore(x.mismatches)
               b == x.blocked \/ n >= BlockAt
    <2>1. n \in Nat
      BY DEF OneMore
    <2>2. b \in BOOLEAN
      OBVIOUS
    <2>3. NoteMismatch(x) = [x EXCEPT !.mismatches = n, !.blocked = b]
      BY DEF NoteMismatch
    <2> HIDE DEF n, b
    <2> QED
      BY <2>1, <2>2, <2>3
  <1>3. Owned(Spend(m))
    <2>1. Owned([m EXCEPT !.retries = IF m.retries > 0 THEN m.retries - 1 ELSE 0])
      OBVIOUS
    <2> QED BY <2>1, <1>2 DEF Spend
  <1>4. Owned(Refill(m))
    BY DEF Refill, ClearBlock
  <1>5. Owned(ForceBlock(m))
    <2>1. BlockAt \in Nat
      OBVIOUS
    <2>2. [m EXCEPT !.retries = 0, !.mismatches = BlockAt, !.blocked = TRUE] \in Memory
      BY <2>1
    <2> QED
      BY <2>2 DEF ForceBlock
  <1>6. RecordOf(m) \in PinRecord
    BY DEF RecordOf, PinRecord
  <1> QED
    BY <1>1, <1>2, <1>3, <1>4, <1>5, <1>6

\* Giving the authenticator a PIN, whatever it had before.
LEMMA WithPinType ==
  ASSUME NEW m \in Memory, NEW p \in Pin
  PROVE  Owned(WithPin(m, p))
  BY LimitAssumption DEF Owned, Memory, WithPin, Refill, ClearBlock

LEMMA ConstantTypes ==
  /\ Zeroed \in Memory /\ ~Zeroed.pinSet
  /\ Unset \in Memory /\ ~Unset.pinSet
  /\ NoToken \in Token
  /\ NoGrant \in Grant
  <1> USE LimitAssumption
  <1>1. Zeroed \in Memory /\ ~Zeroed.pinSet
    BY DEF Zeroed, Memory
  <1>2. Unset \in Memory /\ ~Unset.pinSet
    BY DEF Unset, Zeroed, Memory
  <1>3. NoToken \in Token
    BY DEF NoToken, Token
  <1>4. NoGrant \in Grant
    BY DEF NoGrant, Grant
  <1> QED
    BY <1>1, <1>2, <1>3, <1>4

\* The part of TypeOK about a waiting request.
HostOK == /\ host \in {Idle} \cup Waiting
          /\ host.waiting => host.mem.pinSet /\ host.mem.pin = host.pin

LEMMA HostKept == ASSUME TypeOK, UNCHANGED host PROVE HostOK'
  BY DEF TypeOK, HostOK

\* What a request that waits for consent has in its copy.
LEMMA WaitingHost ==
  ASSUME TypeOK, host.waiting
  PROVE  /\ host \in Waiting
         /\ host.mem \in Memory /\ host.token \in Token /\ host.grant \in Grant
         /\ host.mem.pinSet /\ host.mem.pin = host.pin /\ host.mem.pin \in Pin
  <1>1. host # Idle
    BY DEF Idle
  <1>2. host \in Waiting
    BY <1>1 DEF TypeOK
  <1> QED
    BY <1>2 DEF TypeOK, Waiting

LEMMA InitType == Init => TypeOK
  <1> SUFFICES ASSUME Init PROVE TypeOK
    OBVIOUS
  <1>1. hist \in History
    BY DEF Init, History
  <1> QED
    BY <1>1, ConstantTypes DEF Init, TypeOK, Stored, Idle

\* The common outcomes of a handler keep the types.
LEMMA SavedType ==
  ASSUME TypeOK, NEW m, Owned(m), Saved(m),
         token' \in Token, grant' \in Grant, HostOK', hist' \in History
  PROVE  TypeOK'
  BY MemoryFunctions DEF TypeOK, HostOK, Saved, Owned, Stored

LEMMA NotSavedType ==
  ASSUME TypeOK, NotSaved,
         token' \in Token, grant' \in Grant, HostOK', hist' \in History
  PROVE  TypeOK'
  BY DEF TypeOK, HostOK, NotSaved

LEMMA InterruptedType ==
  ASSUME TypeOK, NEW D \in SUBSET Stored, Interrupted(D), hist' \in History
  PROVE  TypeOK'
  BY ConstantTypes DEF TypeOK, Interrupted, PowerOff, Idle

LEMMA HistoryTypes ==
  ASSUME hist \in History, NEW cost \in {0, 1}
  PROVE  /\ [hist EXCEPT !.streak = @ + 1, !.wrong = @ + cost] \in History
         /\ [hist EXCEPT !.streak = @ + 1, !.wrong = @ + cost, !.lost = @ + cost] \in History
         /\ [hist EXCEPT !.streak = @ + 1, !.wrong = @ + 1, !.lost = @ + 1] \in History
         /\ [hist EXCEPT !.streak = 0] \in History
         /\ [hist EXCEPT !.streak = 0, !.reverted = FALSE] \in History
         /\ [hist EXCEPT !.wrong = 0] \in History
         /\ [hist EXCEPT !.wrong = 0, !.streak = 0] \in History
  <1> USE DEF History
  <1> DEFINE s == hist.streak + 1
             w == hist.wrong + cost
             l == hist.lost + cost
  <1>0. s \in Nat /\ w \in Nat /\ l \in Nat /\ hist.wrong + 1 \in Nat /\ hist.lost + 1 \in Nat
    OBVIOUS
  <1>1. [hist EXCEPT !.streak = s, !.wrong = w] \in History
    <2> HIDE DEF s, w, l
    <2> QED BY <1>0
  <1>2. [hist EXCEPT !.streak = s, !.wrong = w, !.lost = l] \in History
    <2> HIDE DEF s, w, l
    <2> QED BY <1>0
  <1>3. [hist EXCEPT !.streak = s, !.wrong = hist.wrong + 1, !.lost = hist.lost + 1] \in History
    <2> HIDE DEF s, w, l
    <2> QED BY <1>0
  <1>4. [hist EXCEPT !.streak = 0] \in History
    OBVIOUS
  <1>5. [hist EXCEPT !.wrong = 0] \in History
    OBVIOUS
  <1>6. [hist EXCEPT !.wrong = 0, !.streak = 0] \in History
    OBVIOUS
  <1>7. [hist EXCEPT !.streak = 0, !.reverted = FALSE] \in History
    OBVIOUS
  <1> QED
    BY <1>1, <1>2, <1>3, <1>4, <1>5, <1>6, <1>7

LEMMA SaveStrictType ==
  ASSUME TypeOK, NEW m, Owned(m), NEW cost \in {0, 1}, SaveStrict(m, cost), UNCHANGED host
  PROVE  TypeOK'
  <1> USE HistoryTypes, ConstantTypes, MemoryFunctions DEF TypeOK, Owned, Stored
  <1>1. CASE /\ Saved(m)
             /\ UNCHANGED <<token, grant>>
             /\ hist' = [hist EXCEPT !.streak = @ + 1, !.wrong = @ + cost]
    BY <1>1, HostKept, SavedType
  <1>2. CASE /\ mem' = m
             /\ disk' \in {Poison, None}
             /\ stranded' = FALSE
             /\ hist' = [hist EXCEPT !.streak = @ + 1, !.wrong = @ + cost]
             /\ UNCHANGED <<up, token, grant>>
    BY <1>2
  <1>3. CASE /\ mem' = ForceBlock(m)
             /\ token' = NoToken
             /\ grant' = NoGrant
             /\ disk' \in {disk, Poison, None}
             /\ stranded' \in IF disk' = disk /\ disk # None THEN BOOLEAN ELSE {FALSE}
             /\ hist' = [hist EXCEPT !.streak = @ + 1, !.wrong = @ + cost, !.lost = @ + cost]
             /\ UNCHANGED up
    BY <1>3
  <1> QED
    BY <1>1, <1>2, <1>3 DEF SaveStrict

LEMMA OwnedNow == TypeOK /\ mem.pinSet => Owned(mem)
  BY DEF TypeOK, Owned

\* A wrong guess.
LEMMA AuthFailureType ==
  ASSUME TypeOK, Existing(mem), AuthFailure
  PROVE  TypeOK'
  <1>0. Owned(mem) /\ hist \in History
    BY OwnedNow DEF Existing, TypeOK
  <1>1. CASE SaveStrict(Spend(mem), 1) /\ UNCHANGED host
    BY <1>0, <1>1, MemoryFunctions, SaveStrictType
  <1>2. CASE /\ hist' = [hist EXCEPT !.streak = @ + 1, !.wrong = @ + 1, !.lost = @ + 1]
             /\ UNCHANGED <<up, mem, token, host, disk, stranded, grant>>
    <2>1. hist' \in History
      BY <1>0, <1>2, HistoryTypes
    <2> QED
      BY <1>2, <2>1 DEF TypeOK
  <1>3. CASE Interrupted({RecordOf(Spend(mem)), Poison, None}) /\ UNCHANGED hist
    <2>1. {RecordOf(Spend(mem)), Poison, None} \in SUBSET Stored
      BY <1>0, MemoryFunctions DEF Stored
    <2> QED
      BY <1>0, <1>3, <2>1, InterruptedType
  <1> QED
    BY <1>1, <1>2, <1>3 DEF AuthFailure

LEMMA AuthNotSavedType ==
  ASSUME TypeOK, AuthNotSaved
  PROVE  TypeOK'
  <1>1. hist' \in History
    BY HistoryTypes DEF AuthNotSaved, TypeOK
  <1> QED
    BY <1>1, HostKept, NotSavedType DEF AuthNotSaved, TypeOK

LEMMA ForgiveType ==
  ASSUME TypeOK, Forgive
  PROVE  hist' \in History
  BY HistoryTypes DEF Forgive, TypeOK

LEMMA ApplyPinType ==
  ASSUME TypeOK, NEW p \in Pin, ApplyPin(mem, p)
  PROVE  TypeOK'
  <1>0. Owned(WithPin(mem, p)) /\ RecordOf(WithPin(mem, p)) \in Stored
    BY WithPinType, MemoryFunctions DEF TypeOK, Stored
  <1>1. CASE /\ Saved(WithPin(mem, p))
             /\ token' = NoToken
             /\ grant' = NoGrant
             /\ Forgive
             /\ UNCHANGED host
    BY <1>0, <1>1, HostKept, SavedType, ForgiveType, ConstantTypes DEF TypeOK
  <1>2. CASE NotSaved /\ UNCHANGED <<token, host, grant, hist>>
    BY <1>2, HostKept, NotSavedType DEF TypeOK
  <1>3. CASE /\ Interrupted({RecordOf(WithPin(mem, p))})
             /\ IF disk' = disk THEN UNCHANGED hist ELSE Forgive
    <2>1. hist' \in History
      BY <1>3, ForgiveType DEF TypeOK
    <2> QED
      BY <1>0, <1>3, <2>1, InterruptedType
  <1> QED
    BY <1>1, <1>2, <1>3 DEF ApplyPin

LEMMA OnlyVerifiedType ==
  ASSUME TypeOK, mem.pinSet, OnlyVerified
  PROVE  TypeOK'
  BY OwnedNow, MemoryFunctions, ForgiveType DEF OnlyVerified, TypeOK, Owned, Stored

LEMMA ReplacePinType ==
  ASSUME TypeOK, NEW g \in Pin, NEW p \in Pin, ReplacePin(g, p)
  PROVE  TypeOK'
  <1>0. Owned(mem) /\ mem.pinSet /\ Existing(mem)
    BY OwnedNow DEF ReplacePin, Existing
  <1>1. Owned(WithPin(mem, p)) /\ RecordOf(WithPin(mem, p)) \in Stored
    BY WithPinType, MemoryFunctions DEF TypeOK, Stored
  <1>2. RecordOf(Refill(mem)) \in Stored
    BY <1>0, MemoryFunctions DEF Stored
  <1>3. CASE AuthFailure
    BY <1>0, <1>3, AuthFailureType
  <1>4. CASE AuthNotSaved
    BY <1>4, AuthNotSavedType
  <1>5. CASE OnlyVerified
    BY <1>0, <1>5, OnlyVerifiedType
  <1>6. CASE /\ Saved(WithPin(mem, p))
             /\ token' = NoToken
             /\ grant' = NoGrant
             /\ Forgive
             /\ UNCHANGED host
    BY <1>1, <1>6, HostKept, SavedType, ForgiveType, ConstantTypes DEF TypeOK
  <1>7. CASE /\ Interrupted({RecordOf(Refill(mem)), RecordOf(WithPin(mem, p))})
             /\ Forgive
    BY <1>1, <1>2, <1>7, InterruptedType, ForgiveType
  <1> QED
    BY <1>3, <1>4, <1>5, <1>6, <1>7 DEF ReplacePin

\* Issuing a token for any request the handlers accept.
LEMMA RequestTypes ==
  ASSUME NEW req \in TokenRequest
  PROVE  /\ req.perms \in SUBSET Permission
         /\ req.scoped \in BOOLEAN
         /\ req.managed \in BOOLEAN
         /\ req.rp \in Rp \cup {NoRp}
  <1>1. CASE req = LegacyRequest
    BY <1>1, LimitAssumption DEF LegacyRequest
  <1>2. CASE req \in [perms : SUBSET Permission \ {{}}, scoped : {TRUE}, managed : {TRUE},
                      rp : Rp \cup {NoRp}]
    BY <1>2
  <1> QED
    BY <1>1, <1>2 DEF TokenRequest

LEMMA IssueTokenType ==
  ASSUME NEW req \in TokenRequest, mem.pin \in Pin, IssueToken(req)
  PROVE  token' \in Token /\ grant' \in Grant
  BY RequestTypes DEF IssueToken, Token, Grant

LEMMA GetPinTokenType ==
  ASSUME TypeOK, NEW g \in Pin, NEW req \in TokenRequest, GetPinToken(g, req)
  PROVE  TypeOK'
  <1>0. Owned(mem) /\ Existing(mem) /\ host = Idle
    BY OwnedNow DEF GetPinToken, Existing, HostReady
  <1>1. CASE AuthFailure
    BY <1>0, <1>1, AuthFailureType
  <1>2. CASE AuthNotSaved
    BY <1>2, AuthNotSavedType
  <1>3. CASE /\ g = mem.pin
             /\ Saved(Refill(mem))
             /\ Forgive
             /\ \/ /\ host' = [waiting |-> TRUE, pin |-> g, req |-> req, mem |-> Refill(mem),
                               token |-> token, grant |-> grant]
                   /\ UNCHANGED <<token, grant>>
                \/ IssueToken(req) /\ UNCHANGED host
                \/ UNCHANGED <<token, host, grant>>
    <2>1. HostOK'
      <3>1. CASE host' = [waiting |-> TRUE, pin |-> g, req |-> req, mem |-> Refill(mem),
                          token |-> token, grant |-> grant]
        <4>1. Refill(mem) \in Memory /\ Refill(mem).pinSet /\ Refill(mem).pin = mem.pin
          BY <1>0, MemoryFunctions DEF Refill, ClearBlock, Owned, Memory
        <4>2. mem.pin = g /\ token \in Token /\ grant \in Grant
          BY <1>3 DEF TypeOK
        <4> QED
          BY <3>1, <4>1, <4>2 DEF HostOK, Waiting
      <3>2. CASE UNCHANGED host
        BY <3>2 DEF TypeOK, HostOK
      <3> QED
        BY <1>3, <3>1, <3>2
    <2>2. token' \in Token /\ grant' \in Grant
      BY <1>0, <1>3, IssueTokenType DEF TypeOK, Owned
    <2>3. Owned(Refill(mem)) /\ hist' \in History
      BY <1>0, <1>3, MemoryFunctions, ForgiveType
    <2> QED
      BY <1>3, <2>1, <2>2, <2>3, SavedType
  <1>4. CASE Interrupted({RecordOf(Refill(mem))}) /\ Forgive
    <2>1. {RecordOf(Refill(mem))} \in SUBSET Stored
      BY <1>0, MemoryFunctions DEF Stored
    <2> QED
      BY <1>4, <2>1, InterruptedType, ForgiveType
  <1> QED
    BY <1>1, <1>2, <1>3, <1>4 DEF GetPinToken

LEMMA FinishConsentType ==
  ASSUME TypeOK, FinishConsent
  PROVE  TypeOK'
  <1>1. host \in Waiting
    BY DEF FinishConsent, TypeOK, Idle
  <1>2. token' \in Token /\ grant' \in Grant
    BY <1>1, IssueTokenType DEF FinishConsent, TypeOK, ConsentStillValid, Waiting
  <1> QED
    BY <1>2 DEF FinishConsent, TypeOK, Idle

LEMMA StalePublishType ==
  ASSUME TypeOK, StalePublish
  PROVE  TypeOK'
  <1>1. host \in Waiting /\ host.mem.pinSet /\ host.mem.pin \in Pin
    BY WaitingHost DEF StalePublish
  <1>2. host.mem \in Memory /\ host.token \in Token /\ host.grant \in Grant
    BY <1>1 DEF Waiting
  <1>3. disk' \in Stored
    <2>1. RecordOf(host.mem) \in PinRecord
      BY <1>1, <1>2, MemoryFunctions DEF Owned
    <2> QED
      BY <2>1 DEF StalePublish, TypeOK, Stored
  <1>4. hist' \in History
    <2> DEFINE n == hist.reopened + GivenBack
               b == hist.reverted \/ ~ConsentStillValid
    <2>1. GivenBack \in Nat
      BY <1>2 DEF GivenBack, TypeOK, Memory
    <2>2. n \in Nat /\ b \in BOOLEAN
      BY <2>1 DEF TypeOK, History
    <2>3. hist' = [hist EXCEPT !.reopened = n, !.reverted = b]
      BY DEF StalePublish
    <2> HIDE DEF n, b
    <2> QED
      BY <2>2, <2>3 DEF TypeOK, History
  <1> QED
    BY <1>1, <1>2, <1>3, <1>4, ConstantTypes DEF StalePublish, TypeOK, Idle

LEMMA OlderType == ASSUME NEW t \in Token PROVE Older(t) \in Token
  BY DEF Older, Token

LEMMA TickType ==
  ASSUME TypeOK, Tick
  PROVE  TypeOK'
  <1>1. token' \in Token
    BY OlderType DEF Tick, TypeOK
  <1>2. CASE host.waiting
    <2>1. host \in Waiting /\ host.token \in Token
      BY <1>2, WaitingHost DEF Waiting
    <2>2. Older(host.token) \in Token
      BY <2>1, OlderType
    <2>3. host' = [host EXCEPT !.token = Older(host.token)]
      BY <1>2 DEF Tick
    <2>4. HostOK'
      BY <1>2, <2>1, <2>2, <2>3 DEF HostOK, Waiting, TypeOK
    <2> QED
      BY <1>1, <2>4 DEF Tick, TypeOK, HostOK
  <1>3. CASE ~host.waiting
    BY <1>1, <1>3 DEF Tick, TypeOK
  <1> QED
    BY <1>2, <1>3

LEMMA RequireAuthType ==
  ASSUME TypeOK, NEW valid \in BOOLEAN, NEW perm \in Permission, NEW rp \in Rp,
         RequireAuth(valid, perm, rp)
  PROVE  TypeOK'
  <1>0. Owned(mem) /\ host = Idle /\ hist \in History /\ token \in Token /\ grant \in Grant
    BY OwnedNow DEF RequireAuth, HostReady, TypeOK
  <1> DEFINE bound == [token EXCEPT !.rp = IF token.scoped THEN rp ELSE @]
  <1>b. bound \in Token /\ Consume(bound) \in Token
    <2>1. bound \in Token
      BY <1>0 DEF Token
    <2> HIDE DEF bound
    <2> QED
      BY <2>1 DEF Token, Consume
  <1>1. CASE /\ token' = NoToken
             /\ grant' = NoGrant
             /\ UNCHANGED <<up, mem, host, disk, stranded, hist>>
    BY <1>1, ConstantTypes DEF TypeOK
  <1>2. CASE SaveStrict(NoteMismatch(mem), 0) /\ UNCHANGED host
    BY <1>0, <1>2, MemoryFunctions, SaveStrictType
  <1>3. CASE /\ Interrupted({RecordOf(NoteMismatch(mem)), Poison, None})
             /\ UNCHANGED hist
    <2>1. {RecordOf(NoteMismatch(mem)), Poison, None} \in SUBSET Stored
      BY <1>0, MemoryFunctions DEF Stored
    <2> QED
      BY <1>0, <1>3, <2>1, InterruptedType
  <1>4. CASE /\ Saved(ClearBlock(mem))
             /\ token' = IF token.managed THEN Consume(bound) ELSE bound
             /\ grant' = [grant EXCEPT !.uses = IF @ < 2 THEN @ + 1 ELSE @,
                                       !.used = @ \cup {<<perm, rp>>},
                                       !.lastUse = token.age]
             /\ hist' = [hist EXCEPT !.streak = 0]
             /\ UNCHANGED host
    <2>1. token' \in Token
      BY <1>b, <1>4
    <2>2. grant' \in Grant
      <3> DEFINE u == IF grant.uses < 2 THEN grant.uses + 1 ELSE grant.uses
                 d == grant.used \cup {<<perm, rp>>}
      <3>1. u \in 0..2 /\ d \in SUBSET (Permission \X Rp) /\ token.age \in Nat
        BY <1>0 DEF Grant, Token
      <3>2. grant' = [grant EXCEPT !.uses = u, !.used = d, !.lastUse = token.age]
        BY <1>4
      <3> HIDE DEF u, d
      <3> QED
        BY <1>0, <3>1, <3>2 DEF Grant
    <2>3. hist' \in History
      BY <1>0, <1>4, HistoryTypes
    <2> QED
      BY <1>0, <1>4, <2>1, <2>2, <2>3, MemoryFunctions, HostKept, SavedType
  <1>5. CASE NotSaved /\ token' = bound /\ UNCHANGED <<host, grant, hist>>
    BY <1>0, <1>b, <1>5, HostKept, NotSavedType
  <1>6. CASE Interrupted({RecordOf(ClearBlock(mem))}) /\ UNCHANGED hist
    <2>1. {RecordOf(ClearBlock(mem))} \in SUBSET Stored
      BY <1>0, MemoryFunctions DEF Stored
    <2> QED
      BY <1>0, <1>6, <2>1, InterruptedType
  <1> QED
    BY <1>1, <1>2, <1>3, <1>4, <1>5, <1>6 DEF RequireAuth

LEMMA ResetType ==
  ASSUME TypeOK, Reset
  PROVE  TypeOK'
  <1> USE ConstantTypes DEF TypeOK, Stored
  <1>1. CASE /\ disk' = None
             /\ stranded' = FALSE
             /\ mem' \in {Unset, Zeroed}
             /\ token' = NoToken
             /\ grant' = NoGrant
             /\ Forgive
             /\ UNCHANGED <<up, host>>
    BY <1>1, ForgiveType
  <1>2. CASE /\ disk' \in {disk, None}
             /\ stranded' = (stranded /\ disk' # None)
             /\ UNCHANGED <<up, mem, token, host, grant, hist>>
    BY <1>2
  <1>3. CASE /\ PowerOff
             /\ disk' \in {disk, None}
             /\ stranded' = (stranded /\ disk' # None)
             /\ UNCHANGED hist
    BY <1>3 DEF PowerOff, Idle
  <1> QED
    BY <1>1, <1>2, <1>3 DEF Reset

LEMMA UiRemovePinType ==
  ASSUME TypeOK, NEW g \in Pin, UiRemovePin(g)
  PROVE  TypeOK'
  <1>0. Owned(mem) /\ Existing(mem)
    BY OwnedNow DEF UiRemovePin, Existing
  <1>r. Owned(Refill(mem)) /\ RecordOf(Refill(mem)) \in PinRecord
    BY <1>0, MemoryFunctions
  <1>1. CASE AuthFailure
    BY <1>0, <1>1, AuthFailureType
  <1>2. CASE AuthNotSaved
    BY <1>2, AuthNotSavedType
  <1>3. CASE /\ mem' = Refill(mem)
             /\ disk' \in {RecordOf(Refill(mem)), None}
             /\ stranded' = FALSE
             /\ Forgive
             /\ UNCHANGED <<up, token, host, grant>>
    BY <1>r, <1>3, ForgiveType DEF TypeOK, Stored, Owned
  <1>4. CASE /\ mem' = Unset
             /\ disk' = None
             /\ stranded' = FALSE
             /\ token' = NoToken
             /\ grant' = NoGrant
             /\ Forgive
             /\ UNCHANGED <<up, host>>
    BY <1>4, ForgiveType, ConstantTypes DEF TypeOK, Stored
  <1>5. CASE Interrupted({RecordOf(Refill(mem)), None}) /\ Forgive
    <2>1. {RecordOf(Refill(mem)), None} \in SUBSET Stored
      BY <1>r DEF Stored
    <2> QED
      BY <1>5, <2>1, InterruptedType, ForgiveType
  <1> QED
    BY <1>1, <1>2, <1>3, <1>4, <1>5 DEF UiRemovePin

LEMMA UiResumeType ==
  ASSUME TypeOK, UiResume
  PROVE  TypeOK'
  <1>0. Owned(mem) /\ hist \in History
    BY OwnedNow DEF UiResume, TypeOK
  <1>r. Owned(ClearBlock(mem)) /\ {RecordOf(ClearBlock(mem))} \in SUBSET Stored
    BY <1>0, MemoryFunctions DEF Stored
  <1>1. CASE /\ Saved(ClearBlock(mem))
             /\ hist' = [hist EXCEPT !.streak = 0]
             /\ UNCHANGED <<token, host, grant>>
    <2>1. hist' \in History
      BY <1>0, <1>1, HistoryTypes
    <2> QED
      BY <1>r, <1>1, <2>1, HostKept, SavedType DEF TypeOK
  <1>2. CASE NotSaved /\ UNCHANGED <<token, host, grant, hist>>
    BY <1>2, HostKept, NotSavedType DEF TypeOK
  <1>3. CASE Interrupted({RecordOf(ClearBlock(mem))}) /\ UNCHANGED hist
    BY <1>0, <1>r, <1>3, InterruptedType
  <1> QED
    BY <1>1, <1>2, <1>3 DEF UiResume

LEMMA UiResetAppDataType ==
  ASSUME TypeOK, UiResetAppData
  PROVE  TypeOK'
  <1>1. CASE Forgive /\ up' = "failed" /\ mem' = Zeroed
    BY <1>1, ForgiveType, ConstantTypes DEF UiResetAppData, TypeOK, Stored
  <1>2. CASE UNCHANGED <<up, mem, token, host, grant, hist>>
    BY <1>2 DEF UiResetAppData, TypeOK, Stored
  <1> QED
    BY <1>1, <1>2 DEF UiResetAppData

LEMMA BootType ==
  ASSUME TypeOK, Boot
  PROVE  TypeOK'
  <1>1. hist' \in History
    BY HistoryTypes DEF Boot, TypeOK
  <1>2. mem' \in Memory /\ (mem'.pinSet => mem'.pin \in Pin)
    <2>1. CASE mem' \in {Unset, Zeroed}
      BY <2>1, ConstantTypes
    <2>2. CASE disk # None /\ Loads(disk) /\ mem' = ClearBlock(FromRecord(disk))
      <3>1. disk \in PinRecord
        BY <2>2 DEF Loads, TypeOK, Stored
      <3>2. Owned(FromRecord(disk))
        BY <3>1 DEF Owned, FromRecord, PinRecord, Memory
      <3> QED
        BY <2>2, <3>2, MemoryFunctions DEF Owned
    <2>3. CASE /\ disk # None /\ Loads(disk)
               /\ mem' = [FromRecord(disk) EXCEPT !.pinSet = FALSE, !.pin = NoPin]
      <3>1. disk \in PinRecord
        BY <2>3 DEF Loads, TypeOK, Stored
      <3>2. FromRecord(disk) \in Memory
        BY <3>1 DEF FromRecord, PinRecord, Memory
      <3> QED
        BY <2>3, <3>2 DEF Memory
    <2> QED
      BY <2>1, <2>2, <2>3 DEF Boot
  <1> QED
    BY <1>1, <1>2 DEF Boot, TypeOK

LEMMA NextType == TypeOK /\ [Next]_vars => TypeOK'
  <1> SUFFICES ASSUME TypeOK, [Next]_vars PROVE TypeOK'
    OBVIOUS
  <1>1. ASSUME NEW p \in Pin, SetPin(p) \/ UiSetPin(p) PROVE TypeOK'
    BY <1>1, ApplyPinType DEF SetPin, UiSetPin
  <1>2. ASSUME NEW g \in Pin, NEW p \in Pin, ChangePin(g, p) \/ UiChangePin(g, p) PROVE TypeOK'
    BY <1>2, ReplacePinType DEF ChangePin, UiChangePin
  <1>3. ASSUME NEW g \in Pin, NEW req \in TokenRequest, GetPinToken(g, req) PROVE TypeOK'
    BY <1>3, GetPinTokenType
  <1>4. CASE FinishConsent
    BY <1>4, FinishConsentType
  <1>5. ASSUME NEW valid \in BOOLEAN, NEW perm \in Permission, NEW rp \in Rp,
               RequireAuth(valid, perm, rp)
        PROVE  TypeOK'
    BY <1>5, RequireAuthType
  <1>6. CASE Reset
    BY <1>6, ResetType
  <1>7. ASSUME NEW g \in Pin, UiRemovePin(g) PROVE TypeOK'
    BY <1>7, UiRemovePinType
  <1>8. CASE UiResume
    BY <1>8, UiResumeType
  <1>9. CASE UiResetAppData
    BY <1>9, UiResetAppDataType
  <1>10. CASE Boot
    BY <1>10, BootType
  <1>11. CASE Crash
    BY <1>11, ConstantTypes DEF Crash, PowerOff, TypeOK, Idle
  <1>12. CASE Tick
    BY <1>12, TickType
  <1>13. CASE StalePublish
    BY <1>13, StalePublishType
  <1>14. CASE UNCHANGED vars
    BY <1>14 DEF vars, TypeOK
  <1> QED
    BY <1>1, <1>2, <1>3, <1>4, <1>5, <1>6, <1>7, <1>8, <1>9, <1>10, <1>11, <1>12, <1>13, <1>14
       DEF Next

\* Every variable of the clientPIN state machine keeps its type; in
\* particular pin_retries never wraps below zero.
THEOREM TypeCorrectness == Spec => []TypeOK
  BY InitType, NextType, PTL DEF Spec

-----------------------------------------------------------------------------
(* The retry counter and the throttle.                                     *)

\* Counters within their limits, and a block as soon as the throttle is full.
InLimits(c) == c.retries <= RetriesMax /\ c.mismatches <= BlockAt

Throttled(m) == m.mismatches = BlockAt => m.blocked

\* The wrong guesses answered so far and the retries left in c, together,
\* are within the budget.
WithinBudget(c, h) == h.wrong + c.retries <= RetriesMax + Waived(h)

(***************************************************************************)
(* The inductive strengthening.  GuessBudget alone is not inductive: a     *)
(* guess is answered on the strength of the retries in memory, and after a *)
(* restart memory is what the record says, so both copies must be within   *)
(* the budget; the throttle bounds the streak only as long as the block    *)
(* flag is raised together with the last mismatch.                         *)
(***************************************************************************)
RetryInv ==
    /\ InLimits(mem)
    /\ mem.pinSet => Throttled(mem)
    /\ disk \in PinRecord => InLimits(disk) /\ WithinBudget(disk, hist)
    /\ mem.pinSet => WithinBudget(mem, hist)
    /\ GuessBudget
    /\ up # "down" => hist.streak <= mem.mismatches + Waived(hist)
    /\ ThrottleHolds
    /\ MemoryNeverLaxer

(***************************************************************************)
(* What is known while a request waits for consent: its copy has a full    *)
(* set of retries, the mismatches since were all paid for with a retry,    *)
(* and where the PIN was removed nothing is left to guess.  That is what a *)
(* stale publication of the copy can give back.                            *)
(***************************************************************************)
Paid(m) == m.mismatches + m.retries <= RetriesMax

DialogInv ==
    host.waiting => /\ up = "running"
                    /\ host.mem.retries = RetriesMax
                    /\ host.mem.mismatches = 0
                    /\ Paid(mem)
                    /\ ~mem.pinSet => hist.wrong = 0 /\ disk \notin PinRecord

\* What the functions of retry.c do to each field.
LEMMA MemoryFields ==
  ASSUME NEW m, Owned(m)
  PROVE  /\ ClearBlock(m).retries = m.retries
         /\ ClearBlock(m).mismatches = 0
         /\ Refill(m).retries = RetriesMax
         /\ Refill(m).mismatches = 0
         /\ ForceBlock(m).retries = 0
         /\ ForceBlock(m).mismatches = BlockAt
         /\ ForceBlock(m).blocked
         /\ NoteMismatch(m).retries = m.retries
         /\ RecordOf(m).retries = m.retries
         /\ RecordOf(m).mismatches = m.mismatches
         /\ RecordOf(m).pin = m.pin
  <1> USE LimitAssumption DEF Owned, Memory
  <1>1. ClearBlock(m).retries = m.retries /\ ClearBlock(m).mismatches = 0
    BY DEF ClearBlock
  <1>2. Refill(m).retries = RetriesMax /\ Refill(m).mismatches = 0
    BY DEF Refill, ClearBlock
  <1>3. /\ ForceBlock(m).retries = 0
        /\ ForceBlock(m).mismatches = BlockAt
        /\ ForceBlock(m).blocked
    BY DEF ForceBlock
  <1>4. NoteMismatch(m).retries = m.retries
    BY DEF NoteMismatch
  <1>5. /\ RecordOf(m).retries = m.retries
        /\ RecordOf(m).mismatches = m.mismatches
        /\ RecordOf(m).pin = m.pin
    BY DEF RecordOf
  <1> QED
    BY <1>1, <1>2, <1>3, <1>4, <1>5

\* The functions of retry.c leave the PIN alone.
LEMMA SamePin ==
  ASSUME NEW m, Owned(m)
  PROVE  \A f \in {ClearBlock(m), NoteMismatch(m), Spend(m), Refill(m)} :
            f.pinSet = m.pinSet /\ f.pin = m.pin
  BY DEF Owned, Memory, ClearBlock, NoteMismatch, Spend, Refill

\* One more mismatch on an authenticator that is not blocked.
LEMMA NoteMismatchFields ==
  ASSUME NEW m, Owned(m), InLimits(m), Throttled(m), ~m.blocked
  PROVE  /\ NoteMismatch(m).mismatches = m.mismatches + 1
         /\ InLimits(NoteMismatch(m))
         /\ Throttled(NoteMismatch(m))
  <1> USE LimitAssumption DEF Owned, Memory
  <1>1. m.mismatches < BlockAt /\ m.mismatches < 255
    BY DEF InLimits, Throttled
  <1>2. OneMore(m.mismatches) = m.mismatches + 1
    BY <1>1 DEF OneMore
  <1>3. NoteMismatch(m).mismatches = m.mismatches + 1
    BY <1>2 DEF NoteMismatch
  <1>4. NoteMismatch(m).blocked = (m.blocked \/ m.mismatches + 1 >= BlockAt)
    BY <1>2 DEF NoteMismatch
  <1>5. InLimits(NoteMismatch(m))
    BY <1>1, <1>3, MemoryFields DEF InLimits
  <1>6. Throttled(NoteMismatch(m))
    BY <1>3, <1>4 DEF Throttled
  <1> QED
    BY <1>3, <1>5, <1>6

\* A wrong guess on an authenticator that still accepts one.
LEMMA SpendFields ==
  ASSUME NEW m, Owned(m), InLimits(m), Throttled(m), Existing(m)
  PROVE  /\ Spend(m).retries = m.retries - 1
         /\ Spend(m).mismatches = m.mismatches + 1
         /\ InLimits(Spend(m))
         /\ Throttled(Spend(m))
  <1> DEFINE x == [m EXCEPT !.retries = IF m.retries > 0 THEN m.retries - 1 ELSE 0]
  <1>1. /\ Owned(x)
        /\ x.retries = m.retries - 1
        /\ x.mismatches = m.mismatches
        /\ x.blocked = m.blocked
    BY DEF Owned, Memory, Existing
  <1>2. InLimits(x) /\ Throttled(x) /\ ~x.blocked
    <2>1. RetriesMax \in Nat /\ m.retries \in Nat
      BY LimitAssumption DEF Owned, Memory
    <2> HIDE DEF x
    <2> QED
      BY <1>1, <2>1 DEF InLimits, Throttled, Existing
  <1>3. Spend(m) = NoteMismatch(x)
    BY DEF Spend
  <1> HIDE DEF x
  <1> QED
    BY <1>1, <1>2, <1>3, NoteMismatchFields, MemoryFields

LEMMA WithPinFields ==
  ASSUME NEW m \in Memory, NEW p \in Pin
  PROVE  WithPin(m, p).retries = RetriesMax /\ WithPin(m, p).mismatches = 0
  BY DEF Memory, WithPin, Refill, ClearBlock

\* Numbers, so that the arithmetic below is about naturals.
LEMMA Numbers ==
  ASSUME TypeOK
  PROVE  /\ mem.retries \in Nat /\ mem.mismatches \in Nat
         /\ hist.wrong \in Nat /\ hist.streak \in Nat /\ Waived(hist) \in Nat
         /\ hist.reopened \in Nat
         /\ \A d \in PinRecord : d.retries \in Nat /\ d.mismatches \in Nat
         /\ RetriesMax \in Nat /\ BlockAt \in Nat \ {0} /\ MaxLost \in Nat
  BY LimitAssumption DEF TypeOK, Memory, History, PinRecord, Waived

\* The three ways a save can end.
LEMMA SavedRetry ==
  ASSUME TypeOK', NEW m, Owned(m), Saved(m), InLimits(m), Throttled(m),
         WithinBudget(m, hist'), hist'.streak <= m.mismatches + Waived(hist')
  PROVE  RetryInv'
  <1>1. /\ m.retries \in Nat /\ m.mismatches \in Nat
        /\ hist'.wrong \in Nat /\ hist'.streak \in Nat /\ Waived(hist') \in Nat
        /\ hist'.reopened \in Nat
        /\ RetriesMax \in Nat /\ BlockAt \in Nat
    BY LimitAssumption DEF Owned, Memory, TypeOK, History, Waived
  <1>2. disk' = RecordOf(m) /\ mem' = m
    BY DEF Saved
  <1>3. InLimits(disk') /\ WithinBudget(disk', hist')
    BY <1>2, MemoryFields DEF InLimits, WithinBudget
  <1>4. GuessBudget'
    BY <1>1 DEF WithinBudget, GuessBudget
  <1>5. ThrottleHolds'
    BY <1>1 DEF ThrottleHolds, InLimits
  <1>6. MemoryNeverLaxer'
    BY <1>1, <1>2, MemoryFields DEF MemoryNeverLaxer
  <1> QED
    BY <1>2, <1>3, <1>4, <1>5, <1>6 DEF RetryInv

\* The history counts nothing more than before.
Milder == /\ hist'.wrong <= hist.wrong
          /\ hist'.streak <= hist.streak
          /\ Waived(hist') = Waived(hist)
          /\ hist'.reopened = hist.reopened
          /\ hist'.reverted = hist.reverted

LEMMA NotSavedRetry ==
  ASSUME TypeOK, TypeOK', RetryInv, NotSaved, Milder
  PROVE  RetryInv'
  <1>1. /\ mem.retries \in Nat /\ mem.mismatches \in Nat
        /\ hist.wrong \in Nat /\ hist.streak \in Nat /\ Waived(hist) \in Nat
        /\ hist'.wrong \in Nat /\ hist'.streak \in Nat /\ Waived(hist') \in Nat
        /\ \A d \in PinRecord : d.retries \in Nat /\ d.mismatches \in Nat
        /\ RetriesMax \in Nat /\ BlockAt \in Nat
    BY Numbers DEF TypeOK, History, Waived
  <1>2. UNCHANGED <<mem, disk, up>>
    BY DEF NotSaved
  <1>3. GuessBudget' /\ ThrottleHolds'
    BY <1>1 DEF RetryInv, GuessBudget, ThrottleHolds, Milder
  <1>4. disk' \in PinRecord => InLimits(disk') /\ WithinBudget(disk', hist')
    BY <1>1, <1>2 DEF RetryInv, WithinBudget, Milder
  <1>5. mem'.pinSet => WithinBudget(mem', hist')
    BY <1>1, <1>2 DEF RetryInv, WithinBudget, Milder
  <1>6. up' # "down" => hist'.streak <= mem'.mismatches + Waived(hist')
    BY <1>1, <1>2 DEF RetryInv, Milder
  <1>7. InLimits(mem') /\ (mem'.pinSet => Throttled(mem')) /\ MemoryNeverLaxer'
    BY <1>2 DEF RetryInv, MemoryNeverLaxer, Milder
  <1> QED
    BY <1>3, <1>4, <1>5, <1>6, <1>7 DEF RetryInv

LEMMA ZeroedFacts ==
  InLimits(Zeroed) /\ Throttled(Zeroed) /\ InLimits(Unset) /\ Throttled(Unset)
    /\ ~Zeroed.pinSet /\ ~Unset.pinSet /\ Zeroed.mismatches = 0 /\ Unset.mismatches = 0
  BY LimitAssumption DEF Zeroed, Unset, InLimits, Throttled

LEMMA InterruptedRetry ==
  ASSUME TypeOK, TypeOK', RetryInv, NEW D, Interrupted(D), Milder,
         \A d \in D : d \in PinRecord => InLimits(d) /\ WithinBudget(d, hist')
  PROVE  RetryInv'
  <1>1. /\ hist.wrong \in Nat /\ hist.streak \in Nat /\ Waived(hist) \in Nat
        /\ hist'.wrong \in Nat /\ hist'.streak \in Nat /\ Waived(hist') \in Nat
        /\ \A d \in PinRecord : d.retries \in Nat
        /\ RetriesMax \in Nat /\ BlockAt \in Nat
    BY Numbers DEF TypeOK, History, Waived
  <1>2. mem' = Zeroed /\ up' = "down" /\ disk' \in {disk} \cup D
    BY DEF Interrupted, PowerOff
  <1>3. GuessBudget' /\ ThrottleHolds'
    BY <1>1 DEF RetryInv, GuessBudget, ThrottleHolds, Milder
  <1>4. disk' \in PinRecord => InLimits(disk') /\ WithinBudget(disk', hist')
    BY <1>1, <1>2 DEF RetryInv, WithinBudget, Milder
  <1> QED
    BY <1>2, <1>3, <1>4, ZeroedFacts DEF RetryInv, MemoryNeverLaxer

\* A failed attempt, however its record ends up.
LEMMA SaveStrictRetry ==
  ASSUME TypeOK, TypeOK', RetryInv, mem.pinSet, up # "down",
         NEW m, Owned(m), NEW cost \in {0, 1}, SaveStrict(m, cost),
         InLimits(m), Throttled(m),
         m.retries + cost <= mem.retries, m.mismatches = mem.mismatches + 1, m.pin = mem.pin
  PROVE  RetryInv'
  <1>0. /\ mem.retries \in Nat /\ mem.mismatches \in Nat
        /\ m.retries \in Nat /\ m.mismatches \in Nat
        /\ hist.wrong \in Nat /\ hist.streak \in Nat /\ Waived(hist) \in Nat
        /\ \A d \in PinRecord : d.retries \in Nat /\ d.mismatches \in Nat
        /\ RetriesMax \in Nat /\ BlockAt \in Nat \ {0}
        /\ hist \in History
    BY Numbers DEF Owned, Memory, TypeOK
  <1>b. /\ hist.wrong + mem.retries <= RetriesMax + Waived(hist)
        /\ hist.wrong <= RetriesMax + Waived(hist)
        /\ hist.streak <= mem.mismatches + Waived(hist)
        /\ m.mismatches <= BlockAt
    BY DEF RetryInv, WithinBudget, GuessBudget, InLimits
  <1>1. CASE /\ Saved(m)
             /\ hist' = [hist EXCEPT !.streak = @ + 1, !.wrong = @ + cost]
    <2>1. hist'.wrong = hist.wrong + cost /\ hist'.streak = hist.streak + 1 /\ Waived(hist') = Waived(hist)
      BY <1>0, <1>1 DEF History, Waived
    <2>2. WithinBudget(m, hist') /\ hist'.streak <= m.mismatches + Waived(hist')
      BY <1>0, <1>b, <2>1 DEF WithinBudget
    <2> QED
      BY <1>1, <2>2, SavedRetry
  <1>2. CASE /\ mem' = m
             /\ disk' \in {Poison, None}
             /\ hist' = [hist EXCEPT !.streak = @ + 1, !.wrong = @ + cost]
    <2>1. hist'.wrong = hist.wrong + cost /\ hist'.streak = hist.streak + 1 /\ Waived(hist') = Waived(hist)
      BY <1>0, <1>2 DEF History, Waived
    <2>2. WithinBudget(m, hist') /\ hist'.streak <= m.mismatches + Waived(hist')
      BY <1>0, <1>b, <2>1 DEF WithinBudget
    <2>3. GuessBudget' /\ ThrottleHolds'
      BY <1>0, <1>b, <2>1 DEF GuessBudget, ThrottleHolds
    <2>4. disk' \notin PinRecord
      BY <1>2, NameAssumption
    <2> QED
      BY <1>2, <2>2, <2>3, <2>4 DEF RetryInv, MemoryNeverLaxer
  <1>3. CASE /\ mem' = ForceBlock(m)
             /\ disk' \in {disk, Poison, None}
             /\ hist' = [hist EXCEPT !.streak = @ + 1, !.wrong = @ + cost, !.lost = @ + cost]
    <2>1. /\ hist'.wrong = hist.wrong + cost
          /\ hist'.streak = hist.streak + 1
          /\ Waived(hist') = Waived(hist) + cost
          /\ hist'.reopened = hist.reopened /\ hist'.reverted = hist.reverted
      BY <1>0, <1>3 DEF History, Waived
    <2>2. /\ mem'.retries = 0 /\ mem'.mismatches = BlockAt /\ mem'.blocked
          /\ mem'.pin = mem.pin /\ mem'.pinSet = mem.pinSet
      <3>1. ForceBlock(m).pin = m.pin /\ ForceBlock(m).pinSet = m.pinSet /\ m.pinSet
        BY DEF ForceBlock, Owned, Memory
      <3> QED
        BY <1>3, <3>1, MemoryFields
    <2>3. InLimits(mem') /\ Throttled(mem')
      BY <1>0, <2>2 DEF InLimits, Throttled
    <2>4. WithinBudget(mem', hist') /\ hist'.streak <= mem'.mismatches + Waived(hist')
      BY <1>0, <1>b, <2>1, <2>2 DEF WithinBudget
    <2>5. GuessBudget' /\ ThrottleHolds'
      BY <1>0, <1>b, <2>1 DEF GuessBudget, ThrottleHolds
    <2>6. disk' \in PinRecord => disk' = disk
      BY <1>3, NameAssumption
    <2>7. disk' \in PinRecord => InLimits(disk') /\ WithinBudget(disk', hist')
      BY <1>0, <2>1, <2>6 DEF RetryInv, WithinBudget
    <2>8. MemoryNeverLaxer'
      BY <1>0, <2>1, <2>2, <2>6, Numbers DEF MemoryNeverLaxer, RetryInv
    <2> QED
      BY <2>3, <2>4, <2>5, <2>7, <2>8 DEF RetryInv
  <1> QED
    BY <1>1, <1>2, <1>3 DEF SaveStrict

\* A wrong guess, on an authenticator that still accepts guesses.
LEMMA AuthFailureRetry ==
  ASSUME TypeOK, TypeOK', RetryInv, up # "down", Existing(mem), AuthFailure
  PROVE  RetryInv'
  <1>0. Owned(mem) /\ mem.pinSet /\ Owned(Spend(mem)) /\ InLimits(mem) /\ Throttled(mem)
    BY OwnedNow, MemoryFunctions DEF Existing, RetryInv
  <1>1. /\ Spend(mem).retries = mem.retries - 1
        /\ Spend(mem).mismatches = mem.mismatches + 1
        /\ InLimits(Spend(mem))
        /\ Throttled(Spend(mem))
        /\ Spend(mem).pin = mem.pin
    BY <1>0, SpendFields, SamePin
  <1>2. /\ mem.retries \in Nat /\ mem.mismatches \in Nat
        /\ hist.wrong \in Nat /\ hist.streak \in Nat /\ Waived(hist) \in Nat
        /\ \A d \in PinRecord : d.retries \in Nat /\ d.mismatches \in Nat
        /\ RetriesMax \in Nat /\ BlockAt \in Nat \ {0}
        /\ hist \in History
    BY Numbers DEF TypeOK
  <1>3. CASE SaveStrict(Spend(mem), 1)
    <2>1. Spend(mem).retries + 1 <= mem.retries
      BY <1>1, <1>2
    <2> QED
      BY <1>0, <1>1, <1>3, <2>1, SaveStrictRetry
  <1>4. CASE /\ hist' = [hist EXCEPT !.streak = @ + 1, !.wrong = @ + 1, !.lost = @ + 1]
             /\ UNCHANGED <<up, mem, token, host, disk, stranded, grant>>
    <2>1. /\ hist'.wrong = hist.wrong + 1
          /\ hist'.streak = hist.streak + 1
          /\ Waived(hist') = Waived(hist) + 1
          /\ hist'.reopened = hist.reopened /\ hist'.reverted = hist.reverted
      BY <1>2, <1>4 DEF History, Waived
    <2>2. GuessBudget' /\ ThrottleHolds'
      BY <1>2, <2>1 DEF RetryInv, GuessBudget, ThrottleHolds
    <2>3. disk' \in PinRecord => InLimits(disk') /\ WithinBudget(disk', hist')
      BY <1>2, <1>4, <2>1 DEF RetryInv, WithinBudget
    <2>4. mem'.pinSet => WithinBudget(mem', hist')
      BY <1>2, <1>4, <2>1 DEF RetryInv, WithinBudget
    <2>5. up' # "down" => hist'.streak <= mem'.mismatches + Waived(hist')
      BY <1>2, <1>4, <2>1 DEF RetryInv
    <2>6. InLimits(mem') /\ (mem'.pinSet => Throttled(mem')) /\ MemoryNeverLaxer'
      BY <1>4, <2>1 DEF RetryInv, MemoryNeverLaxer
    <2> QED
      BY <2>2, <2>3, <2>4, <2>5, <2>6 DEF RetryInv
  <1>5. CASE Interrupted({RecordOf(Spend(mem)), Poison, None}) /\ UNCHANGED hist
    <2> DEFINE r == RecordOf(Spend(mem))
    <2>1. Milder
      BY <1>2, <1>5 DEF Milder
    <2>2. r.retries = mem.retries - 1 /\ r.mismatches = mem.mismatches + 1
      BY <1>0, <1>1, MemoryFields
    <2>3. InLimits(r)
      BY <1>0, <1>1, MemoryFields DEF InLimits
    <2>4. WithinBudget(r, hist')
      <3>1. hist' = hist /\ hist.wrong + mem.retries <= RetriesMax + Waived(hist)
        BY <1>0, <1>5 DEF RetryInv, WithinBudget
      <3> HIDE DEF r
      <3> QED
        BY <1>2, <2>2, <3>1 DEF WithinBudget
    <2> HIDE DEF r
    <2>5. \A d \in {r, Poison, None} : d \in PinRecord => InLimits(d) /\ WithinBudget(d, hist')
      BY <2>3, <2>4, NameAssumption
    <2> QED
      BY <1>5, <2>1, <2>5, InterruptedRetry DEF r
  <1> QED
    BY <1>3, <1>4, <1>5 DEF AuthFailure

\* What forgetting the history does to it.
LEMMA ForgiveFields ==
  ASSUME TypeOK, Forgive
  PROVE  hist'.wrong = 0 /\ hist'.streak = 0 /\ Waived(hist') = Waived(hist) /\ Milder
  <1>1. /\ hist'.wrong = 0 /\ hist'.streak = 0 /\ Waived(hist') = Waived(hist)
        /\ hist'.reopened = hist.reopened /\ hist'.reverted = hist.reverted
    BY DEF Forgive, TypeOK, History, Waived
  <1> QED
    BY <1>1, Numbers DEF Milder

\* A full set of retries is within the budget of a forgiven history, and so
\* is whatever was within it before.
LEMMA ForgivenBudget ==
  ASSUME TypeOK, RetryInv, Forgive
  PROVE  /\ \A c : c.retries = RetriesMax => WithinBudget(c, hist')
         /\ GuessBudget' /\ ThrottleHolds'
  BY ForgiveFields, Numbers DEF WithinBudget, GuessBudget, ThrottleHolds

\* The state after a right PIN or with a new PIN.
LEMMA FullFacts ==
  ASSUME TypeOK, NEW p \in Pin
  PROVE  /\ mem.pinSet => /\ Owned(Refill(mem))
                          /\ Refill(mem).retries = RetriesMax
                          /\ Refill(mem).mismatches = 0
                          /\ RecordOf(Refill(mem)).retries = RetriesMax
                          /\ InLimits(RecordOf(Refill(mem)))
                          /\ InLimits(Refill(mem)) /\ Throttled(Refill(mem))
         /\ Owned(WithPin(mem, p))
         /\ WithPin(mem, p).retries = RetriesMax
         /\ WithPin(mem, p).mismatches = 0
         /\ RecordOf(WithPin(mem, p)).retries = RetriesMax
         /\ InLimits(RecordOf(WithPin(mem, p)))
         /\ InLimits(WithPin(mem, p)) /\ Throttled(WithPin(mem, p))
  <1>0. RetriesMax \in Nat /\ BlockAt \in Nat \ {0}
    BY Numbers
  <1>1. ASSUME NEW m, Owned(m), m.retries = RetriesMax, m.mismatches = 0
        PROVE  /\ RecordOf(m).retries = RetriesMax
               /\ InLimits(RecordOf(m))
               /\ InLimits(m) /\ Throttled(m)
    BY <1>0, <1>1, MemoryFields DEF InLimits, Throttled
  <1>2. Owned(WithPin(mem, p)) /\ WithPin(mem, p).retries = RetriesMax
          /\ WithPin(mem, p).mismatches = 0
    BY WithPinType, WithPinFields DEF TypeOK
  <1>3. mem.pinSet => /\ Owned(Refill(mem))
                      /\ Refill(mem).retries = RetriesMax
                      /\ Refill(mem).mismatches = 0
    BY OwnedNow, MemoryFunctions, MemoryFields
  <1> QED
    BY <1>1, <1>2, <1>3

\* Saving a full set of retries.
LEMMA SavedFullRetry ==
  ASSUME TypeOK, TypeOK', RetryInv, NEW m, Owned(m), Saved(m), Forgive,
         m.retries = RetriesMax, m.mismatches = 0
  PROVE  RetryInv'
  <1>1. InLimits(m) /\ Throttled(m)
    BY Numbers DEF InLimits, Throttled
  <1>2. WithinBudget(m, hist')
    BY ForgivenBudget
  <1>3. hist'.streak <= m.mismatches + Waived(hist')
    BY ForgiveFields, Numbers
  <1> QED
    BY <1>1, <1>2, <1>3, SavedRetry

LEMMA AuthNotSavedRetry ==
  ASSUME TypeOK, TypeOK', RetryInv, AuthNotSaved
  PROVE  RetryInv'
  <1>1. /\ hist'.wrong = 0 /\ hist'.streak = hist.streak /\ Waived(hist') = Waived(hist)
        /\ hist'.reopened = hist.reopened /\ hist'.reverted = hist.reverted
    BY DEF AuthNotSaved, TypeOK, History, Waived
  <1>2. Milder
    BY <1>1, Numbers DEF Milder
  <1> QED
    BY <1>2, NotSavedRetry DEF AuthNotSaved

LEMMA ApplyPinRetry ==
  ASSUME TypeOK, TypeOK', RetryInv, NEW p \in Pin, ApplyPin(mem, p)
  PROVE  RetryInv'
  <1>1. CASE Saved(WithPin(mem, p)) /\ Forgive
    BY <1>1, FullFacts, SavedFullRetry
  <1>2. CASE NotSaved /\ UNCHANGED hist
    BY <1>2, NotSavedRetry, Numbers DEF Milder
  <1>3. CASE Interrupted({RecordOf(WithPin(mem, p))}) /\ disk' = disk /\ UNCHANGED hist
    <2>1. Interrupted({})
      BY <1>3 DEF Interrupted
    <2>2. Milder
      BY <1>3, Numbers DEF Milder
    <2> QED
      BY <2>1, <2>2, InterruptedRetry
  <1>4. CASE Interrupted({RecordOf(WithPin(mem, p))}) /\ Forgive
    <2>1. Milder
      BY <1>4, ForgiveFields
    <2>2. \A d \in {RecordOf(WithPin(mem, p))} : InLimits(d) /\ WithinBudget(d, hist')
      BY <1>4, FullFacts, ForgivenBudget
    <2> QED
      BY <1>4, <2>1, <2>2, InterruptedRetry
  <1> QED
    BY <1>1, <1>2, <1>3, <1>4 DEF ApplyPin

\* Memory and record agree on a full set of retries, or there is no record.
LEMMA FullRetry ==
  ASSUME TypeOK, TypeOK', RetryInv, mem.pinSet, Forgive, mem' = Refill(mem),
         disk' \in {RecordOf(Refill(mem)), None}
  PROVE  RetryInv'
  <1> DEFINE m == Refill(mem)
  <1>1. PICK p : p \in Pin
    BY DEF TypeOK
  <1>2. /\ m.retries = RetriesMax
        /\ m.mismatches = 0
        /\ RecordOf(m).retries = RetriesMax
        /\ RecordOf(m).pin = m.pin
        /\ InLimits(RecordOf(m))
        /\ InLimits(m) /\ Throttled(m)
    BY <1>1, FullFacts, MemoryFields
  <1> HIDE DEF m
  <1>3. WithinBudget(m, hist') /\ WithinBudget(RecordOf(m), hist') /\ GuessBudget' /\ ThrottleHolds'
    BY <1>2, ForgivenBudget
  <1>4. hist'.streak <= m.mismatches + Waived(hist')
    BY <1>2, ForgiveFields, Numbers
  <1>5. None \notin PinRecord /\ mem' = m /\ disk' \in {RecordOf(m), None}
    BY NameAssumption DEF m
  <1>6. disk' \in PinRecord => disk'.retries = RetriesMax /\ disk'.pin = mem'.pin
    BY <1>2, <1>5
  <1>7. MemoryNeverLaxer'
    BY <1>2, <1>5, <1>6, Numbers, ForgiveFields DEF MemoryNeverLaxer, Milder
  <1> QED
    BY <1>2, <1>3, <1>4, <1>5, <1>7 DEF RetryInv

LEMMA ReplacePinRetry ==
  ASSUME TypeOK, TypeOK', RetryInv, up # "down", NEW g \in Pin, NEW p \in Pin, ReplacePin(g, p)
  PROVE  RetryInv'
  <1>0. Existing(mem) /\ mem.pinSet
    BY DEF ReplacePin, Existing
  <1>1. CASE AuthFailure
    BY <1>0, <1>1, AuthFailureRetry
  <1>2. CASE AuthNotSaved
    BY <1>2, AuthNotSavedRetry
  <1>3. CASE OnlyVerified
    BY <1>0, <1>3, FullRetry DEF OnlyVerified
  <1>4. CASE Saved(WithPin(mem, p)) /\ Forgive
    BY <1>4, FullFacts, SavedFullRetry
  <1>5. CASE /\ Interrupted({RecordOf(Refill(mem)), RecordOf(WithPin(mem, p))})
             /\ Forgive
    <2>1. Milder
      BY <1>5, ForgiveFields
    <2>2. \A d \in {RecordOf(Refill(mem)), RecordOf(WithPin(mem, p))} :
            InLimits(d) /\ WithinBudget(d, hist')
      BY <1>0, <1>5, FullFacts, ForgivenBudget
    <2> QED
      BY <1>5, <2>1, <2>2, InterruptedRetry
  <1> QED
    BY <1>1, <1>2, <1>3, <1>4, <1>5 DEF ReplacePin

LEMMA GetPinTokenRetry ==
  ASSUME TypeOK, TypeOK', RetryInv, NEW g \in Pin, NEW req \in TokenRequest, GetPinToken(g, req)
  PROVE  RetryInv'
  <1>0. Existing(mem) /\ mem.pinSet /\ up # "down"
    BY DEF GetPinToken, Existing, HostReady
  <1>1. CASE AuthFailure
    BY <1>0, <1>1, AuthFailureRetry
  <1>2. CASE AuthNotSaved
    BY <1>2, AuthNotSavedRetry
  <1>3. CASE Saved(Refill(mem)) /\ Forgive
    BY <1>0, <1>3, FullFacts, SavedFullRetry
  <1>4. CASE Interrupted({RecordOf(Refill(mem))}) /\ Forgive
    <2>1. Milder
      BY <1>4, ForgiveFields
    <2>2. \A d \in {RecordOf(Refill(mem))} : InLimits(d) /\ WithinBudget(d, hist')
      BY <1>0, <1>4, FullFacts, ForgivenBudget
    <2> QED
      BY <1>4, <2>1, <2>2, InterruptedRetry
  <1> QED
    BY <1>1, <1>2, <1>3, <1>4 DEF GetPinToken

\* Steps that leave memory, record and counts alone.
LEMMA UntouchedRetry ==
  ASSUME RetryInv, UNCHANGED <<up, mem, disk, hist>>
  PROVE  RetryInv'
  BY DEF RetryInv, GuessBudget, ThrottleHolds, MemoryNeverLaxer

\* The throttle is cleared, by an accepted token or by the owner.
LEMMA ClearBlockFacts ==
  ASSUME TypeOK, RetryInv, mem.pinSet
  PROVE  /\ Owned(ClearBlock(mem))
         /\ ClearBlock(mem).mismatches = 0
         /\ InLimits(ClearBlock(mem)) /\ Throttled(ClearBlock(mem))
         /\ WithinBudget(ClearBlock(mem), hist)
         /\ InLimits(RecordOf(ClearBlock(mem)))
         /\ WithinBudget(RecordOf(ClearBlock(mem)), hist)
  <1> DEFINE m == ClearBlock(mem)
  <1>1. Owned(mem) /\ Owned(m) /\ m.retries = mem.retries /\ m.mismatches = 0
    BY OwnedNow, MemoryFunctions, MemoryFields
  <1>2. RecordOf(m).retries = m.retries /\ RecordOf(m).mismatches = m.mismatches
    BY <1>1, MemoryFields
  <1>3. mem.retries <= RetriesMax /\ WithinBudget(mem, hist)
    BY DEF RetryInv, InLimits
  <1> HIDE DEF m
  <1>4. InLimits(m) /\ Throttled(m) /\ WithinBudget(m, hist)
    BY <1>1, <1>3, Numbers DEF InLimits, Throttled, WithinBudget
  <1>5. InLimits(RecordOf(m)) /\ WithinBudget(RecordOf(m), hist)
    BY <1>2, <1>4 DEF InLimits, WithinBudget
  <1> QED
    BY <1>1, <1>4, <1>5 DEF m

LEMMA ClearedRetry ==
  ASSUME TypeOK, TypeOK', RetryInv, mem.pinSet,
         \/ Saved(ClearBlock(mem)) /\ hist' = [hist EXCEPT !.streak = 0]
         \/ NotSaved /\ UNCHANGED hist
         \/ Interrupted({RecordOf(ClearBlock(mem))}) /\ UNCHANGED hist
  PROVE  RetryInv'
  <1>1. CASE Saved(ClearBlock(mem)) /\ hist' = [hist EXCEPT !.streak = 0]
    <2>1. hist'.streak = 0 /\ hist'.wrong = hist.wrong /\ Waived(hist') = Waived(hist)
      BY <1>1 DEF TypeOK, History, Waived
    <2>2. WithinBudget(ClearBlock(mem), hist')
      BY <2>1, ClearBlockFacts DEF WithinBudget
    <2>3. hist'.streak <= ClearBlock(mem).mismatches + Waived(hist')
      BY <2>1, ClearBlockFacts, Numbers
    <2> QED
      BY <1>1, <2>2, <2>3, ClearBlockFacts, SavedRetry
  <1>2. CASE UNCHANGED hist /\ NotSaved
    BY <1>2, NotSavedRetry, Numbers DEF Milder
  <1>3. CASE UNCHANGED hist /\ Interrupted({RecordOf(ClearBlock(mem))})
    <2>1. Milder
      BY <1>3, Numbers DEF Milder
    <2>2. \A d \in {RecordOf(ClearBlock(mem))} : InLimits(d) /\ WithinBudget(d, hist')
      BY <1>3, ClearBlockFacts
    <2> QED
      BY <1>3, <2>1, <2>2, InterruptedRetry
  <1> QED
    BY <1>1, <1>2, <1>3

\* A wrong pinUvAuthParam costs no retry, and counts for the throttle.
LEMMA RequireAuthRetry ==
  ASSUME TypeOK, TypeOK', RetryInv, NEW valid \in BOOLEAN, NEW perm \in Permission, NEW rp \in Rp,
         RequireAuth(valid, perm, rp)
  PROVE  RetryInv'
  <1>0. Owned(mem) /\ mem.pinSet /\ ~mem.blocked /\ up # "down" /\ InLimits(mem) /\ Throttled(mem)
    BY OwnedNow DEF RequireAuth, HostReady, RetryInv
  <1> DEFINE m == NoteMismatch(mem)
  <1>m. /\ Owned(m) /\ InLimits(m) /\ Throttled(m)
        /\ m.retries = mem.retries /\ m.mismatches = mem.mismatches + 1 /\ m.pin = mem.pin
    BY <1>0, MemoryFunctions, MemoryFields, NoteMismatchFields, SamePin
  <1>1. CASE UNCHANGED <<up, mem, host, disk, stranded, hist>>
    BY <1>1, UntouchedRetry
  <1>2. CASE SaveStrict(NoteMismatch(mem), 0)
    <2>1. m.retries + 0 <= mem.retries
      BY <1>m, Numbers
    <2> QED
      BY <1>0, <1>m, <1>2, <2>1, SaveStrictRetry
  <1>3. CASE Interrupted({RecordOf(NoteMismatch(mem)), Poison, None}) /\ UNCHANGED hist
    <2>1. Milder
      BY <1>3, Numbers DEF Milder
    <2>2. RecordOf(m).retries = mem.retries /\ RecordOf(m).mismatches = m.mismatches
      BY <1>m, MemoryFields
    <2>3. InLimits(RecordOf(m)) /\ WithinBudget(RecordOf(m), hist')
      BY <1>0, <1>m, <1>3, <2>2 DEF RetryInv, InLimits, WithinBudget
    <2>4. \A d \in {RecordOf(m), Poison, None} : d \in PinRecord => InLimits(d) /\ WithinBudget(d, hist')
      BY <2>3, NameAssumption
    <2> QED
      BY <1>3, <2>1, <2>4, InterruptedRetry
  <1>4. CASE \/ Saved(ClearBlock(mem)) /\ hist' = [hist EXCEPT !.streak = 0]
             \/ NotSaved /\ UNCHANGED hist
             \/ Interrupted({RecordOf(ClearBlock(mem))}) /\ UNCHANGED hist
    BY <1>0, <1>4, ClearedRetry
  <1> HIDE DEF m
  <1> QED
    BY <1>1, <1>2, <1>3, <1>4 DEF RequireAuth

\* The record is removed and nothing else happens.
LEMMA RemovedRetry ==
  ASSUME RetryInv, disk' \in {disk, None}, UNCHANGED <<up, mem, hist>>
  PROVE  RetryInv'
  BY NameAssumption DEF RetryInv, GuessBudget, ThrottleHolds, MemoryNeverLaxer

\* The power goes, and at most the record with it.
LEMMA PowerOffRetry ==
  ASSUME RetryInv, PowerOff, disk' \in {disk, None}, UNCHANGED hist
  PROVE  RetryInv'
  <1>1. disk' \in PinRecord => disk' = disk
    BY NameAssumption
  <1> QED
    BY <1>1, ZeroedFacts DEF RetryInv, PowerOff, GuessBudget, ThrottleHolds, MemoryNeverLaxer

\* The PIN is gone, from memory and from the record file.
LEMMA WipedRetry ==
  ASSUME TypeOK, RetryInv, Forgive, mem' \in {Unset, Zeroed}, disk' = None
  PROVE  RetryInv'
  <1>1. None \notin PinRecord /\ GuessBudget' /\ ThrottleHolds'
    BY NameAssumption, ForgivenBudget
  <1>2. mem'.mismatches = 0 /\ ~mem'.pinSet /\ InLimits(mem') /\ Throttled(mem')
    BY ZeroedFacts
  <1>3. hist'.streak <= mem'.mismatches + Waived(hist')
    BY <1>2, ForgiveFields, Numbers
  <1> QED
    BY <1>1, <1>2, <1>3 DEF RetryInv, MemoryNeverLaxer

LEMMA ResetRetry ==
  ASSUME TypeOK, RetryInv, Reset
  PROVE  RetryInv'
  <1>1. CASE Forgive /\ mem' \in {Unset, Zeroed} /\ disk' = None
    BY <1>1, WipedRetry
  <1>2. CASE disk' \in {disk, None} /\ UNCHANGED <<up, mem, hist>>
    BY <1>2, RemovedRetry
  <1>3. CASE PowerOff /\ disk' \in {disk, None} /\ UNCHANGED hist
    BY <1>3, PowerOffRetry
  <1> QED
    BY <1>1, <1>2, <1>3 DEF Reset

LEMMA UiRemovePinRetry ==
  ASSUME TypeOK, TypeOK', RetryInv, NEW g \in Pin, UiRemovePin(g)
  PROVE  RetryInv'
  <1>0. Existing(mem) /\ mem.pinSet /\ up # "down"
    BY DEF UiRemovePin, UiReady, Existing
  <1>1. CASE AuthFailure
    BY <1>0, <1>1, AuthFailureRetry
  <1>2. CASE AuthNotSaved
    BY <1>2, AuthNotSavedRetry
  <1>3. CASE mem' = Refill(mem) /\ disk' \in {RecordOf(Refill(mem)), None} /\ Forgive
    BY <1>0, <1>3, FullRetry
  <1>4. CASE mem' = Unset /\ disk' = None /\ Forgive
    BY <1>4, WipedRetry
  <1>5. CASE Interrupted({RecordOf(Refill(mem)), None}) /\ Forgive
    <2>1. Milder
      BY <1>5, ForgiveFields
    <2>2. \A d \in {RecordOf(Refill(mem)), None} :
            d \in PinRecord => InLimits(d) /\ WithinBudget(d, hist')
      BY <1>0, <1>5, FullFacts, ForgivenBudget, NameAssumption
    <2> QED
      BY <1>5, <2>1, <2>2, InterruptedRetry
  <1> QED
    BY <1>1, <1>2, <1>3, <1>4, <1>5 DEF UiRemovePin

\* Start-up: memory becomes what the record says, with the throttle cleared.
LEMMA BootRetry ==
  ASSUME TypeOK, RetryInv, Boot
  PROVE  RetryInv'
  <1>1. /\ hist'.streak = 0 /\ hist'.wrong = hist.wrong /\ Waived(hist') = Waived(hist)
        /\ hist'.reopened = hist.reopened
    BY DEF Boot, TypeOK, History, Waived
  <1>2. disk' = disk
    BY DEF Boot
  <1>3. GuessBudget' /\ ThrottleHolds'
    BY <1>1, Numbers DEF RetryInv, GuessBudget, ThrottleHolds
  <1>4. disk' \in PinRecord => InLimits(disk') /\ WithinBudget(disk', hist')
    BY <1>1, <1>2 DEF RetryInv, WithinBudget
  <1>5. CASE mem' \in {Unset, Zeroed}
    <2>1. mem'.mismatches = 0 /\ ~mem'.pinSet /\ InLimits(mem') /\ Throttled(mem')
      BY <1>5, ZeroedFacts
    <2>2. hist'.streak <= mem'.mismatches + Waived(hist')
      BY <1>1, <2>1, Numbers
    <2> QED
      BY <1>3, <1>4, <2>1, <2>2 DEF RetryInv, MemoryNeverLaxer
  <1>6. CASE disk # None /\ Loads(disk) /\ mem' = ClearBlock(FromRecord(disk))
    <2>1. disk \in PinRecord
      BY <1>6 DEF Loads, TypeOK, Stored
    <2>2. mem'.retries = disk.retries /\ mem'.mismatches = 0 /\ mem'.pin = disk.pin
      BY <1>6, <2>1 DEF ClearBlock, FromRecord, PinRecord
    <2>3. InLimits(mem') /\ Throttled(mem')
      BY <1>4, <1>2, <2>1, <2>2, Numbers DEF InLimits, Throttled
    <2>4. WithinBudget(mem', hist')
      BY <1>2, <1>4, <2>1, <2>2 DEF WithinBudget
    <2>5. hist'.streak <= mem'.mismatches + Waived(hist')
      BY <1>1, <2>2, Numbers
    <2>6. MemoryNeverLaxer'
      BY <1>1, <1>2, <2>1, <2>2, Numbers DEF MemoryNeverLaxer
    <2> QED
      BY <1>3, <1>4, <2>3, <2>4, <2>5, <2>6 DEF RetryInv
  <1>7. CASE /\ disk # None /\ Loads(disk)
             /\ mem' = [FromRecord(disk) EXCEPT !.pinSet = FALSE, !.pin = NoPin]
    <2>1. disk \in PinRecord
      BY <1>7 DEF Loads, TypeOK, Stored
    <2>2. mem'.retries = disk.retries /\ mem'.mismatches = disk.mismatches /\ ~mem'.pinSet
      BY <1>7, <2>1 DEF FromRecord, PinRecord
    <2>3. InLimits(mem')
      BY <1>2, <1>4, <2>1, <2>2 DEF InLimits
    <2>4. hist'.streak <= mem'.mismatches + Waived(hist')
      BY <1>1, <2>1, <2>2, Numbers
    <2> QED
      BY <1>3, <1>4, <2>2, <2>3, <2>4 DEF RetryInv, MemoryNeverLaxer
  <1> QED
    BY <1>5, <1>6, <1>7 DEF Boot

\* A copy from before the dialog replaces memory.
LEMMA StalePublishRetry ==
  ASSUME TypeOK, RetryInv, DialogInv, StalePublish
  PROVE  RetryInv'
  <1> DEFINE b == RetriesMax - mem.retries
  <1>0. /\ Owned(host.mem) /\ host.mem.pin = host.pin
        /\ host.mem.retries = RetriesMax /\ host.mem.mismatches = 0
        /\ Paid(mem)
        /\ ~mem.pinSet => hist.wrong = 0 /\ disk \notin PinRecord
    BY WaitingHost DEF StalePublish, DialogInv, Owned
  <1>1. /\ mem.retries \in Nat /\ mem.mismatches \in Nat
        /\ hist.wrong \in Nat /\ hist.streak \in Nat /\ Waived(hist) \in Nat
        /\ hist.reopened \in Nat
        /\ \A d \in PinRecord : d.retries \in Nat /\ d.mismatches \in Nat
        /\ RetriesMax \in Nat /\ BlockAt \in Nat \ {0}
        /\ mem.retries <= RetriesMax
    BY Numbers DEF RetryInv, InLimits
  <1>2. b \in Nat /\ GivenBack = b
    BY <1>0, <1>1 DEF GivenBack
  <1>3. /\ hist'.wrong = hist.wrong /\ hist'.streak = hist.streak
        /\ Waived(hist') = Waived(hist) + b
        /\ hist'.reopened = hist.reopened + b
        /\ ~hist'.reverted => ~hist.reverted /\ ConsentStillValid
    <2>1. hist' = [hist EXCEPT !.reopened = hist.reopened + b,
                               !.reverted = hist.reverted \/ ~ConsentStillValid]
      BY <1>2 DEF StalePublish
    <2>2. hist \in History /\ hist.lost \in Nat
      BY DEF TypeOK, History
    <2> DEFINE r == hist.reverted \/ ~ConsentStillValid
    <2>3. /\ hist'.wrong = hist.wrong /\ hist'.streak = hist.streak /\ hist'.lost = hist.lost
          /\ hist'.reopened = hist.reopened + b /\ hist'.reverted = r
      <3> HIDE DEF b, r
      <3>1. hist' = [hist EXCEPT !.reopened = hist.reopened + b, !.reverted = r]
        BY <2>1 DEF r
      <3> QED
        BY <2>2, <3>1 DEF History
    <2>4. ~hist'.reverted => ~hist.reverted /\ ConsentStillValid
      BY <2>3
    <2> HIDE DEF b, r
    <2>5. Waived(hist') = Waived(hist) + b
      BY <1>1, <1>2, <2>2, <2>3 DEF Waived
    <2> QED
      BY <2>3, <2>4, <2>5
  <1>4. mem' = host.mem /\ disk' \in {disk, RecordOf(host.mem), Poison} /\ Poison \notin PinRecord
    BY NameAssumption DEF StalePublish
  <1>5. InLimits(mem') /\ Throttled(mem')
    BY <1>0, <1>1, <1>4 DEF InLimits, Throttled
  <1>6. hist.wrong + mem.retries <= RetriesMax + Waived(hist)
    BY <1>0, <1>1 DEF RetryInv, WithinBudget
  <1>7. WithinBudget(mem', hist')
    BY <1>0, <1>1, <1>3, <1>4, <1>6 DEF WithinBudget
  <1>8. disk' \in PinRecord => InLimits(disk') /\ WithinBudget(disk', hist')
    <2>1. CASE disk' = disk
      BY <1>1, <1>2, <1>3, <2>1 DEF RetryInv, WithinBudget
    <2>2. CASE disk' = RecordOf(host.mem)
      BY <1>0, <1>5, <1>7, <1>4, <2>2, MemoryFields DEF InLimits, WithinBudget
    <2> QED
      BY <1>4, <2>1, <2>2
  <1>9. hist'.streak <= mem'.mismatches + Waived(hist')
    <2>1. hist.streak <= mem.mismatches + Waived(hist)
      BY DEF RetryInv, StalePublish
    <2>2. mem.mismatches + mem.retries <= RetriesMax
      BY <1>0 DEF Paid
    <2> QED
      BY <1>0, <1>1, <1>3, <1>4, <2>1, <2>2
  <1>10. GuessBudget' /\ ThrottleHolds'
    BY <1>1, <1>2, <1>3 DEF RetryInv, GuessBudget, ThrottleHolds
  <1>11. MemoryNeverLaxer'
    <2>1. CASE disk' = disk /\ disk \in PinRecord
      <3>1. mem.pinSet /\ mem.retries <= disk.retries + hist.reopened
        BY <1>0, <2>1 DEF RetryInv, MemoryNeverLaxer
      <3>2. ~hist'.reverted => disk.pin = host.mem.pin
        BY <1>0, <1>3, <2>1, <3>1 DEF RetryInv, MemoryNeverLaxer, ConsentStillValid
      <3>3. host.mem.retries <= disk.retries + hist'.reopened
        BY <1>0, <1>1, <1>3, <2>1, <3>1
      <3> QED
        BY <1>4, <2>1, <3>2, <3>3 DEF MemoryNeverLaxer
    <2>2. CASE disk' = RecordOf(host.mem)
      BY <1>0, <1>1, <1>2, <1>3, <1>4, <2>2, MemoryFields DEF MemoryNeverLaxer
    <2>3. CASE disk' \notin PinRecord
      BY <2>3 DEF MemoryNeverLaxer
    <2> QED
      BY <1>4, <2>1, <2>2, <2>3
  <1> QED
    BY <1>5, <1>7, <1>8, <1>9, <1>10, <1>11 DEF RetryInv

LEMMA NextRetry == TypeOK /\ TypeOK' /\ RetryInv /\ DialogInv /\ [Next]_vars => RetryInv'
  <1> SUFFICES ASSUME TypeOK, TypeOK', RetryInv, DialogInv, [Next]_vars PROVE RetryInv'
    OBVIOUS
  <1>1. ASSUME NEW p \in Pin, SetPin(p) \/ UiSetPin(p) PROVE RetryInv'
    BY <1>1, ApplyPinRetry DEF SetPin, UiSetPin
  <1>2. ASSUME NEW g \in Pin, NEW p \in Pin, ChangePin(g, p) \/ UiChangePin(g, p) PROVE RetryInv'
    BY <1>2, ReplacePinRetry DEF ChangePin, UiChangePin, HostReady, UiReady
  <1>3. ASSUME NEW g \in Pin, NEW req \in TokenRequest, GetPinToken(g, req) PROVE RetryInv'
    BY <1>3, GetPinTokenRetry
  <1>4. CASE FinishConsent
    BY <1>4, UntouchedRetry DEF FinishConsent
  <1>5. ASSUME NEW valid \in BOOLEAN, NEW perm \in Permission, NEW rp \in Rp,
               RequireAuth(valid, perm, rp)
        PROVE  RetryInv'
    BY <1>5, RequireAuthRetry
  <1>6. CASE Reset
    BY <1>6, ResetRetry
  <1>7. ASSUME NEW g \in Pin, UiRemovePin(g) PROVE RetryInv'
    BY <1>7, UiRemovePinRetry
  <1>8. CASE UiResume
    BY <1>8, ClearedRetry DEF UiResume
  <1>9. CASE UiResetAppData
    BY <1>9, WipedRetry, RemovedRetry DEF UiResetAppData
  <1>10. CASE Boot
    BY <1>10, BootRetry
  <1>11. CASE Crash
    BY <1>11, PowerOffRetry DEF Crash
  <1>12. CASE Tick
    BY <1>12, UntouchedRetry DEF Tick
  <1>13. CASE StalePublish
    BY <1>13, StalePublishRetry
  <1>14. CASE UNCHANGED vars
    BY <1>14, UntouchedRetry DEF vars
  <1> QED
    BY <1>1, <1>2, <1>3, <1>4, <1>5, <1>6, <1>7, <1>8, <1>9, <1>10, <1>11, <1>12, <1>13, <1>14
       DEF Next

\* No request waits after the step.
LEMMA IdleDialog == ASSUME host' = Idle PROVE DialogInv'
  BY DEF DialogInv, Idle

\* The request goes on waiting.
LEMMA KeptDialog ==
  ASSUME DialogInv, UNCHANGED <<up, host>>,
         host.waiting => /\ Paid(mem')
                         /\ ~mem'.pinSet => hist'.wrong = 0 /\ disk' \notin PinRecord
  PROVE  DialogInv'
  BY DEF DialogInv

LEMMA PaidAbsent == Paid(Zeroed) /\ Paid(Unset)
  BY LimitAssumption DEF Paid, Zeroed, Unset

LEMMA PaidFunctions ==
  ASSUME NEW m, Owned(m)
  PROVE  /\ Paid(Refill(m)) /\ Refill(m).pinSet
         /\ Paid(ForceBlock(m)) /\ ForceBlock(m).pinSet
         /\ Paid(m) => Paid(ClearBlock(m))
         /\ ClearBlock(m).pinSet
  <1>1. /\ m.retries \in Nat /\ m.mismatches \in Nat
        /\ RetriesMax \in Nat /\ BlockAt \in Nat /\ BlockAt <= RetriesMax
    BY LimitAssumption DEF Owned, Memory
  <1>2. Owned(Refill(m)) /\ Owned(ForceBlock(m)) /\ Owned(ClearBlock(m))
    BY MemoryFunctions
  <1>3. Paid(Refill(m)) /\ Paid(ForceBlock(m)) /\ (Paid(m) => Paid(ClearBlock(m)))
    BY <1>1, MemoryFields DEF Paid
  <1> QED
    BY <1>2, <1>3 DEF Owned

LEMMA PaidWithPin ==
  ASSUME NEW m \in Memory, NEW p \in Pin
  PROVE  Paid(WithPin(m, p)) /\ WithPin(m, p).pinSet
  BY LimitAssumption, WithPinFields, WithPinType DEF Paid, Owned

\* A wrong guess on the local screens.
LEMMA AuthFailureDialog ==
  ASSUME TypeOK, RetryInv, DialogInv, Existing(mem), AuthFailure
  PROVE  DialogInv'
  <1>0. Owned(mem) /\ mem.pinSet /\ InLimits(mem) /\ Throttled(mem)
    BY OwnedNow DEF Existing, RetryInv
  <1>1. /\ Spend(mem).retries = mem.retries - 1
        /\ Spend(mem).mismatches = mem.mismatches + 1
        /\ Owned(Spend(mem))
    BY <1>0, SpendFields, MemoryFunctions
  <1>2. host.waiting => Paid(mem) /\ Paid(Spend(mem))
    BY <1>1, Numbers DEF DialogInv, Paid
  <1>3. CASE SaveStrict(Spend(mem), 1) /\ UNCHANGED host
    <2>1. mem' \in {Spend(mem), ForceBlock(Spend(mem))} /\ UNCHANGED up
      BY <1>3 DEF SaveStrict, Saved
    <2>2. mem'.pinSet /\ (host.waiting => Paid(mem'))
      BY <1>1, <1>2, <2>1, PaidFunctions DEF Owned
    <2> QED
      BY <1>3, <2>1, <2>2, KeptDialog
  <1>4. CASE UNCHANGED <<up, mem, token, host, disk, stranded, grant>>
    BY <1>0, <1>2, <1>4, KeptDialog
  <1>5. CASE Interrupted({RecordOf(Spend(mem)), Poison, None})
    BY <1>5, IdleDialog DEF Interrupted, PowerOff
  <1> QED
    BY <1>3, <1>4, <1>5 DEF AuthFailure

\* Steps that change neither memory nor record and count no guess.
LEMMA SameDialog ==
  ASSUME TypeOK, DialogInv, UNCHANGED <<up, mem, disk, host>>, hist'.wrong \in {0, hist.wrong}
  PROVE  DialogInv'
  BY KeptDialog DEF DialogInv

LEMMA AuthNotSavedDialog ==
  ASSUME TypeOK, DialogInv, AuthNotSaved
  PROVE  DialogInv'
  <1>1. hist'.wrong = 0
    BY DEF AuthNotSaved, TypeOK, History
  <1> QED
    BY <1>1, SameDialog DEF AuthNotSaved, NotSaved

LEMMA ApplyPinDialog ==
  ASSUME TypeOK, DialogInv, NEW p \in Pin, ApplyPin(mem, p)
  PROVE  DialogInv'
  <1>1. CASE Saved(WithPin(mem, p)) /\ UNCHANGED host
    <2>1. mem' = WithPin(mem, p) /\ mem \in Memory
      BY <1>1 DEF Saved, TypeOK
    <2> QED
      BY <1>1, <2>1, PaidWithPin, KeptDialog DEF Saved
  <1>2. CASE NotSaved /\ UNCHANGED <<token, host, grant, hist>>
    BY <1>2, SameDialog DEF NotSaved
  <1>3. CASE Interrupted({RecordOf(WithPin(mem, p))})
    BY <1>3, IdleDialog DEF Interrupted, PowerOff
  <1> QED
    BY <1>1, <1>2, <1>3 DEF ApplyPin

LEMMA ReplacePinDialog ==
  ASSUME TypeOK, RetryInv, DialogInv, NEW g \in Pin, NEW p \in Pin, ReplacePin(g, p)
  PROVE  DialogInv'
  <1>0. Existing(mem) /\ Owned(mem) /\ mem \in Memory
    BY OwnedNow DEF ReplacePin, Existing, TypeOK
  <1>1. CASE AuthFailure
    BY <1>0, <1>1, AuthFailureDialog
  <1>2. CASE AuthNotSaved
    BY <1>2, AuthNotSavedDialog
  <1>3. CASE OnlyVerified
    BY <1>0, <1>3, PaidFunctions, KeptDialog DEF OnlyVerified
  <1>4. CASE Saved(WithPin(mem, p)) /\ UNCHANGED host
    BY <1>0, <1>4, PaidWithPin, KeptDialog DEF Saved
  <1>5. CASE Interrupted({RecordOf(Refill(mem)), RecordOf(WithPin(mem, p))})
    BY <1>5, IdleDialog DEF Interrupted, PowerOff
  <1> QED
    BY <1>1, <1>2, <1>3, <1>4, <1>5 DEF ReplacePin

LEMMA UiRemovePinDialog ==
  ASSUME TypeOK, RetryInv, DialogInv, NEW g \in Pin, UiRemovePin(g)
  PROVE  DialogInv'
  <1>0. Existing(mem) /\ Owned(mem)
    BY OwnedNow DEF UiRemovePin, Existing
  <1>1. CASE AuthFailure
    BY <1>0, <1>1, AuthFailureDialog
  <1>2. CASE AuthNotSaved
    BY <1>2, AuthNotSavedDialog
  <1>3. CASE mem' = Refill(mem) /\ UNCHANGED <<up, host>>
    BY <1>0, <1>3, PaidFunctions, KeptDialog
  <1>4. CASE mem' = Unset /\ disk' = None /\ Forgive /\ UNCHANGED <<up, host>>
    BY <1>4, PaidAbsent, ForgiveFields, NameAssumption, KeptDialog
  <1>5. CASE Interrupted({RecordOf(Refill(mem)), None})
    BY <1>5, IdleDialog DEF Interrupted, PowerOff
  <1> QED
    BY <1>1, <1>2, <1>3, <1>4, <1>5 DEF UiRemovePin

LEMMA UiResumeDialog ==
  ASSUME TypeOK, DialogInv, UiResume
  PROVE  DialogInv'
  <1>0. Owned(mem) /\ (host.waiting => Paid(mem))
    BY OwnedNow DEF UiResume, DialogInv
  <1>1. CASE Saved(ClearBlock(mem)) /\ UNCHANGED host
    BY <1>0, <1>1, PaidFunctions, KeptDialog DEF Saved
  <1>2. CASE NotSaved /\ UNCHANGED <<token, host, grant, hist>>
    BY <1>2, SameDialog DEF NotSaved
  <1>3. CASE Interrupted({RecordOf(ClearBlock(mem))})
    BY <1>3, IdleDialog DEF Interrupted, PowerOff
  <1> QED
    BY <1>1, <1>2, <1>3 DEF UiResume

\* A host command, which leaves no request waiting unless it starts one.
LEMMA HostDialog ==
  ASSUME host = Idle, UNCHANGED host \/ PowerOff
  PROVE  DialogInv'
  BY IdleDialog DEF PowerOff

LEMMA GetPinTokenDialog ==
  ASSUME TypeOK, NEW g \in Pin, NEW req \in TokenRequest, GetPinToken(g, req)
  PROVE  DialogInv'
  <1>0. Owned(mem) /\ host = Idle
    BY OwnedNow DEF GetPinToken, Existing, HostReady
  <1>1. CASE /\ Saved(Refill(mem))
             /\ host' = [waiting |-> TRUE, pin |-> g, req |-> req, mem |-> Refill(mem),
                         token |-> token, grant |-> grant]
    <2>1. mem' = Refill(mem) /\ host'.mem = Refill(mem) /\ up' = "running"
      BY <1>1 DEF Saved, GetPinToken, HostReady
    <2> QED
      BY <1>0, <2>1, PaidFunctions, MemoryFields DEF DialogInv
  <1>2. CASE UNCHANGED host \/ PowerOff
    BY <1>0, <1>2, HostDialog
  <1> QED
    BY <1>1, <1>2 DEF GetPinToken, AuthFailure, AuthNotSaved, Interrupted

LEMMA NextDialog == TypeOK /\ RetryInv /\ DialogInv /\ [Next]_vars => DialogInv'
  <1> SUFFICES ASSUME TypeOK, RetryInv, DialogInv, [Next]_vars PROVE DialogInv'
    OBVIOUS
  <1>1. ASSUME NEW p \in Pin, SetPin(p) \/ UiSetPin(p) PROVE DialogInv'
    BY <1>1, ApplyPinDialog DEF SetPin, UiSetPin
  <1>2. ASSUME NEW g \in Pin, NEW p \in Pin, ChangePin(g, p) \/ UiChangePin(g, p) PROVE DialogInv'
    BY <1>2, ReplacePinDialog DEF ChangePin, UiChangePin
  <1>3. ASSUME NEW g \in Pin, NEW req \in TokenRequest, GetPinToken(g, req) PROVE DialogInv'
    BY <1>3, GetPinTokenDialog
  <1>4. CASE FinishConsent \/ StalePublish
    BY <1>4, IdleDialog DEF FinishConsent, StalePublish
  <1>5. ASSUME NEW valid \in BOOLEAN, NEW perm \in Permission, NEW rp \in Rp,
               RequireAuth(valid, perm, rp)
        PROVE  DialogInv'
    BY <1>5, HostDialog DEF RequireAuth, HostReady, Interrupted
  <1>6. CASE Reset
    BY <1>6, HostDialog DEF Reset, HostReady
  <1>7. ASSUME NEW g \in Pin, UiRemovePin(g) PROVE DialogInv'
    BY <1>7, UiRemovePinDialog
  <1>8. CASE UiResume
    BY <1>8, UiResumeDialog
  <1>9. CASE UiResetAppData
    <2>1. ~host.waiting /\ (host' = Idle \/ UNCHANGED host)
      BY <1>9 DEF UiResetAppData, DialogInv
    <2> QED
      BY <2>1, IdleDialog DEF DialogInv
  <1>10. CASE Boot
    <2>1. ~host.waiting /\ UNCHANGED host
      BY <1>10 DEF Boot, DialogInv
    <2> QED
      BY <2>1 DEF DialogInv
  <1>11. CASE Crash
    BY <1>11, IdleDialog DEF Crash, PowerOff
  <1>12. CASE Tick
    <2>1. host'.waiting => host.waiting /\ host'.mem = host.mem
      BY <1>12, WaitingHost DEF Tick, Waiting
    <2> QED
      BY <1>12, <2>1 DEF Tick, DialogInv
  <1>13. CASE UNCHANGED vars
    BY <1>13, SameDialog DEF vars
  <1> QED
    BY <1>1, <1>2, <1>3, <1>4, <1>5, <1>6, <1>7, <1>8, <1>9, <1>10, <1>11, <1>12, <1>13
       DEF Next

LEMMA InitRetry == Init => RetryInv /\ DialogInv
  <1> SUFFICES ASSUME Init PROVE RetryInv /\ DialogInv
    OBVIOUS
  <1>1. hist.wrong = 0 /\ hist.streak = 0 /\ Waived(hist) = 0
    BY DEF Init, Waived
  <1>2. GuessBudget /\ ThrottleHolds
    BY <1>1, LimitAssumption DEF GuessBudget, ThrottleHolds
  <1> QED
    BY <1>2, ZeroedFacts, NameAssumption
       DEF Init, RetryInv, MemoryNeverLaxer, DialogInv, Idle

\* RetryInv and DialogInv are invariants of every behaviour of the clientPIN
\* code, the stale publication of a consent dialog included.
THEOREM RetryInvariance == Spec => [](RetryInv /\ DialogInv)
  BY TypeCorrectness, InitRetry, NextRetry, NextDialog, PTL DEF Spec

\* At most RetriesMax wrong guesses, besides those whose retry was lost or
\* given back by a stale publication, are answered before the right PIN is
\* entered, across restarts and power losses.
THEOREM GuessBudgetHolds == Spec => []GuessBudget
  <1>1. RetryInv => GuessBudget
    BY DEF RetryInv
  <1> QED
    BY <1>1, RetryInvariance, PTL

\* At most BlockAt failed attempts in a row are answered, besides those lost
\* or given back.
THEOREM ThrottleAlwaysHolds == Spec => []ThrottleHolds
  <1>1. RetryInv => ThrottleHolds
    BY DEF RetryInv
  <1> QED
    BY <1>1, RetryInvariance, PTL

\* The loader accepts every record the PIN code writes.
THEOREM EveryRecordAlwaysLoads == Spec => []EveryRecordLoads
  <1>1. RetryInv => EveryRecordLoads
    BY NameAssumption DEF RetryInv, EveryRecordLoads, Loads, InLimits
  <1> QED
    BY <1>1, RetryInvariance, PTL

\* Memory checks against the PIN of the record and allows no more guesses than
\* it, but for the retries and the old PIN that a stale publication brings back.
THEOREM MemoryIsNeverLaxer == Spec => []MemoryNeverLaxer
  <1>1. RetryInv => MemoryNeverLaxer
    BY DEF RetryInv
  <1> QED
    BY <1>1, RetryInvariance, PTL
-----------------------------------------------------------------------------
(* The pinUvAuthToken.                                                     *)

\* A token that can still grant something lies within what the user agreed
\* to, and one that was issued after a dialog has granted nothing yet.
Within(t, g) ==
    /\ t.perms \subseteq g.perms
    /\ g.oneShot => t.managed /\ g.uses = 0
    /\ g.rp # NoRp => t.scoped /\ t.rp = g.rp

WithinGrant == Within(token, grant)

\* The part of TokenOfCurrentPin that is about memory.
TokenOfPin == token.active => mem.pinSet /\ grant.pin = mem.pin

(***************************************************************************)
(* The inductive strengthening.  What a token granted so far does not say  *)
(* what it can grant next: the token's own fields must lie within the      *)
(* grant, a consumed one must have no permission left, and a token must    *)
(* not survive into a session whose PIN is loaded anew.  The clock is      *)
(* compared modulo its width, so the lifetime holds as long as a token is  *)
(* not kept for half a turn of it.                                         *)
(***************************************************************************)
TokenInv ==
    /\ up = "down" => ~token.active
    /\ token.age <= MaxAge
    /\ TokenOfPin
    /\ token.active /\ token.perms # {} => WithinGrant
    /\ ConsentHonoured
    /\ MaxAge < HalfClock => TokenLifetime

(***************************************************************************)
(* The same of the copy that a handler holds during the consent dialog,    *)
(* since a stale publication puts the copy in the token's place.           *)
(***************************************************************************)
CopyInv ==
    host.waiting =>
        LET t == host.token
            g == host.grant
        IN  /\ t.age <= MaxAge
            /\ t.active => g.pin = host.mem.pin
            /\ t.active /\ t.perms # {} => Within(t, g)
            /\ g.oneShot => g.uses <= 1
            /\ g.used \subseteq g.perms \X (IF g.rp = NoRp THEN Rp ELSE {g.rp})
            /\ MaxAge < HalfClock => g.lastUse < TokenTimeout

\* No token, no grant.
LEMMA DroppedToken ==
  ASSUME token' = NoToken, grant' = NoGrant
  PROVE  TokenInv'
  <1>1. /\ ~NoToken.active /\ NoToken.age = 0
        /\ ~NoGrant.oneShot /\ NoGrant.used = {} /\ NoGrant.lastUse = 0
    BY DEF NoToken, NoGrant
  <1>2. TokenLifetime' /\ 0 <= MaxAge
    BY <1>1, LimitAssumption DEF TokenLifetime
  <1>3. ConsentHonoured'
    BY <1>1 DEF ConsentHonoured
  <1> QED
    BY <1>1, <1>2, <1>3 DEF TokenInv, TokenOfPin

\* The token stays as it is, and so does the PIN.
LEMMA KeptToken ==
  ASSUME TokenInv, UNCHANGED <<token, grant>>,
         up' = "down" => up = "down",
         token.active => mem'.pinSet = mem.pinSet /\ mem'.pin = mem.pin
  PROVE  TokenInv'
  BY DEF TokenInv, TokenOfPin, WithinGrant, Within, ConsentHonoured, TokenLifetime

LEMMA InterruptedToken ==
  ASSUME NEW D, Interrupted(D)
  PROVE  TokenInv'
  BY DroppedToken DEF Interrupted, PowerOff

LEMMA SaveStrictToken ==
  ASSUME TokenInv, NEW m, NEW cost, SaveStrict(m, cost),
         m.pinSet = mem.pinSet, m.pin = mem.pin
  PROVE  TokenInv'
  <1>1. CASE UNCHANGED <<up, token, grant>> /\ mem' = m
    BY <1>1, KeptToken
  <1>2. CASE token' = NoToken /\ grant' = NoGrant
    BY <1>2, DroppedToken
  <1> QED
    BY <1>1, <1>2 DEF SaveStrict, Saved

LEMMA AuthFailureToken ==
  ASSUME TypeOK, TokenInv, Existing(mem), AuthFailure
  PROVE  TokenInv'
  <1>0. Owned(mem)
    BY OwnedNow DEF Existing
  <1>1. CASE SaveStrict(Spend(mem), 1)
    BY <1>0, <1>1, SamePin, SaveStrictToken
  <1>2. CASE UNCHANGED <<up, mem, token, host, disk, stranded, grant>>
    BY <1>2, KeptToken
  <1>3. CASE Interrupted({RecordOf(Spend(mem)), Poison, None})
    BY <1>3, InterruptedToken
  <1> QED
    BY <1>1, <1>2, <1>3 DEF AuthFailure

LEMMA NotSavedToken ==
  ASSUME TokenInv, NotSaved, UNCHANGED <<token, grant>>
  PROVE  TokenInv'
  BY KeptToken DEF NotSaved

\* A new PIN drops the token of the one before it.
LEMMA ApplyPinToken ==
  ASSUME TokenInv, NEW p \in Pin, ApplyPin(mem, p)
  PROVE  TokenInv'
  BY DroppedToken, NotSavedToken, InterruptedToken DEF ApplyPin

LEMMA ReplacePinToken ==
  ASSUME TypeOK, TokenInv, NEW g \in Pin, NEW p \in Pin, ReplacePin(g, p)
  PROVE  TokenInv'
  <1>0. Owned(mem) /\ Existing(mem)
    BY OwnedNow DEF ReplacePin, Existing
  <1>1. CASE AuthFailure
    BY <1>0, <1>1, AuthFailureToken
  <1>2. CASE AuthNotSaved
    BY <1>2, NotSavedToken DEF AuthNotSaved
  <1>3. CASE OnlyVerified
    BY <1>0, <1>3, SamePin, KeptToken DEF OnlyVerified
  <1>4. CASE token' = NoToken /\ grant' = NoGrant
    BY <1>4, DroppedToken
  <1>5. CASE Interrupted({RecordOf(Refill(mem)), RecordOf(WithPin(mem, p))})
    BY <1>5, InterruptedToken
  <1> QED
    BY <1>1, <1>2, <1>3, <1>4, <1>5 DEF ReplacePin

\* A fresh token may do what was asked for, once if a dialog came before it.
LEMMA IssuedToken ==
  ASSUME NEW req \in TokenRequest, IssueToken(req),
         up' # "down", mem'.pinSet, mem'.pin = mem.pin
  PROVE  TokenInv'
  <1>1. req.rp # NoRp => req.scoped
    <2>1. CASE req = LegacyRequest
      BY <2>1 DEF LegacyRequest
    <2>2. CASE req \in [perms : SUBSET Permission \ {{}}, scoped : {TRUE}, managed : {TRUE},
                        rp : Rp \cup {NoRp}]
      BY <2>2
    <2> QED
      BY <2>1, <2>2 DEF TokenRequest
  <1>2. /\ token'.active /\ token'.perms = req.perms /\ token'.age = 0
        /\ token'.scoped = req.scoped /\ token'.managed = req.managed /\ token'.rp = req.rp
        /\ grant'.pin = mem.pin /\ grant'.perms = req.perms /\ grant'.rp = req.rp
        /\ grant'.oneShot = req.managed /\ grant'.uses = 0 /\ grant'.used = {}
        /\ grant'.lastUse = 0
    BY DEF IssueToken
  <1>3. WithinGrant'
    BY <1>1, <1>2 DEF WithinGrant, Within
  <1>4. ConsentHonoured'
    BY <1>2 DEF ConsentHonoured
  <1>5. TokenLifetime' /\ 0 <= MaxAge
    BY <1>2, LimitAssumption DEF TokenLifetime
  <1> QED
    BY <1>2, <1>3, <1>4, <1>5 DEF TokenInv, TokenOfPin

LEMMA GetPinTokenToken ==
  ASSUME TypeOK, TokenInv, NEW g \in Pin, NEW req \in TokenRequest, GetPinToken(g, req)
  PROVE  TokenInv'
  <1>0. Owned(mem) /\ Existing(mem) /\ mem.pinSet /\ up = "running"
    BY OwnedNow DEF GetPinToken, Existing, HostReady
  <1>1. CASE AuthFailure
    BY <1>0, <1>1, AuthFailureToken
  <1>2. CASE AuthNotSaved
    BY <1>2, NotSavedToken DEF AuthNotSaved
  <1>3. CASE Saved(Refill(mem)) /\ UNCHANGED <<token, grant>>
    BY <1>0, <1>3, SamePin, KeptToken DEF Saved
  <1>4. CASE Saved(Refill(mem)) /\ IssueToken(req)
    BY <1>0, <1>4, SamePin, IssuedToken DEF Saved
  <1>5. CASE Interrupted({RecordOf(Refill(mem))})
    BY <1>5, InterruptedToken
  <1> QED
    BY <1>1, <1>2, <1>3, <1>4, <1>5 DEF GetPinToken

LEMMA FinishConsentToken ==
  ASSUME TypeOK, TokenInv, FinishConsent
  PROVE  TokenInv'
  <1>1. host \in Waiting
    BY DEF FinishConsent, TypeOK, Idle
  <1>2. CASE ConsentStillValid /\ IssueToken(host.req)
    BY <1>1, <1>2, IssuedToken DEF FinishConsent, ConsentStillValid, Waiting
  <1>3. CASE UNCHANGED <<token, grant>>
    BY <1>3, KeptToken DEF FinishConsent
  <1> QED
    BY <1>2, <1>3 DEF FinishConsent

\* Below half a turn of the clock the difference is the age itself.
LEMMA AgeModulo ==
  ASSUME NEW a \in Nat, NEW h \in Nat, a < h
  PROVE  a % (2 * h) = a
  OBVIOUS

\* A pinUvAuthParam is accepted.
LEMMA AcceptedToken ==
  ASSUME TypeOK, TokenInv, NEW perm \in Permission, NEW rp \in Rp,
         mem.pinSet, token.active, ~TokenExpired(token), perm \in token.perms,
         RpAllowed(token, rp), Saved(ClearBlock(mem)), up # "down",
         token' = LET bound == [token EXCEPT !.rp = IF token.scoped THEN rp ELSE @]
                  IN  IF token.managed THEN Consume(bound) ELSE bound,
         grant' = [grant EXCEPT !.uses = IF @ < 2 THEN @ + 1 ELSE @,
                                !.used = @ \cup {<<perm, rp>>},
                                !.lastUse = token.age]
  PROVE  TokenInv'
  <1>0. /\ token \in Token /\ grant \in Grant /\ Owned(mem)
        /\ token.age \in Nat /\ grant.uses \in 0..2 /\ rp # NoRp
    BY OwnedNow, NameAssumption DEF TypeOK, Token, Grant
  <1>w. WithinGrant /\ token.age <= MaxAge /\ ConsentHonoured
    BY DEF TokenInv
  <1>1. /\ token'.active = token.active /\ token'.age = token.age
        /\ token.managed => token'.perms = {}
        /\ ~token.managed => /\ token'.perms = token.perms /\ token'.scoped = token.scoped
                             /\ ~token'.managed
                             /\ token'.rp = IF token.scoped THEN rp ELSE token.rp
    <2> DEFINE b == [token EXCEPT !.rp = IF token.scoped THEN rp ELSE @]
    <2>1. /\ b \in Token /\ b.active = token.active /\ b.age = token.age /\ b.perms = token.perms
          /\ b.scoped = token.scoped /\ b.managed = token.managed
          /\ b.rp = IF token.scoped THEN rp ELSE token.rp
      BY <1>0 DEF Token
    <2>2. token' = IF token.managed THEN Consume(b) ELSE b
      OBVIOUS
    <2> HIDE DEF b
    <2>3. Consume(b).active = b.active /\ Consume(b).age = b.age /\ Consume(b).perms = {}
      BY <2>1 DEF Consume, Token
    <2> QED
      BY <2>1, <2>2, <2>3
  <1>2. /\ grant'.perms = grant.perms /\ grant'.rp = grant.rp /\ grant'.oneShot = grant.oneShot
        /\ grant'.pin = grant.pin /\ grant'.used = grant.used \cup {<<perm, rp>>}
        /\ grant'.lastUse = token.age
        /\ grant'.uses = IF grant.uses < 2 THEN grant.uses + 1 ELSE grant.uses
    BY <1>0 DEF Grant
  <1>3. mem'.pinSet /\ mem'.pin = mem.pin /\ up' = up
    BY <1>0, SamePin DEF Saved
  <1>4. grant.oneShot => token.managed /\ grant.uses = 0
    BY <1>w DEF WithinGrant, Within
  <1>5. grant.rp # NoRp => token.scoped /\ token.rp = grant.rp /\ rp = grant.rp
    BY <1>w DEF WithinGrant, Within, RpAllowed
  <1>6. token'.active /\ token'.perms # {} => WithinGrant'
    BY <1>w, <1>1, <1>2, <1>4, <1>5 DEF WithinGrant, Within
  <1>7. ConsentHonoured'
    <2>1. grant'.oneShot => grant'.uses <= 1
      BY <1>2, <1>4
    <2>2. perm \in grant.perms
      BY <1>w DEF WithinGrant, Within
    <2>3. grant'.used \subseteq grant'.perms \X (IF grant'.rp = NoRp THEN Rp ELSE {grant'.rp})
      BY <1>w, <1>2, <1>5, <2>2 DEF ConsentHonoured
    <2> QED
      BY <2>1, <2>3 DEF ConsentHonoured
  <1>8. MaxAge < HalfClock => TokenLifetime'
    <2> SUFFICES ASSUME MaxAge < HalfClock PROVE TokenLifetime'
      OBVIOUS
    <2>1. token.age < HalfClock
      BY <1>0, <1>w, LimitAssumption
    <2>2. token.age % (2 * HalfClock) = token.age
      BY <1>0, <2>1, AgeModulo, LimitAssumption
    <2>3. token.age < TokenTimeout
      BY <1>0, <2>1, <2>2, LimitAssumption DEF TokenExpired
    <2> QED
      BY <1>2, <2>3 DEF TokenLifetime
  <1> QED
    BY <1>w, <1>1, <1>2, <1>3, <1>6, <1>7, <1>8 DEF TokenInv, TokenOfPin

\* The relying party is bound to the token before the save that then fails.
LEMMA BoundToken ==
  ASSUME TypeOK, TokenInv, NEW rp \in Rp, RpAllowed(token, rp),
         token' = [token EXCEPT !.rp = IF token.scoped THEN rp ELSE @],
         UNCHANGED <<up, mem, grant>>
  PROVE  TokenInv'
  <1>1. /\ token'.active = token.active /\ token'.age = token.age /\ token'.perms = token.perms
        /\ token'.scoped = token.scoped /\ token'.managed = token.managed
        /\ token'.rp = IF token.scoped THEN rp ELSE token.rp
    BY DEF TypeOK, Token
  <1>2. token'.active /\ token'.perms # {} => WithinGrant'
    BY <1>1 DEF TokenInv, WithinGrant, Within, RpAllowed
  <1> QED
    BY <1>1, <1>2 DEF TokenInv, TokenOfPin, ConsentHonoured, TokenLifetime

LEMMA RequireAuthToken ==
  ASSUME TypeOK, TokenInv, NEW valid \in BOOLEAN, NEW perm \in Permission, NEW rp \in Rp,
         RequireAuth(valid, perm, rp)
  PROVE  TokenInv'
  <1>0. Owned(mem) /\ mem.pinSet /\ token.active /\ up = "running"
    BY OwnedNow DEF RequireAuth, HostReady
  <1> DEFINE bound == [token EXCEPT !.rp = IF token.scoped THEN rp ELSE @]
  <1>1. CASE token' = NoToken /\ grant' = NoGrant
    BY <1>1, DroppedToken
  <1>2. CASE SaveStrict(NoteMismatch(mem), 0)
    BY <1>0, <1>2, SamePin, SaveStrictToken
  <1>3. CASE \E D : Interrupted(D)
    BY <1>3, InterruptedToken
  <1>4. CASE /\ ~TokenExpired(token) /\ perm \in token.perms /\ RpAllowed(token, rp)
             /\ Saved(ClearBlock(mem))
             /\ token' = IF token.managed THEN Consume(bound) ELSE bound
             /\ grant' = [grant EXCEPT !.uses = IF @ < 2 THEN @ + 1 ELSE @,
                                       !.used = @ \cup {<<perm, rp>>},
                                       !.lastUse = token.age]
    BY <1>0, <1>4, AcceptedToken
  <1>5. CASE RpAllowed(token, rp) /\ NotSaved /\ token' = bound /\ UNCHANGED grant
    BY <1>5, BoundToken DEF NotSaved
  <1> QED
    BY <1>1, <1>2, <1>3, <1>4, <1>5 DEF RequireAuth

LEMMA UiRemovePinToken ==
  ASSUME TypeOK, TokenInv, NEW g \in Pin, UiRemovePin(g)
  PROVE  TokenInv'
  <1>0. Owned(mem) /\ Existing(mem)
    BY OwnedNow DEF UiRemovePin, Existing
  <1>1. CASE AuthFailure
    BY <1>0, <1>1, AuthFailureToken
  <1>2. CASE AuthNotSaved
    BY <1>2, NotSavedToken DEF AuthNotSaved
  <1>3. CASE mem' = Refill(mem) /\ UNCHANGED <<up, token, grant>>
    BY <1>0, <1>3, SamePin, KeptToken
  <1>4. CASE token' = NoToken /\ grant' = NoGrant
    BY <1>4, DroppedToken
  <1>5. CASE Interrupted({RecordOf(Refill(mem)), None})
    BY <1>5, InterruptedToken
  <1> QED
    BY <1>1, <1>2, <1>3, <1>4, <1>5 DEF UiRemovePin

LEMMA UiResumeToken ==
  ASSUME TypeOK, TokenInv, UiResume
  PROVE  TokenInv'
  <1>0. Owned(mem)
    BY OwnedNow DEF UiResume
  <1>1. CASE Saved(ClearBlock(mem)) /\ UNCHANGED <<token, grant>>
    BY <1>0, <1>1, SamePin, KeptToken DEF Saved
  <1>2. CASE NotSaved /\ UNCHANGED <<token, grant>>
    BY <1>2, NotSavedToken
  <1>3. CASE Interrupted({RecordOf(ClearBlock(mem))})
    BY <1>3, InterruptedToken
  <1> QED
    BY <1>1, <1>2, <1>3 DEF UiResume

\* What time does to a token.
LEMMA OlderFields ==
  ASSUME NEW t \in Token, t.age < MaxAge
  PROVE  /\ Older(t).active = t.active /\ Older(t).perms = t.perms /\ Older(t).rp = t.rp
         /\ Older(t).scoped = t.scoped /\ Older(t).managed = t.managed
         /\ Older(t).age <= MaxAge
  BY LimitAssumption DEF Token, Older

LEMMA TickToken ==
  ASSUME TypeOK, TokenInv, Tick
  PROVE  TokenInv'
  <1>1. /\ token' = Older(token) /\ token \in Token /\ token.age < MaxAge
        /\ UNCHANGED <<up, mem, grant>>
    BY DEF Tick, TypeOK
  <1>2. /\ token'.active = token.active /\ token'.perms = token.perms /\ token'.rp = token.rp
        /\ token'.scoped = token.scoped /\ token'.managed = token.managed
        /\ token'.age <= MaxAge
    BY <1>1, OlderFields
  <1>3. token'.active /\ token'.perms # {} => WithinGrant'
    BY <1>1, <1>2 DEF TokenInv, WithinGrant, Within
  <1> QED
    BY <1>1, <1>2, <1>3 DEF TokenInv, TokenOfPin, ConsentHonoured, TokenLifetime

\* The copy takes the token's place, or there is no token any more.
LEMMA StalePublishToken ==
  ASSUME TypeOK, CopyInv, StalePublish
  PROVE  TokenInv'
  <1>1. CASE token' = NoToken /\ grant' = NoGrant
    BY <1>1, DroppedToken
  <1>2. CASE token' = host.token /\ grant' = host.grant
    <2>1. up' # "down" /\ mem' = host.mem /\ host.waiting /\ host.mem.pinSet
      BY DEF StalePublish, TypeOK
    <2> QED
      BY <1>2, <2>1
         DEF CopyInv, TokenInv, TokenOfPin, WithinGrant, Within, ConsentHonoured, TokenLifetime
  <1> QED
    BY <1>1, <1>2 DEF StalePublish

LEMMA NoCopy ==
  ASSUME host' = Idle
  PROVE  CopyInv'
  BY DEF CopyInv, Idle

LEMMA SameCopy ==
  ASSUME CopyInv, UNCHANGED host
  PROVE  CopyInv'
  BY DEF CopyInv

\* The copy of a handler that starts to wait is what memory holds then.
LEMMA GetPinTokenCopy ==
  ASSUME TypeOK, TokenInv, CopyInv, NEW g \in Pin, NEW req \in TokenRequest, GetPinToken(g, req)
  PROVE  CopyInv'
  <1>1. CASE host' = [waiting |-> TRUE, pin |-> g, req |-> req, mem |-> Refill(mem),
                      token |-> token, grant |-> grant]
    <2>1. Owned(mem) /\ Refill(mem).pin = mem.pin
      BY OwnedNow, SamePin DEF GetPinToken, Existing
    <2>2. /\ host'.token = token /\ host'.grant = grant /\ host'.mem = Refill(mem)
      BY <1>1
    <2> QED
      BY <2>1, <2>2
         DEF CopyInv, TokenInv, TokenOfPin, WithinGrant, ConsentHonoured, TokenLifetime
  <1>2. CASE UNCHANGED host
    BY <1>2, SameCopy
  <1>3. CASE host' = Idle
    BY <1>3, NoCopy
  <1> QED
    BY <1>1, <1>2, <1>3
       DEF GetPinToken, AuthFailure, AuthNotSaved, Interrupted, PowerOff

LEMMA TickCopy ==
  ASSUME TypeOK, CopyInv, Tick
  PROVE  CopyInv'
  <1>1. CASE host.waiting
    <2>1. host \in Waiting /\ host' = [host EXCEPT !.token = Older(host.token)]
      BY <1>1, WaitingHost DEF Tick
    <2>2. /\ host'.token = Older(host.token) /\ host'.grant = host.grant /\ host'.mem = host.mem
          /\ host.token \in Token /\ host.token.age < MaxAge
      BY <1>1, <2>1 DEF Waiting, Tick
    <2>3. /\ host'.token.active = host.token.active /\ host'.token.perms = host.token.perms
          /\ host'.token.rp = host.token.rp /\ host'.token.scoped = host.token.scoped
          /\ host'.token.managed = host.token.managed /\ host'.token.age <= MaxAge
      BY <2>2, OlderFields
    <2> QED
      BY <1>1, <2>2, <2>3 DEF CopyInv, Within
  <1>2. CASE ~host.waiting
    BY <1>2, SameCopy DEF Tick
  <1> QED
    BY <1>1, <1>2

\* Every other step leaves the copy alone or gives it up.
LEMMA NextCopy == TypeOK /\ TokenInv /\ CopyInv /\ [Next]_vars => CopyInv'
  <1> SUFFICES ASSUME TypeOK, TokenInv, CopyInv, [Next]_vars PROVE CopyInv'
    OBVIOUS
  <1>1. ASSUME NEW g \in Pin, NEW req \in TokenRequest, GetPinToken(g, req) PROVE CopyInv'
    BY <1>1, GetPinTokenCopy
  <1>2. CASE Tick
    BY <1>2, TickCopy
  <1>3. CASE UNCHANGED host
    BY <1>3, SameCopy
  <1>4. CASE host' = Idle
    BY <1>4, NoCopy
  <1>5. ASSUME NEW p \in Pin, SetPin(p) \/ UiSetPin(p) PROVE host' \in {host, Idle}
    BY <1>5 DEF SetPin, UiSetPin, ApplyPin, Interrupted, PowerOff
  <1>6. ASSUME NEW g \in Pin, NEW p \in Pin, ChangePin(g, p) \/ UiChangePin(g, p)
        PROVE  host' \in {host, Idle}
    BY <1>6 DEF ChangePin, UiChangePin, ReplacePin, AuthFailure, AuthNotSaved, OnlyVerified,
                Interrupted, PowerOff
  <1>7. ASSUME NEW valid \in BOOLEAN, NEW perm \in Permission, NEW rp \in Rp,
               RequireAuth(valid, perm, rp)
        PROVE  host' \in {host, Idle}
    BY <1>7 DEF RequireAuth, Interrupted, PowerOff
  <1>8. ASSUME NEW g \in Pin, UiRemovePin(g) PROVE host' \in {host, Idle}
    BY <1>8 DEF UiRemovePin, AuthFailure, AuthNotSaved, Interrupted, PowerOff
  <1>9. ASSUME FinishConsent \/ StalePublish \/ Reset \/ UiResume \/ UiResetAppData \/ Boot
               \/ Crash \/ UNCHANGED vars
        PROVE  host' \in {host, Idle}
    BY <1>9 DEF FinishConsent, StalePublish, Reset, UiResume, UiResetAppData, Boot, Crash,
                Interrupted, PowerOff, vars
  <1> QED
    BY <1>1, <1>2, <1>3, <1>4, <1>5, <1>6, <1>7, <1>8, <1>9 DEF Next

LEMMA NextToken == TypeOK /\ TokenInv /\ CopyInv /\ [Next]_vars => TokenInv'
  <1> SUFFICES ASSUME TypeOK, TokenInv, CopyInv, [Next]_vars PROVE TokenInv'
    OBVIOUS
  <1>1. ASSUME NEW p \in Pin, SetPin(p) \/ UiSetPin(p) PROVE TokenInv'
    BY <1>1, ApplyPinToken DEF SetPin, UiSetPin
  <1>2. ASSUME NEW g \in Pin, NEW p \in Pin, ChangePin(g, p) \/ UiChangePin(g, p) PROVE TokenInv'
    BY <1>2, ReplacePinToken DEF ChangePin, UiChangePin
  <1>3. ASSUME NEW g \in Pin, NEW req \in TokenRequest, GetPinToken(g, req) PROVE TokenInv'
    BY <1>3, GetPinTokenToken
  <1>4. CASE FinishConsent
    BY <1>4, FinishConsentToken
  <1>5. ASSUME NEW valid \in BOOLEAN, NEW perm \in Permission, NEW rp \in Rp,
               RequireAuth(valid, perm, rp)
        PROVE  TokenInv'
    BY <1>5, RequireAuthToken
  <1>6. CASE Reset
    BY <1>6, DroppedToken, KeptToken DEF Reset, PowerOff
  <1>7. ASSUME NEW g \in Pin, UiRemovePin(g) PROVE TokenInv'
    BY <1>7, UiRemovePinToken
  <1>8. CASE UiResume
    BY <1>8, UiResumeToken
  <1>9. CASE UiResetAppData
    BY <1>9, DroppedToken, KeptToken DEF UiResetAppData
  <1>10. CASE Boot
    BY <1>10, KeptToken DEF Boot, TokenInv
  <1>11. CASE Crash
    BY <1>11, DroppedToken DEF Crash, PowerOff
  <1>12. CASE Tick
    BY <1>12, TickToken
  <1>13. CASE UNCHANGED vars
    BY <1>13, KeptToken DEF vars
  <1>14. CASE StalePublish
    BY <1>14, StalePublishToken
  <1> QED
    BY <1>1, <1>2, <1>3, <1>4, <1>5, <1>6, <1>7, <1>8, <1>9, <1>10, <1>11, <1>12, <1>13, <1>14
       DEF Next

LEMMA InitToken == Init => TokenInv /\ CopyInv
  <1> SUFFICES ASSUME Init PROVE TokenInv /\ CopyInv
    OBVIOUS
  <1>1. /\ ~token.active /\ token.age = 0
        /\ ~grant.oneShot /\ grant.used = {} /\ grant.lastUse = 0
    BY DEF Init, NoToken, NoGrant
  <1>2. TokenLifetime /\ 0 <= MaxAge
    BY <1>1, LimitAssumption DEF TokenLifetime
  <1>3. ConsentHonoured
    BY <1>1 DEF ConsentHonoured
  <1>4. CopyInv
    BY DEF Init, CopyInv, Idle
  <1> QED
    BY <1>1, <1>2, <1>3, <1>4 DEF TokenInv, TokenOfPin

\* TokenInv and CopyInv are invariants of every behaviour of the clientPIN code.
THEOREM TokenInvariance == Spec => [](TokenInv /\ CopyInv)
  BY TypeCorrectness, InitToken, NextToken, NextCopy, PTL DEF Spec

\* An active token was issued under the PIN that guesses are checked against:
\* no change of the PIN, on the device or by the host, leaves an older token
\* behind, and a stale publication brings a token back only with its PIN.
THEOREM TokenOfCurrentPinHolds == Spec => []TokenOfCurrentPin
  <1>1. TokenInv /\ RetryInv => TokenOfCurrentPin
    BY DEF TokenInv, TokenOfPin, RetryInv, MemoryNeverLaxer, TokenOfCurrentPin
  <1> QED
    BY <1>1, TokenInvariance, RetryInvariance, PTL

\* A token grants only what the user agreed to, and once after a dialog.
THEOREM ConsentHonouredHolds == Spec => []ConsentHonoured
  <1>1. TokenInv => ConsentHonoured
    BY DEF TokenInv
  <1> QED
    BY <1>1, TokenInvariance, PTL

\* A token is never accepted after its lifetime, as long as it is presented
\* before the signed difference of the tick counter turns negative
\* (MaxAge < HalfClock, 2^31 ticks).
THEOREM TokenLifetimeHolds == Spec => [](MaxAge < HalfClock => TokenLifetime)
  <1>1. TokenInv => (MaxAge < HalfClock => TokenLifetime)
    BY DEF TokenInv
  <1> QED
    BY <1>1, TokenInvariance, PTL
=============================================================================
