--------------------------- MODULE LocalAttestation ---------------------------
(***************************************************************************)
(* The attestation certificate and its encrypted private key: two files    *)
(* that are of use only together.  src/src/attestation/local.c checks the  *)
(* pair, and rebuilds it when it is missing, unreadable or mismatched.     *)
(* The same code serves U2F and packed attestation; U2f composes it with   *)
(* the rest of the U2F state.                                              *)
(*                                                                         *)
(* A pair is a number: a certificate and a key match when they carry the   *)
(* same one.  A file operation is one step with the outcomes of            *)
(* FileOutcome; an action says nothing of the variables of the module that *)
(* composes it.                                                            *)
(***************************************************************************)
EXTENDS Naturals, Sequences, FileOutcome

CONSTANTS MaxPairs,    \* bound: pairs that are ever generated
          MaxFaults    \* bound: storage calls that fail

ASSUME PairAssumption == MaxPairs \in Nat /\ MaxFaults \in Nat

VARIABLES cert,    \* the certificate file
          ckey,    \* the encrypted key file
          pairs,   \* how many pairs were generated
          pc,      \* the next step of the running operation
          then,    \* the steps after it
          faults   \* storage calls that failed

pairFiles == <<cert, ckey>>

Charge(cost) == /\ faults + cost <= MaxFaults
                /\ faults' = faults + cost

Goto(step)  == pc' = step /\ UNCHANGED then
Call(steps) == pc' = Head(steps) /\ then' = Tail(steps) \o then
Return      == pc' = Head(then) /\ then' = Tail(then)
PowerOff    == pc' = "off" /\ then' = << >>

\* A recovery that finds no backup does nothing.
Recovered(f) == IF f.bak = None THEN Outcome({f}, {"true"}, 0) ELSE RecoverOutcome(f)

\* A file is recovered and read: what was read, or None when the recovery
\* failed, there is no file, or the read or the decryption failed.
ReadOutcome(f) ==
    LET Got(o, v, cost) == [file |-> o.file, end |-> o.end, got |-> v, cost |-> o.cost + cost]
    IN  {Got(o, IF o.end = "true" THEN o.file.prim ELSE None, 0) : o \in Recovered(f)} \cup
        {Got(o, None, 1) : o \in {p \in Recovered(f) : p.end = "true" /\ p.file.prim # None}}

-----------------------------------------------------------------------------
\* Variant: a certificate and a key that can both be read will do.
MatchesUnchecked(c, k) == c # None /\ k # None

\* zf_local_attestation_private_key_matches_cert, and u2f_data_cert_key_matches
Matches(c, k) == c # None /\ k = c

\* zf_assets_ready, and what the caller does next in each case.
CheckPair(ready, notReady) ==
    \E c \in ReadOutcome(cert), k \in ReadOutcome(ckey) :
      /\ cert' = c.file
      /\ ckey' = k.file
      /\ Charge(c.cost + k.cost)
      /\ IF "off" \in {c.end, k.end} THEN PowerOff
         ELSE IF Matches(c.got, k.got) THEN ready ELSE notReady
      /\ UNCHANGED pairs

\* zf_local_attestation_ensure_assets: the pair is checked once more, and
\* when it is not ready it is removed and a new one written.
EnsureAssets ==
    /\ pc = "ensure"
    /\ CheckPair(Return, Call(<<"dropCert", "writeCert">>))

\* zf_local_attestation_cleanup_pair: the key stays when the certificate
\* could not be removed.
DropCert ==
    /\ pc = "dropCert"
    /\ \E o \in RemoveOutcome(cert) :
         /\ cert' = o.file
         /\ Charge(o.cost)
         /\ \/ o.end = "true" /\ Goto("dropKey")
            \/ o.end = "false" /\ Return
            \/ o.end = "off" /\ PowerOff
    /\ UNCHANGED <<ckey, pairs>>

DropKey ==
    /\ pc = "dropKey"
    /\ \E o \in RemoveOutcome(ckey) :
         /\ ckey' = o.file
         /\ Charge(o.cost)
         /\ IF o.end = "off" THEN PowerOff ELSE Return
    /\ UNCHANGED <<cert, pairs>>

\* Cleaned up by zf_bootstrap_assets and again by its caller.
CleanUpTwice == Call(<<"dropCert", "dropCert">>)

\* zf_bootstrap_assets: the certificate first,
WriteCert ==
    /\ pc = "writeCert" /\ pairs < MaxPairs
    /\ pairs' = pairs + 1
    /\ \E o \in WriteOutcome(cert, pairs') :
         /\ cert' = o.file
         /\ Charge(o.cost)
         /\ \/ o.end = "true" /\ Goto("writeKey")
            \/ o.end = "false" /\ CleanUpTwice
            \/ o.end = "off" /\ PowerOff
    /\ UNCHANGED ckey

\* then the key; both are read back before they count.
WriteKey ==
    /\ pc = "writeKey"
    /\ \E o \in WriteOutcome(ckey, pairs) :
         /\ ckey' = o.file
         /\ Charge(o.cost)
         /\ \/ o.end = "true" /\ Goto("verify")
            \/ o.end = "false" /\ CleanUpTwice
            \/ o.end = "off" /\ PowerOff
    /\ UNCHANGED <<cert, pairs>>

Verify == pc = "verify" /\ CheckPair(Return, Goto("dropCert"))

\* No key pair or no certificate could be made.
GenerateFails ==
    /\ pc = "writeCert"
    /\ Charge(1)
    /\ Goto("dropCert")
    /\ UNCHANGED <<pairFiles, pairs>>

RebuildPair == EnsureAssets \/ DropCert \/ DropKey \/ WriteCert \/ WriteKey \/ Verify
               \/ GenerateFails
=============================================================================
