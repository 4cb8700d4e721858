-------------------------------- MODULE U2f --------------------------------
(***************************************************************************)
(* U2F: the device key and the signature counter on file                   *)
(* (src/src/u2f/persistence.c), the instance in memory                     *)
(* (src/src/u2f/session.c), registration and authentication                *)
(* (src/src/u2f/response_encode.c), the adapter that asks for the touch    *)
(* (src/src/u2f/adapter.c, src/src/u2f/apdu.c), and the CTAP reset that    *)
(* wipes the files.                                                        *)
(*                                                                         *)
(* A key handle is bound to the device key it was derived from, so a       *)
(* handle is the number of that key; the power may go off inside a file    *)
(* operation and between any two steps.                                    *)
(***************************************************************************)
EXTENDS LocalAttestation

CONSTANTS MaxCount,   \* UINT32_MAX
          Window,     \* ZF_COUNTER_RESERVATION_WINDOW
          MaxKeys     \* bound: device keys that are ever generated

Count == 0..MaxCount
Key   == 1..MaxKeys
Pair  == 1..MaxPairs

ASSUME U2fAssumption == /\ MaxCount \in Nat
                        /\ Window \in Nat \ {0}
                        /\ MaxKeys \in Nat
                        /\ None # Torn
                        /\ {None, Torn} \cap Nat = {}

VARIABLES key,       \* the device key file
          cnt,       \* the counter file
          keys,      \* how many device keys were generated
          inst,      \* app->u2f, or NoInst
          req,       \* the request being served, or NoReq
          approved,  \* history: the user approved this request
          resp,      \* history: the last response that carries a signature
          sent,      \* history: the last count signed under each device key
          served     \* history: the pairs that registrations were answered with

stored  == <<key, cnt, keys>>
answers == <<resp, sent, served>>
history == <<approved, answers>>
vars    == <<cert, ckey, pairs, pc, then, faults, stored, inst, req, history>>

-----------------------------------------------------------------------------
(* u2f/apdu.c                                                              *)

\* Requests that u2f_validate_request lets through.  A handle that belongs
\* to no device key (0) has a bad length or a bad MAC.
Request == [op : {"version", "register"}] \cup
           [op : {"authenticate"}, p1 : {"enforce", "check", "dont"}, handle : 0..MaxKeys]

\* u2f_request_needs_user_presence
NeedsPresence(r) == r.op = "register" \/ (r.op = "authenticate" /\ r.p1 = "enforce")

NoReq  == [op |-> "none"]
NoResp == [op |-> "none"]
NoInst == [ready |-> FALSE, certKey |-> None, key |-> None,
           counter |-> 0, high |-> 0, present |-> FALSE]

-----------------------------------------------------------------------------
(* u2f/persistence.c                                                       *)

\* u2f_data_counter_high_water
HighWater(n) == IF MaxCount - n < Window THEN MaxCount ELSE n + Window

\* u2f_data_recover_atomic_files, for the two files that this module adds.
RecoverStored(next) ==
    \E k \in Recovered(key), c \in Recovered(cnt) :
      /\ key' = k.file
      /\ cnt' = c.file
      /\ Charge(k.cost + c.cost)
      /\ IF "off" \in {k.end, c.end} THEN PowerOff ELSE next

-----------------------------------------------------------------------------
(* u2f/session.c: zf_u2f_adapter_init and u2f_init                         *)

Init ==
    /\ cert = Empty /\ ckey = Empty /\ pairs = 0
    /\ key = Empty /\ cnt = Empty /\ keys = 0
    /\ pc = "off" /\ then = << >>
    /\ inst = NoInst /\ req = NoReq
    /\ approved = FALSE /\ resp = NoResp
    /\ sent = [k \in Key |-> 0]
    /\ served = {}
    /\ faults = 0

\* zf_app_init_storage, at its U2F stage: nothing is left of what was in memory.
Start ==
    /\ pc = "off"
    /\ pc' = "recover" /\ then' = <<"idle">>
    /\ inst' = NoInst /\ req' = NoReq
    /\ UNCHANGED <<pairFiles, pairs, faults, stored, history>>

\* u2f_data_check looks for the files once their backups are restored.
RecoverFiles ==
    /\ pc = "recover"
    /\ RecoverStored(Goto("assets"))
    /\ UNCHANGED <<pairFiles, pairs, keys, inst, req, history>>

\* zf_u2f_adapter_ensure_attestation_assets; its result is ignored.
CheckAssets ==
    /\ pc = "assets"
    /\ CheckPair(Goto("loadPair"), Call(<<"ensure", "loadPair">>))
    /\ UNCHANGED <<stored, inst, req, history>>

RebuildAssets == RebuildPair /\ UNCHANGED <<stored, inst, req, history>>

\* The pair is taken into memory; without one, registration is disabled.
LoadPair ==
    /\ pc = "loadPair"
    /\ \E c \in ReadOutcome(cert), k \in ReadOutcome(ckey) :
         /\ cert' = c.file
         /\ ckey' = k.file
         /\ Charge(c.cost + k.cost)
         /\ IF "off" \in {c.end, k.end} THEN PowerOff /\ UNCHANGED inst
            ELSE /\ inst' = [NoInst EXCEPT !.certKey = IF Matches(c.got, k.got) THEN k.got ELSE None]
                 /\ Goto("loadKey")
    /\ UNCHANGED <<pairs, stored, req, history>>

InitFails == inst' = NoInst /\ Return

\* u2f_data_key_load
LoadKey ==
    /\ pc = "loadKey"
    /\ \E o \in ReadOutcome(key) :
         /\ key' = o.file
         /\ Charge(o.cost)
         /\ CASE o.end = "off" -> PowerOff /\ UNCHANGED inst
              [] o.end # "off" /\ o.got # None ->
                   inst' = [inst EXCEPT !.key = o.got] /\ Goto("loadCount")
              [] OTHER -> Goto("noKey") /\ UNCHANGED inst
    /\ UNCHANGED <<pairFiles, pairs, cnt, keys, req, history>>

\* u2f_data_key_exists: a key that is there and cannot be loaded is an error.
NoKey ==
    /\ pc = "noKey"
    /\ \E o \in Recovered(key) :
         /\ key' = o.file
         /\ Charge(o.cost)
         /\ IF o.end = "off" THEN PowerOff /\ UNCHANGED inst
            ELSE IF o.file.prim # None THEN InitFails
            ELSE Goto("newKey") /\ UNCHANGED inst
    /\ UNCHANGED <<pairFiles, pairs, cnt, keys, req, history>>

\* u2f_data_key_generate
NewKey ==
    /\ pc = "newKey" /\ keys < MaxKeys
    /\ keys' = keys + 1
    /\ \E o \in WriteOutcome(key, keys') :
         /\ key' = o.file
         /\ Charge(o.cost)
         /\ \/ o.end = "true" /\ inst' = [inst EXCEPT !.key = keys'] /\ Goto("loadCount")
            \/ o.end = "false" /\ InitFails
            \/ o.end = "off" /\ PowerOff /\ UNCHANGED inst
    /\ UNCHANGED <<pairFiles, pairs, cnt, req, history>>

\* Nothing above the count on file is reserved yet.
Ready(n) == /\ inst' = [inst EXCEPT !.ready = TRUE, !.counter = n, !.high = n]
            /\ Return

\* u2f_data_cnt_read
LoadCount ==
    /\ pc = "loadCount"
    /\ \E o \in ReadOutcome(cnt) :
         /\ cnt' = o.file
         /\ Charge(o.cost)
         /\ CASE o.end = "off" -> PowerOff /\ UNCHANGED inst
              [] o.end # "off" /\ o.got # None -> Ready(o.got)
              [] OTHER -> Goto("noCount") /\ UNCHANGED inst
    /\ UNCHANGED <<pairFiles, pairs, key, keys, req, history>>

\* u2f_data_cnt_exists: a counter that is there and cannot be read is an error.
NoCount ==
    /\ pc = "noCount"
    /\ \E o \in Recovered(cnt) :
         /\ cnt' = o.file
         /\ Charge(o.cost)
         /\ IF o.end = "off" THEN PowerOff /\ UNCHANGED inst
            ELSE IF o.file.prim # None THEN InitFails
            ELSE Goto("newCount") /\ UNCHANGED inst
    /\ UNCHANGED <<pairFiles, pairs, key, keys, req, history>>

NewCount ==
    /\ pc = "newCount"
    /\ \E o \in WriteOutcome(cnt, 0) :
         /\ cnt' = o.file
         /\ Charge(o.cost)
         /\ \/ o.end = "true" /\ Ready(0)
            \/ o.end = "false" /\ InitFails
            \/ o.end = "off" /\ PowerOff /\ UNCHANGED inst
    /\ UNCHANGED <<pairFiles, pairs, key, keys, req, history>>

-----------------------------------------------------------------------------
(* u2f/adapter.c                                                           *)

\* zf_u2f_adapter_handle_msg.  Without an instance VERSION is answered at
\* once, and everything else waits for zf_u2f_adapter_ensure_init.
Receive(r) ==
    /\ pc = "idle"
    /\ IF inst.ready THEN Goto("approve") ELSE r.op # "version" /\ Call(<<"recover", "approve">>)
    /\ req' = r
    /\ approved' = FALSE
    /\ UNCHANGED <<pairFiles, pairs, faults, stored, inst, answers>>

\* zf_u2f_adapter_wink
Wink ==
    /\ pc = "idle" /\ ~inst.ready
    /\ Call(<<"recover", "idle">>)
    /\ UNCHANGED <<pairFiles, pairs, faults, stored, inst, req, history>>

\* Variant: a touch stays confirmed when the request is over.
ClearPresentNot(i) == i

\* u2f_clear_user_present
ClearPresent(i) == [i EXCEPT !.present = FALSE]

\* The request is answered.
Done(i) == /\ inst' = ClearPresent(i)
           /\ req' = NoReq
           /\ pc' = "idle" /\ UNCHANGED then

\* zf_u2f_request_approval: the user touches the device,
Approve ==
    /\ pc = "approve" /\ inst.ready /\ NeedsPresence(req)
    /\ inst' = [inst EXCEPT !.present = TRUE]
    /\ approved' = TRUE
    /\ Goto("parse")
    /\ UNCHANGED <<pairFiles, pairs, faults, stored, req, answers>>

\* or a probe needs no touch,
NeedsNone ==
    /\ pc = "approve" /\ inst.ready /\ ~NeedsPresence(req)
    /\ Goto("parse")
    /\ UNCHANGED <<pairFiles, pairs, faults, stored, inst, req, history>>

\* or there is no instance, or the user refuses, lets the prompt time out or
\* unplugs the device (u2f_set_state).
Refuse ==
    /\ pc = "approve" /\ (inst.ready => NeedsPresence(req))
    /\ pc' = "idle" /\ UNCHANGED then
    /\ inst' = [inst EXCEPT !.present = FALSE]
    /\ req' = NoReq
    /\ UNCHANGED <<pairFiles, pairs, faults, stored, history>>

-----------------------------------------------------------------------------
(* u2f/response_encode.c, called from u2f_msg_parse                        *)

Version ==
    /\ pc = "parse" /\ req.op = "version"
    /\ Done(inst)
    /\ UNCHANGED <<pairFiles, pairs, faults, stored, history>>

\* zf_u2f_encode_register_response: the certificate comes from the file, the
\* key that signs from memory.
Register ==
    /\ pc = "parse" /\ req.op = "register"
    /\ inst.certKey # None /\ inst.present
    /\ \E o \in Recovered(cert) :
         /\ cert' = o.file
         /\ Charge(o.cost)
         /\ IF o.end = "off" THEN PowerOff /\ UNCHANGED <<inst, req, answers>>
            ELSE /\ o.file.prim # None
                 /\ Done([inst EXCEPT !.present = FALSE])
                 /\ resp' = [op |-> "register", cert |-> o.file.prim, by |-> inst.certKey,
                             flag |-> TRUE, touched |-> approved]
                 /\ served' = served \cup {o.file.prim}
                 /\ UNCHANGED sent
    /\ UNCHANGED <<ckey, pairs, stored, approved>>

\* Attestation is not available, the certificate cannot be read or something
\* in the arithmetic fails: presence is consumed only once it is needed.
RegisterFails ==
    /\ pc = "parse" /\ req.op = "register"
    /\ \/ inst.certKey = None /\ Done(inst) /\ UNCHANGED faults
       \/ inst.certKey # None /\ Charge(1) /\ Done([inst EXCEPT !.present = FALSE])
    /\ UNCHANGED <<pairFiles, pairs, stored, history>>

\* u2f_consume_user_present, in an authentication that comes to the signature.
Consumed(i) == [i EXCEPT !.present = FALSE]

Accepted == /\ pc = "parse" /\ req.op = "authenticate"
            /\ inst.counter # MaxCount
            /\ req.handle = inst.key
            /\ req.p1 # "check"
            /\ (req.p1 = "enforce" => inst.present)

Sign(i) == /\ Done([Consumed(i) EXCEPT !.counter = inst.counter + 1])
           /\ resp' = [op |-> "authenticate", key |-> inst.key, count |-> inst.counter + 1,
                       above |-> sent[inst.key], flag |-> inst.present, touched |-> approved]
           /\ sent' = [sent EXCEPT ![inst.key] = inst.counter + 1]
           /\ UNCHANGED served

\* zf_u2f_encode_authenticate_response, within the reserved window
Authenticate ==
    /\ Accepted /\ inst.counter + 1 <= inst.high
    /\ Sign(inst)
    /\ UNCHANGED <<pairFiles, pairs, faults, stored, approved>>

\* and past it: a new window is on file before the response goes out
\* (u2f_data_cnt_reserve); without it the count is not used.
AuthenticateReserve ==
    /\ Accepted /\ inst.counter + 1 > inst.high
    /\ \E o \in WriteOutcome(cnt, HighWater(inst.counter + 1)) :
         /\ cnt' = o.file
         /\ Charge(o.cost)
         /\ \/ o.end = "true" /\ Sign([inst EXCEPT !.high = HighWater(inst.counter + 1)])
            \/ o.end = "false" /\ Done(Consumed(inst)) /\ UNCHANGED answers
            \/ o.end = "off" /\ PowerOff /\ UNCHANGED <<inst, req, answers>>
    /\ UNCHANGED <<pairFiles, pairs, key, keys, approved>>

\* A probe, a foreign handle or an exhausted counter gets a status word.
AuthenticateRefuse ==
    /\ pc = "parse" /\ req.op = "authenticate" /\ ~Accepted
    /\ Done(inst)
    /\ UNCHANGED <<pairFiles, pairs, faults, stored, history>>

\* The key cannot be derived (presence is not consumed) or does not sign.
AuthenticateFails ==
    /\ pc = "parse" /\ req.op = "authenticate" /\ req.handle # 0
    /\ Charge(1)
    /\ Done(inst) \/ Done(Consumed(inst))
    /\ UNCHANGED <<pairFiles, pairs, stored, history>>

-----------------------------------------------------------------------------
(* ctap/commands/reset.c: zf_u2f_adapter_deinit and u2f_data_wipe          *)

Reset ==
    /\ pc = "idle"
    /\ Goto("wipeKey")
    /\ inst' = NoInst
    /\ UNCHANGED <<pairFiles, pairs, faults, stored, req, history>>

\* Variant: the counter goes first.
WipeKeySwapped ==
    /\ pc = "wipeKey"
    /\ \E o \in RemoveOutcome(cnt) :
         /\ cnt' = o.file
         /\ Charge(o.cost)
         /\ \/ o.end = "true" /\ Goto("wipeCount")
            \/ o.end = "false" /\ Goto("idle")
            \/ o.end = "off" /\ PowerOff
    /\ UNCHANGED <<pairFiles, pairs, key, keys, inst, req, history>>

WipeKey ==
    /\ pc = "wipeKey"
    /\ \E o \in RemoveOutcome(key) :
         /\ key' = o.file
         /\ Charge(o.cost)
         /\ \/ o.end = "true" /\ Goto("wipeCount")
            \/ o.end = "false" /\ Goto("idle")
            \/ o.end = "off" /\ PowerOff
    /\ UNCHANGED <<pairFiles, pairs, cnt, keys, inst, req, history>>

\* Variant: the certificate goes with the counter.
WipeCountCert ==
    /\ pc = "wipeCount"
    /\ cnt' = Empty /\ cert' = Empty
    /\ Call(<<"recover", "idle">>)
    /\ UNCHANGED <<ckey, pairs, faults, key, keys, inst, req, history>>

\* With the counter gone the rest of the reset may still fail; when it does
\* not, U2F is initialised again.
WipeCount ==
    /\ pc = "wipeCount"
    /\ \E o \in RemoveOutcome(cnt) :
         /\ cnt' = o.file
         /\ \/ o.end = "true" /\ Charge(o.cost) /\ Call(<<"recover", "idle">>)
            \/ o.end = "true" /\ Charge(o.cost + 1) /\ Goto("idle")
            \/ o.end = "false" /\ Charge(o.cost) /\ Goto("idle")
            \/ o.end = "off" /\ Charge(o.cost) /\ PowerOff
    /\ UNCHANGED <<pairFiles, pairs, key, keys, inst, req, history>>

-----------------------------------------------------------------------------
\* The power goes off, or the application is closed (zf_u2f_adapter_deinit).
Stop ==
    /\ pc # "off"
    /\ PowerOff
    /\ UNCHANGED <<pairFiles, pairs, faults, stored, inst, req, history>>

Initialise == Start \/ RecoverFiles \/ CheckAssets \/ RebuildAssets \/ LoadPair \/ LoadKey
              \/ NoKey \/ NewKey \/ LoadCount \/ NoCount \/ NewCount

Serve == \/ \E r \in Request : Receive(r)
         \/ Wink \/ Approve \/ NeedsNone \/ Refuse
         \/ Version \/ Register \/ RegisterFails
         \/ Authenticate \/ AuthenticateReserve \/ AuthenticateRefuse \/ AuthenticateFails

Next == Initialise \/ Serve \/ Reset \/ WipeKey \/ WipeCount \/ Stop

Spec == Init /\ [][Next]_vars

-----------------------------------------------------------------------------
FileOf(C) == [prim : C \cup {None}, bak : C \cup {None, Torn}]

Instance == [ready : BOOLEAN, certKey : Pair \cup {None}, key : Key \cup {None},
             counter : Count, high : Count, present : BOOLEAN]

\* The four files hold what their writers put there, and the instance is one
\* that u2f_init can leave behind.
TypeOK ==
    /\ cert \in FileOf(Pair) /\ ckey \in FileOf(Pair) /\ pairs \in 0..MaxPairs
    /\ key \in FileOf(Key) /\ cnt \in FileOf(Count) /\ keys \in 0..MaxKeys
    /\ inst \in Instance
    /\ req \in Request \cup {NoReq}
    /\ sent \in [Key -> Count]
    /\ served \subseteq Pair
    /\ faults \in 0..MaxFaults

\* Every authentication response carries a larger count than the ones before
\* it under the same device key, whatever restarts, failed writes and resets
\* lie between them (u2f_data_cnt_reserve, u2f_data_wipe).
CountsGrow == resp.op = "authenticate" => resp.count > resp.above

\* A response says that the user was present exactly when the user approved
\* that request: a touch never serves a later one (u2f_consume_user_present).
PresencePerRequest == resp.op # "none" => resp.flag = resp.touched

\* The certificate that a registration sends, read from the file, belongs to
\* the key that signs it, taken into memory when U2F was initialised.
CertificateMatches == resp.op = "register" => resp.cert = resp.by

\* As long as no storage call fails, every registration carries the same
\* certificate, across power failures and resets ("must remain stable across
\* CTAP reset", u2f/persistence.h).
IdentityStable == faults = 0 => \A a, b \in served : a = b
=============================================================================
