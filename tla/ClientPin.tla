----------------------------- MODULE ClientPin -----------------------------
(***************************************************************************)
(* The clientPIN authority of ZeroFIDO (src/src/pin): the PIN, its retry   *)
(* counter and mismatch throttle, the pinUvAuthToken, and the record that  *)
(* makes them durable.  Actions are the host's clientPIN and pinUvAuth     *)
(* commands, the local PIN screens, reset, start-up, the clock and power.  *)
(*                                                                         *)
(* Each action is one whole handler, run under the maintenance gate, which *)
(* a getPinToken request gives up while it waits for the user's consent.   *)
(* The handler works on a copy of the state taken before that, and may     *)
(* publish the copy over what the local PIN screens did meanwhile.         *)
(*                                                                         *)
(* The record file is the register that AtomicFile implements: a save takes    *)
(* effect or not, tells the truth, and may be cut short by a power loss.   *)
(* The one thing a failed save can leave behind is the record stranded in  *)
(* the backup file, where only a later recovery finds it.                  *)
(***************************************************************************)
EXTENDS Naturals

CONSTANTS Pin, NoPin,       \* PIN hashes, and the zeroed hash
          Rp, NoRp,         \* relying-party ids, and the empty one
          None, Poison,     \* no record file; a record the loader refuses
          RetriesMax,       \* ZF_PIN_RETRIES_MAX
          BlockAt,          \* consecutive mismatches that block (3)
          TokenTimeout,     \* ZF_PIN_TOKEN_TIMEOUT_MS, in clock units
          HalfClock,        \* the sign bit of the tick counter (2^31)
          ConsentRequired,  \* client_pin_token_requires_consent
          MaxAge,           \* bound: how old a token may become
          MaxLost           \* bound: attempts lost, and attempts given back

Permission == {"mc", "ga"}

PinRecord == [pin : Pin, retries : Nat, mismatches : Nat, blocked : BOOLEAN]

ASSUME NameAssumption == /\ NoPin \notin Pin
                         /\ NoRp \notin Rp
                         /\ None # Poison
                         /\ None \notin PinRecord
                         /\ Poison \notin PinRecord

ASSUME LimitAssumption == /\ RetriesMax \in Nat \ {0}
                          /\ BlockAt \in 1..254
                          /\ BlockAt <= RetriesMax
                          /\ TokenTimeout \in Nat \ {0}
                          /\ HalfClock \in Nat
                          /\ TokenTimeout < HalfClock
                          /\ ConsentRequired \in BOOLEAN
                          /\ MaxAge \in Nat
                          /\ MaxLost \in Nat

VARIABLES up,        \* "down", "running", or how start-up failed
          mem,       \* the durable part of ZfClientPinState, in memory
          token,     \* the token part of ZfClientPinState
          host,      \* Idle, or the getPinToken request awaiting consent
          disk,      \* the content of the record file
          stranded,  \* that content is in the backup file only
          grant,     \* history: what the user let the current token do
          hist       \* history: guesses, failures and stale publications

vars == <<up, mem, token, host, disk, stranded, grant, hist>>

-----------------------------------------------------------------------------
(* ZfClientPinState and the functions that change it.                      *)

NoToken == [active |-> FALSE, perms |-> {}, scoped |-> FALSE, managed |-> FALSE,
            rp |-> NoRp, age |-> 0]

\* pin: the PIN the token was issued under; uses: how often it granted user
\* verification (2 stands for more); used: for what; lastUse: its age then.
NoGrant == [pin |-> NoPin, perms |-> {}, rp |-> NoRp, oneShot |-> FALSE,
            uses |-> 0, used |-> {}, lastUse |-> 0]

Idle == [waiting |-> FALSE]

\* A zeroed state, and the state of an authenticator without a PIN.
Zeroed == [pinSet |-> FALSE, pin |-> NoPin, retries |-> 0, mismatches |-> 0, blocked |-> FALSE]

\* Variant: removing the PIN leaves pin_set behind.
UnsetStillSet == [Zeroed EXCEPT !.retries = RetriesMax, !.pinSet = TRUE]

Unset == [Zeroed EXCEPT !.retries = RetriesMax]

\* zf_pin_clear_auth_block_state
ClearBlock(m) == [m EXCEPT !.mismatches = 0, !.blocked = FALSE]

\* The mismatch counter is a byte and stops at its largest value.
OneMore(n) == IF n < 255 THEN n + 1 ELSE n

\* Variant: the throttle starts one mismatch late.
NoteMismatchLate(m) ==
    [m EXCEPT !.mismatches = OneMore(m.mismatches),
              !.blocked    = m.blocked \/ OneMore(m.mismatches) > BlockAt]

\* What zf_pin_auth_failure and zf_pin_note_pin_auth_mismatch do to the throttle.
NoteMismatch(m) ==
    [m EXCEPT !.mismatches = OneMore(m.mismatches),
              !.blocked    = m.blocked \/ OneMore(m.mismatches) >= BlockAt]

\* Variant: a wrong PIN costs no retry.
SpendNothing(m) == NoteMismatch(m)

\* A wrong PIN costs a retry and counts as a mismatch.
Spend(m) == NoteMismatch([m EXCEPT !.retries = IF m.retries > 0 THEN m.retries - 1 ELSE 0])

\* zf_pin_auth_success
Refill(m) == ClearBlock([m EXCEPT !.retries = RetriesMax])

\* zf_pin_force_runtime_block
ForceBlock(m) == [m EXCEPT !.retries = 0, !.mismatches = BlockAt, !.blocked = TRUE]

\* zf_pin_apply_plaintext, once the new PIN satisfies the policy
WithPin(m, p) == Refill([m EXCEPT !.pinSet = TRUE, !.pin = p])

\* Variant: the throttle is not looked at.
ExistingUnthrottled(m) == m.pinSet /\ m.retries > 0

\* zf_client_pin_require_existing_pin, and the guards of zf_pin_verify_hash
Existing(m) == m.pinSet /\ ~m.blocked /\ m.retries > 0

\* Variant: the comparison with the timeout wraps one unit late.
TokenExpiredLate(t) == LET d == t.age % (2 * HalfClock)
                       IN  d < HalfClock /\ d > TokenTimeout

\* zf_pin_token_is_expired: (int32_t)(now - issued_at) >= timeout
TokenExpired(t) == LET d == t.age % (2 * HalfClock)
                   IN  d < HalfClock /\ d >= TokenTimeout

\* zf_pin_token_rp_id_matches, behind the check of permissions_scoped
RpAllowed(t, rp) == t.scoped => t.rp \in {NoRp, rp}

\* Variant: a managed token keeps its permissions.
ConsumeNothing(t) == t

\* zf_pin_consume_up_tested_permissions
Consume(t) == [t EXCEPT !.perms = t.perms \ Permission,
                        !.scoped = FALSE, !.managed = FALSE, !.rp = NoRp]

-----------------------------------------------------------------------------
(* The record file (src/src/pin/store/state_store.c).                      *)

RecordOf(m) == [pin |-> m.pin, retries |-> m.retries,
                mismatches |-> m.mismatches, blocked |-> m.blocked]

FromRecord(r) == [pinSet |-> TRUE, pin |-> r.pin, retries |-> r.retries,
                  mismatches |-> r.mismatches, blocked |-> r.blocked]

\* zf_pin_state_store_load accepts the record
Loads(r) == r # Poison /\ r.retries <= RetriesMax /\ r.mismatches <= BlockAt

\* zf_pin_state_store_persist succeeds with memory at m
Saved(m) == /\ mem' = m
            /\ disk' = RecordOf(m)
            /\ stranded' = FALSE
            /\ UNCHANGED up

\* Variant: a save that failed is not undone in memory.
NotSavedKept == /\ mem' = IF mem.pinSet THEN Refill(mem) ELSE mem
                /\ UNCHANGED <<disk, up>>
                /\ stranded' \in IF disk = None THEN {FALSE} ELSE BOOLEAN

\* It fails, and the caller restores what it had changed in memory.
NotSaved == /\ UNCHANGED <<mem, disk, up>>
            /\ stranded' \in IF disk = None THEN {FALSE} ELSE BOOLEAN

\* What every loss of power does to the running program.
PowerOff == /\ up' = "down"
            /\ mem' = Zeroed
            /\ token' = NoToken
            /\ host' = Idle
            /\ grant' = NoGrant

\* Power is lost while a file operation runs that could have produced D.
Interrupted(D) ==
    /\ PowerOff
    /\ disk' \in {disk} \cup D
    /\ stranded' \in IF disk' = disk /\ disk # None THEN BOOLEAN ELSE {FALSE}

\* The attempts that left no durable trace, and the bound on them.
Waived(h) == h.lost + h.reopened

Affordable(n) == Waived(hist) + n <= MaxLost

(***************************************************************************)
(* A stricter state is saved whatever happens: when the record cannot be   *)
(* written it is replaced by a poisoned one, or else removed, or else the  *)
(* running session is blocked (zf_pin_state_store_fail_closed,             *)
(* zf_pin_force_runtime_block).  Only the last case forgets the attempt at *)
(* the next start; cost says whether that forgets a PIN guess.             *)
(***************************************************************************)
SaveStrict(m, cost) ==
    \/ /\ Saved(m)
       /\ UNCHANGED <<token, grant>>
       /\ hist' = [hist EXCEPT !.streak = @ + 1, !.wrong = @ + cost]
    \/ /\ mem' = m
       /\ disk' \in {Poison, None}
       /\ stranded' = FALSE
       /\ hist' = [hist EXCEPT !.streak = @ + 1, !.wrong = @ + cost]
       /\ UNCHANGED <<up, token, grant>>
    \/ /\ Affordable(cost)
       /\ mem' = ForceBlock(m)
       /\ token' = NoToken
       /\ grant' = NoGrant
       /\ disk' \in {disk, Poison, None}
       /\ stranded' \in IF disk' = disk /\ disk # None THEN BOOLEAN ELSE {FALSE}
       /\ hist' = [hist EXCEPT !.streak = @ + 1, !.wrong = @ + cost, !.lost = @ + cost]
       /\ UNCHANGED up

-----------------------------------------------------------------------------
(* The outcomes of a PIN guess.                                            *)

\* zf_pin_auth_failure.  When no new key-agreement key can be made the host
\* still learns that the guess was wrong, and no retry is taken.
AuthFailure ==
    \/ /\ SaveStrict(Spend(mem), 1)
       /\ UNCHANGED host
    \/ /\ Affordable(1)
       /\ hist' = [hist EXCEPT !.streak = @ + 1, !.wrong = @ + 1, !.lost = @ + 1]
       /\ UNCHANGED <<up, mem, token, host, disk, stranded, grant>>
    \/ /\ Interrupted({RecordOf(Spend(mem)), Poison, None})
       /\ UNCHANGED hist

Forgive == hist' = [hist EXCEPT !.wrong = 0, !.streak = 0]

\* The PIN was right and zf_pin_auth_success could not save that.
AuthNotSaved == /\ NotSaved
                /\ hist' = [hist EXCEPT !.wrong = 0]
                /\ UNCHANGED <<token, host, grant>>

\* zf_pin_apply_plaintext on the memory m
ApplyPin(m, p) ==
    \/ /\ Saved(WithPin(m, p))
       /\ token' = NoToken
       /\ grant' = NoGrant
       /\ Forgive
       /\ UNCHANGED host
    \/ NotSaved /\ UNCHANGED <<token, host, grant, hist>>
    \/ /\ Interrupted({RecordOf(WithPin(m, p))})
       /\ IF disk' = disk THEN UNCHANGED hist ELSE Forgive

\* A right PIN was saved as such, and the rest of the handler did not happen:
\* the new PIN breaks the policy, or the second save failed.
OnlyVerified == /\ mem' = Refill(mem)
                /\ disk' = RecordOf(Refill(mem))
                /\ stranded' \in BOOLEAN
                /\ Forgive
                /\ UNCHANGED <<up, token, host, grant>>

\* Verify guess g, then replace the PIN by p: zf_client_pin_handle_change_pin,
\* and the ChangeConfirm step of the local PIN screens.
ReplacePin(g, p) ==
    /\ Existing(mem)
    /\ \/ g # mem.pin /\ AuthFailure
       \/ g = mem.pin /\ AuthNotSaved
       \/ g = mem.pin /\ OnlyVerified
       \/ /\ g = mem.pin
          /\ Saved(WithPin(mem, p))
          /\ token' = NoToken
          /\ grant' = NoGrant
          /\ Forgive
          /\ UNCHANGED host
       \/ /\ g = mem.pin
          /\ Interrupted({RecordOf(Refill(mem)), RecordOf(WithPin(mem, p))})
          /\ Forgive

-----------------------------------------------------------------------------
(* Host commands.  A command that is refused changes nothing and is not    *)
(* an action.                                                              *)

HostReady == up = "running" /\ host = Idle

\* zf_client_pin_handle_set_pin
SetPin(p) == HostReady /\ ~mem.pinSet /\ ApplyPin(mem, p)

\* zf_client_pin_handle_change_pin
ChangePin(g, p) == HostReady /\ ReplacePin(g, p)

LegacyRequest == [perms |-> Permission, scoped |-> FALSE, managed |-> ConsentRequired,
                  rp |-> NoRp]

\* Permissions, and an rpId that may be the empty string.
TokenRequest == {LegacyRequest} \cup
    [perms : SUBSET Permission \ {{}}, scoped : {TRUE}, managed : {TRUE}, rp : Rp \cup {NoRp}]

\* zf_pin_set_token_permissions and zf_pin_note_pin_token_issued
IssueToken(req) ==
    /\ token' = [active |-> TRUE, perms |-> req.perms, scoped |-> req.scoped,
                 managed |-> req.managed, rp |-> req.rp, age |-> 0]
    /\ grant' = [pin |-> mem.pin, perms |-> req.perms, rp |-> req.rp,
                 oneShot |-> req.managed, uses |-> 0, used |-> {}, lastUse |-> 0]

\* zf_client_pin_handle_get_pin_token up to the consent dialog, if there is
\* one; encrypting the token may fail, and then none is issued.
GetPinToken(g, req) ==
    /\ HostReady
    /\ Existing(mem)
    /\ \/ g # mem.pin /\ AuthFailure
       \/ g = mem.pin /\ AuthNotSaved
       \/ /\ g = mem.pin
          /\ Saved(Refill(mem))
          /\ Forgive
          /\ \/ /\ req.managed
                /\ host' = [waiting |-> TRUE, pin |-> g, req |-> req, mem |-> Refill(mem),
                            token |-> token, grant |-> grant]
                /\ UNCHANGED <<token, grant>>
             \/ ~req.managed /\ IssueToken(req) /\ UNCHANGED host
             \/ ~req.managed /\ UNCHANGED <<token, host, grant>>
       \/ /\ g = mem.pin
          /\ Interrupted({RecordOf(Refill(mem))})
          /\ Forgive

\* Variant: the PIN is not compared again after the dialog.
ConsentStillValidAssumed == TRUE

\* The PIN may have been changed or removed while the dialog was open.
ConsentStillValid == mem.pinSet /\ mem.pin = host.pin

\* The dialog ends: approved, or denied, timed out, cancelled or outdated.
\* The handler takes the gate back and goes on with the state in memory.
FinishConsent ==
    /\ up = "running"
    /\ host.waiting
    /\ host' = Idle
    /\ \/ ConsentStillValid /\ IssueToken(host.req)
       \/ UNCHANGED <<token, grant>>
    /\ UNCHANGED <<up, mem, disk, stranded, hist>>

\* The retries that publishing the copy gives back.
GivenBack == IF host.mem.retries > mem.retries THEN host.mem.retries - mem.retries ELSE 0

(***************************************************************************)
(* The dialog ends while a local action holds the gate.  The handler gives *)
(* up without reading memory again, and zf_pin_publish_state puts its copy *)
(* from before the dialog over it: PIN, counters and token.  The local     *)
(* action does not exclude this.  When the copy falls between two of its   *)
(* steps, its save writes the copy, or a record whose seal belongs to      *)
(* other counters, and it may still drop the token.                        *)
(***************************************************************************)
StalePublish ==
    /\ up = "running"
    /\ host.waiting
    /\ host' = Idle
    /\ mem' = host.mem
    /\ \/ token' = host.token /\ grant' = host.grant
       \/ token' = NoToken /\ grant' = NoGrant
    /\ disk' \in {disk, RecordOf(host.mem), Poison}
    /\ stranded' = (stranded /\ disk' = disk)
    /\ Affordable(GivenBack)
    /\ hist' = [hist EXCEPT !.reopened = @ + GivenBack,
                              !.reverted = @ \/ ~ConsentStillValid]
    /\ UNCHANGED up

\* zerofido_pin_require_auth: makeCredential or getAssertion presents a
\* pinUvAuthParam, computed with the current token when valid.
RequireAuth(valid, perm, rp) ==
    /\ HostReady
    /\ ~mem.blocked
    /\ mem.pinSet
    /\ token.active
    /\ \/ /\ TokenExpired(token)
          /\ token' = NoToken
          /\ grant' = NoGrant
          /\ UNCHANGED <<up, mem, host, disk, stranded, hist>>
       \/ /\ ~TokenExpired(token)
          /\ ~valid
          /\ \/ SaveStrict(NoteMismatch(mem), 0) /\ UNCHANGED host
             \/ /\ Interrupted({RecordOf(NoteMismatch(mem)), Poison, None})
                /\ UNCHANGED hist
       \/ /\ ~TokenExpired(token)
          /\ valid
          /\ perm \in token.perms
          /\ RpAllowed(token, rp)
          /\ LET bound == [token EXCEPT !.rp = IF token.scoped THEN rp ELSE @]
             IN  \/ /\ Saved(ClearBlock(mem))
                    /\ token' = IF token.managed THEN Consume(bound) ELSE bound
                    /\ grant' = [grant EXCEPT !.uses = IF @ < 2 THEN @ + 1 ELSE @,
                                              !.used = @ \cup {<<perm, rp>>},
                                              !.lastUse = token.age]
                    /\ hist' = [hist EXCEPT !.streak = 0]
                    /\ UNCHANGED host
                 \/ NotSaved /\ token' = bound /\ UNCHANGED <<host, grant, hist>>
                 \/ Interrupted({RecordOf(ClearBlock(mem))}) /\ UNCHANGED hist

\* zf_ctap_handle_reset after its approval: wipe, and initialise again.
Reset ==
    /\ HostReady
    /\ \/ /\ disk' = None
          /\ stranded' = FALSE
          /\ mem' \in {Unset, Zeroed}
          /\ token' = NoToken
          /\ grant' = NoGrant
          /\ Forgive
          /\ UNCHANGED <<up, host>>
       \/ /\ disk' \in {disk, None}
          /\ stranded' = (stranded /\ disk' # None)
          /\ UNCHANGED <<up, mem, token, host, grant, hist>>
       \/ /\ PowerOff
          /\ disk' \in {disk, None}
          /\ stranded' = (stranded /\ disk' # None)
          /\ UNCHANGED hist

-----------------------------------------------------------------------------
(* The local PIN screens, usable while the host waits for consent and      *)
(* also after a failed start-up.                                           *)

UiReady == up # "down"

\* ZfPinInputSetConfirm
UiSetPin(p) == UiReady /\ ~mem.pinSet /\ ApplyPin(mem, p)

\* ZfPinInputChangeConfirm
UiChangePin(g, p) == UiReady /\ ReplacePin(g, p)

\* ZfPinConfirmActionRemove: zerofido_pin_verify_plaintext, zerofido_pin_clear
UiRemovePin(g) ==
    /\ UiReady
    /\ Existing(mem)
    /\ \/ g # mem.pin /\ AuthFailure
       \/ g = mem.pin /\ AuthNotSaved
       \/ /\ g = mem.pin
          /\ mem' = Refill(mem)
          /\ disk' \in {RecordOf(Refill(mem)), None}
          /\ stranded' = FALSE
          /\ Forgive
          /\ UNCHANGED <<up, token, host, grant>>
       \/ /\ g = mem.pin
          /\ mem' = Unset
          /\ disk' = None
          /\ stranded' = FALSE
          /\ token' = NoToken
          /\ grant' = NoGrant
          /\ Forgive
          /\ UNCHANGED <<up, host>>
       \/ /\ g = mem.pin
          /\ Interrupted({RecordOf(Refill(mem)), None})
          /\ Forgive

\* ZfPinConfirmActionResume: zerofido_pin_resume_auth_attempts
UiResume ==
    /\ UiReady
    /\ mem.pinSet
    /\ mem.blocked \/ mem.mismatches # 0
    /\ \/ /\ Saved(ClearBlock(mem))
          /\ hist' = [hist EXCEPT !.streak = 0]
          /\ UNCHANGED <<token, host, grant>>
       \/ NotSaved /\ UNCHANGED <<token, host, grant, hist>>
       \/ Interrupted({RecordOf(ClearBlock(mem))}) /\ UNCHANGED hist

\* ZfPinConfirmActionResetAppData, offered when start-up found a bad record
UiResetAppData ==
    /\ up = "invalid"
    /\ \/ /\ up' = "failed"
          /\ mem' = Zeroed
          /\ disk' = None
          /\ stranded' = FALSE
          /\ token' = NoToken
          /\ grant' = NoGrant
          /\ Forgive
          /\ UNCHANGED host
       \/ /\ disk' \in {disk, None}
          /\ stranded' = (stranded /\ disk' # None)
          /\ UNCHANGED <<up, mem, token, host, grant, hist>>

-----------------------------------------------------------------------------
(* Start-up, power and the clock.                                          *)

\* zerofido_pin_init_with_result as start-up calls it.  A recovery that fails
\* is ignored, and the file then looks missing; key generation may fail; a
\* record that cannot be read, decrypted or authenticated counts as invalid,
\* and its counters may already be in memory; and when an earlier part of
\* start-up fails the PIN is not loaded at all.
Boot ==
    /\ up = "down"
    /\ hist' = [hist EXCEPT !.streak = 0, !.reverted = FALSE]
    /\ \/ /\ \/ disk = None /\ UNCHANGED stranded
             \/ stranded /\ UNCHANGED stranded
          /\ mem' = Unset
          /\ up' \in {"running", "failed"}
       \/ /\ disk # None
          /\ stranded' = FALSE
          /\ \/ /\ Loads(disk)
                /\ mem' = ClearBlock(FromRecord(disk))
                /\ up' \in {"running", "failed"}
             \/ mem' = Unset /\ up' = "invalid"
             \/ /\ Loads(disk)
                /\ mem' = [FromRecord(disk) EXCEPT !.pinSet = FALSE, !.pin = NoPin]
                /\ up' = "invalid"
       \/ /\ mem' = Zeroed
          /\ up' = "failed"
          /\ UNCHANGED stranded
    /\ UNCHANGED <<token, host, disk, grant>>

\* Power is lost between two operations, or the application is closed.
Crash == /\ up # "down"
         /\ PowerOff
         /\ UNCHANGED <<disk, stranded, hist>>

Older(t) == IF t.active THEN [t EXCEPT !.age = @ + 1] ELSE t

\* The clock; the token in the copy of a waiting handler ages as well.
Tick == /\ up = "running"
        /\ token.active \/ (host.waiting /\ host.token.active)
        /\ token.age < MaxAge
        /\ host.waiting => host.token.age < MaxAge
        /\ token' = Older(token)
        /\ host' = IF host.waiting THEN [host EXCEPT !.token = Older(@)] ELSE host
        /\ UNCHANGED <<up, mem, disk, stranded, grant, hist>>

-----------------------------------------------------------------------------
Init == /\ up = "down"
        /\ mem = Zeroed
        /\ token = NoToken
        /\ host = Idle
        /\ disk = None
        /\ stranded = FALSE
        /\ grant = NoGrant
        /\ hist = [wrong |-> 0, streak |-> 0, lost |-> 0, reopened |-> 0, reverted |-> FALSE]

Next == \/ \E p \in Pin : SetPin(p) \/ UiSetPin(p)
        \/ \E g, p \in Pin : ChangePin(g, p) \/ UiChangePin(g, p)
        \/ \E g \in Pin, req \in TokenRequest : GetPinToken(g, req)
        \/ FinishConsent
        \/ StalePublish
        \/ \E valid \in BOOLEAN, perm \in Permission, rp \in Rp : RequireAuth(valid, perm, rp)
        \/ Reset
        \/ \E g \in Pin : UiRemovePin(g)
        \/ UiResume
        \/ UiResetAppData
        \/ Boot
        \/ Crash
        \/ Tick

Spec == Init /\ [][Next]_vars

-----------------------------------------------------------------------------
(* Properties                                                              *)

Memory == [pinSet : BOOLEAN, pin : Pin \cup {NoPin}, retries : Nat, mismatches : Nat,
           blocked : BOOLEAN]

Token == [active : BOOLEAN, perms : SUBSET Permission, scoped : BOOLEAN, managed : BOOLEAN,
          rp : Rp \cup {NoRp}, age : Nat]

Grant == [pin : Pin \cup {NoPin}, perms : SUBSET Permission, rp : Rp \cup {NoRp},
          oneShot : BOOLEAN, uses : 0..2, used : SUBSET (Permission \X Rp), lastUse : Nat]

\* wrong, streak: guesses and failed attempts answered since they were last
\* forgiven; lost: those no record shows; reopened: retries given back by a
\* stale publication; reverted: one brought an old PIN back in this session.
History == [wrong : Nat, streak : Nat, lost : Nat, reopened : Nat, reverted : BOOLEAN]

Waiting == [waiting : {TRUE}, pin : Pin, req : TokenRequest, mem : Memory, token : Token,
            grant : Grant]

Stored == PinRecord \cup {None, Poison}

\* Every variable has its type; the retry counter never goes below zero.
TypeOK == /\ up \in {"down", "running", "failed", "invalid"}
          /\ mem \in Memory
          /\ mem.pinSet => mem.pin \in Pin
          /\ token \in Token
          /\ host \in {Idle} \cup Waiting
          /\ host.waiting => host.mem.pinSet /\ host.mem.pin = host.pin
          /\ disk \in Stored
          /\ stranded \in BOOLEAN
          /\ grant \in Grant
          /\ hist \in History

(***************************************************************************)
(* Across restarts, power losses and failing storage, the authenticator    *)
(* answers at most RetriesMax wrong guesses of a PIN before the PIN is     *)
(* entered correctly, plus the guesses whose retry was lost (made while    *)
(* every way to write or remove the record failed, or when no new          *)
(* key-agreement key could be generated) and the retries that the stale    *)
(* publication of a consent dialog gave back.                              *)
(***************************************************************************)
GuessBudget == hist.wrong <= RetriesMax + Waived(hist)

(***************************************************************************)
(* What zf_pin_auth_failure says of itself: every wrong guess "consumes    *)
(* one durable retry", so that no guess but a lost one is made up for.     *)
(***************************************************************************)
RetriesAreDurable == hist.wrong <= RetriesMax + hist.lost

(***************************************************************************)
(* At most BlockAt failed attempts in a row (wrong PINs and wrong          *)
(* pinUvAuthParams together) are answered between two successes, local     *)
(* resumes, new PINs or restarts, besides those lost or given back.        *)
(***************************************************************************)
ThrottleHolds == hist.streak <= BlockAt + Waived(hist)

(***************************************************************************)
(* Every record the PIN code writes whole is one that                      *)
(* zf_pin_state_store_load accepts at the next start: the authenticator    *)
(* does not lock its owner out by itself.                                  *)
(***************************************************************************)
EveryRecordLoads == disk \in PinRecord => Loads(disk)

(***************************************************************************)
(* While the session runs, memory checks guesses against the PIN of the    *)
(* record and allows no more of them than the record does, save for what a *)
(* stale publication gave back or the old PIN it brought back.  Degraded   *)
(* storage alone never reopens an attempt.                                 *)
(***************************************************************************)
MemoryNeverLaxer ==
    mem.pinSet /\ disk \in PinRecord =>
        /\ ~hist.reverted => disk.pin = mem.pin
        /\ mem.retries <= disk.retries + hist.reopened

(***************************************************************************)
(* An active token was issued under the PIN that guesses are checked       *)
(* against now, even when the PIN was changed on the device while the      *)
(* consent dialog was open and although a stale publication brings a       *)
(* dropped token back; unless one also brought the old PIN back, that is   *)
(* the PIN of the record too.                                              *)
(***************************************************************************)
TokenOfCurrentPin ==
    token.active => /\ mem.pinSet
                    /\ grant.pin = mem.pin
                    /\ disk \in PinRecord /\ ~hist.reverted => grant.pin = disk.pin

(***************************************************************************)
(* A token grants user verification only for what the user agreed to, and  *)
(* a token issued after a consent dialog does so at most once.             *)
(***************************************************************************)
ConsentHonoured ==
    /\ grant.oneShot => grant.uses <= 1
    /\ grant.used \subseteq grant.perms \X (IF grant.rp = NoRp THEN Rp ELSE {grant.rp})

(***************************************************************************)
(* A token is never accepted once its lifetime has passed.                 *)
(***************************************************************************)
TokenLifetime == grant.lastUse < TokenTimeout
=============================================================================
