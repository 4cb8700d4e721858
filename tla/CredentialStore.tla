-------------------------- MODULE CredentialStore --------------------------
(***************************************************************************)
(* The index of credentials and the commands that work on it:             *)
(* makeCredential, getAssertion with its account selection,                *)
(* getNextAssertion, reset and clientPIN, run by the transport's worker,   *)
(* against the deletion of a passkey from the screen, run by the UI thread *)
(* (src/src/ctap/commands/, src/src/ctap/core/, src/src/zerofido_store.c,  *)
(* src/src/store/bootstrap.c, src/src/ui/views.c).                         *)
(*                                                                         *)
(* Both threads use maintenance_busy (gate) as a lock that is tried and    *)
(* never waited for.  Each section under ui_mutex and each storage call is *)
(* a step.  A request that is refused before it changed anything is no     *)
(* step.  The signature counts are the subject of SignCounter.             *)
(***************************************************************************)
EXTENDS Naturals, Sequences, FiniteSets, SequencesExt

CONSTANTS MaxCred,      \* bound: the credentials are 1..MaxCred, newer ones greater
          Attr,         \* what each credential is: rp, user, rk, uvreq
          Capacity,     \* ZF_MAX_CREDENTIALS
          Stored,       \* the index at the start: what earlier requests left
          Rp,           \* the relying party of the assertion requests
          Session,      \* transport sessions
          AutoAccept,   \* over NFC an approval is given by the tap itself
          MaxRequests,  \* bound: requests
          MaxDeletes,   \* bound: deletions from the screen
          MaxFaults,    \* bound: failing storage calls
          MaxCrashes    \* bound: power losses

Cred == 1..MaxCred
Kind == {"make", "assert", "next", "reset", "token"}

ASSUME StoreAssumption ==
    /\ MaxCred \in Nat /\ Capacity \in Nat
    /\ \A c \in Cred : {"rp", "user", "rk", "uvreq"} \subseteq DOMAIN Attr[c]
    /\ \A s \in Stored : s \in Seq(Cred) /\ IsInjective(s)
    /\ AutoAccept \in BOOLEAN
    /\ {MaxRequests, MaxDeletes, MaxFaults, MaxCrashes} \subseteq Nat

VARIABLES recs,    \* app->store.records, up to its count
          disk,    \* the credentials whose record file is there
          pinf,    \* which files of the PIN record are there
          queue,   \* app->assertion_queue
          gate,    \* app->maintenance_busy
          prompt,  \* app->approval
          w,       \* the worker and its request
          u,       \* the UI thread and its deletion
          used,    \* how much of each bound is used
          kept,    \* history: created, and neither deleted, replaced nor erased
          dead,    \* history: gone for good
          torn     \* history: a request opened the gate while a deletion had it

storeVars == <<recs, disk, pinf, queue, gate, prompt, w, u, used, kept, dead, torn>>

\* meant is a history of the credentials that list stood for.
NoQueue == [on |-> FALSE, ses |-> 0, uv |-> FALSE, list |-> << >>, i |-> 0, fresh |-> FALSE,
            meant |-> << >>]
NoPrompt == [st |-> "idle", menu |-> << >>, sel |-> 0, chosen |-> 0]
Idle == [pc |-> "idle", kind |-> "none", ses |-> 0, c |-> 0, uv |-> FALSE, up |-> FALSE,
         list |-> {}, found |-> << >>, pick |-> FALSE, at |-> 0, ok |-> FALSE]
UiIdle == [pc |-> "idle", c |-> 0, at |-> 0, ok |-> FALSE]

StoreInit ==
    /\ recs \in Stored /\ disk = Range(recs)
    /\ pinf = {"bin", "bak"}
    /\ queue = NoQueue /\ gate = FALSE /\ prompt = NoPrompt
    /\ w = Idle /\ u = UiIdle
    /\ used = [req |-> 0, del |-> 0, fault |-> 0, crash |-> 0]
    /\ kept = disk /\ dead = {} /\ torn = FALSE

Use(what, max) == used[what] < max /\ used' = [used EXCEPT ![what] = @ + 1]
Fault == Use("fault", MaxFaults)
Fine == UNCHANGED used

-----------------------------------------------------------------------------
(* zerofido_store.c and policy.c: what a request finds in the index        *)

\* The indices of a set, from the first to the last.
Increasing(I) == {f \in [1..Cardinality(I) -> I] : \A k, l \in DOMAIN f : k < l => f[k] < f[l]}

\* zf_store_index_is_newer, and equal entries in the order of the index
Newer(i, j) == recs[i] > recs[j] \/ (recs[i] = recs[j] /\ i < j)

\* zf_store_insert_sorted_index: newest first
Sorted(I) == {f \in [1..Cardinality(I) -> I] : \A k, l \in DOMAIN f : k < l => Newer(f[k], f[l])}

\* zf_ctap_cred_protect_allows_assertion, UV_REQUIRED against the others
Visible(c, uv) == Attr[c].uvreq => uv

\* zf_ctap_resolve_assertion_matches: with an allow list the credentials it
\* names, without one the resident ones.
Matches(list, uv) ==
    Sorted({i \in DOMAIN recs : /\ Attr[recs[i]].rp = Rp
                                /\ IF list = {} THEN Attr[recs[i]].rk ELSE recs[i] \in list
                                /\ Visible(recs[i], uv)})

\* zf_ctap_exclude_list_has_visible_match
Excluded(c, list, uv) ==
    \E d \in Range(recs) : d \in list /\ Attr[d].rp = Attr[c].rp /\ Visible(d, uv)

SameUser(c, d) == /\ Attr[d].rk /\ Attr[d].rp = Attr[c].rp /\ Attr[d].user = Attr[c].user

\* Variant: the account is not compared.
ReplacedAnyUser(c) ==
    Increasing({i \in DOMAIN recs :
                  Attr[c].rk /\ recs[i] \in disk /\ Attr[recs[i]].rp = Attr[c].rp})

\* zf_store_find_resident_credential_indices_for_user: a record that cannot
\* be read is passed over.
Replaced(c) ==
    Increasing({i \in DOMAIN recs : Attr[c].rk /\ recs[i] \in disk /\ SameUser(c, recs[i])})

\* zf_store_publish_deleted_indices
Without(I) ==
    {[k \in DOMAIN f |-> recs[f[k]]] : f \in Increasing(DOMAIN recs \ I)}

\* The result of the request is known; cleanup still has to release the gate.
Done(ok) == w' = [w EXCEPT !.pc = "release", !.ok = ok]

\* The request ends before it took the gate.
Quit == w' = Idle

\* zf_ctap_end_maintenance, at the end of every handler that took the gate.
Release ==
    /\ w.pc = "release"
    /\ gate' = FALSE
    /\ w' = Idle /\ prompt' = NoPrompt
    /\ torn' = (torn \/ u # UiIdle)
    /\ UNCHANGED <<recs, disk, pinf, queue, u, used, kept, dead>>

-----------------------------------------------------------------------------
(* dispatch.c: a request arrives.  getAssertion drops the queue as soon as *)
(* it is parsed; clientPIN takes the gate and drops it then.               *)

New(kind, ses) == [Idle EXCEPT !.kind = kind, !.ses = ses]

Receive ==
    /\ w = Idle /\ ~gate /\ Use("req", MaxRequests)
    /\ \/ \E c \in Cred \ (disk \cup dead \cup Range(recs)), list \in SUBSET disk, uv \in BOOLEAN :
            /\ Cardinality(list) <= 1
            /\ w' = [New("make", 0) EXCEPT !.pc = "exclude", !.c = c, !.list = list, !.uv = uv]
            /\ UNCHANGED <<queue, gate>>
       \/ \E ses \in Session, list \in SUBSET disk, uv, up \in BOOLEAN :
            /\ Cardinality(list) <= 1
            /\ w' = [New("assert", ses) EXCEPT !.pc = "pin", !.list = list, !.uv = uv, !.up = up]
            /\ queue' = NoQueue
            /\ UNCHANGED gate
       \/ \E ses \in Session : /\ w' = [New("next", ses) EXCEPT !.pc = "next"]
                              /\ UNCHANGED <<queue, gate>>
       \/ w' = [New("reset", 0) EXCEPT !.pc = "ask"] /\ UNCHANGED <<queue, gate>>
       \/ w' = [New("token", 0) EXCEPT !.pc = "consent"] /\ queue' = NoQueue /\ gate' = TRUE
    /\ UNCHANGED <<recs, disk, pinf, prompt, u, kept, dead, torn>>

\* zf_ctap_require_pin_auth_with_state holds the gate for itself; it may turn
\* the request down.
PinAuth ==
    /\ w.pc = "pin"
    /\ \/ Quit
       \/ ~gate /\ w' = [w EXCEPT !.pc = IF w.up THEN "resolve" ELSE "take"]
    /\ UNCHANGED <<recs, disk, pinf, queue, gate, prompt, u, used, kept, dead, torn>>

\* The exclude list is looked up under the gate, which is released again.
\* An excluded request still asks the user.
ExcludeCheck ==
    /\ w.pc = "exclude"
    /\ IF gate THEN Quit
       ELSE w' = [w EXCEPT !.pc = "ask", !.at = IF Excluded(w.c, w.list, w.uv) THEN 1 ELSE 0,
                           !.list = {}, !.uv = FALSE]
    /\ UNCHANGED <<recs, disk, pinf, queue, gate, prompt, u, used, kept, dead, torn>>

\* zf_ctap_resolve_assertion_matches_snapshot, without the gate
Resolve ==
    /\ w.pc = "resolve"
    /\ \E found \in Matches(w.list, w.uv) :
          w' = [w EXCEPT !.pc = "ask", !.found = found, !.pick = w.list = {} /\ Len(found) > 1]
    /\ UNCHANGED <<recs, disk, pinf, queue, gate, prompt, u, used, kept, dead, torn>>

-----------------------------------------------------------------------------
(* approval_state.c: asking the user                                       *)

\* The user chooses an account: no allow list, and several matches.
Selecting == w.pick

Ask ==
    /\ w.pc = "ask"
    /\ IF gate
       THEN \* refused; a token request still has to go through its cleanup
            /\ IF w.kind = "token" THEN w' = [w EXCEPT !.pc = "retake", !.ok = FALSE] ELSE Quit
            /\ UNCHANGED prompt
       ELSE /\ w' = [w EXCEPT !.pc = "wait"]
            /\ prompt' = [NoPrompt EXCEPT
                            !.st = IF AutoAccept /\ ~Selecting THEN "approved" ELSE "pending",
                            !.menu = IF Selecting THEN w.found ELSE << >>]
    /\ UNCHANGED <<recs, disk, pinf, queue, gate, u, used, kept, dead, torn>>

\* The buttons of the dialog, and the menu of accounts: both are handled by
\* the UI thread, and the menu shows what is in the index now.
Answer ==
    /\ u = UiIdle /\ prompt.st = "pending"
    /\ IF prompt.menu = << >>
       THEN prompt' = [prompt EXCEPT !.st = "approved"]
       ELSE \E m \in DOMAIN prompt.menu :
              /\ prompt.menu[m] \in DOMAIN recs
              /\ prompt' = [prompt EXCEPT !.st = "approved", !.sel = prompt.menu[m],
                                          !.chosen = recs[prompt.menu[m]]]
    /\ UNCHANGED <<recs, disk, pinf, queue, gate, w, u, used, kept, dead, torn>>

\* Denied, expired or cancelled by the host.
Decline ==
    /\ prompt.st = "pending"
    /\ prompt' = [prompt EXCEPT !.st = "denied"]
    /\ UNCHANGED <<recs, disk, pinf, queue, gate, w, u, used, kept, dead, torn>>

\* The handler goes on with the answer, or is cancelled by the poll after it.
\* Nothing but a chosen account is read from the prompt afterwards.
Resume ==
    /\ w.pc = "wait" /\ prompt.st # "pending"
    /\ \E yes \in {FALSE, prompt.st = "approved"} :
         IF w.kind = "token" THEN w' = [w EXCEPT !.pc = "retake", !.ok = yes]
         ELSE IF yes /\ ~(w.kind = "make" /\ w.at = 1)
              THEN w' = [w EXCEPT !.pc = "take"]
              ELSE Quit
    /\ prompt' = IF Selecting THEN [prompt EXCEPT !.menu = << >>] ELSE NoPrompt
    /\ UNCHANGED <<recs, disk, pinf, queue, gate, u, used, kept, dead, torn>>

-----------------------------------------------------------------------------
(* operations.c: a token request gives the gate away while it asks for     *)
(* consent.  When a deletion has taken it meanwhile the request fails, and *)
(* its caller opens the gate all the same (dispatch.c).                    *)

Consent ==
    /\ w.pc = "consent"
    /\ gate' = FALSE
    /\ w' = [w EXCEPT !.pc = "ask"]
    /\ UNCHANGED <<recs, disk, pinf, queue, prompt, u, used, kept, dead, torn>>

\* A ClientPIN command that needs no consent.
NoConsent ==
    /\ w.pc = "consent"
    /\ Done(TRUE)
    /\ UNCHANGED <<recs, disk, pinf, queue, gate, prompt, u, used, kept, dead, torn>>

Retake ==
    /\ w.pc = "retake"
    /\ gate' = TRUE
    /\ Done(w.ok /\ ~gate)
    /\ UNCHANGED <<recs, disk, pinf, queue, prompt, u, used, kept, dead, torn>>

-----------------------------------------------------------------------------
(* The gate, and what each handler does first under it                     *)

\* zf_ctap_begin_maintenance failed.
Busy ==
    /\ w.pc = "take" /\ gate
    /\ Quit
    /\ UNCHANGED <<recs, disk, pinf, queue, gate, prompt, u, used, kept, dead, torn>>

\* make_credential.c: which credentials of the user are replaced, and whether
\* there is room.
MakeBegin ==
    /\ w.pc = "take" /\ w.kind = "make" /\ ~gate
    /\ gate' = TRUE
    /\ \E gone \in Replaced(w.c) :
          IF Len(recs) - Len(gone) < Capacity
          THEN w' = [w EXCEPT !.pc = "write", !.found = gone, !.at = 1]
          ELSE Done(FALSE)
    /\ UNCHANGED <<recs, disk, pinf, queue, prompt, u, used, kept, dead, torn>>

\* zf_ctap_finish_assertion: the matches are resolved again, unless the user
\* has chosen an account.
AssertBegin ==
    /\ w.pc = "take" /\ w.kind = "assert" /\ ~gate
    /\ gate' = TRUE
    /\ \E found \in IF Selecting THEN {w.found} ELSE Matches(w.list, w.uv) :
          IF found = << >> THEN Done(FALSE)
          ELSE w' = [w EXCEPT !.pc = "load", !.found = found,
                              !.at = IF Selecting THEN prompt.sel ELSE found[1]]
    /\ UNCHANGED <<recs, disk, pinf, queue, prompt, u, used, kept, dead, torn>>

\* reset.c: the queue is dropped and the wipe begins.
ResetBegin ==
    /\ w.pc = "take" /\ w.kind = "reset" /\ ~gate
    /\ gate' = TRUE
    /\ queue' = NoQueue
    /\ w' = [w EXCEPT !.pc = "wipe"]
    /\ kept' = {}
    /\ UNCHANGED <<recs, disk, pinf, prompt, u, used, dead, torn>>

-----------------------------------------------------------------------------
(* makeCredential: write the file, remove the replaced ones, publish       *)

WriteRecord ==
    /\ w.pc = "write"
    /\ \/ Fine /\ disk' = disk \cup {w.c} /\ w' = [w EXCEPT !.pc = "replace"]
       \/ Fault /\ Done(FALSE) /\ UNCHANGED disk
    /\ UNCHANGED <<recs, pinf, queue, gate, prompt, u, kept, dead, torn>>

\* zf_store_remove_credential_files_by_indices, one credential.  A removal
\* that fails may have removed the record and not its counter file.
RemoveReplaced ==
    /\ w.pc = "replace" /\ w.at <= Len(w.found)
    /\ LET i == w.found[w.at]
       IN IF i \notin DOMAIN recs
          THEN w' = [w EXCEPT !.pc = "undo"] /\ Fine /\ UNCHANGED <<disk, kept, dead>>
          ELSE LET d == recs[i]
                   mine == IF SameUser(w.c, d) THEN {d} ELSE {}
               IN /\ kept' = kept \ mine
                  /\ \/ /\ Fine /\ disk' = disk \ {d} /\ dead' = dead \cup mine
                        /\ w' = [w EXCEPT !.at = @ + 1]
                     \/ /\ Fault /\ disk' \in {disk, disk \ {d}} /\ UNCHANGED dead
                        /\ w' = [w EXCEPT !.pc = "undo"]
    /\ UNCHANGED <<recs, pinf, queue, gate, prompt, u, torn>>

RemovedSoFar == {w.found[k] : k \in 1..(w.at - 1)}

\* What was removed is published, and the new record removed if that works.
Undo ==
    /\ w.pc = "undo"
    /\ IF w.at > 1 THEN recs' \in Without(RemovedSoFar) /\ queue' = NoQueue
                   ELSE UNCHANGED <<recs, queue>>
    /\ \/ Fine /\ disk' = disk \ {w.c}
       \/ Fault /\ disk' \in {disk, disk \ {w.c}}
    /\ Done(FALSE)
    /\ UNCHANGED <<pinf, gate, prompt, u, kept, dead, torn>>

\* Variant: the queue survives a change of the index.
PublishKeepsQueue ==
    /\ w.pc = "replace" /\ w.at > Len(w.found)
    /\ \E rest \in Without(RemovedSoFar) : recs' = Append(rest, w.c)
    /\ kept' = kept \cup {w.c}
    /\ Done(TRUE)
    /\ UNCHANGED <<disk, queue, pinf, gate, prompt, u, used, dead, torn>>

\* The compacted index with the new entry, and no queue.
Publish ==
    /\ w.pc = "replace" /\ w.at > Len(w.found)
    /\ \E rest \in Without(RemovedSoFar) :
          IF Len(rest) < Capacity
          THEN /\ recs' = Append(rest, w.c) /\ queue' = NoQueue
               /\ kept' = kept \cup {w.c}
               /\ Done(TRUE) /\ UNCHANGED disk
          ELSE /\ recs' = rest /\ disk' = disk \ {w.c}
               /\ Done(FALSE) /\ UNCHANGED <<queue, kept>>
    /\ UNCHANGED <<pinf, gate, prompt, u, used, dead, torn>>

-----------------------------------------------------------------------------
(* getAssertion and getNextAssertion: load the record, sign, publish       *)

\* Variant: the index entry will do.
LoadsIndexed(i) == i \in DOMAIN recs /\ Attr[recs[i]].rp = Rp

\* The entry at an index, its file and its relying party.
Loads(i) == i \in DOMAIN recs /\ recs[i] \in disk /\ Attr[recs[i]].rp = Rp

\* zf_ctap_load_assertion_record
Load ==
    /\ w.pc = "load"
    /\ \/ /\ Fine
          /\ IF Loads(w.at) THEN w' = [w EXCEPT !.pc = "sign", !.c = recs[w.at]] ELSE Done(FALSE)
       \/ Fault /\ Done(FALSE)
    /\ UNCHANGED <<recs, disk, pinf, queue, gate, prompt, u, kept, dead, torn>>

EntryAt(i) == IF i \in DOMAIN recs THEN recs[i] ELSE 0

\* The record is still the one at its index.
StillCurrent == EntryAt(w.at) = w.c

\* zf_ctap_assertion_queue_seed: a silent request without an allow list that
\* matched several.
Seeds == ~w.up /\ w.list = {} /\ Len(w.found) > 1
Seed == IF Seeds
        THEN [on |-> TRUE, ses |-> w.ses, uv |-> w.uv, list |-> w.found, i |-> 2, fresh |-> TRUE,
              meant |-> [k \in DOMAIN w.found |-> EntryAt(w.found[k])]]
        ELSE NoQueue

\* zf_ctap_publish_assertion_counter; the poll before it may cancel a request
\* with user presence, and the reservation of the counter may fail.
Sign ==
    /\ w.pc = "sign"
    /\ \/ Fine /\ StillCurrent /\ queue' = Seed /\ Done(TRUE)
       \/ Fine /\ (w.up \/ ~StillCurrent) /\ Done(FALSE) /\ UNCHANGED queue
       \/ Fault /\ Done(FALSE) /\ UNCHANGED queue
    /\ UNCHANGED <<recs, disk, pinf, gate, prompt, u, kept, dead, torn>>

\* The queue's time is over.
Expire ==
    /\ queue.fresh
    /\ queue' = [queue EXCEPT !.fresh = FALSE]
    /\ UNCHANGED <<recs, disk, pinf, gate, prompt, w, u, used, kept, dead, torn>>

\* zf_ctap_assertion_queue_handle_next, up to the entry that it will use.
NextBegin ==
    /\ w.pc = "next"
    /\ \/ gate /\ Quit /\ UNCHANGED <<queue, gate>>
       \/ Quit /\ queue' = NoQueue /\ UNCHANGED gate       \* cancelled by the poll
       \/ /\ ~gate /\ gate' = TRUE
          /\ \/ ~(queue.on /\ queue.fresh) /\ queue' = NoQueue /\ Done(FALSE)
             \/ queue.on /\ queue.fresh /\ queue.ses # w.ses /\ Done(FALSE) /\ UNCHANGED queue
             \/ /\ queue.on /\ queue.fresh /\ queue.ses = w.ses
                /\ LET i == queue.list[queue.i]
                   IN IF i \in DOMAIN recs
                      THEN /\ w' = [w EXCEPT !.pc = "nextload", !.at = i, !.c = recs[i],
                                             !.uv = queue.uv]
                           /\ UNCHANGED queue
                      ELSE queue' = NoQueue /\ Done(FALSE)
    /\ UNCHANGED <<recs, disk, pinf, prompt, u, used, kept, dead, torn>>

\* zf_ctap_assertion_queue_still_current_locked
QueueCurrent == queue.on /\ queue.ses = w.ses /\ queue.list[queue.i] = w.at

ClearIfCurrent == queue' = IF QueueCurrent THEN NoQueue ELSE queue

NextLoad ==
    /\ w.pc = "nextload"
    /\ \/ /\ Fine /\ w.c \in disk /\ Attr[w.c].rp = Rp
          /\ w' = [w EXCEPT !.pc = "nextsign"] /\ UNCHANGED queue
       \/ Fine /\ ~(w.c \in disk /\ Attr[w.c].rp = Rp) /\ Done(FALSE) /\ ClearIfCurrent
       \/ Fault /\ Done(FALSE) /\ ClearIfCurrent
    /\ UNCHANGED <<recs, disk, pinf, gate, prompt, u, kept, dead, torn>>

\* The queue goes on with the next entry, or ends with its last one.
NextSign ==
    /\ w.pc = "nextsign"
    /\ \/ /\ Fine /\ QueueCurrent /\ StillCurrent
          /\ queue' = IF queue.i < Len(queue.list)
                      THEN [queue EXCEPT !.i = @ + 1, !.fresh = TRUE] ELSE NoQueue
          /\ Done(TRUE)
       \/ Fine /\ Done(FALSE) /\ ClearIfCurrent      \* cancelled, or no longer current
       \/ Fault /\ Done(FALSE) /\ ClearIfCurrent
       \/ Fault /\ Done(FALSE) /\ UNCHANGED queue    \* no response could be built
    /\ UNCHANGED <<recs, disk, pinf, gate, prompt, u, kept, dead, torn>>

-----------------------------------------------------------------------------
(* zf_store_bootstrap_wipe_app_data: the PIN record by name, then every    *)
(* file of the directory.                                                  *)

WipePin ==
    /\ w.pc = "wipe"
    /\ \/ Fine /\ pinf' = pinf \ {"bin"} /\ w' = [w EXCEPT !.pc = "walk"]
       \/ Fault /\ Done(FALSE) /\ UNCHANGED pinf
    /\ UNCHANGED <<recs, disk, queue, gate, prompt, u, kept, dead, torn>>

\* One file of the walk.
WipeFile ==
    /\ w.pc = "walk"
    /\ \/ /\ Fine
          /\ \/ \E c \in disk : disk' = disk \ {c} /\ dead' = dead \cup {c} /\ UNCHANGED pinf
             \/ pinf # {} /\ pinf' = {} /\ UNCHANGED <<disk, dead>>
          /\ UNCHANGED w
       \/ /\ Fault /\ ~(disk = {} /\ pinf = {})
          /\ Done(FALSE) /\ UNCHANGED <<disk, dead, pinf>>
    /\ UNCHANGED <<recs, queue, gate, prompt, u, kept, torn>>

\* Variant: the walk ends with the records.
WalkedRecords == disk = {}

Walked == disk = {} /\ pinf = {}

\* The index is cleared even if the PIN state cannot be initialised again.
WipeEnd ==
    /\ w.pc = "walk" /\ Walked
    /\ recs' = << >>
    /\ (Fine /\ Done(TRUE)) \/ (Fault /\ Done(FALSE))
    /\ UNCHANGED <<disk, pinf, queue, gate, prompt, u, kept, dead, torn>>

-----------------------------------------------------------------------------
(* views.c: a passkey is deleted from the screen, by the UI thread         *)

\* Variant: the pending prompt is looked at, the gate is not.
DeleteBeginUnlocked ==
    /\ u = UiIdle /\ prompt.st # "pending" /\ Use("del", MaxDeletes)
    /\ \E c \in Range(recs) :
         /\ u' = [UiIdle EXCEPT !.pc = "files", !.c = c]
         /\ kept' = kept \ {c}
    /\ gate' = TRUE
    /\ UNCHANGED <<recs, disk, pinf, queue, prompt, w, dead, torn>>

\* Refused while a prompt is pending or the gate is taken.
DeleteBegin ==
    /\ u = UiIdle /\ ~gate /\ prompt.st # "pending" /\ Use("del", MaxDeletes)
    /\ \E c \in Range(recs) :
         /\ u' = [UiIdle EXCEPT !.pc = "files", !.c = c]
         /\ kept' = kept \ {c}
    /\ gate' = TRUE
    /\ UNCHANGED <<recs, disk, pinf, queue, prompt, w, dead, torn>>

\* zf_store_delete_record: the files first
DeleteFiles ==
    /\ u.pc = "files"
    /\ IF u.c \notin Range(recs)
       THEN u' = [u EXCEPT !.pc = "end"] /\ Fine /\ UNCHANGED disk
       ELSE \/ /\ Fine /\ disk' = disk \ {u.c}
               /\ u' = [u EXCEPT !.pc = "compact", !.at = CHOOSE i \in DOMAIN recs : recs[i] = u.c]
            \/ Fault /\ disk' \in {disk, disk \ {u.c}} /\ u' = [u EXCEPT !.pc = "end"]
    /\ UNCHANGED <<recs, pinf, queue, gate, prompt, w, kept, dead, torn>>

\* zf_store_compact_after_delete: entry after entry, without ui_mutex.
DeleteCompact ==
    /\ u.pc = "compact"
    /\ IF u.at < Len(recs)
       THEN /\ recs' = [recs EXCEPT ![u.at] = recs[u.at + 1]]
            /\ u' = [u EXCEPT !.at = @ + 1]
       ELSE /\ recs' = SubSeq(recs, 1, Len(recs) - 1)
            /\ u' = [u EXCEPT !.pc = "end", !.ok = TRUE]
    /\ UNCHANGED <<disk, pinf, queue, gate, prompt, w, used, kept, dead, torn>>

\* The gate is released and, after a deletion, the queue dropped.
DeleteEnd ==
    /\ u.pc = "end"
    /\ gate' = FALSE
    /\ u' = UiIdle
    /\ IF u.ok THEN queue' = NoQueue /\ dead' = dead \cup {u.c} ELSE UNCHANGED <<queue, dead>>
    /\ UNCHANGED <<recs, disk, pinf, prompt, w, used, kept, torn>>

-----------------------------------------------------------------------------
(* Power is lost; at the next start the index is built from the directory, *)
(* as far as it has room, and the PIN record recovered.                    *)

Restart ==
    /\ Use("crash", MaxCrashes)
    /\ \E I \in SUBSET disk :
         /\ Cardinality(I) = IF Cardinality(disk) < Capacity THEN Cardinality(disk) ELSE Capacity
         /\ recs' \in SetToSeqs(I)
    /\ pinf' = IF pinf = {} THEN {} ELSE {"bin"}
    /\ queue' = NoQueue /\ gate' = FALSE /\ prompt' = NoPrompt
    /\ w' = Idle /\ u' = UiIdle
    /\ UNCHANGED <<disk, kept, dead, torn>>

Worker == \/ Receive \/ PinAuth \/ ExcludeCheck \/ Resolve \/ Ask \/ Resume \/ Consent \/ NoConsent
          \/ Retake \/ Busy \/ MakeBegin \/ AssertBegin \/ ResetBegin \/ WriteRecord
          \/ RemoveReplaced \/ Undo \/ Publish \/ Load \/ Sign \/ NextBegin \/ NextLoad \/ NextSign
          \/ WipePin \/ WipeFile \/ WipeEnd \/ Release
Ui == Answer \/ Decline \/ DeleteBegin \/ DeleteFiles \/ DeleteCompact \/ DeleteEnd
StoreNext == Worker \/ Ui \/ Expire \/ Restart
StoreSpec == StoreInit /\ [][StoreNext]_storeVars

-----------------------------------------------------------------------------
\* A credential whose creation was reported keeps its file until the user
\* deletes it, replaces it with one for the same account or resets the
\* device: no failing removal, no power loss and no deletion of another one
\* at the same time takes it along.
CredentialsKept == kept \subseteq disk

\* The step that publishes the count of an assertion, and so returns it.
Signs(pc) == w.pc = pc /\ w'.ok /\ ~w.ok

\* Every assertion is made with a credential of the relying party that asked
\* which was neither deleted nor replaced nor erased; without a choice by the
\* user it is also one that credProtect allows for the request.  This lasts
\* until the gate is opened under a deletion.
AssertedIsLive ==
    [][~torn /\ (Signs("sign") \/ Signs("nextsign")) =>
          /\ w.c \notin dead /\ Attr[w.c].rp = Rp
          /\ Selecting \/ Visible(w.c, w.uv)]_storeVars

\* getNextAssertion goes on with the credentials that the getAssertion before
\* it matched, in that order and in that session, however the index changed
\* in between, until the gate is opened under a deletion.
NextInOrder ==
    [][~torn /\ Signs("nextsign") => w.c = queue.meant[queue.i] /\ w.ses = queue.ses]_storeVars

\* dispatch.c lets no request into its handler while the local maintenance
\* has the gate: no credential is created, loaded, signed with or erased
\* while the screen is deleting one, as long as no token request has opened
\* the gate under a deletion.
MaintenanceExcludes ==
    ~torn /\ u.pc # "idle" => w.pc \notin {"write", "replace", "undo", "load", "sign", "nextload",
                                           "nextsign", "wipe", "walk"}

\* What is reported is what is stored: a failed makeCredential leaves no
\* record that a later start would find, a successful one is stored and
\* indexed, after a successful reset nothing is left, not even the backup of
\* the PIN record, and a deleted passkey is neither stored nor indexed.
ReplyTellsStore ==
    /\ w.pc = "release" /\ w.kind = "make" => /\ w.ok = (w.c \in disk)
                                              /\ w.ok => w.c \in Range(recs)
    /\ w.pc = "release" /\ w.kind = "reset" /\ w.ok => disk = {} /\ pinf = {} /\ recs = << >>
    /\ u.pc = "end" /\ u.ok => u.c \notin disk \cup Range(recs)

\* The account that the user chose is the one that signs.
ChosenAccountSigns == [][Signs("sign") /\ Selecting => w.c = prompt.chosen]_storeVars
=============================================================================
