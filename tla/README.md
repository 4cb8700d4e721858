# ZeroFIDO: a TLA+ verification project

ZeroFIDO is a FIDO2/U2F authenticator that runs as an external application on a
Flipper Zero. This directory holds TLA+ models of its implementation
(`src/src/`), the TLC configurations that check them on small instances, and
TLAPS proofs of the results that matter most.

## 1. The system

### 1.1 Threads

* The **worker thread** runs one transport (USB HID or NFC), assembles requests
  and executes CTAP2/U2F commands. A command that needs the user waits, inside
  the worker, on a semaphore.
* The **UI thread** draws the views and runs the callbacks of the settings
  (set/change/remove PIN, unblock, delete a credential, reset app data), and
  answers the approval dialogs.
* On NFC, the firmware's **NFC callback** feeds frames to the worker.

Shared state sits in `ZerofidoApp`, guarded by `ui_mutex`. Longer operations are
kept apart by the flag `maintenance_busy` (`zf_ctap_begin_maintenance`,
`zerofido_begin_local_maintenance`), which an operation takes or fails on.

### 1.2 Components

| Component | Files | State | Operations | What makes it correct |
|---|---|---|---|---|
| Atomic file storage | `zerofido_storage.c` | a primary file, its `.tmp` and `.bak` | write, recover, remove | after any failed call or power loss a reader sees the old or the new value, never a mixture; a removed value stays removed |
| ClientPIN | `pin/core`, `pin/client_pin`, `pin/store`, callbacks of `ui/views.c` | PIN hash, retry and mismatch counters, block flag, key agreement, token with permissions; the record on disk | setPIN, changePIN, getPINToken, requiring a token, local set/change/remove/unblock, reset, start | bounded guesses across restarts and failing storage; a token stands for the current PIN, one consent, and its lifetime |
| Credential store | `zerofido_store.c`, `store/*.c` | index in memory, one record file and one counter file per credential | load, add, update, delete, reserve a count, recover backups, wipe | index and files agree; only what was deleted, replaced or reset goes; signature counts only grow |
| CTAP2 commands | `ctap/commands`, `ctap/core` | assertion queue, maintenance flag | makeCredential, getAssertion, getNextAssertion, reset | a reply tells what the store holds; an assertion is of a live credential; a queue does not outlive its session |
| User approval | `ctap/core/approval.c`, `ui/approval_state.c` | the interaction, its semaphore, deadline | request, approve, deny, cancel, time out | an answer reaches only the question it was given to |
| USB HID transport | `transport/usb_hid_*.c`, `transport/dispatch.c` | channels, lock, message assembly, request in progress | packets, ticks, cancellation | a message is assembled from one channel only; every request is answered once |
| NFC transport | `transport/nfc_*.c` | block numbers, caches and chains of the link; session, request and response generations | field on/off, blocks, APDUs, chaining, polling | a command is executed once; a response goes to the request it answers; a cancelled request stores nothing |
| U2F | `u2f/*.c` | device key, counter, user presence | register, authenticate, wipe | one confirmation, one signature; growing counter |
| Attestation | `attestation/local.c` | certificate and private key on file | check, generate, clean up | the certificate sent fits the key that signed; it stays the same |
| Application lifecycle | `app/lifecycle.c`, `zerofido_app.c` | start-up thread, worker thread, adapter | open, start, stop, switch transport, leave | the worker that runs is the one the settings show; every join returns |
| Runtime configuration | `zerofido_runtime_config.c` | the settings in memory and on file | load any version, store, apply, set | what is shown is what the next start loads |
| UI, cryptography, parsers | `ui`, `crypto`, `ctap/parse`, `zerofido_cbor.c` | — | — | the callbacks that change state are modelled with the component they change; the rest is no state machine (section 7) |

The CTAP2 commands call ClientPIN to authorise a request, the store to read and
write credentials and the approval component to ask the user. ClientPIN and the
store write through the atomic file storage. The local settings change the PIN and the store
from the UI thread while the worker runs.

### 1.3 What is hard

Power can be lost between any two storage calls, and every storage call can fail.
The code then relies on backups, on an order of writes, or on falling closed; unit
tests reach one such failure at a time. The second difficulty is the wait for the
user: it opens the maintenance lock, lets the local settings change what
was checked before the wait, and is interrupted by cancellation, timeouts and
disconnection. The third is arithmetic at limits: retry counters, the
32-bit tick, reserved counter windows. `PROJECT.json` lists the places as
"hazards", with the properties that cover them.

## 2. Modules

| Module | Contents |
|---|---|
| `AtomicRegister` | abstract specification: a register with write, remove and loss of power |
| `AtomicFile` | `zerofido_storage.c`: one action per storage call of write, recover and remove |
| `MCAtomicFile` | TLC instance |
| `FileOutcome` | what one whole call of write, recover or remove may leave, as sets of outcomes |
| `AtomicFileOutcome` | `AtomicFile` observed from call to return, to check those sets |
| `SignCounter` | one credential: record file, counter file, index entry; assertions, deletion, start-up |
| `SignCounter_proofs` | inductive invariants of `SignCounter`, with and without failures, proved |
| `MCSignCounter` | TLC instances |
| `ClientPin` | the PIN state of the authenticator and its record on disk |
| `ClientPin_proofs` | typing, the retry counter and the token, proved |
| `MCClientPin` | TLC instance |
| `CtapHid` | the CTAPHID session as a record, and what each of its handlers makes of it |
| `UsbHidSession` | that session under all traffic of a host: reports, polls, time, the cable |
| `UsbHidSession_proofs` | its invariant, proved |
| `MCUsbHidSession` | TLC instances |
| `UsbHidWorker` | `CtapHid` with the worker thread, the approval prompt, the UI thread that answers it and the stop of the worker |
| `UsbHidWorker_proofs` | its invariant with and without the cable and the stop, proved |
| `MCUsbHidWorker` | TLC instances |
| `NfcSession` | the NFC transport above the link: selections, requests, responses, the NFC callback against the worker |
| `MCNfcSession` | TLC instances |
| `NfcIsoDep` | the ISO-DEP link below it: blocks, chains, repetitions, losses |
| `Nfc_proofs` | the invariants of `NfcSession` and of `NfcIsoDep`, proved |
| `MCNfcIsoDep` | TLC instances |
| `LocalAttestation` | the pair of attestation certificate and key, on `FileOutcome` |
| `U2f` | `LocalAttestation` with the U2F device key, counter, instance and requests |
| `U2f_proofs` | inductive invariant of `U2f`, proved |
| `MCU2f` | TLC instance |
| `CredentialStore` | the index of credentials, the CTAP2 commands that work on it and the deletion from the screen |
| `Storage_proofs` | `AtomicFile`, its refinement and its outcomes, and `CredentialStore`, proved |
| `MCCredentialStore` | TLC instances |
| `AppLifecycle` | start-up, settings, transport switch, leaving |
| `AppLifecycle_proofs` | the settings agree, proved |
| `MCAppLifecycle` | TLC instance |

`FileOutcome` is what ties the file-keeping modules together: `AtomicFileOutcome` shows that `AtomicFile` implements
it, and `SignCounter`, `LocalAttestation` and `U2f` use it for every file operation. `ClientPin`, `CredentialStore` and `AppLifecycle` use
the coarser fact that a write stores the value or leaves the old one. `UsbHidSession` and
`UsbHidWorker` share the session of `CtapHid`.

### 2.1 AtomicFile

State: the contents of `primary`, `temp` and `backup` (a value, `None`, or `Torn`
for a partly written file), the step the running call has reached (`pc`), the value
being written, and the last reply. Each storage call of
`zf_storage_write_file_atomic`, `zf_storage_recover_atomic_file`,
`zf_storage_prepare_atomic_backup`, `zf_storage_publish_atomic_temp` and
`zf_storage_remove_atomic_file` is an action; a call that can fail has both
outcomes, and `Crash` may come between any two. `Boot` runs the recovery as the
start of the application does, and ignores its result as
`zf_pin_state_store_cleanup_temp` does.

`storage_common_rename` is external code. It is modelled from how the code uses
it: a destination that exists is removed, and then the source takes its name
(`RenameUnlink`, `RenameRelink`), with power loss possible in between. A firmware
that copied the contents instead could leave a torn primary next to a good
backup, and `zf_storage_recover_atomic_file` keeps the primary in that case; the
model does not contain that firmware.

`Logical` is what a reader sees once recovery has run: the primary if there is
one, else the backup. It is the refinement mapping to `AtomicRegister`, whose
register changes in one step.

### 2.2 FileOutcome and AtomicFileOutcome

A component that keeps several files needs the calls of section 2.1 as single steps.
`FileOutcome` gives, for a file with its primary and backup, the set of outcomes of
a call: the file it leaves, how it ended (`"true"`, `"false"`, or `"off"`
for power lost inside it) and whether a storage call failed on the way (its `cost`).
These sets are not assumed: `AtomicFileOutcome` runs `AtomicFile` from each call to its
return or to the power loss and checks that the end is listed (`OutcomeListed`).

### 2.3 SignCounter

State: the record file `rec`, with its sign count and whether it embeds a counter floor;
the `.counter` file `ctr`; the index entry `entry` (`sign_count` and
`counter_high_water`); the step `pc`, and the count of the assertion being made. `life`,
`last` and `above` are history: whether the relying party may know the credential, the
last count it was told, and the least count that is above all earlier ones. `faults` counts the steps
in which a storage call failed, up to `MaxFaults`.

`Load` is a validated load (`zf_store_counter_floor_validate_fields`): the larger of the two counts wins and a
counter file that is behind is rewritten. `Prepare`, `Cancel`, `ReserveCounter`, `ReserveRecord` and `Publish`
are an assertion; the maintenance lock keeps a second one, and a deletion, out. `Create`, `Added` and `Withdraw`
are what makeCredential does to the files of the new credential. `Boot`, `RecoverRecord`, `RecoverCounter`,
`SkipBackups` and `Index` are start-up, which meets the two backups in either order and
gives up at the first visitor that returns false. `Crash` loses the memory at any point.

A reserved window is written to the record as its count, and every assertion loads the record from its file. So
each assertion starts from the reserved count and reserves again: counts advance by `Window + 1`,
and a restart changes nothing about that.

Abstracted: a record that fails to decrypt or to be read although it is good is one fault;
`storage_file_exists` is taken to answer truthfully; memory allocation for the index does not fail, and there is room in it.

### 2.4 ClientPin

State: `mem` is the part of `ZfClientPinState` that concerns the PIN (set or not, the
PIN, retries, consecutive mismatches, block flag); `disk` is the record
(`None`, a record, or `Poison`: a record the loader refuses, such as the invalid-version one that
`zf_pin_state_store_fail_closed` writes); `up` is how far the start came; `token`
and `host` are the pinUvAuthToken and a token request waiting for consent, with the copy
of the state its handler works on. `grant` and
`hist` are history: what the user agreed to when the token was issued and
what it was used for, how many wrong guesses were answered, and what was forgotten of them. A PIN is a model
value; encryption, padding and length checks of a new PIN are left out, as are
the messages. A guess is a PIN, right or wrong; a `pinUvAuthParam` is
valid or not.

* `SetPin`, `ChangePin`, `GetPinToken` + `FinishConsent` or `StalePublish`, `RequireAuth`, `Reset`
  are the CTAP2 side. `GetPinToken` takes two steps when consent is required,
  because the code gives the maintenance lock back while the dialog is open, and
  the UI actions may come in between. `FinishConsent` takes the lock back and reads the
  state again. `StalePublish` is the end of a dialog that finds the lock taken by a
  local action: the copy from before the dialog is published over the memory, at any moment of
  that action, so the record stays, is written from the copy, or mixes both. Such a mixture is sealed
  for other counters than it holds and does not load: it is `Poison`. A mixture in memory of the two (the copy is assigned while the local
  action changes single fields) is not modelled.
* `UiSetPin`, `UiChangePin`, `UiRemovePin`, `UiResume`, `UiResetAppData` are the local settings.
* `Boot`, `Crash` and `Tick` are the environment.

A save goes through the atomic file, so the model relies on what `AtomicFile` shows:
it stores the record, or leaves the old one, and the reply may be
failure although the record was stored. `SaveStrict` is a save whose failure falls
closed, with its three stages (persist, poison, remove); when all fail, the memory is
blocked and the guess counts as `lost`. `Interrupted` is power lost inside a
save.

The bound names are `MaxAge` (ticks since a token was issued) and `MaxLost` (guesses the
storage lost, and retries a stale publication gave back). `RetriesMax` and `BlockAt` are 8 and 3 in the code; `TokenTimeout`
and `HalfClock` stand for 30000 ms and 2^31.

### 2.5 CtapHid and UsbHidSession

`CtapHid` has no variables: `ZfTransportState` is a record, a report is a record, and a handler of
`transport/usb_hid_session.c` is an operator from both to the set of its outcomes (the new session, the response, whether the
prompt is to be cancelled, whether a complete message is dispatched). Two modules use it. The set has more than one
element where a channel is drawn at random and where a U2F message may be rejected for bytes the model does not have.

* Lengths count reports: the first report carries one unit of payload and each continuation one more. `got` is the payload, and
  each unit remembers its channel and its place, so that a mixed or reordered message is visible.
* A report has 64 bytes, or it is a `stub`, cut off before its length field. Reports shorter than five bytes are ignored by the code and left out.
* `age` and `left` are the time since `last_activity` and the time to `lock_expires_at`, so there is no clock.
* `chans` is the table of channels in the order of their last use. Two channels used in the same millisecond are
  ordered by use, where the code takes the lower index.
* The payload arena is allocated; `ZF_HID_ERR_OTHER` for want of memory does not occur. `processing_resync` is written and never read, and is left out.

`UsbHidSession` has the session `s` and what happened last, `event`. A report is read either by the worker's loops
(`Receive`, `zf_transport_session_handle_packet`) or by the poll of a running CTAP2 command (`Poll`,
`zf_transport_session_handle_processing_control`); the two do not treat a report alike.

### 2.6 UsbHidWorker

A request that waits for the user calls `zf_transport_handle_request` from inside its wait, so the handler may be entered
again. The worker is therefore a `stack` of frames; the first is the main loop, every other a dispatched request with what it has still to
do (`todo`), the generation it started with and its prompt. A frame's `pc` walks through the loop of the code: take the
flags (`TakeFlags`), look for a stop (`CheckStop`), read and handle a report (`ReadReport`, `NoReport`, `Handled`), end the round
(`After`); a wait also tries the semaphore (`TryResult`). `EndDispatch` is the rest of `zf_transport_dispatch_complete_message`.

Requests are of three kinds (`Program`): `make`, which polls, asks, polls and commits (makeCredential, getAssertion); `reset`, which asks and
commits (authenticatorReset, selection, the U2F commands); `quick`, which is answered at once. A `make` takes the
scratch buffer, so it cannot be nested in another `make`.

`prompt` is the interaction with its generation, `done` its binary semaphore. The UI thread approves, denies, lets it expire, leaves
the application (`Quit`) or switches the transport (`Restart`); a stop is three steps (`StopMark`, `StopRelease`, `StopSignal`) and a
`Join`, since the worker runs between them. `live`, `approved`, `answer` and `nested` (a request was dispatched below another one) are history.

Abstracted: the flags REQUEST and APPROVAL only wake the worker early and are left out; so is time, except that a
prompt may expire at any moment; a reset of the session is one step, although `zf_transport_usb_hid_stop` could write in the middle of it;
`maintenance_busy` does not refuse a prompt (it does in `CredentialStore`). The HID driver is external: a queue of reports,
emptied when the cable is pulled.

### 2.7 NfcSession

State: the fields of `ZfNfcTransportState` that concern the selection (`sel`, `sid`, `canceled`), the exchange (`ex`: the request that is pending or
processed with its session and generation, the response that waits with its page), the worker (`wk`) and the listener callback (`cb`) with the
request each serves, and `auto`, which is `app->transport_auto_accept_transaction`. Requests are numbered as they are accepted.

The listener callback serves one event at a time and holds `ui_mutex`, which it gives up in three places: when it serves a short CTAP2 request itself
(`ServeHere`), when it encodes a U2F response (`AnswerHere`), and between the event and the APDU. In one place it asks for the mutex that it holds: a GET RESPONSE outside a block, while the request
of a reader that announced GET RESPONSE is processed (`GetStatus`). No step leads on from there, and nothing that needs the mutex happens any more (`MutexFree`). The worker takes a queued request
(`Take`), asks or is accepted automatically (`Approve`, `Decide`), commits, stores its response if session and
generation are still its own (`Store`), and restores the flag (`Restore`). Between approval and commit makeCredential, getAssertion and getNextAssertion poll for a cancellation (`Poll`); reset, clientPIN and U2F do not (`Accepted`). `FieldOff`, `Reactivate`, `Select`, `SelectNdef` and `ControlEnd` are
what a reader can do to the session meanwhile; `Stop`, `LeaveLoop` and `Exit` end the transport.

Abstracted: an APDU is one of the kinds in `Apdus`, by the route its answer takes; a response is small or large, large being two pages or two blocks.

### 2.8 NfcIsoDep

The card of `nfc_iso_dep.c` and `nfc_engine.c` against a reader (external). There is one frame on the `air`; `Lose` drops it. The reader numbers its
blocks and accepts only the block it waits for. It recovers in one of two `Ways`, which another reader may change at an activation. The way `"iso"` is that of ISO 14443-4: R(NAK), or an empty I-block, when its I-block is not answered (rule 4), the R(ACK) once more
while the card sends a chain (rule 5), and its I-block once more only after an R(ACK) with the other number (rule 6). The way `"repeat"` is that of the repository's tests, which send the I-block again (`tests/native/transport_u2f/subsystems/nfc/tests.inc:232` and `2155`). On the card, `lastTx` is the last block sent,
`tx` the chain being sent, `rx` the chain being received, `done` the last complete block with its answer: these caches are what makes a repetition harmless.
`exec` counts how often each command was carried out. `spoilt` is history: since the activation a frame was lost that the card does not make good for (`Mended` says which it does), or a command was sent that looks like the last one
answered (`Lookalike`).

A command is a number with a kind (SELECT, a DESFire probe, one answered directly, a fragment of a longer CTAP message); `Bytes` says which commands are the same byte for byte.

### 2.9 LocalAttestation and U2f

`LocalAttestation` is the check of the pair (`CheckPair`), its removal (`DropCert`, `DropKey`) and its generation (`WriteCert`, `WriteKey`, `Verify`), each file operation
a step with the outcomes of `FileOutcome`; a certificate and a key carry the number of the pair they belong to. `pc` and `then` are the running operation and what
follows it. `U2f` extends it with the device key `key` and the counter `cnt`, and the instance in memory `inst`. `Start` to `NewCount` are `u2f_init`; `Receive`
to `AuthenticateFails` serve one request; `Reset`, `WipeKey` and `WipeCount` are the U2F part of a CTAP2 reset, which wipes key and counter and leaves the pair. `resp`, `sent` and `served` are history.

A key handle is bound to the device key it was made with, so it is that key's number. U2F is taken to be enabled.

### 2.10 CredentialStore

The index `recs` in its order, the record files `disk`, the files of the PIN record `pinf`, the queue of getNextAssertion, the maintenance lock `gate`, the
`prompt`, the worker `w` with its request and the UI thread `u` with its deletion. Each section under `ui_mutex` and each storage call is a step, so the two threads interleave between them;
`maintenance_busy` is tried and never waited for. A makeCredential is `ExcludeCheck`, the prompt, `MakeBegin`, `WriteRecord`, `RemoveReplaced` (or `Undo`), `Publish`; a getAssertion `Resolve`, the prompt
or the selection, `AssertBegin`, `Load`, `Sign`, which also seeds the queue; a reset walks over the files with `WipePin` and `WipeFile`. `Restart` is a loss of power followed by
start-up, which builds the index from the files. A token request gives the gate up for its dialog and may find a deletion holding it afterwards; its caller opens the gate all the same (`Release`), and the history `torn` says that this has happened.

Abstracted: a credential is a number, newer ones greater, with its relying party, user, whether it is discoverable and whether credProtect hides it without verification; the counter is `SignCounter`'s; of
clientPIN only a token request remains, for its hold on the lock. The selection command changes no state and is left out.

### 2.11 AppLifecycle

Three threads: the UI thread `ui` with the step it has reached in a switch or in leaving, the start-up thread `start`, and the worker, of which only its transport, its stage and whether it was told to
stop remain. `file` is `runtime_config.bin`, `cfg` the configuration in memory, `adapter` the transport the stop goes to. `Loaded` is the
loader for every version of the file, `Record` what is stored, `Applied` what the build allows. A switch is `Switch`, `StopWorker`, `JoinWorker`, `Relaunch`, `PersistMode`; a worker that cannot be started and
a mode that cannot be stored lead back through the same steps with the old configuration. `differs` is history: the file was not read, or a reset removed it.

How a worker that was told to stop ends, and whether it does, is `UsbHidWorker`'s and `NfcSession`'s subject. Here `WorkerEnds` may happen or not, and `JoinsReturn` has `ToldWorkersEnd` as its hypothesis: what the lifecycle owes its joins if the transports keep their part.

## 3. Runs

| Run | Instance | Result |
|---|---|---|
| `atomic_file` | two values | pass. `TrueReplyReadsBack`, the refinement `ImplementsRegister`, and `OutcomeListed` |
| `sign_counter` | counts to 11, window 3, two faults | pass. `CountsGrow`, `CredentialSurvives`, `DeletedStaysDeleted`, `NeverLockedOut` |
| `client_pin` | two PINs and two relying parties (symmetric), 3 retries, block at 2, one guess lost or given back, timeout 1, half clock 3, ages to 2, consent required | pass. `GuessBudget`, `ThrottleHolds`, `EveryRecordLoads`, `MemoryNeverLaxer`, `TokenOfCurrentPin`, `ConsentHonoured`, `TokenLifetime` |
| `usb_session` | four channels, three in the table, messages of up to three reports, timeout 2, lock 1 | pass. `ChannelsInUseKept`, `AssembledInOrder`, `NoForeignInterrupt`, `AssemblyEnds` |
| `usb_worker` | two channels in use and one free, four reports of seven kinds, one replug | pass. `CommitHasConsent`, `FailureMeansNoCommit`, `NoLateResponseAlone` |
| `usb_worker_quit` | the same with three reports, no replug, the application left or the transport switched | pass. `RequestEnds`, `QuitEnds` |
| `nfc_session` | two requests of four kinds, four generations | pass. `ResponseOfLastRequest`, `CancelledNotCommitted`, `WaitsEnd` |
| `nfc_auto_accept` | the same | violation of `AutoAcceptScoped`: section 4 |
| `nfc_link` | four commands, equal byte for byte in pairs, responses of up to four blocks, three losses, readers of both ways | pass. `ExecutedOnce`, `MendedInOrder`, `MendedCompletes` |
| `u2f` | two pairs, two device keys, counts to 5, window 2, two faults | pass. `CountsGrow`, `PresencePerRequest`, `CertificateMatches`, `IdentityStable` |
| `store` | four credentials, capacity 3, three requests, one deletion, one fault, one power loss, two sessions (symmetric) | pass. `CredentialsKept`, `ReplyTellsStore`, `MaintenanceExcludes`, `AssertedIsLive`, `NextInOrder` |
| `app_lifecycle` | the full build, eleven kinds of configuration file | pass. `SettingsAgree`, `JoinsReturn` |

Why the bounds are enough. The atomic file compares values only for equality, and two suffice
to tell old from new. Two PINs tell right from wrong and old from new. Three retries are
more than one throttle, so that a restart must fall between two of them to reach the
last retry; an age past the timeout and short of half the clock
is enough for expiry, and two relying parties for the scope. Counts to 11 with a
window of 3 allow three assertions: a first, one after it, and one whose
window is cut at the top, which stands for `UINT32_MAX`. Two faults are the most under which `CountsGrow` holds: with three, a
record and its counter file can both be set back. (The counter file's write fails and leaves the old one, the
record cannot be read at the next start and the backup of the time before takes its place, and so on.) The theorems of section 5 hold for every value, so for those properties the bounds do not
matter.

A table of three channels can be full while one is the request's, one the lock's and one free to be
replaced by the fourth; three reports are the fewest in which two continuations can change places. In the worker's runs one report is a whole message: assembly is the subject of
`usb_session`, and four reports are a request, a second one or a resynchronisation inside its wait, a CANCEL of either, and one more. `MaxReports`, `MaxUnplugs` and
`Leaving` name the bounds.

Two NFC requests are enough for one to overtake, replace or cancel the other, and four generations for a request, its reset, the next request and one more reset. On the link, four commands let the two block numbers come back twice, and two pairs of equal ones let a command look like the one before it; a response of four blocks has
two blocks of either number; three losses hit a block, its repetition and the answer. In `u2f` each of the key and the pair can be replaced once, and the counter has room for two windows, the second cut
at the top; under one of the two faults a write fails, under the other a read. In `store` two accounts of the relying party, a second registration of one of them that credProtect hides, and a
credential of another party fill or nearly fill the index; three requests are a getAssertion, its getNextAssertion and one that disturbs them. `AppLifecycle` has no bound: its state space is finite.

Deadlock is checked except in `usb_worker_quit`, `nfc_link` and `store`, where the system ends when its bounded requests are used up or the worker is gone, and in the runs of `NfcSession`, which stops for good when the callback
waits for its own mutex (note 11).

Fairness. In `UsbHidSession` the tick is weakly fair, because both loops call it in every round and a round lasts at most a keepalive
interval, and so is time. In `UsbHidWorker` the worker's steps are weakly fair (a thread that is runnable runs; its waits
have a timeout), so are the steps of a stop once begun, and `Expire`, because the UI's tick callback comes back as long as the UI thread is not inside a
stop. Nothing is assumed of the user or the host. `RequestEnds` is
checked without a replug: with one it fails, for the reason of note 6 below (the nested prompt drains the signal of the outer one, whose wait then has nothing to wait for).
In `NfcSession` the worker and the callback are weakly fair, and an event the callback was entered for is served; a prompt ends since it expires. `WaitsEnd` is stated up to the moment when the callback waits for its own mutex. In `NfcIsoDep` the card answers, and
the reader takes what it hears and asks again; losses are bounded, so they end. In `AppLifecycle` the start-up thread, the start of the worker and the UI thread inside an operation are weakly fair, and so is `StartupPending`, which the tick callback runs. That a worker told to stop ends is not assumed, since it does not always do so (notes 5 and 11): it is the hypothesis
`ToldWorkersEnd` of `JoinsReturn`. `QuitEnds` and `WaitsEnd` show it where it holds.

## 4. Findings and notes

One disagreement has a run of its own; its trace is the case described.

* **`nfc_auto_accept`**. The worker and the NFC callback both save `app->transport_auto_accept_transaction`, set it for the request they serve, and restore what they
  saved (`transport/nfc_worker.c:176` and `221`; `transport/nfc_dispatch.c:268` and `292`, `414` and `425`). When the worker has stored an error, or its exchange was reset, the exchange is not busy any more while the worker's stretch is still open. The callback can then take a request of its own and save TRUE; the worker
  restores FALSE, and the callback, which ends later, restores TRUE. The flag stays set, and every later request is accepted without the user (`ui/approval_state.c:139`). The tests of the repository expect each stretch to restore the override, and test each alone.

The others were met while modelling. Each can be reproduced by checking the property named, which is defined in its module, with the constants given (the rest as in the cfg of the module's passing run).

ClientPIN:

1. `zf_pin_token_is_expired` (`pin/core/token.c:120`) compares a signed tick
   difference. From 2^31 to 2^32 ms after a token was issued the difference is
   negative and the expired token is accepted again, while `pin/core/token.c:146` says that expiry is checked. (`TokenLifetime` with `RetriesMax` 2, `BlockAt` 2, `TokenTimeout` 2, `HalfClock` 4, `MaxAge` 8,
   `MaxLost` 0, one relying party, `ConsentRequired` FALSE.)

2. A token request gives the maintenance lock up during its consent dialog and works on a copy of the PIN state. If a local PIN action holds the lock when the dialog ends, the
   request gives up without reading the state again (`pin/client_pin/operations.c:127`-`130`), and its caller publishes the old copy all the same (`pin/command.c:220`). Retries spent on the device meanwhile are given back, a PIN changed or removed meanwhile is back
   in memory until the next start, and so is its token. `pin/core/retry.c:72` says that a wrong guess "consumes one durable retry". (`RetriesAreDurable`, with the constants of `client_pin`.) `GuessBudget`, `ThrottleHolds` and `MemoryNeverLaxer` say by how much the promises then fail:
   by the retries given back, and no more; `TokenOfCurrentPin` says that a token comes back only together with its PIN.

USB:

3. The poll of a running CTAP2 request reads reports without looking at the lock
   (`transport/usb_hid_session.c:397`): a broadcast INIT of another application aborts the request of the
   channel that holds the lock, which the worker's loops would have answered with "busy". A test expects that "locked transport should report channel busy to other CIDs" (`tests/native/transport_u2f/subsystems/transport/tests.inc:976`); the comment at the poll wants a broadcast INIT honoured and does not mention the lock.
   (`LockBlocksOthers` with `Cid` {c1, c2}, `MaxChans` 2, `MaxLen` 1, `Timeout` 1.)
4. `zf_transport_session_reset` sets the generation back to 0 (`transport/usb_hid_session.c:383`). A request handled after a disconnect, inside
   the wait of an older request, gets the same generation 1, and the response of the older one is sent on the new
   connection, which `transport/dispatch.c:102` excludes. `NoLateResponseAlone` says that this takes a request below another one: until there is one, a disconnect does discard the response. (`NoLateResponse` with `MaxReports` 3, `MaxUnplugs` 1, `Leaving` {}.)
5. A stop can be lost: a message that begins while the UI thread is inside `zf_transport_usb_hid_stop` clears `stopping` (`transport/usb_hid_session.c:382`),
   its prompt drains the semaphore and its wait takes the STOP flag. The main loop goes on and the join of a transport switch
   does not return (`docs/changelog.md:13` speaks of a stop during user approval as fixed). Leaving the application is safe (`QuitEnds`): no prompt is made once `running` is false, so nothing takes the flag. (`StopEnds` with `Reports` <- `MCRequests`, `MaxReports` 1, `MaxUnplugs` 0, `Leaving` {"restart"}.)
6. A request whose prompt was cancelled by a disconnect can stay in its wait when a second request, handled in the same round, has drained the
   semaphore. If the second one is approved and the application is then left, the semaphore released by the stop
   lets the first one read "approved" and be carried out. (`CommitHasConsent` with `Reports` <- `MCRequests`, `MaxReports` 2, `MaxUnplugs` 1, `Leaving` {"quit"}.)

   Notes 4 to 6 need a disconnect or a stop to meet a new request within one round of the worker's loop: a short
   suspend, or a busy worker. A resynchronisation (INIT on the channel of a request) that meets an approval already given has a milder effect: the request is carried out and
   its response discarded.

NFC:

7. A page of a large response can be sent twice: after the first page was fetched, a block that finds the response still waiting is answered with all of it (`transport/nfc_engine.c:758`, `transport/nfc_session.c:311`; `docs/writeup_ios.md:121` describes the paging). (`PagesInOrder`.)
8. An accepted fragment of APDU command chaining and an open chain of blocks are told by the same flag, `command_chain_active` (`transport/nfc_dispatch.c:709`, `transport/nfc_engine.c:451` and `718`). The block with the next fragment is then taken for the last block of a chain and appended
   to the arena with its APDU header, where `docs/writeup_ios.md:108` says that fragments are appended and dispatched after the last. (`AssembledAsSent`.)
9. The number of an R-block is not looked at, and R(NAK) always means the last I-block (`transport/nfc_engine.c:965`-`968`). To a reader that recovers by the rules of ISO 14443-4 this does three things, all with `Ways` {"iso"}, `Bytes` <- `Distinct`, `MaxLoss` 1. When a block of a chained response is lost and the reader
   repeats its R(ACK), the card goes on to the next block: the reader accepts the fourth block after the first (`ResponseInOrder` with `MaxCmds` 1, `MaxBlocks` 4). When the last part of a chained command is lost, R(NAK) brings the response to the command before (`ResponseInOrder` with `MaxCmds` 2, `MaxBlocks` 1). When a frame of the first command is lost, R(NAK) brings nothing, and the
   reader never gets the R(ACK) after which it would go on (`CommandCompletes` with `MaxCmds` 1, `MaxBlocks` 1). `docs/writeup_ios.md:24` says that the ISO-DEP code "handles reader ACK/NAK recovery", and `28` that it is "not a general ISO14443-4 stack". `MendedInOrder` and `MendedCompletes` say what the card does make good for: every lost frame of a reader that
   repeats its block; for the other one a lost R-block and the lost first block of a response, except that to a probe.

   A command equal byte for byte to the one before, after a chained response of an even number of blocks, is taken for a repetition and answered with the old response, with no frame lost (`ResponseInOrder` with `MaxCmds` 2, `MaxLoss` 0, `MaxBlocks` 2).
   It is then not carried out; `ExecutedOnce` holds for it too.
10. END and the loss of the field mark the session as cancelled, but authenticatorReset (`ctap/commands/reset.c:47`) and clientPIN do not look at the mark after the approval, and a SELECT or a new request removes it
    (`transport/nfc_session.c:383` and `419`), so that a makeCredential still at its prompt is carried out too. `docs/writeup_ios.md:112` says that END "cancels pending work". (`EndCancelsWork`.) What holds is `CancelledNotCommitted`: a command that polls does not get past its last poll while the mark is there. An APDU with wrong
    P1/P2 resets a busy exchange without cancelling its request, and selecting the NDEF application deselects without a reset. A transmission the listener reports as failed is treated as lost on the air.
11. A bare GET RESPONSE while the request is processed is handled under `ui_mutex` (`transport/nfc_engine.c:880` and `938`, `transport/nfc_dispatch.c:694`) and asks for the status (`transport/nfc_session.c:250`), which acquires `ui_mutex` again (`222`). It is a normal mutex (`app/lifecycle.c:52`): the
    callback waits for itself, and everybody else for the callback. A test expects the status (`tests/native/transport_u2f/subsystems/nfc/tests.inc:2703`); it calls the handler without the mutex. (`CallbackReturns`.)

U2F:

12. With a third fault `CountsGrow` fails: the counter can be left in its backup alone, and is then taken to be missing, although `u2f/persistence.c:565` says that the reservation "protects against rollback after interrupted writes". A read that fails once makes `zf_local_attestation_ensure_assets`
    replace a good pair, so `IdentityStable` speaks of runs without faults.

Store and CTAP2:

13. The account chosen in the selection dialog is remembered as an index of the store (`ctap/commands/get_assertion.c:380`). A deletion from the screen before it is used moves the entries, and another account of the
    same relying party signs; `get_assertion.c:275` says that "UI selection chooses one" and `278` that deleted or replaced records cannot be signed stale, which holds (`AssertedIsLive`). (`ChosenAccountSigns` with `MaxRequests` 1, `MaxFaults` 0, `MaxCrashes` 0.)
14. A token request whose dialog ends while a deletion holds the maintenance gate gives up (`pin/client_pin/operations.c:127`), and its caller opens the gate all the same (`ctap/dispatch.c:119`). The next request then works on the store in the middle of the deletion, although `ctap/dispatch.c:67` says that it must find the gate
    idle (`MaintenanceExcludes` without `~torn`, with `MaxFaults` 0, `MaxCrashes` 0). `MaintenanceExcludesHolds` (section 5) says that this is the only way. After it a getNextAssertion may sign for another account than the next one and an assertion may be made with a credential just deleted (`NextInOrder` and `AssertedIsLive` without `~torn`), and with `AutoAccept` TRUE `ReplyTellsStore` fails.
15. A second failing call while a failed makeCredential is undone leaves the record of a credential that was never reported (`ReplyTellsStore` with `MaxFaults` 2). A wipe that fails in the middle leaves a part of the store in use, after the PIN is gone
    (`ctap/commands/reset.c:34` says that requests "cannot observe half-wiped state"). At full capacity a loss of power between the new record and the removal of the replaced one leaves one file more than the index holds (`store/bootstrap.c:51`). The selection may offer an account that credProtect hides, if the index changed.

Settings:

16. `zerofido_runtime_config.c:36` says that invalid values "reject the file and fall back to defaults"; a version 2 file with a bad profile, or a version 4 file with a bad attestation mode or a short size, keeps the fields already taken
    (`Loaded`). A reset removes the file while the settings in memory stay until the next start.
17. `zf_app_lifecycle_restart_transport` does not look at `startup_ok`: a transport switch after a start-up that failed, by an invalid PIN record for example, starts the worker all the same. `ClientPin` assumes host commands only after a successful start.

Three comments that the code does not follow:

* `pin/core/retry.c:158` says that a persisted `PIN_AUTH_BLOCKED` is cleared only by the local unblock;
  `zerofido_pin_init_with_result` clears it at every start (`pin/core/lifecycle.c:53`), as the comment there says. `GuessBudget` holds all the
  same, because the durable retry counter goes on.
* `store/recovery.c:120` says that a backup is restored "if the primary record is missing or cannot be decoded"; start-up keeps a primary only
  if the whole load succeeds (`store/recovery.c:58`), the check and perhaps the rewriting of the counter file included, and otherwise
  an older, possibly half copied backup takes the place of a record that decodes.
* `store/record_format.h:45` says that a counter reservation "updates only the small counter floor/high-water file";
  it also rewrites the whole record (`store/record_format.c:361`).

## 5. Proofs

`Storage_proofs` has two parts. For `AtomicFile`, for every set of values:

* `Invariance`: `Spec => []IndInv`, where `IndInv` says for every `pc` what the three
  files may hold. The safety properties are not inductive: that a rename
  may lose the primary safely depends on the backup made steps earlier, and that the
  backup is whole depends on which copy has finished.
* `TypeCorrectness`, `NeverTornHolds`, `TrueReplyReadsBackHolds`,
  `BackupGuardsRenameHolds` follow from it; `Refinement` shows that each action is a
  step or a stutter of `AtomicRegister` under `IndInv`.
* `OutcomeListedHolds`: whatever a call of write, recover or remove leaves, when it returns and wherever the power is lost in it, is in the set that
  `FileOutcome` lists for it, at the number of failed calls listed there. `SignCounter` and `U2f` take their file operations from those sets, so their theorems rest on this one. `ObsInv` says for each `pc` of a call which files
  it may have come to from those at its start, and after how many failures (`WriteInv`, `RecoverInv`, `RemoveInv`).

For `CredentialStore`, for any credentials and capacity and any number of requests, deletions, failing calls and power losses, without a hypothesis on them. The results speak of every state up to the one in which a token request opens the gate under a deletion (`torn`);
what fails after it is in note 14.

* `StoreInvariance`: `StoreSpec => []Guarded`, with `Guarded == ~torn => StoreInv`. None of the properties is inductive. `CredentialsKept` depends on what the steps before a removal looked up, and the rest of the argument is about why that is still true when the removal comes:
  `GateInv` says that a worker past the gate and a deletion from the screen exclude each other; `MakingInv` that the credential being made is neither in the index nor among the reported or deleted ones until it is published;
  `ReplacingInv` that the indices to be replaced, found under the gate, still point at entries of the same account and leave room for the new one; `DeletingInv` follows a deletion through its files and the compaction, which moves one
  entry at a time, so that meanwhile two places of the index may hold the same credential; `DiskInv` relates index, files and the reported and deleted credentials; `QueueInv` says that a queue, while nobody compacts, still means the entries it was made from; `AssertInv` and `ReplyInv`
  say what a request about to sign or to reply has established.
* `MaintenanceExcludesHolds`, whose property has `~torn` as its hypothesis, so the step of note 14 is the only one that lets worker and screen work on the store at once.
* `CredentialsKeptHolds` (`~torn => CredentialsKept`), `AssertedIsLiveHolds` and `NextInOrderHolds` follow; the last two are action properties. `ReplyTellsStoreHolds` says `~torn /\ used.fault <= 1 => ReplyTellsStore`: with a second failure the removal of the new record may fail too (note 15).
* A sorted list of indices is a member of the set of increasing enumerations of a set. That the set is not empty would need an induction over data and is not used: the theorems speak of whichever enumeration a step takes.

`SignCounter_proofs`, for every counter width, window, legacy count and number of faults:

* `Invariance`: `Spec => []Inv`, with `Inv == Safe /\ (faults = 0 => Calm)`. `Safe` holds whatever fails: a deleted
  credential has no record file of either kind, and only running operations have an entry. `Calm` holds as long as
  only power was lost: what recovery would find is a whole record whose count is at least the last one told; once start-up
  has passed a file it has no backup; and the entry's high-water mark is covered by one of the two files. The
  properties are not inductive without these: that a count is new depends on the file it was loaded from, and that file on
  what every interrupted write before it left behind.
* `TypeCorrectness`, `NoResurrection`, `Survival` and `NoLockout` follow.
* `GrowInvariance`: `Spec => []GrowInv`, which counts failures. `Held` says what the two files cover of the last count told: before the first failure the record and its backup both do; after one
  the record does, and where its backup does not the counter file is not behind the record; after two one of the files does, in such a way that neither recovery nor a load in between takes it away (`Loads`, `Sheltered`). Each file
  operation has a lemma that says what it makes of `Held`. `FitsIn` says why the index lets no count pass that the files have not reserved, also when a failed write has left the counter file in its backup: the next count is
  above the reserved ones or is turned down, because a reservation leaves room for the count it is made for (`Spaced`), except at the top of the range, where no assertion is prepared any more.
* `CountsGrowHolds`: `faults <= 2 => CountsGrow` in every state, and `CountsAlwaysGrow`: `CountsGrow` under `MaxFaults <= 2`. A third fault breaks it (section 3).
* The lemmas `WriteFacts`, `RecoverFacts`, `RemoveFacts` state what the file operations guarantee, `LoadFacts` what a load does.

`ClientPin_proofs`, for all PINs, retry limits, throttles, clocks and bounds:

* `TypeCorrectness`.
* `RetryInvariance`: `Spec => [](RetryInv /\ DialogInv)`, with the stale publication of note 2 among the steps. `GuessBudget` alone is not inductive: it
  must say how many guesses the counters still allow. `RetryInv` adds that the guesses
  answered plus the retries left are within the budget, both for the memory and
  for the record (which a restart would load), that a memory with no retries or too many
  mismatches is blocked, that the mismatches bound the streak, and that all counters are within
  the loader's limits. `DialogInv` says what a waiting handler's copy may bring back: it is a full
  counter of a PIN that was entered right, and whatever was answered since shows in the memory it will
  replace, so the retries given back are counted.
* `GuessBudgetHolds`, `ThrottleAlwaysHolds`, `EveryRecordAlwaysLoads`,
  `MemoryIsNeverLaxer` follow.
* `TokenInvariance`: `Spec => [](TokenInv /\ CopyInv)`, the second saying the same of the copy held during a dialog. `TokenOfCurrentPin` needs that a device that is off has no token, `ConsentHonoured` that what a token still grants is within what
  was granted. `TokenOfCurrentPinHolds` and `ConsentHonouredHolds` follow without a hypothesis, the first with `RetryInv` for the PIN of the record. `TokenLifetimeHolds` says `MaxAge < HalfClock => TokenLifetime`: once a token can be presented after half a turn of the
  tick counter the property fails (note 1).

`UsbHidSession_proofs`, for every number of channels, size of the table, length of a message, timeout and lock time:

* A handler is an operator on the session, so the invariant is one too: `Good(t)` says that the table has no channel twice and is not too long, that a message is assembled or processed but not both, that the channel of the message and that of the
  lock are assigned, and that the payload is in order. Each handler has a lemma that it makes a good session of a good one, and, for the reports that arrive during a request, that only the channel of the request or a
  broadcast INIT ends it (`Fair`).
* `Invariance`: `Spec => []IInv`, with `IInv == Good(s) /\ EventType`. The properties are not inductive alone: that the payload stays in order needs that no session assembles
  and processes at once, that a continuation is counted right needs the types, and the number of channels in the table follows from its having no duplicates.
* `TypeCorrect`, `ChannelsInUseKeptHolds` and `AssembledInOrderHolds` follow, and `NoForeignInterruptHolds`, an action property. The lemmas `DropFacts`, `AppendFacts` and `DistinctCounts` state what happens to the table.

`UsbHidWorker_proofs`, for any channels and reports, any number of them, and requests entered below each other to any depth:

* `Invariance`: `Spec => []IInv` under the hypothesis `Leaving = {} \/ MaxUnplugs = 0`: the worker is never stopped, or the cable stays in its place. These are the settings of the two runs, and the hypothesis is needed: note 6 is a stop and a disconnect
  that meet.
* `IInv` has three parts. `Common` holds in any case: what a request has still to do tells where it can be, and one that has only to commit was approved in its own prompt. That a request takes the answer to its own prompt has two different reasons. Without a stop
  (`Undisturbed`), a signal is in the semaphore only for the newest prompt, and a request below finds none when the one above it has ended. With the cable in place (`Plugged`), there is one request at a time, and once interrupted it goes to its
  end without reading another report.
* `CommitHasConsentHolds` has the hypothesis of `Invariance`; `FailureMeansNoCommitHolds` assumes `Leaving = {}`, because a stop marks the session as cancelled also behind a commit.
* `NoLateResponseAloneHolds` has the hypothesis of `Invariance` and so allows disconnects: up to the first request dispatched below another one, no interrupted request is answered. It needs one more invariant, `Alone`: while nothing was nested there is one request at most, of generation 1, and once interrupted the session neither processes nor
  has that generation. With the cable in place no request is dispatched below another one, and the limit means nothing; with a disconnect the property fails without it (note 4).

`U2f_proofs`, for every counter width and window and any number of keys, pairs, requests, resets and power losses:

* `Invariance`: `Spec => []IInv`. `Control`, `Files` and `Memory` say where each step is called from, what it may find in the four files, and how the instance in memory agrees with them. `Covered` says that the counter on disk is at least every count
  told under the present key; `Costs` counts the faults that it takes to strand the counter in its backup, so that `Covered` holds up to two of them; `Settled` says that a certificate that was sent stays while nothing fails.
* `CountsGrowHolds`: `faults <= 2 => CountsGrow` in every state, and `CountsAlwaysGrow`: `CountsGrow` under `MaxFaults <= 2`. A third fault breaks it (note 12). `PresencePerRequestHolds` and `CertificateMatchesHolds` hold whatever fails; `IdentityStableHolds` speaks of
  runs without faults, as the property does. `TypeCorrect` follows too.

`Nfc_proofs` has two parts. For `NfcSession`, for any number of requests and generations and any choice of large answers:

* `Invariance`: `Spec => []IInv`. `ResponseOfLastRequest` says nothing of a request that is still being served, so it is not inductive. `Owning` says that a worker whose generation is the one of the exchange serves the request accepted last, and that no
  response is there yet; `Working` that any other worker has an older generation, which no reset brings back; `Pending` and `Calling` say the same of a request that waits and of one that the callback serves itself. `Voided` says what a cancellation leaves behind: the session of
  the voided request is the cancelled one, or the transport stops, until a selection or a new request forgets both.
* `ResponseOfLastRequestHolds`: the check of session and generation in `store_response` is enough. `CancelledNotCommittedHolds` is an action property: the step of a polling command from the approval to the commit is a poll of the worker, and `Voided` is what the poll looks at. `TypeCorrect` follows too.

For `NfcIsoDep`, for any number of commands and losses, responses of any number of blocks, readers of both ways and any bytes, without a hypothesis:

* `ExecutedOnceHolds`: a command is carried out at most once, whatever is lost and whoever asks again. It has an invariant of its own (`OnceInv`): while the reader waits for a command that was carried out, no chain is open that its block could end, and that block is in the cache of the last complete one, so that it is recognised when it comes again.
* `LinkInvariance`: `LinkSpec => []LinkInv`, with `LinkInv == Typed /\ (~spoilt => InStage)`. That a response arrives in order is not inductive: a block that comes again must find in the card's caches the very answer it got the first time, and which cache that is depends on how far the exchange has come and on
  which of the two frames was lost. While the reader waits, `InStage` says that the exchange is in one of five stages: the first part of a split command is on its way, acknowledged or refused (`FirstPart`); the card has not heard the reader's last block (`NotHeard`); it has answered it
  and keeps the answer for a repetition (`Answered`); in a chained response, the card did not get the reader's last acknowledgement (`Behind`), or got it and sent the next block (`Ahead`). Otherwise the air is silent and no chain is open (`Resting`).
  A loss that the card makes good for moves between the stages and never out of them.
* `MendedInOrderHolds` follows. What `spoilt` leaves out is what note 9 shows to fail.

`AppLifecycle_proofs`, for every build and every configuration file found at the start:

* `InvHolds`: `Spec => []Inv`. `SettingsAgree` is not inductive: it speaks of the UI thread at rest and says nothing of the middle of a switch. `Inv` adds which thread exists in
  which step and that the worker runs the adapter that is set (`WorkerOwn`, `StartupAlone`, `AdapterSet`), which steps belong to a switch and its roll-back (`Switching`), that the configuration fits the build
  (`BuildFits`), and that the stored configuration is the old one while a switch runs and the one in memory while it is taken back (`StoredAgrees`).
* `SettingsAgreeHolds` and `TypeCorrectness` follow. The lemma `RoundTrip` says that the loader reads back what was stored, `LoadedType` that it makes a configuration of any file.

The assumptions are named in the modules that declare the constants
(values and markers differ, `BlockAt` fits a byte and is positive, and so on), and TLC evaluates them in
every run.

Every safety property of the passing runs is a theorem. The cases of notes 6, 9, 12, 14 and 15, which the statements above leave out, were explored with TLC and are where the properties fail. The liveness
properties (`AssemblyEnds`, `RequestEnds`, `QuitEnds`, `WaitsEnd`, `MendedCompletes`, `JoinsReturn`) are out of the prover's reach and stay with TLC. The modules use no recursive operator.

## 6. Plan

1. An abstract specification of an authenticator (credentials, counts, consent) that `CredentialStore` with `SignCounter` implements.
2. `AppLifecycle` with the capabilities, which the UI thread and the worker resolve without a lock.

## 7. Not modelled

Parsing and encoding of CBOR and APDUs, cryptography, certificates, rendering and logging
are transformations of data without a protocol; they are tested by the repository's vectors and
would be transliterations here. The table of capabilities (`zf_runtime_config_resolve_capabilities`) is a function of the configuration and the PIN; that
two threads resolve it without a lock is not modelled. In `ClientPin` a UI operation and a
maintenance operation are each one step; the lock between them is in `CredentialStore`. `UiResetAppData` of `ClientPin` assumes that no leftover backup
of the PIN file exists; `CredentialStore` has that backup. A credential can be opened from the home screen while start-up still
builds the index; `CredentialStore` begins with the index built. Builds with one transport only, in which there is no switch, are the same modules with less in them.
