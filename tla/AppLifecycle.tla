---------------------------- MODULE AppLifecycle ----------------------------
(***************************************************************************)
(* The life of the application: opening it, the start-up thread, the       *)
(* worker thread of the selected transport, the settings that are kept in  *)
(* runtime_config.bin, the transport switch with its roll-back, and        *)
(* leaving (src/src/app/lifecycle.c, src/src/zerofido_runtime_config.c,    *)
(* src/src/zerofido_app.c, src/src/transport/adapter.c, the settings of    *)
(* src/src/ui/views.c).                                                    *)
(*                                                                         *)
(* Three threads take part: the UI thread, the start-up thread and the     *)
(* worker.  Whether a worker that was told to stop comes to its end is the *)
(* subject of UsbHidWorker and NfcSession; here it may or may not.         *)
(* FIDO2 is always enabled, so a transport without a protocol is no case.  *)
(***************************************************************************)
EXTENDS Naturals

CONSTANTS None,      \* no file, no worker
          Build,     \* the build flags: auto, dev21, packed
          Legacy     \* the configuration files that other versions may have left

Mode == {"usb", "nfc"}
Profile == {"2.0", "2.1"}
Att == {"none", "packed"}
Config == [mode : Mode, profile : Profile, att : Att, auto : BOOLEAN]
\* A file that is read: sound says that its size, magic and flags are ones
\* the loader knows, full that it has the size of a version 4 record.
File == [sound : BOOLEAN, full : BOOLEAN, v : Nat, mode : Mode \cup {"bad"},
         profile : Profile \cup {"bad"}, att : Att \cup {"bad"}, auto : BOOLEAN]

ASSUME LifecycleAssumption ==
    /\ None \notin Mode /\ None \notin File
    /\ Build \in [auto : BOOLEAN, dev21 : BOOLEAN, packed : BOOLEAN]
    /\ Legacy \subseteq File \cup {None}

VARIABLES file,     \* runtime_config.bin
          cfg,      \* app->runtime_config
          adapter,  \* app->transport_adapter
          start,    \* the start-up thread and its result
          worker,   \* app->worker_thread: its transport, how far it is, told to stop
          pin,      \* a PIN is set
          ui,       \* the UI thread
          differs   \* history: the file was not read, or was removed by a reset

vars == <<file, cfg, adapter, start, worker, pin, ui, differs>>

-----------------------------------------------------------------------------
(* zerofido_runtime_config.c                                               *)

\* zf_runtime_config_load_defaults
Defaults == [mode |-> "usb", profile |-> "2.0", att |-> "none", auto |-> FALSE]

\* zf_runtime_config_apply: what the build does not have is switched off.
Applied(c) ==
    [c EXCEPT !.profile = IF Build.dev21 THEN @ ELSE "2.0",
              !.att = IF Build.packed THEN @ ELSE "none",
              !.auto = @ /\ Build.auto]

\* zf_runtime_config_load.  A file that is refused late leaves the fields
\* that were already taken from it.
Taken(f) == [mode |-> f.mode, profile |-> f.profile, att |-> "none", auto |-> f.auto]

Loaded(f) ==
    IF f = None THEN Defaults
    ELSE IF ~f.sound \/ f.v \notin 1..4 THEN Defaults
    ELSE IF f.v = 1 THEN [Defaults EXCEPT !.auto = f.auto]
    ELSE IF f.mode \notin Mode \/ (f.v # 2 /\ f.profile \notin Profile) THEN Defaults
    ELSE IF f.v = 2 THEN IF f.profile = "2.0" THEN Taken(f)
                         ELSE [Defaults EXCEPT !.mode = f.mode]
    ELSE IF f.v = 3 THEN Taken(f)
    ELSE IF ~f.full \/ f.att \notin Att THEN [Taken(f) EXCEPT !.auto = FALSE]
    ELSE [Taken(f) EXCEPT !.att = f.att]

\* The record zf_runtime_config_persist writes.
Record(c) ==
    LET b == Applied(c)
    IN [sound |-> TRUE, full |-> TRUE, v |-> 4, mode |-> b.mode, profile |-> b.profile,
        att |-> b.att, auto |-> b.auto]

\* zf_runtime_config_persist: the atomic write succeeds, or fails and leaves
\* the old file.
Persist(c, ok) ==
    \/ ok /\ file' = Record(c) /\ differs' = FALSE
    \/ ~ok /\ UNCHANGED <<file, differs>>

\* zf_app_lifecycle_load_runtime_config.  A file that cannot be recovered or
\* read counts as missing.
LoadConfig ==
    /\ \E c \in {Loaded(file), Defaults} :
         /\ cfg' = Applied(c)
         /\ differs' = (Applied(c) # Applied(Loaded(file)))
    /\ adapter' = cfg'.mode

-----------------------------------------------------------------------------
(* Opening the application, and the start-up thread                        *)

NoWorker == [kind |-> None, st |-> "none", stop |-> FALSE]
Off == [pc |-> "off", goal |-> "none", prev |-> Defaults]
Rest == [Off EXCEPT !.pc = "idle"]

\* No start-up thread; with "invalid" the reset is offered in the settings.
Joined(res) == [pc |-> "none", res |-> res]

Init ==
    /\ file \in Legacy
    /\ cfg = Defaults /\ adapter = "usb"
    /\ start = Joined("failed")
    /\ worker = NoWorker /\ pin = FALSE /\ ui = Off
    /\ differs = FALSE

\* zf_app_lifecycle_alloc, _open and _startup_async.  The thread may not be
\* had; start-up then counts as failed.
Open ==
    /\ ui = Off
    /\ LoadConfig
    /\ start' \in {[pc |-> "config", res |-> "failed"], Joined("failed")}
    /\ ui' = Rest /\ pin' = FALSE
    /\ UNCHANGED <<file, worker>>

\* zf_app_lifecycle_startup: the configuration once more, then the storage.
StartupConfig ==
    /\ start.pc = "config"
    /\ LoadConfig
    /\ start' = [start EXCEPT !.pc = "storage"]
    /\ UNCHANGED <<file, worker, pin, ui>>

StartupStorage ==
    /\ start.pc = "storage"
    /\ start' \in [pc : {"complete"}, res : {"ok", "failed", "invalid"}]
    /\ pin' \in BOOLEAN
    /\ UNCHANGED <<file, cfg, adapter, worker, ui, differs>>

\* zf_app_lifecycle_start_worker: a new thread, or none.
Launched(w) == w = [kind |-> adapter', st |-> "new", stop |-> FALSE]

\* zf_app_lifecycle_startup_pending, from the tick or from the settings: the
\* completed thread is joined and the transport started.
StartupPending ==
    /\ ui.pc = "idle" /\ start.pc = "complete"
    /\ UNCHANGED adapter
    /\ IF start.res = "ok" /\ worker = NoWorker
       THEN \/ Launched(worker') /\ start' = Joined("ok")
            \/ start' = Joined("failed") /\ UNCHANGED worker
       ELSE start' = Joined(start.res) /\ UNCHANGED worker
    /\ UNCHANGED <<file, cfg, pin, ui, differs>>

-----------------------------------------------------------------------------
(* The worker thread                                                       *)

\* It claims its device and serves, or gives up; worker_thread stays set.
WorkerInit ==
    /\ worker.st = "new"
    /\ worker' \in {[worker EXCEPT !.st = s] : s \in {"serving", "exited"}}
    /\ UNCHANGED <<file, cfg, adapter, start, pin, ui, differs>>

\* Either worker leaves its loop on the stop flag.  Nothing makes this step
\* fair: the USB worker can lose the flag and the mark, and the NFC worker can
\* be held up by a callback that keeps ui_mutex.
WorkerEnds ==
    /\ worker.st = "serving" /\ worker.stop
    /\ worker' = [worker EXCEPT !.st = "exited"]
    /\ UNCHANGED <<file, cfg, adapter, start, pin, ui, differs>>

\* zf_transport_stop: the stop of the adapter that is set now.  It reaches
\* the worker only if that is the worker's own.
Told == [worker EXCEPT !.stop = @ \/ adapter = worker.kind]

\* zf_store_bootstrap_wipe_app_data removes every file, the configuration
\* included; what is in memory stays.
WipeFiles == /\ file' \in {None, file}
             /\ differs' = (differs \/ file' # file)

\* A CTAP2 reset.
Reset ==
    /\ worker.st = "serving"
    /\ WipeFiles
    /\ pin' \in {FALSE, pin}
    /\ UNCHANGED <<cfg, adapter, start, worker, ui>>

\* ZfPinConfirmActionResetAppData, offered after a bad PIN record.
ResetAppData ==
    /\ ui.pc = "idle" /\ start = Joined("invalid")
    /\ WipeFiles
    /\ \/ start' = Joined("failed") /\ pin' = FALSE
       \/ UNCHANGED <<start, pin>>
    /\ UNCHANGED <<cfg, adapter, worker, ui>>

\* The PIN is set or removed, by the host or on the screen.
PinChanges ==
    /\ worker.st = "serving" \/ (ui.pc = "idle" /\ start.pc = "none")
    /\ pin' = ~pin
    /\ UNCHANGED <<file, cfg, adapter, start, worker, ui, differs>>

-----------------------------------------------------------------------------
(* The settings, which are closed while start-up is pending                *)

Free == ui.pc = "idle" /\ start.pc = "none"

\* zf_runtime_config_set_auto_accept_requests, _fido2_profile and
\* _attestation_mode: stored first, then applied.
Set ==
    /\ Free
    /\ \E next \in Config :
         /\ \/ Build.auto /\ next = [cfg EXCEPT !.auto = ~@]
            \/ /\ Build.dev21 /\ next = [cfg EXCEPT !.profile = IF @ = "2.0" THEN "2.1" ELSE "2.0"]
               /\ next.profile = "2.1" => pin
            \/ Build.packed /\ next = [cfg EXCEPT !.att = IF @ = "none" THEN "packed" ELSE "none"]
         /\ \E ok \in BOOLEAN : /\ Persist(next, ok)
                                /\ cfg' = IF ok THEN Applied(next) ELSE cfg
    /\ UNCHANGED <<adapter, start, worker, pin, ui>>

\* zf_app_lifecycle_set_transport_mode: the new mode is applied at once.
Switch ==
    /\ Free
    /\ cfg' = [cfg EXCEPT !.mode = IF @ = "usb" THEN "nfc" ELSE "usb"]
    /\ ui' = [pc |-> "stop", goal |-> "switch", prev |-> cfg]
    /\ UNCHANGED <<file, adapter, start, worker, pin, differs>>

\* zf_app_lifecycle_stop_worker: tell the worker, and join it.
Stopped == IF ui.goal = "leave" THEN "free" ELSE "launch"

\* Variant: the adapter of the new mode is set before the worker is stopped.
StopWorkerAdapted ==
    /\ ui.pc = "stop"
    /\ adapter' = cfg.mode
    /\ IF worker = NoWorker
       THEN ui' = [ui EXCEPT !.pc = Stopped] /\ UNCHANGED worker
       ELSE ui' = [ui EXCEPT !.pc = "join"]
            /\ worker' = [worker EXCEPT !.stop = @ \/ adapter' = worker.kind]
    /\ UNCHANGED <<file, cfg, start, pin, differs>>

StopWorker ==
    /\ ui.pc = "stop"
    /\ IF worker = NoWorker
       THEN ui' = [ui EXCEPT !.pc = Stopped] /\ UNCHANGED worker
       ELSE ui' = [ui EXCEPT !.pc = "join"] /\ worker' = Told
    /\ UNCHANGED <<file, cfg, adapter, start, pin, differs>>

JoinWorker ==
    /\ ui.pc = "join" /\ worker.st = "exited"
    /\ worker' = NoWorker
    /\ ui' = [ui EXCEPT !.pc = Stopped]
    /\ UNCHANGED <<file, cfg, adapter, start, pin, differs>>

\* The rest of zf_app_lifecycle_restart_transport.  A switch whose worker
\* cannot be started goes back to the old mode; going back is not checked.
Relaunch ==
    /\ ui.pc = "launch"
    /\ adapter' = cfg.mode
    /\ \/ /\ Launched(worker')
          /\ ui' = IF ui.goal = "switch" THEN [ui EXCEPT !.pc = "persist"] ELSE Rest
          /\ UNCHANGED cfg
       \/ /\ UNCHANGED worker
          /\ IF ui.goal = "switch"
             THEN cfg' = ui.prev /\ ui' = [ui EXCEPT !.pc = "stop", !.goal = "back"]
             ELSE UNCHANGED cfg /\ ui' = Rest
    /\ UNCHANGED <<file, start, pin, differs>>

\* Variant: a mode that cannot be stored is taken back in memory only.
PersistModeOnly ==
    /\ ui.pc = "persist"
    /\ \E ok \in BOOLEAN : /\ Persist(cfg, ok)
                           /\ cfg' = IF ok THEN cfg ELSE ui.prev
    /\ ui' = Rest
    /\ UNCHANGED <<adapter, start, worker, pin>>

\* A mode that cannot be stored is taken back, with its transport.
PersistMode ==
    /\ ui.pc = "persist"
    /\ \/ Persist(cfg, TRUE) /\ ui' = Rest /\ UNCHANGED cfg
       \/ /\ Persist(cfg, FALSE)
          /\ cfg' = ui.prev /\ ui' = [ui EXCEPT !.pc = "stop", !.goal = "back"]
    /\ UNCHANGED <<adapter, start, worker, pin>>

-----------------------------------------------------------------------------
(* Leaving                                                                 *)

\* zerofido_navigation_callback: the transport is told to stop before the
\* view dispatcher returns to zerofido_main.
Leave ==
    /\ ui.pc = "idle"
    /\ worker' = Told
    /\ ui' = [ui EXCEPT !.pc = "wait", !.goal = "leave"]
    /\ UNCHANGED <<file, cfg, adapter, start, pin, differs>>

\* zf_app_lifecycle_wait_startup; the transport is not started any more.
WaitStartup ==
    /\ ui.pc = "wait" /\ start.pc \in {"none", "complete"}
    /\ start' = Joined(start.res)
    /\ ui' = [ui EXCEPT !.pc = "stop"]
    /\ UNCHANGED <<file, cfg, adapter, worker, pin, differs>>

\* zf_app_lifecycle_free
FreeApp ==
    /\ ui.pc = "free"
    /\ ui' = Off
    /\ UNCHANGED <<file, cfg, adapter, start, worker, pin, differs>>

\* Power is lost.
Crash ==
    /\ ui # Off
    /\ ui' = Off /\ worker' = NoWorker /\ start' = Joined("failed")
    /\ UNCHANGED <<file, cfg, adapter, pin, differs>>

-----------------------------------------------------------------------------
Startup == StartupConfig \/ StartupStorage
UiGoesOn == StopWorker \/ JoinWorker \/ Relaunch \/ PersistMode \/ WaitStartup \/ FreeApp

Next == \/ Open \/ Startup \/ StartupPending \/ WorkerInit \/ WorkerEnds \/ Reset \/ ResetAppData \/ PinChanges
        \/ Set \/ Switch \/ UiGoesOn \/ Leave \/ Crash

\* A thread that can run runs; the tick callback comes back while the UI
\* thread is at rest.  Nothing is assumed of the user, the host or the power,
\* and nothing of the end of a worker.
Fairness == /\ WF_vars(Startup) /\ WF_vars(StartupPending)
            /\ WF_vars(WorkerInit) /\ WF_vars(UiGoesOn)
Spec == Init /\ [][Next]_vars /\ Fairness

-----------------------------------------------------------------------------
\* The variables keep their types.
TypeOK ==
    /\ file \in File \cup {None} /\ cfg \in Config /\ adapter \in Mode
    /\ start \in [pc : {"none", "config", "storage", "complete"}, res : {"ok", "failed", "invalid"}]
    /\ worker \in [kind : Mode \cup {None}, st : {"none", "new", "serving", "exited"},
                   stop : BOOLEAN]
    /\ pin \in BOOLEAN /\ differs \in BOOLEAN
    /\ ui \in [pc : {"off", "idle", "stop", "join", "launch", "persist", "wait", "free"},
               goal : {"none", "switch", "back", "leave"}, prev : Config]

\* What the settings show is what runs and what the next start will load,
\* whenever the UI thread is at rest: after a switch, after a switch that
\* could not start its worker or store its mode and was taken back, and
\* after a file of another version was loaded (set_transport_mode and its
\* roll-back).  A reset that removed the file, or a start that could not read
\* it, makes the two differ until the next setting is stored.
SettingsAgree ==
    ui.pc = "idle" =>
      /\ worker # NoWorker => worker.kind = cfg.mode /\ adapter = cfg.mode
      /\ differs \/ Applied(Loaded(file)) = cfg

\* What the two transports owe the application: a worker that was told to
\* stop ends.  UsbHidWorker shows it of leaving (QuitEnds), and it shows with
\* StopEnds, as NfcSession does with CallbackReturns, where it fails.
ToldWorkersEnd == (worker.st = "serving" /\ worker.stop) ~> (worker.st # "serving")

\* Given that, no wait of the UI thread lasts for ever: the joins of a switch,
\* of its roll-back and of leaving return, because the stop they send goes to
\* the adapter the worker runs, which a failed switch has changed twice; and
\* start-up is over and joined in the end, whether the application is left or
\* not.
JoinsReturn ==
    ToldWorkersEnd =>
      /\ (ui.pc \notin {"idle", "off"}) ~> (ui.pc \in {"idle", "off"})
      /\ (start.pc # "none") ~> (start.pc = "none")
=============================================================================
