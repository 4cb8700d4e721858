------------------------ MODULE AppLifecycle_proofs ------------------------
(***************************************************************************)
(* SettingsAgree for every build and every configuration file another      *)
(* version may have left.  It is not inductive: that a switch can be taken *)
(* back depends on the old configuration still being the stored one while  *)
(* the switch runs, and that a stop is sent to the right adapter on which  *)
(* thread exists in which step.  Inv says so.                              *)
(***************************************************************************)
EXTENDS AppLifecycle, TLAPS

\* The worker runs the adapter that is set, and there is none where the code
\* has just joined it or has not started one yet.
WorkerOwn ==
    /\ worker # NoWorker => worker.kind = adapter
    /\ start.pc # "none" => worker = NoWorker
    /\ ui.pc \in {"off", "launch", "free"} => worker = NoWorker

\* The start-up thread runs only while the UI thread is at rest or waits for it.
StartupAlone == start.pc # "none" => ui.pc \in {"idle", "wait"}

\* Where the configuration in memory and the adapter agree.
AdapterSet == ui.pc \in {"idle", "persist"} => adapter = cfg.mode

\* A switch and its roll-back go through these steps only, and nothing else does.
Switching ==
    /\ ui.goal \in {"switch", "back"} => ui.pc \in {"stop", "join", "launch", "persist"}
    /\ ui.pc \in {"launch", "persist"} => ui.goal \in {"switch", "back"}
    /\ ui.pc = "persist" => ui.goal = "switch"
    /\ ui.pc \in {"stop", "join", "wait"} => ui.goal # "none"

\* Nothing the build lacks is in the configuration.
BuildFits == cfg = Applied(cfg) /\ ui.prev = Applied(ui.prev)

\* What the next start will load.
Stored == Applied(Loaded(file))
StoredAgrees ==
    /\ ui.pc = "idle" \/ ui.goal = "back" => differs \/ Stored = cfg
    /\ ui.goal = "switch" => differs \/ Stored = ui.prev

Inv == /\ TypeOK /\ WorkerOwn /\ StartupAlone /\ AdapterSet /\ Switching /\ BuildFits
       /\ StoredAgrees

-----------------------------------------------------------------------------
(* The configuration file                                                  *)

\* zf_runtime_config_apply keeps a configuration a configuration, and
\* applying it twice is applying it once.
LEMMA AppliedFacts ==
    ASSUME NEW c \in Config
    PROVE  /\ Applied(c) \in Config
           /\ Applied(Applied(c)) = Applied(c)
           /\ Applied(c).mode = c.mode
<1>1. /\ Build.auto \in BOOLEAN /\ c.auto \in BOOLEAN
      /\ c \in [mode : Mode, profile : Profile, att : Att, auto : BOOLEAN]
  BY LifecycleAssumption DEF Config
<1>2. Applied(c) \in Config
  BY <1>1 DEF Applied, Config, Mode, Profile, Att
<1>3. Applied(c).mode = c.mode
  BY <1>1 DEF Applied, Config
<1>4. Applied(Applied(c)) = Applied(c)
  <2> DEFINE a == Applied(c)
             b == Applied(a)
  <2>1. a \in Config /\ b \in [mode : Mode, profile : Profile, att : Att, auto : BOOLEAN]
    BY <1>1, <1>2 DEF Applied, Config, Mode, Profile, Att
  <2>2. b.mode = a.mode /\ b.profile = a.profile /\ b.att = a.att
    BY <1>1 DEF Applied, Config
  <2>3. b.auto = a.auto
    BY <1>1 DEF Applied, Config
  <2> QED BY <2>1, <2>2, <2>3 DEF Config
<1> QED BY <1>2, <1>3, <1>4

\* The loader makes a configuration of any file.
LEMMA LoadedType ==
    ASSUME NEW f \in File \cup {None}
    PROVE  Loaded(f) \in Config
<1>1. Defaults \in Config
  BY DEF Defaults, Config, Mode, Profile, Att
<1>2. CASE f = None
  BY <1>1, <1>2 DEF Loaded
<1>3. CASE f # None
  <2>1. f \in File /\ f.auto \in BOOLEAN
    BY <1>3 DEF File
  <2>2. [Defaults EXCEPT !.auto = f.auto] \in Config
    BY <2>1 DEF Defaults, Config, Mode, Profile, Att
  <2>3. ASSUME f.mode \in Mode PROVE [Defaults EXCEPT !.mode = f.mode] \in Config
    BY <2>3 DEF Defaults, Config, Mode, Profile, Att
  <2>4. ASSUME f.mode \in Mode, f.profile \in Profile
        PROVE  /\ Taken(f) \in Config /\ [Taken(f) EXCEPT !.auto = FALSE] \in Config
               /\ f.att \in Att => [Taken(f) EXCEPT !.att = f.att] \in Config
    BY <2>1, <2>4 DEF Taken, Config, Att
  <2>5. "2.0" \in Profile
    BY DEF Profile
  <2> QED BY <1>1, <1>3, <2>2, <2>3, <2>4, <2>5 DEF Loaded
<1> QED BY <1>2, <1>3

\* What zf_runtime_config_persist wrote is what zf_runtime_config_load reads.
LEMMA RoundTrip ==
    ASSUME NEW c \in Config
    PROVE  /\ Record(c) \in File
           /\ Applied(Loaded(Record(c))) = Applied(c)
<1> DEFINE b == Applied(c)
<1>1. /\ b \in Config /\ Applied(b) = b
  BY AppliedFacts
<1> HIDE DEF b
<1>2. Record(c) = [sound |-> TRUE, full |-> TRUE, v |-> 4, mode |-> b.mode,
                   profile |-> b.profile, att |-> b.att, auto |-> b.auto]
  BY DEF Record, b
<1>3. Record(c) \in File
  BY <1>1, <1>2 DEF File, Config
<1>4. Loaded(Record(c)) = b
  <2> DEFINE f == Record(c)
  <2>1. /\ f.sound = TRUE /\ f.full = TRUE /\ f.v = 4 /\ f.mode = b.mode
        /\ f.profile = b.profile /\ f.att = b.att /\ f.auto = b.auto
    BY <1>2
  <2>2. f # None
    BY <1>3, LifecycleAssumption
  <2>3. b.mode \in Mode /\ b.profile \in Profile /\ b.att \in Att /\ b.auto \in BOOLEAN
    BY <1>1 DEF Config
  <2>4. Taken(f) = [mode |-> b.mode, profile |-> b.profile, att |-> "none", auto |-> b.auto]
    BY <2>1 DEF Taken
  <2>5. [Taken(f) EXCEPT !.att = b.att] = b
    BY <1>1, <2>4 DEF Config
  <2> HIDE DEF f
  <2>6. Loaded(f) = [Taken(f) EXCEPT !.att = f.att]
    BY <2>1, <2>2, <2>3 DEF Loaded
  <2> QED BY <2>1, <2>5, <2>6 DEF f
<1> QED BY <1>1, <1>3, <1>4 DEF b

\* The defaults need nothing of the build.
LEMMA DefaultsFit == Defaults \in Config /\ Applied(Defaults) = Defaults
<1>1. Defaults \in Config
  BY DEF Defaults, Config, Mode, Profile, Att
<1>2. Applied(Defaults) \in Config
  BY <1>1, AppliedFacts
<1>3. /\ Applied(Defaults).mode = Defaults.mode /\ Applied(Defaults).profile = Defaults.profile
      /\ Applied(Defaults).att = Defaults.att
  BY DEF Applied, Defaults
<1>4. Applied(Defaults).auto = Defaults.auto
  BY LifecycleAssumption DEF Applied, Defaults
<1> QED BY <1>1, <1>2, <1>3, <1>4 DEF Config

\* A configuration with another mode needs nothing more of the build.
LEMMA ModeFits ==
    ASSUME NEW c \in Config, c = Applied(c), NEW x \in Mode
    PROVE  /\ [c EXCEPT !.mode = x] \in Config
           /\ [c EXCEPT !.mode = x] = Applied([c EXCEPT !.mode = x])
<1> DEFINE d == [c EXCEPT !.mode = x]
           e == Applied(d)
<1>1. d \in Config /\ d.profile = c.profile /\ d.att = c.att /\ d.auto = c.auto
  BY DEF Config
<1>2. e \in Config /\ e.mode = d.mode
  BY <1>1, AppliedFacts
<1>3. Applied(c).profile = e.profile /\ Applied(c).att = e.att
  BY <1>1 DEF Applied, Config
<1>4. Applied(c).auto = e.auto
  BY <1>1 DEF Applied, Config
<1> HIDE DEF e
<1>5. d.profile = e.profile /\ d.att = e.att /\ d.auto = e.auto
  BY <1>1, <1>3, <1>4
<1> QED BY <1>1, <1>2, <1>5 DEF Config, e

-----------------------------------------------------------------------------
\* Every initial state of the application satisfies Inv.
THEOREM InitInv == Init => Inv
<1> SUFFICES ASSUME Init PROVE Inv
  OBVIOUS
<1> QED BY DefaultsFit, LifecycleAssumption
        DEF Init, Inv, TypeOK, WorkerOwn, StartupAlone, AdapterSet, Switching, BuildFits,
            StoredAgrees, Joined, NoWorker, Off, Mode

-----------------------------------------------------------------------------
(* One lemma per action                                                    *)

\* The configuration is loaded and the adapter set from it (zf_app_lifecycle_open).
LEMMA OpenInv == Inv /\ Open => Inv'
<1> SUFFICES ASSUME Inv, Open PROVE Inv'
  OBVIOUS
<1>0. TypeOK /\ WorkerOwn /\ StartupAlone /\ AdapterSet /\ Switching /\ BuildFits /\ StoredAgrees
  BY DEF Inv
<1>a. Loaded(file) \in Config /\ Defaults \in Config
  BY <1>0, LoadedType, DefaultsFit DEF TypeOK
<1>b. PICK c \in {Loaded(file), Defaults} :
        cfg' = Applied(c) /\ differs' = (Applied(c) # Applied(Loaded(file)))
  BY DEF Open, LoadConfig
<1>c. /\ cfg' \in Config /\ cfg' = Applied(cfg') /\ cfg'.mode \in Mode /\ adapter' = cfg'.mode
      /\ file' = file /\ worker' = worker
  <2>1. c \in Config
    BY <1>a, <1>b
  <2>2. cfg' \in Config /\ cfg' = Applied(cfg')
    BY <1>b, <2>1, AppliedFacts
  <2> QED BY <2>2 DEF Open, LoadConfig, Config
<1>d. differs' \in BOOLEAN /\ (differs' \/ Applied(Loaded(file)) = cfg')
  BY <1>b
<1>e. /\ start' \in [pc : {"none", "config", "storage", "complete"},
                   res : {"ok", "failed", "invalid"}]
      /\ ui' = [pc |-> "idle", goal |-> "none", prev |-> Defaults] /\ pin' = FALSE
  BY DEF Open, Joined, Rest, Off
<1>1. TypeOK'
  BY <1>0, <1>c, <1>d, <1>e, DefaultsFit DEF Open, Rest, Off, Joined, NoWorker, TypeOK
<1>2. WorkerOwn'
  BY <1>0, <1>c, <1>d, <1>e, DefaultsFit
      DEF Open, Rest, Off, Joined, NoWorker, TypeOK, WorkerOwn, StartupAlone, Switching
<1>3. StartupAlone'
  BY <1>0, <1>c, <1>d, <1>e, DefaultsFit
      DEF Open, Rest, Off, Joined, NoWorker, TypeOK, StartupAlone, WorkerOwn
<1>4. AdapterSet'
  BY <1>0, <1>c, <1>d, <1>e, DefaultsFit
      DEF Open, Rest, Off, Joined, NoWorker, TypeOK, AdapterSet
<1>5. Switching'
  BY <1>0, <1>c, <1>d, <1>e, DefaultsFit
      DEF Open, Rest, Off, Joined, NoWorker, TypeOK, Switching
<1>6. BuildFits'
  BY <1>0, <1>c, <1>d, <1>e, DefaultsFit
      DEF Open, Rest, Off, Joined, NoWorker, TypeOK, BuildFits
<1>7. StoredAgrees'
  BY <1>0, <1>c, <1>d, <1>e, DefaultsFit
      DEF Open, Rest, Off, Joined, NoWorker, TypeOK, StoredAgrees, Stored, Switching,
          StartupAlone
<1> QED BY <1>1, <1>2, <1>3, <1>4, <1>5, <1>6, <1>7 DEF Inv

\* The start-up thread loads the configuration again.
LEMMA StartupConfigInv == Inv /\ StartupConfig => Inv'
<1> SUFFICES ASSUME Inv, StartupConfig PROVE Inv'
  OBVIOUS
<1>0. TypeOK /\ WorkerOwn /\ StartupAlone /\ AdapterSet /\ Switching /\ BuildFits /\ StoredAgrees
  BY DEF Inv
<1>a. Loaded(file) \in Config /\ Defaults \in Config
  BY <1>0, LoadedType, DefaultsFit DEF TypeOK
<1>b. PICK c \in {Loaded(file), Defaults} :
        cfg' = Applied(c) /\ differs' = (Applied(c) # Applied(Loaded(file)))
  BY DEF StartupConfig, LoadConfig
<1>c. /\ cfg' \in Config /\ cfg' = Applied(cfg') /\ cfg'.mode \in Mode /\ adapter' = cfg'.mode
      /\ file' = file /\ worker' = worker
  <2>1. c \in Config
    BY <1>a, <1>b
  <2>2. cfg' \in Config /\ cfg' = Applied(cfg')
    BY <1>b, <2>1, AppliedFacts
  <2> QED BY <2>2 DEF StartupConfig, LoadConfig, Config
<1>d. differs' \in BOOLEAN /\ (differs' \/ Applied(Loaded(file)) = cfg')
  BY <1>b
<1>1. TypeOK'
  BY <1>0, <1>c, <1>d DEF StartupConfig, TypeOK
<1>2. WorkerOwn'
  BY <1>0, <1>c, <1>d DEF StartupConfig, TypeOK, WorkerOwn, StartupAlone, Switching
<1>3. StartupAlone'
  BY <1>0, <1>c, <1>d DEF StartupConfig, TypeOK, StartupAlone, WorkerOwn
<1>4. AdapterSet'
  BY <1>0, <1>c, <1>d DEF StartupConfig, TypeOK, AdapterSet
<1>5. Switching'
  BY <1>0, <1>c, <1>d DEF StartupConfig, TypeOK, Switching
<1>6. BuildFits'
  BY <1>0, <1>c, <1>d DEF StartupConfig, TypeOK, BuildFits
<1>7. StoredAgrees'
  BY <1>0, <1>c, <1>d
      DEF StartupConfig, TypeOK, StoredAgrees, Stored, Switching, StartupAlone
<1> QED BY <1>1, <1>2, <1>3, <1>4, <1>5, <1>6, <1>7 DEF Inv

\* The storage is looked after.
LEMMA StartupStorageInv == Inv /\ StartupStorage => Inv'
<1> SUFFICES ASSUME Inv, StartupStorage PROVE Inv'
  OBVIOUS
<1>0. TypeOK /\ WorkerOwn /\ StartupAlone /\ AdapterSet /\ Switching /\ BuildFits /\ StoredAgrees
  BY DEF Inv
<1>1. TypeOK'
  BY <1>0 DEF StartupStorage, TypeOK
<1>2. WorkerOwn'
  BY <1>0 DEF StartupStorage, TypeOK, WorkerOwn, StartupAlone, Switching
<1>3. StartupAlone'
  BY <1>0 DEF StartupStorage, TypeOK, StartupAlone, WorkerOwn
<1>4. AdapterSet'
  BY <1>0 DEF StartupStorage, TypeOK, AdapterSet
<1>5. Switching'
  BY <1>0 DEF StartupStorage, TypeOK, Switching
<1>6. BuildFits'
  BY <1>0 DEF StartupStorage, TypeOK, BuildFits
<1>7. StoredAgrees'
  BY <1>0 DEF StartupStorage, TypeOK, StoredAgrees, Stored, Switching, StartupAlone
<1> QED BY <1>1, <1>2, <1>3, <1>4, <1>5, <1>6, <1>7 DEF Inv

\* The completed start-up thread is joined and the worker started.
LEMMA StartupPendingInv == Inv /\ StartupPending => Inv'
<1> SUFFICES ASSUME Inv, StartupPending PROVE Inv'
  OBVIOUS
<1>0. TypeOK /\ WorkerOwn /\ StartupAlone /\ AdapterSet /\ Switching /\ BuildFits /\ StoredAgrees
  BY DEF Inv
<1>a. start' \in [pc : {"none", "config", "storage", "complete"},
                   res : {"ok", "failed", "invalid"}]
  BY <1>0 DEF StartupPending, Joined, TypeOK
<1>b. worker' \in [kind : Mode \cup {None}, st : {"none", "new", "serving", "exited"},
                   stop : BOOLEAN]
  <2>1. adapter' \in Mode /\ (Launched(worker') \/ worker' = worker)
    BY <1>0 DEF StartupPending, TypeOK
  <2>2. Launched(worker') => /\ worker'.kind = adapter'
                               /\ worker' \in [kind : {adapter'}, st : {"new"}, stop : {FALSE}]
    BY DEF Launched
  <2> QED BY <1>0, <2>1, <2>2 DEF TypeOK
<1>1. TypeOK'
  BY <1>0, <1>a, <1>b DEF StartupPending, Joined, Launched, NoWorker, TypeOK
<1>2. WorkerOwn'
  BY <1>0, <1>a, <1>b
      DEF StartupPending, Joined, Launched, NoWorker, TypeOK, WorkerOwn, StartupAlone, Switching
<1>3. StartupAlone'
  BY <1>0, <1>a, <1>b
      DEF StartupPending, Joined, Launched, NoWorker, TypeOK, StartupAlone, WorkerOwn
<1>4. AdapterSet'
  BY <1>0, <1>a, <1>b DEF StartupPending, Joined, Launched, NoWorker, TypeOK, AdapterSet
<1>5. Switching'
  BY <1>0, <1>a, <1>b DEF StartupPending, Joined, Launched, NoWorker, TypeOK, Switching
<1>6. BuildFits'
  BY <1>0, <1>a, <1>b DEF StartupPending, Joined, Launched, NoWorker, TypeOK, BuildFits
<1>7. StoredAgrees'
  BY <1>0, <1>a, <1>b
      DEF StartupPending, Joined, Launched, NoWorker, TypeOK, StoredAgrees, Stored, Switching,
          StartupAlone
<1> QED BY <1>1, <1>2, <1>3, <1>4, <1>5, <1>6, <1>7 DEF Inv

\* The worker claims its device or gives up.
LEMMA WorkerInitInv == Inv /\ WorkerInit => Inv'
<1> SUFFICES ASSUME Inv, WorkerInit PROVE Inv'
  OBVIOUS
<1>0. TypeOK /\ WorkerOwn /\ StartupAlone /\ AdapterSet /\ Switching /\ BuildFits /\ StoredAgrees
  BY DEF Inv
<1>1. TypeOK'
  BY <1>0 DEF WorkerInit, NoWorker, TypeOK
<1>2. WorkerOwn'
  BY <1>0 DEF WorkerInit, NoWorker, TypeOK, WorkerOwn, StartupAlone, Switching
<1>3. StartupAlone'
  BY <1>0 DEF WorkerInit, NoWorker, TypeOK, StartupAlone, WorkerOwn
<1>4. AdapterSet'
  BY <1>0 DEF WorkerInit, NoWorker, TypeOK, AdapterSet
<1>5. Switching'
  BY <1>0 DEF WorkerInit, NoWorker, TypeOK, Switching
<1>6. BuildFits'
  BY <1>0 DEF WorkerInit, NoWorker, TypeOK, BuildFits
<1>7. StoredAgrees'
  BY <1>0 DEF WorkerInit, NoWorker, TypeOK, StoredAgrees, Stored, Switching, StartupAlone
<1> QED BY <1>1, <1>2, <1>3, <1>4, <1>5, <1>6, <1>7 DEF Inv

\* A worker that was told to stop ends.
LEMMA WorkerEndsInv == Inv /\ WorkerEnds => Inv'
<1> SUFFICES ASSUME Inv, WorkerEnds PROVE Inv'
  OBVIOUS
<1>0. TypeOK /\ WorkerOwn /\ StartupAlone /\ AdapterSet /\ Switching /\ BuildFits /\ StoredAgrees
  BY DEF Inv
<1>1. TypeOK'
  BY <1>0 DEF WorkerEnds, NoWorker, TypeOK
<1>2. WorkerOwn'
  BY <1>0 DEF WorkerEnds, NoWorker, TypeOK, WorkerOwn, StartupAlone, Switching
<1>3. StartupAlone'
  BY <1>0 DEF WorkerEnds, NoWorker, TypeOK, StartupAlone, WorkerOwn
<1>4. AdapterSet'
  BY <1>0 DEF WorkerEnds, NoWorker, TypeOK, AdapterSet
<1>5. Switching'
  BY <1>0 DEF WorkerEnds, NoWorker, TypeOK, Switching
<1>6. BuildFits'
  BY <1>0 DEF WorkerEnds, NoWorker, TypeOK, BuildFits
<1>7. StoredAgrees'
  BY <1>0 DEF WorkerEnds, NoWorker, TypeOK, StoredAgrees, Stored, Switching, StartupAlone
<1> QED BY <1>1, <1>2, <1>3, <1>4, <1>5, <1>6, <1>7 DEF Inv

\* A reset removes the configuration file or not.
LEMMA ResetInv == Inv /\ Reset => Inv'
<1> SUFFICES ASSUME Inv, Reset PROVE Inv'
  OBVIOUS
<1>0. TypeOK /\ WorkerOwn /\ StartupAlone /\ AdapterSet /\ Switching /\ BuildFits /\ StoredAgrees
  BY DEF Inv
<1>a. differs' \in BOOLEAN /\ (differs' \/ (file' = file /\ differs' = differs))
  BY <1>0 DEF Reset, WipeFiles, TypeOK
<1>b. pin' \in BOOLEAN /\ file' \in File \cup {None}
  BY <1>0 DEF Reset, WipeFiles, TypeOK
<1>1. TypeOK'
  BY <1>0, <1>a, <1>b DEF Reset, NoWorker, TypeOK
<1>2. WorkerOwn'
  BY <1>0, <1>a, <1>b DEF Reset, NoWorker, TypeOK, WorkerOwn, StartupAlone, Switching
<1>3. StartupAlone'
  BY <1>0, <1>a, <1>b DEF Reset, NoWorker, TypeOK, StartupAlone, WorkerOwn
<1>4. AdapterSet'
  BY <1>0, <1>a, <1>b DEF Reset, NoWorker, TypeOK, AdapterSet
<1>5. Switching'
  BY <1>0, <1>a, <1>b DEF Reset, NoWorker, TypeOK, Switching
<1>6. BuildFits'
  BY <1>0, <1>a, <1>b DEF Reset, NoWorker, TypeOK, BuildFits
<1>7. StoredAgrees'
  BY <1>0, <1>a, <1>b
      DEF Reset, NoWorker, TypeOK, StoredAgrees, Stored, Switching, StartupAlone
<1> QED BY <1>1, <1>2, <1>3, <1>4, <1>5, <1>6, <1>7 DEF Inv

\* So does the reset from the settings.
LEMMA ResetAppDataInv == Inv /\ ResetAppData => Inv'
<1> SUFFICES ASSUME Inv, ResetAppData PROVE Inv'
  OBVIOUS
<1>0. TypeOK /\ WorkerOwn /\ StartupAlone /\ AdapterSet /\ Switching /\ BuildFits /\ StoredAgrees
  BY DEF Inv
<1>a. differs' \in BOOLEAN /\ (differs' \/ (file' = file /\ differs' = differs))
  BY <1>0 DEF ResetAppData, WipeFiles, TypeOK
<1>b. pin' \in BOOLEAN /\ file' \in File \cup {None}
  BY <1>0 DEF ResetAppData, WipeFiles, TypeOK
<1>1. TypeOK'
  BY <1>0, <1>a, <1>b DEF ResetAppData, Joined, TypeOK
<1>2. WorkerOwn'
  BY <1>0, <1>a, <1>b DEF ResetAppData, Joined, TypeOK, WorkerOwn, StartupAlone, Switching
<1>3. StartupAlone'
  BY <1>0, <1>a, <1>b DEF ResetAppData, Joined, TypeOK, StartupAlone, WorkerOwn
<1>4. AdapterSet'
  BY <1>0, <1>a, <1>b DEF ResetAppData, Joined, TypeOK, AdapterSet
<1>5. Switching'
  BY <1>0, <1>a, <1>b DEF ResetAppData, Joined, TypeOK, Switching
<1>6. BuildFits'
  BY <1>0, <1>a, <1>b DEF ResetAppData, Joined, TypeOK, BuildFits
<1>7. StoredAgrees'
  BY <1>0, <1>a, <1>b
      DEF ResetAppData, Joined, TypeOK, StoredAgrees, Stored, Switching, StartupAlone
<1> QED BY <1>1, <1>2, <1>3, <1>4, <1>5, <1>6, <1>7 DEF Inv

\* The PIN has no part in the settings.
LEMMA PinChangesInv == Inv /\ PinChanges => Inv'
<1> SUFFICES ASSUME Inv, PinChanges PROVE Inv'
  OBVIOUS
<1>0. TypeOK /\ WorkerOwn /\ StartupAlone /\ AdapterSet /\ Switching /\ BuildFits /\ StoredAgrees
  BY DEF Inv
<1>1. TypeOK'
  BY <1>0 DEF PinChanges, TypeOK
<1>2. WorkerOwn'
  BY <1>0 DEF PinChanges, TypeOK, WorkerOwn, StartupAlone, Switching
<1>3. StartupAlone'
  BY <1>0 DEF PinChanges, TypeOK, StartupAlone, WorkerOwn
<1>4. AdapterSet'
  BY <1>0 DEF PinChanges, TypeOK, AdapterSet
<1>5. Switching'
  BY <1>0 DEF PinChanges, TypeOK, Switching
<1>6. BuildFits'
  BY <1>0 DEF PinChanges, TypeOK, BuildFits
<1>7. StoredAgrees'
  BY <1>0 DEF PinChanges, TypeOK, StoredAgrees, Stored, Switching, StartupAlone
<1> QED BY <1>1, <1>2, <1>3, <1>4, <1>5, <1>6, <1>7 DEF Inv

\* A setting is stored and then applied, or neither.
LEMMA SetInv == Inv /\ Set => Inv'
<1> SUFFICES ASSUME Inv, Set PROVE Inv'
  OBVIOUS
<1>0. TypeOK /\ WorkerOwn /\ StartupAlone /\ AdapterSet /\ Switching /\ BuildFits /\ StoredAgrees
  BY DEF Inv
<1>a. /\ adapter' = adapter /\ start' = start /\ worker' = worker /\ pin' = pin /\ ui' = ui
      /\ Free /\ cfg \in Config
  BY <1>0 DEF Set, TypeOK
<1>b. PICK next \in Config, ok \in BOOLEAN :
        /\ next.mode = cfg.mode
        /\ Persist(next, ok) /\ cfg' = IF ok THEN Applied(next) ELSE cfg
  BY <1>a DEF Set, Config
<1>c. Record(next) \in File /\ Applied(Loaded(Record(next))) = Applied(next)
  BY RoundTrip
<1>d. Applied(next) \in Config /\ Applied(Applied(next)) = Applied(next)
      /\ Applied(next).mode = next.mode
  BY AppliedFacts
<1>e. /\ cfg' \in Config /\ cfg' = Applied(cfg') /\ cfg'.mode = cfg.mode
      /\ file' \in File \cup {None} /\ differs' \in BOOLEAN
      /\ (differs \/ Applied(Loaded(file)) = cfg) => (differs' \/ Applied(Loaded(file')) = cfg')
  BY <1>0, <1>a, <1>b, <1>c, <1>d DEF Persist, TypeOK, BuildFits
<1>1. TypeOK'
  BY <1>0, <1>a, <1>e DEF Set, Free, TypeOK
<1>2. WorkerOwn'
  BY <1>0, <1>a, <1>e DEF Set, Free, TypeOK, WorkerOwn, StartupAlone, Switching
<1>3. StartupAlone'
  BY <1>0, <1>a, <1>e DEF Set, Free, TypeOK, StartupAlone, WorkerOwn
<1>4. AdapterSet'
  BY <1>0, <1>a, <1>e DEF Set, Free, TypeOK, AdapterSet
<1>5. Switching'
  BY <1>0, <1>a, <1>e DEF Set, Free, TypeOK, Switching
<1>6. BuildFits'
  BY <1>0, <1>a, <1>e DEF Set, Free, TypeOK, BuildFits
<1>7. StoredAgrees'
  BY <1>0, <1>a, <1>e DEF Set, Free, TypeOK, StoredAgrees, Stored, Switching, StartupAlone
<1> QED BY <1>1, <1>2, <1>3, <1>4, <1>5, <1>6, <1>7 DEF Inv

\* The new mode is applied, the old configuration kept aside.
LEMMA SwitchInv == Inv /\ Switch => Inv'
<1> SUFFICES ASSUME Inv, Switch PROVE Inv'
  OBVIOUS
<1>0. TypeOK /\ WorkerOwn /\ StartupAlone /\ AdapterSet /\ Switching /\ BuildFits /\ StoredAgrees
  BY DEF Inv
<1>a. cfg \in Config /\ cfg = Applied(cfg) /\ cfg' \in Config /\ cfg' = Applied(cfg')
  BY <1>0, ModeFits DEF Switch, TypeOK, BuildFits, Mode
<1>b. ui' = [pc |-> "stop", goal |-> "switch", prev |-> cfg]
  BY DEF Switch
<1>1. TypeOK'
  BY <1>0, <1>a, <1>b DEF Switch, Free, TypeOK
<1>2. WorkerOwn'
  BY <1>0, <1>a, <1>b DEF Switch, Free, TypeOK, WorkerOwn, StartupAlone, Switching
<1>3. StartupAlone'
  BY <1>0, <1>a, <1>b DEF Switch, Free, TypeOK, StartupAlone, WorkerOwn
<1>4. AdapterSet'
  BY <1>0, <1>a, <1>b DEF Switch, Free, TypeOK, AdapterSet
<1>5. Switching'
  BY <1>0, <1>a, <1>b DEF Switch, Free, TypeOK, Switching
<1>6. BuildFits'
  BY <1>0, <1>a, <1>b DEF Switch, Free, TypeOK, BuildFits
<1>7. StoredAgrees'
  BY <1>0, <1>a, <1>b
      DEF Switch, Free, TypeOK, StoredAgrees, Stored, Switching, StartupAlone
<1> QED BY <1>1, <1>2, <1>3, <1>4, <1>5, <1>6, <1>7 DEF Inv

\* The worker is told to stop, if there is one.
LEMMA StopWorkerInv == Inv /\ StopWorker => Inv'
<1> SUFFICES ASSUME Inv, StopWorker PROVE Inv'
  OBVIOUS
<1>0. TypeOK /\ WorkerOwn /\ StartupAlone /\ AdapterSet /\ Switching /\ BuildFits /\ StoredAgrees
  BY DEF Inv
<1>1. TypeOK'
  BY <1>0 DEF StopWorker, Stopped, Told, NoWorker, TypeOK
<1>2. WorkerOwn'
  BY <1>0
      DEF StopWorker, Stopped, Told, NoWorker, TypeOK, WorkerOwn, StartupAlone, Switching
<1>3. StartupAlone'
  BY <1>0 DEF StopWorker, Stopped, Told, NoWorker, TypeOK, StartupAlone, WorkerOwn
<1>4. AdapterSet'
  BY <1>0 DEF StopWorker, Stopped, Told, NoWorker, TypeOK, AdapterSet
<1>5. Switching'
  BY <1>0 DEF StopWorker, Stopped, Told, NoWorker, TypeOK, Switching
<1>6. BuildFits'
  BY <1>0 DEF StopWorker, Stopped, Told, NoWorker, TypeOK, BuildFits
<1>7. StoredAgrees'
  BY <1>0
      DEF StopWorker, Stopped, Told, NoWorker, TypeOK, StoredAgrees, Stored, Switching,
          StartupAlone
<1> QED BY <1>1, <1>2, <1>3, <1>4, <1>5, <1>6, <1>7 DEF Inv

\* The worker is joined.
LEMMA JoinWorkerInv == Inv /\ JoinWorker => Inv'
<1> SUFFICES ASSUME Inv, JoinWorker PROVE Inv'
  OBVIOUS
<1>0. TypeOK /\ WorkerOwn /\ StartupAlone /\ AdapterSet /\ Switching /\ BuildFits /\ StoredAgrees
  BY DEF Inv
<1>1. TypeOK'
  BY <1>0 DEF JoinWorker, Stopped, NoWorker, TypeOK
<1>2. WorkerOwn'
  BY <1>0 DEF JoinWorker, Stopped, NoWorker, TypeOK, WorkerOwn, StartupAlone, Switching
<1>3. StartupAlone'
  BY <1>0 DEF JoinWorker, Stopped, NoWorker, TypeOK, StartupAlone, WorkerOwn
<1>4. AdapterSet'
  BY <1>0 DEF JoinWorker, Stopped, NoWorker, TypeOK, AdapterSet
<1>5. Switching'
  BY <1>0 DEF JoinWorker, Stopped, NoWorker, TypeOK, Switching
<1>6. BuildFits'
  BY <1>0 DEF JoinWorker, Stopped, NoWorker, TypeOK, BuildFits
<1>7. StoredAgrees'
  BY <1>0
      DEF JoinWorker, Stopped, NoWorker, TypeOK, StoredAgrees, Stored, Switching, StartupAlone
<1> QED BY <1>1, <1>2, <1>3, <1>4, <1>5, <1>6, <1>7 DEF Inv

\* The worker of the mode in memory is started, or the old mode comes back.
LEMMA RelaunchInv == Inv /\ Relaunch => Inv'
<1> SUFFICES ASSUME Inv, Relaunch PROVE Inv'
  OBVIOUS
<1>0. TypeOK /\ WorkerOwn /\ StartupAlone /\ AdapterSet /\ Switching /\ BuildFits /\ StoredAgrees
  BY DEF Inv
<1>a. cfg.mode \in Mode /\ ui.prev \in Config /\ worker = NoWorker
  BY <1>0 DEF Relaunch, TypeOK, Config, WorkerOwn
<1>b. ui' \in [pc : {"off", "idle", "stop", "join", "launch", "persist", "wait", "free"},
               goal : {"none", "switch", "back", "leave"}, prev : Config]
  BY <1>0, <1>a, DefaultsFit DEF Relaunch, Rest, Off, TypeOK
<1>c. /\ worker' \in [kind : Mode \cup {None}, st : {"none", "new", "serving", "exited"},
                      stop : BOOLEAN]
      /\ cfg' \in Config
  <2>1. adapter' \in Mode /\ (Launched(worker') \/ worker' = worker) /\ cfg' \in Config
    BY <1>0, <1>a DEF Relaunch, TypeOK
  <2>2. Launched(worker') => /\ worker'.kind = adapter'
                               /\ worker' \in [kind : {adapter'}, st : {"new"}, stop : {FALSE}]
    BY DEF Launched
  <2> QED BY <1>0, <2>1, <2>2 DEF TypeOK
<1>1. TypeOK'
  BY <1>0, <1>a, <1>b, <1>c, DefaultsFit
      DEF Relaunch, Launched, Rest, Off, NoWorker, TypeOK
<1>2. WorkerOwn'
  BY <1>0, <1>a, <1>b, <1>c, DefaultsFit
      DEF Relaunch, Launched, Rest, Off, NoWorker, TypeOK, WorkerOwn, StartupAlone, Switching
<1>3. StartupAlone'
  BY <1>0, <1>a, <1>b, <1>c, DefaultsFit
      DEF Relaunch, Launched, Rest, Off, NoWorker, TypeOK, StartupAlone, WorkerOwn
<1>4. AdapterSet'
  BY <1>0, <1>a, <1>b, <1>c, DefaultsFit
      DEF Relaunch, Launched, Rest, Off, NoWorker, TypeOK, AdapterSet
<1>5. Switching'
  BY <1>0, <1>a, <1>b, <1>c, DefaultsFit
      DEF Relaunch, Launched, Rest, Off, NoWorker, TypeOK, Switching
<1>6. BuildFits'
  BY <1>0, <1>a, <1>b, <1>c, DefaultsFit
      DEF Relaunch, Launched, Rest, Off, NoWorker, TypeOK, BuildFits
<1>7. StoredAgrees'
  BY <1>0, <1>a, <1>b, <1>c, DefaultsFit
      DEF Relaunch, Launched, Rest, Off, NoWorker, TypeOK, StoredAgrees, Stored, Switching,
          StartupAlone
<1> QED BY <1>1, <1>2, <1>3, <1>4, <1>5, <1>6, <1>7 DEF Inv

\* The mode is stored, or the old one comes back.
LEMMA PersistModeInv == Inv /\ PersistMode => Inv'
<1> SUFFICES ASSUME Inv, PersistMode PROVE Inv'
  OBVIOUS
<1>0. TypeOK /\ WorkerOwn /\ StartupAlone /\ AdapterSet /\ Switching /\ BuildFits /\ StoredAgrees
  BY DEF Inv
<1>a. /\ Record(cfg) \in File /\ Applied(Loaded(Record(cfg))) = cfg
      /\ cfg \in Config /\ ui.prev \in Config
  BY <1>0, RoundTrip DEF TypeOK, BuildFits
<1>1. TypeOK'
  BY <1>0, <1>a, DefaultsFit DEF PersistMode, Persist, Rest, Off, NoWorker, TypeOK
<1>2. WorkerOwn'
  BY <1>0, <1>a, DefaultsFit
      DEF PersistMode, Persist, Rest, Off, NoWorker, TypeOK, WorkerOwn, StartupAlone, Switching
<1>3. StartupAlone'
  BY <1>0, <1>a, DefaultsFit
      DEF PersistMode, Persist, Rest, Off, NoWorker, TypeOK, StartupAlone, WorkerOwn
<1>4. AdapterSet'
  BY <1>0, <1>a, DefaultsFit
      DEF PersistMode, Persist, Rest, Off, NoWorker, TypeOK, AdapterSet
<1>5. Switching'
  BY <1>0, <1>a, DefaultsFit
      DEF PersistMode, Persist, Rest, Off, NoWorker, TypeOK, Switching
<1>6. BuildFits'
  BY <1>0, <1>a, DefaultsFit
      DEF PersistMode, Persist, Rest, Off, NoWorker, TypeOK, BuildFits
<1>7. StoredAgrees'
  BY <1>0, <1>a, DefaultsFit
      DEF PersistMode, Persist, Rest, Off, NoWorker, TypeOK, StoredAgrees, Stored, Switching,
          StartupAlone
<1> QED BY <1>1, <1>2, <1>3, <1>4, <1>5, <1>6, <1>7 DEF Inv

\* Leaving tells the worker first.
LEMMA LeaveInv == Inv /\ Leave => Inv'
<1> SUFFICES ASSUME Inv, Leave PROVE Inv'
  OBVIOUS
<1>0. TypeOK /\ WorkerOwn /\ StartupAlone /\ AdapterSet /\ Switching /\ BuildFits /\ StoredAgrees
  BY DEF Inv
<1>a. worker = NoWorker => worker' = NoWorker
  <2> SUFFICES ASSUME worker = NoWorker PROVE worker' = NoWorker
    OBVIOUS
  <2>1. worker.kind = None /\ worker.stop = FALSE /\ adapter # None
    BY <1>0, LifecycleAssumption DEF NoWorker, TypeOK
  <2>2. (worker.stop \/ adapter = worker.kind) = FALSE
    BY <2>1
  <2>3. worker' = [worker EXCEPT !.stop = FALSE]
    BY <2>2 DEF Leave, Told
  <2> QED BY <2>3 DEF NoWorker
<1>b. worker'.kind = worker.kind
  BY <1>0 DEF Leave, Told, TypeOK
<1>1. TypeOK'
  BY <1>0, <1>a, <1>b DEF Leave, Told, NoWorker, TypeOK
<1>2. WorkerOwn'
  BY <1>0, <1>a, <1>b
      DEF Leave, Told, NoWorker, TypeOK, WorkerOwn, StartupAlone, Switching
<1>3. StartupAlone'
  BY <1>0, <1>a, <1>b DEF Leave, Told, NoWorker, TypeOK, StartupAlone, WorkerOwn
<1>4. AdapterSet'
  BY <1>0, <1>a, <1>b DEF Leave, Told, NoWorker, TypeOK, AdapterSet
<1>5. Switching'
  BY <1>0, <1>a, <1>b DEF Leave, Told, NoWorker, TypeOK, Switching
<1>6. BuildFits'
  BY <1>0, <1>a, <1>b DEF Leave, Told, NoWorker, TypeOK, BuildFits
<1>7. StoredAgrees'
  BY <1>0, <1>a, <1>b
      DEF Leave, Told, NoWorker, TypeOK, StoredAgrees, Stored, Switching, StartupAlone
<1> QED BY <1>1, <1>2, <1>3, <1>4, <1>5, <1>6, <1>7 DEF Inv

\* The start-up thread is joined before the worker.
LEMMA WaitStartupInv == Inv /\ WaitStartup => Inv'
<1> SUFFICES ASSUME Inv, WaitStartup PROVE Inv'
  OBVIOUS
<1>0. TypeOK /\ WorkerOwn /\ StartupAlone /\ AdapterSet /\ Switching /\ BuildFits /\ StoredAgrees
  BY DEF Inv
<1>1. TypeOK'
  BY <1>0 DEF WaitStartup, Joined, TypeOK
<1>2. WorkerOwn'
  BY <1>0 DEF WaitStartup, Joined, TypeOK, WorkerOwn, StartupAlone, Switching
<1>3. StartupAlone'
  BY <1>0 DEF WaitStartup, Joined, TypeOK, StartupAlone, WorkerOwn
<1>4. AdapterSet'
  BY <1>0 DEF WaitStartup, Joined, TypeOK, AdapterSet
<1>5. Switching'
  BY <1>0 DEF WaitStartup, Joined, TypeOK, Switching
<1>6. BuildFits'
  BY <1>0 DEF WaitStartup, Joined, TypeOK, BuildFits
<1>7. StoredAgrees'
  BY <1>0 DEF WaitStartup, Joined, TypeOK, StoredAgrees, Stored, Switching, StartupAlone
<1> QED BY <1>1, <1>2, <1>3, <1>4, <1>5, <1>6, <1>7 DEF Inv

\* The application is gone.
LEMMA FreeAppInv == Inv /\ FreeApp => Inv'
<1> SUFFICES ASSUME Inv, FreeApp PROVE Inv'
  OBVIOUS
<1>0. TypeOK /\ WorkerOwn /\ StartupAlone /\ AdapterSet /\ Switching /\ BuildFits /\ StoredAgrees
  BY DEF Inv
<1>1. TypeOK'
  BY <1>0, DefaultsFit DEF FreeApp, Off, NoWorker, TypeOK
<1>2. WorkerOwn'
  BY <1>0, DefaultsFit
      DEF FreeApp, Off, NoWorker, TypeOK, WorkerOwn, StartupAlone, Switching
<1>3. StartupAlone'
  BY <1>0, DefaultsFit DEF FreeApp, Off, NoWorker, TypeOK, StartupAlone, WorkerOwn
<1>4. AdapterSet'
  BY <1>0, DefaultsFit DEF FreeApp, Off, NoWorker, TypeOK, AdapterSet
<1>5. Switching'
  BY <1>0, DefaultsFit DEF FreeApp, Off, NoWorker, TypeOK, Switching
<1>6. BuildFits'
  BY <1>0, DefaultsFit DEF FreeApp, Off, NoWorker, TypeOK, BuildFits
<1>7. StoredAgrees'
  BY <1>0, DefaultsFit
      DEF FreeApp, Off, NoWorker, TypeOK, StoredAgrees, Stored, Switching, StartupAlone
<1> QED BY <1>1, <1>2, <1>3, <1>4, <1>5, <1>6, <1>7 DEF Inv

\* So it is when the power is lost.
LEMMA CrashInv == Inv /\ Crash => Inv'
<1> SUFFICES ASSUME Inv, Crash PROVE Inv'
  OBVIOUS
<1>0. TypeOK /\ WorkerOwn /\ StartupAlone /\ AdapterSet /\ Switching /\ BuildFits /\ StoredAgrees
  BY DEF Inv
<1>1. TypeOK'
  BY <1>0, DefaultsFit, LifecycleAssumption DEF Crash, Off, Joined, NoWorker, TypeOK
<1>2. WorkerOwn'
  BY <1>0, DefaultsFit, LifecycleAssumption
      DEF Crash, Off, Joined, NoWorker, TypeOK, WorkerOwn, StartupAlone, Switching
<1>3. StartupAlone'
  BY <1>0, DefaultsFit, LifecycleAssumption
      DEF Crash, Off, Joined, NoWorker, TypeOK, StartupAlone, WorkerOwn
<1>4. AdapterSet'
  BY <1>0, DefaultsFit, LifecycleAssumption
      DEF Crash, Off, Joined, NoWorker, TypeOK, AdapterSet
<1>5. Switching'
  BY <1>0, DefaultsFit, LifecycleAssumption
      DEF Crash, Off, Joined, NoWorker, TypeOK, Switching
<1>6. BuildFits'
  BY <1>0, DefaultsFit, LifecycleAssumption
      DEF Crash, Off, Joined, NoWorker, TypeOK, BuildFits
<1>7. StoredAgrees'
  BY <1>0, DefaultsFit, LifecycleAssumption
      DEF Crash, Off, Joined, NoWorker, TypeOK, StoredAgrees, Stored, Switching, StartupAlone
<1> QED BY <1>1, <1>2, <1>3, <1>4, <1>5, <1>6, <1>7 DEF Inv

\* Every step of the application keeps Inv.
THEOREM NextInv == Inv /\ [Next]_vars => Inv'
<1>1. ASSUME Inv, UNCHANGED vars PROVE Inv'
  BY <1>1
      DEF vars, Inv, TypeOK, WorkerOwn, StartupAlone, AdapterSet, Switching, BuildFits,
              StoredAgrees, Stored
<1> QED
  BY <1>1, OpenInv, StartupConfigInv, StartupStorageInv, StartupPendingInv,
     WorkerInitInv, WorkerEndsInv, ResetInv, ResetAppDataInv, PinChangesInv, SetInv,
     SwitchInv, StopWorkerInv, JoinWorkerInv, RelaunchInv, PersistModeInv, LeaveInv,
     WaitStartupInv, FreeAppInv, CrashInv
  DEF Next, Startup, UiGoesOn

-----------------------------------------------------------------------------
\* Inv holds of every behaviour of the application.
THEOREM InvHolds == Spec => []Inv
  BY InitInv, NextInv, PTL DEF Spec

\* The variables keep their types.
THEOREM TypeCorrectness == Spec => []TypeOK
<1>1. Inv => TypeOK
  BY DEF Inv
<1> QED BY <1>1, InvHolds, PTL

\* What the settings show is what runs and what the next start will load
\* (zf_app_lifecycle_set_transport_mode with its roll-back, and
\* zf_runtime_config_load of what zf_runtime_config_persist wrote), for every
\* build and every file another version left.
THEOREM SettingsAgreeHolds == Spec => []SettingsAgree
<1>1. Inv => SettingsAgree
  BY DEF Inv, SettingsAgree, WorkerOwn, AdapterSet, StoredAgrees, Stored
<1> QED BY <1>1, InvHolds, PTL
=============================================================================
