--------------------------- MODULE Storage_proofs ---------------------------
(***************************************************************************)
(* Proofs about what is stored.  AtomicFile, for any set of values: the    *)
(* files are never torn where recovery looks, the protocol implements      *)
(* AtomicRegister, and a caller sees no other outcome of a call than those *)
(* that FileOutcome lists.  CredentialStore, for any number of             *)
(* credentials, requests, deletions, failing calls and losses of power:    *)
(* what disappears, what a reply tells, and who signs.                     *)
(***************************************************************************)
EXTENDS AtomicFileOutcome, CredentialStore, TLAPS, FiniteSetTheorems

-----------------------------------------------------------------------------
(* One file kept with its .tmp and .bak                                    *)

\* While an operation has not committed, the logical content is the old one.
StillOld == Logical = before /\ ok = FALSE

\* The inductive invariant: what is known before each storage call.
IndInv ==
    /\ TypeOK
    /\ primary # Torn
    /\ before # Torn
    /\ primary = None => backup # Torn
    /\ pc = "idle" /\ reply = "true" => (primary = None => backup = None)
    /\ Recovering /\ caller # "boot" => StillOld /\ target \in Value
    /\ pc = "recoverDropBackup" => primary # None
    /\ pc = "recoverDropTemp" => (primary = None => backup = None)
    /\ pc \in {"openTemp", "writeTemp", "prepare"}
         => StillOld /\ target \in Value /\ (primary = None => backup = None)
    /\ pc = "prepare" => temp = target
    /\ pc \in {"copy", "copying"}
         => StillOld /\ target \in Value /\ temp = target /\ primary # None
    /\ pc = "abandon" => StillOld /\ target \in Value
    /\ pc = "unlink"
         => StillOld /\ target \in Value /\ temp = target /\ backup = primary
    /\ pc = "relink"
         => StillOld /\ target \in Value /\ temp = target /\ primary = None
    /\ pc = "dropBackup" => primary = target /\ ok = TRUE /\ target \in Value
    /\ pc = "finish" => /\ target \in Value
                        /\ IF ok THEN primary = target ELSE Logical = before
    /\ pc \in {"removeTemp", "removeBackup"} => target = None /\ ok = FALSE
    /\ pc = "removePrimary" => target = None /\ ok = FALSE /\ backup = None
    /\ pc = "removed" => target = None /\ (ok => Logical = None)

\* The card may hold any value or nothing when the application is first run.
LEMMA InitIndInv == Init => IndInv
  BY ContentAssumption DEF Init, IndInv, TypeOK, StillOld, Recovering, Logical, Content,
                           PCs, Callers

\* Every storage call, and every loss of power, preserves the invariant.
LEMMA NextIndInv == IndInv /\ [Next]_vars => IndInv'
  <1> SUFFICES ASSUME IndInv, [Next]_vars PROVE IndInv'
    OBVIOUS
  <1> USE ContentAssumption DEF IndInv, TypeOK, StillOld, Recovering, Logical, Content, PCs, Callers
  <1>1. CASE Boot
    BY <1>1 DEF Boot, files
  <1>2. CASE Crash
    BY <1>2 DEF Crash, files
  <1>3. CASE OpenTemp
    BY <1>3 DEF OpenTemp, MayRemove
  <1>4. CASE WriteTemp
    BY <1>4 DEF WriteTemp
  <1>5. CASE PrepareBackup
    BY <1>5 DEF PrepareBackup
  <1>6. CASE BeginCopy
    BY <1>6 DEF BeginCopy
  <1>7. CASE FinishCopy
    BY <1>7 DEF FinishCopy
  <1>8. CASE AbandonTemp
    BY <1>8 DEF AbandonTemp, MayRemove
  <1>9. CASE RenameUnlink
    BY <1>9 DEF RenameUnlink, RenameFailed
  <1>10. CASE RenameRelink
    BY <1>10 DEF RenameRelink, RenameFailed
  <1>11. CASE DropBackup
    BY <1>11 DEF DropBackup, MayRemove
  <1>12. CASE Finish
    BY <1>12 DEF Finish, MayRemove, Return
  <1>13. CASE RecoverRename
    BY <1>13 DEF RecoverRename
  <1>14. CASE RecoverDropBackup
    BY <1>14 DEF RecoverDropBackup, MayRemove
  <1>15. CASE RecoverDropTemp
    BY <1>15 DEF RecoverDropTemp, AfterRecovery, MayRemove, Return
  <1>16. CASE RemoveTemp
    BY <1>16 DEF RemoveTemp, Return
  <1>17. CASE RemoveBackup
    BY <1>17 DEF RemoveBackup, Return
  <1>18. CASE RemovePrimary
    <2>1. CASE primary' = None /\ ok' = TRUE
      BY <1>18, <2>1 DEF RemovePrimary
    <2>2. CASE UNCHANGED <<primary, ok>>
      <3>1. ok' = FALSE
        BY <1>18, <2>2 DEF RemovePrimary
      <3> QED
        BY <1>18, <2>2, <3>1 DEF RemovePrimary
    <2> QED
      BY <1>18, <2>1, <2>2 DEF RemovePrimary
  <1>19. CASE RemoveReturn
    BY <1>19 DEF RemoveReturn, Return, files
  <1>20. ASSUME NEW v \in Value, BeginWrite(v) PROVE IndInv'
    BY <1>20 DEF BeginWrite, files
  <1>21. CASE BeginRemove
    BY <1>21 DEF BeginRemove, files
  <1>22. CASE UNCHANGED vars
    BY <1>22 DEF vars
  <1> QED
    BY <1>1, <1>2, <1>3, <1>4, <1>5, <1>6, <1>7, <1>8, <1>9, <1>10, <1>11,
       <1>12, <1>13, <1>14, <1>15, <1>16, <1>17, <1>18, <1>19, <1>20, <1>21, <1>22
       DEF Next, Step, WriteStep, RecoverStep, RemoveStep

\* The inductive invariant holds in every reachable state.
THEOREM Invariance == Spec => []IndInv
  BY InitIndInv, NextIndInv, PTL DEF Spec

\* Every variable of the storage protocol keeps its type.
THEOREM TypeCorrectness == Spec => []TypeOK
  BY Invariance, PTL DEF IndInv

\* Recovery never finds a half-written file at path, whatever storage calls
\* fail and wherever the power is lost.
THEOREM NeverTornHolds == Spec => []NeverTorn
  <1>1. IndInv => NeverTorn
    BY DEF IndInv, NeverTorn, Logical
  <1> QED
    BY <1>1, Invariance, PTL

\* After a reply of TRUE, reading the primary file alone yields the content.
THEOREM TrueReplyReadsBackHolds == Spec => []TrueReplyReadsBack
  <1>1. IndInv => TrueReplyReadsBack
    BY DEF IndInv, TrueReplyReadsBack, Logical
  <1> QED
    BY <1>1, Invariance, PTL

\* The old file is only taken away when the backup is a copy of it.
THEOREM BackupGuardsRenameHolds == Spec => []BackupGuardsRename
  <1>1. IndInv => BackupGuardsRename
    BY DEF IndInv, BackupGuardsRename, StillOld, Logical
  <1> QED
    BY <1>1, Invariance, PTL

-----------------------------------------------------------------------------
(* The refinement.  The steps that commit are RenameRelink and the two     *)
(* removals; every other storage call leaves Logical as it is.             *)

LEMMA InitRefines == Init => Register!Init
  BY ContentAssumption DEF Init, Register!Init, Logical, Phase, Recovering

\* The write commits when the rename relinks the temporary file.
LEMMA RelinkRefines ==
  ASSUME IndInv, RenameRelink
  PROVE  Register!Commit \/ UNCHANGED Register!vars
  <1> USE ContentAssumption DEF IndInv, TypeOK, StillOld, Logical, Phase, Recovering, Content
  <1>1. CASE RenameFailed /\ UNCHANGED <<primary, temp, ok>>
    BY <1>1 DEF RenameRelink, RenameFailed, Register!vars
  <1>2. CASE primary' = temp /\ pc' = "dropBackup"
    BY <1>2 DEF RenameRelink, Register!Commit
  <1> QED
    BY <1>1, <1>2 DEF RenameRelink

\* The return of a write is truthful.
LEMMA FinishRefines ==
  ASSUME IndInv, Finish
  PROVE  \E r \in {"true", "false"} : Register!Return(r)
  <1> USE ContentAssumption DEF IndInv, TypeOK, Logical, Phase, Recovering, Content
  <1>1. CASE ok = TRUE
    <2>1. Register!Return("true")
      BY <1>1 DEF Finish, Return, MayRemove, Register!Return
    <2> QED BY <2>1
  <1>2. CASE ok = FALSE
    <2>1. Register!Return("false")
      BY <1>2 DEF Finish, Return, MayRemove, Register!Return
    <2> QED BY <2>1
  <1> QED
    BY <1>1, <1>2

\* So is the return of a removal.
LEMMA RemoveReturnRefines ==
  ASSUME IndInv, RemoveReturn
  PROVE  \E r \in {"true", "false"} : Register!Return(r)
  <1> USE ContentAssumption DEF IndInv, TypeOK, Logical, Phase, Recovering, Content, files
  <1>1. CASE ok = TRUE
    <2>1. Register!Return("true")
      BY <1>1 DEF RemoveReturn, Return, Register!Return
    <2> QED BY <2>1
  <1>2. CASE ok = FALSE
    <2>1. Register!Return("false")
      BY <1>2 DEF RemoveReturn, Return, Register!Return
    <2> QED BY <2>1
  <1> QED
    BY <1>1, <1>2

\* Recovery never changes the content; it ends a start-up, a refused write,
\* or hands back to the write that called it.
LEMMA RecoverRefines ==
  ASSUME IndInv, RecoverStep
  PROVE  Register!Next \/ UNCHANGED Register!vars
  <1> USE ContentAssumption DEF IndInv, TypeOK, StillOld, Logical, Phase, Recovering, Content,
                                Callers
  <1>1. CASE RecoverRename
    BY <1>1 DEF RecoverRename, Register!vars
  <1>2. CASE RecoverDropBackup
    BY <1>2 DEF RecoverDropBackup, MayRemove, Register!vars
  <1>3. CASE RecoverDropTemp
    <2>1. CASE caller = "boot" /\ pc = "recoverDropTemp"
      <3>1. Register!Restart("true")
        BY <1>3, <2>1 DEF RecoverDropTemp, AfterRecovery, Return, Register!Restart
      <3> QED BY <3>1 DEF Register!Next
    <2>2. CASE caller = "boot" /\ pc = "recoverFailed"
      <3>1. Register!Restart("false")
        BY <1>3, <2>2 DEF RecoverDropTemp, AfterRecovery, Return, Register!Restart
      <3> QED BY <3>1 DEF Register!Next
    <2>3. CASE caller = "write" /\ pc = "recoverFailed"
      <3>1. Register!Return("false")
        BY <1>3, <2>3 DEF RecoverDropTemp, AfterRecovery, Return, Register!Return
      <3> QED BY <3>1 DEF Register!Next
    <2>4. CASE caller = "write" /\ pc = "recoverDropTemp"
      BY <1>3, <2>4 DEF RecoverDropTemp, AfterRecovery, Register!vars
    <2>5. CASE caller = "publish"
      BY <1>3, <2>5 DEF RecoverDropTemp, AfterRecovery, Register!vars
    <2> QED
      BY <1>3, <2>1, <2>2, <2>3, <2>4, <2>5 DEF RecoverDropTemp
  <1> QED
    BY <1>1, <1>2, <1>3 DEF RecoverStep

\* A removal commits when it takes away the file that holds the content.
LEMMA RemoveRefines ==
  ASSUME IndInv, RemoveStep
  PROVE  Register!Next \/ UNCHANGED Register!vars
  <1> USE ContentAssumption DEF IndInv, TypeOK, Logical, Phase, Recovering, Content
  <1>1. CASE RemoveTemp
    <2>1. CASE pc' = "removeBackup"
      BY <1>1, <2>1 DEF RemoveTemp, Return, Register!vars
    <2>2. CASE pc' = "idle"
      <3>1. Register!Return("false")
        BY <1>1, <2>2 DEF RemoveTemp, Return, Register!Return
      <3> QED BY <3>1 DEF Register!Next
    <2> QED BY <1>1, <2>1, <2>2 DEF RemoveTemp, Return
  <1>2. CASE RemoveBackup
    <2>1. CASE pc' = "removePrimary" /\ primary # None
      BY <1>2, <2>1 DEF RemoveBackup, Return, Register!vars
    <2>2. CASE pc' = "removePrimary" /\ primary = None
      <3>1. Register!Commit
        BY <1>2, <2>2 DEF RemoveBackup, Return, Register!Commit
      <3> QED BY <3>1 DEF Register!Next
    <2>3. CASE pc' = "idle"
      <3>1. Register!Return("false")
        BY <1>2, <2>3 DEF RemoveBackup, Return, Register!Return
      <3> QED BY <3>1 DEF Register!Next
    <2> QED BY <1>2, <2>1, <2>2, <2>3 DEF RemoveBackup, Return
  <1>3. CASE RemovePrimary
    <2>1. CASE primary' = None
      <3>1. Register!Commit
        BY <1>3, <2>1 DEF RemovePrimary, Register!Commit
      <3> QED BY <3>1 DEF Register!Next
    <2>2. CASE primary' = primary
      BY <1>3, <2>2 DEF RemovePrimary, Register!vars
    <2> QED BY <1>3, <2>1, <2>2 DEF RemovePrimary
  <1>4. CASE RemoveReturn
    BY <1>4, RemoveReturnRefines DEF Register!Next
  <1> QED
    BY <1>1, <1>2, <1>3, <1>4 DEF RemoveStep

\* The other steps of a write leave the content alone.
LEMMA WriteRefines ==
  ASSUME IndInv, WriteStep
  PROVE  Register!Next \/ UNCHANGED Register!vars
  <1> USE ContentAssumption DEF IndInv, TypeOK, StillOld, Logical, Phase, Recovering, Content,
                                Register!vars
  <1>1. CASE OpenTemp
    BY <1>1 DEF OpenTemp
  <1>2. CASE WriteTemp
    BY <1>2 DEF WriteTemp
  <1>3. CASE PrepareBackup
    BY <1>3 DEF PrepareBackup
  <1>4. CASE BeginCopy
    BY <1>4 DEF BeginCopy
  <1>5. CASE FinishCopy
    BY <1>5 DEF FinishCopy
  <1>6. CASE AbandonTemp
    BY <1>6 DEF AbandonTemp
  <1>7. CASE RenameUnlink
    BY <1>7 DEF RenameUnlink, RenameFailed
  <1>8. CASE RenameRelink
    BY <1>8, RelinkRefines DEF Register!Next
  <1>9. CASE DropBackup
    BY <1>9 DEF DropBackup, MayRemove
  <1>10. CASE Finish
    BY <1>10, FinishRefines DEF Register!Next
  <1> QED
    BY <1>1, <1>2, <1>3, <1>4, <1>5, <1>6, <1>7, <1>8, <1>9, <1>10 DEF WriteStep

\* A call of the application, or a loss of power, is one of the register.
LEMMA EnvironmentRefines ==
  ASSUME IndInv, Boot \/ Crash \/ BeginRemove \/ (\E v \in Value : BeginWrite(v))
  PROVE  Register!Next \/ UNCHANGED Register!vars
  <1> USE ContentAssumption DEF Logical, Phase, Recovering, files
  <1>1. CASE Boot
    BY <1>1 DEF Boot, Register!vars
  <1>2. CASE Crash
    <2>1. Register!Crash
      BY <1>2 DEF Crash, Register!Crash
    <2> QED BY <2>1 DEF Register!Next
  <1>3. CASE BeginRemove
    <2>1. Register!Begin(None)
      BY <1>3 DEF BeginRemove, Register!Begin
    <2> QED BY <2>1 DEF Register!Next
  <1>4. ASSUME NEW v \in Value, BeginWrite(v) PROVE Register!Next
    <2>1. Register!Begin(v)
      BY <1>4 DEF BeginWrite, Register!Begin
    <2> QED BY <2>1 DEF Register!Next
  <1> QED
    BY <1>1, <1>2, <1>3, <1>4

\* For every set of values the storage protocol of zerofido_storage.c
\* implements the atomic register, through the mapping Logical / Phase.
THEOREM Refinement == Spec => ImplementsRegister
  <1>1. IndInv /\ [Next]_vars => [Register!Next]_(Register!vars)
    <2> SUFFICES ASSUME IndInv, [Next]_vars
                 PROVE  Register!Next \/ UNCHANGED Register!vars
      OBVIOUS
    <2>1. CASE UNCHANGED vars
      BY <2>1 DEF vars, Register!vars, Logical, Phase, Recovering
    <2>2. CASE Step
      BY <2>2, WriteRefines, RecoverRefines, RemoveRefines DEF Step
    <2>3. CASE Next /\ ~Step
      BY <2>3, EnvironmentRefines DEF Next
    <2> QED
      BY <2>1, <2>2, <2>3
  <1> QED
    BY InitRefines, Invariance, <1>1, PTL DEF Spec, ImplementsRegister, Register!Spec

-----------------------------------------------------------------------------
(* The outcomes of a call.  What the two files are is known before every   *)
(* storage call from what they were when the call began.                   *)

Now == File(primary, backup)

\* The file could be what a failed write leaves behind.
Unwritten == Now \in NotWritten(start)

\* The running function, by its storage calls.
CallInv ==
    /\ pc \in {"recover", "recoverDropBackup", "recoverDropTemp", "recoverFailed"}
         => call = IF caller = "boot" THEN "recover" ELSE "write"
    /\ pc \in {"openTemp", "writeTemp", "prepare", "copy", "copying", "abandon", "unlink",
               "relink", "dropBackup", "finish"}
         => call = "write"
    /\ pc \in {"removeTemp", "removeBackup", "removePrimary", "removed"} => call = "remove"

\* Recovery, before the write or at start-up, and inside a failed rename.
RecoverInv ==
    /\ pc = "recover" /\ caller # "publish" => Now = start /\ fault = 0
    /\ pc = "recover" /\ caller = "publish"
         => /\ primary \in {None, Whole(start)} /\ backup = Whole(start) /\ fault = 1
    /\ pc = "recoverDropBackup" /\ caller # "publish"
         => /\ primary = Whole(start) /\ backup \in {None, start.bak} /\ fault = 0
            /\ start.prim = None => backup = None
    /\ pc = "recoverDropBackup" /\ caller = "publish"
         => primary = Whole(start) /\ backup \in {None, Whole(start)} /\ fault = 1
    /\ pc = "recoverDropTemp" /\ caller # "publish"
         => IF fault = 0 THEN Now = File(Whole(start), None)
            ELSE Now = start /\ start.prim # None
    /\ pc = "recoverDropTemp" /\ caller = "publish"
         => primary = Whole(start) /\ backup \in {None, Whole(start)} /\ fault = 1
    /\ pc = "recoverFailed"
         => /\ primary = None /\ backup = Whole(start) /\ fault = 1
            /\ caller # "publish" => Now = start

\* The write, up to its commit and after it.
WriteInv ==
    /\ pc \in {"openTemp", "writeTemp", "prepare"}
         => /\ primary = Whole(start) /\ backup \in {None, start.bak}
            /\ primary = None => backup = None
    /\ pc = "copy" => primary = Whole(start) /\ backup = None
    /\ pc = "copying" => primary = Whole(start) /\ backup = Torn
    /\ pc = "abandon" => Unwritten /\ fault = 1
    /\ pc \in {"unlink", "relink", "dropBackup"}
         => backup = Whole(start) /\ backupActive = (backup # None)
    /\ pc = "unlink" => primary = Whole(start)
    /\ pc = "finish" => IF ok THEN /\ primary = target /\ backup \in {None, Whole(start)}
                                   /\ fault = 0 => backup = None
                        ELSE Unwritten /\ fault = 1

RemoveInv ==
    /\ pc \in {"removeTemp", "removeBackup"} => Now = start /\ fault = 0
    /\ pc = "removePrimary" => Now = File(start.prim, None) /\ fault = 0
    /\ pc = "removed" => IF ok THEN Now = Empty /\ fault = 0
                         ELSE Now = File(start.prim, None) /\ fault = 1

\* The inductive invariant of the observed calls.
ObsInv ==
    /\ start \in [prim : Content, bak : Content] /\ fault \in {0, 1}
    /\ call \in {"recover", "remove", "write"}
    /\ CallInv /\ RecoverInv /\ WriteInv /\ RemoveInv

observed == <<vars, start, call, fault>>

\* The application starts with a call of the recovery.
LEMMA InitObsInv == ObservedInit => ObsInv
  BY DEF ObservedInit, Init, ObsInv, CallInv, RecoverInv, WriteInv, RemoveInv, File, Content

\* Every storage call preserves what is known of the files.
LEMMA NextObsInv == IndInv /\ ObsInv /\ [ObservedNext]_observed => ObsInv'
  <1> SUFFICES ASSUME IndInv, ObsInv, [ObservedNext]_observed PROVE ObsInv'
    OBVIOUS
  <1>a. CASE UNCHANGED observed
    BY <1>a DEF observed, vars, ObsInv, CallInv, RecoverInv, WriteInv, RemoveInv, Now, Unwritten
  <1> USE ContentAssumption DEF IndInv, TypeOK, StillOld, Recovering, Logical, Content, PCs,
        Callers, ObsInv, CallInv, RecoverInv, WriteInv, RemoveInv, Now, Unwritten, File, Whole,
        Empty, NotWritten
  <1>b. CASE ObservedNext
    <2> USE <1>b DEF ObservedNext, Begins, Calls, Failed
    <2>1. CASE Boot
      BY <2>1 DEF Boot, files
    <2>2. CASE Crash
      BY <2>2 DEF Crash, files
    <2>3. CASE OpenTemp
      BY <2>3 DEF OpenTemp, MayRemove
    <2>4. CASE WriteTemp
      BY <2>4 DEF WriteTemp
    <2>5. CASE PrepareBackup
      BY <2>5 DEF PrepareBackup
    <2>6. CASE BeginCopy
      BY <2>6 DEF BeginCopy
    <2>7. CASE FinishCopy
      BY <2>7 DEF FinishCopy
    <2>8. CASE AbandonTemp
      BY <2>8 DEF AbandonTemp, MayRemove
    <2>9. CASE RenameUnlink
      BY <2>9 DEF RenameUnlink, RenameFailed
    <2>10. CASE RenameRelink
      BY <2>10 DEF RenameRelink, RenameFailed
    <2>11. CASE DropBackup
      <3>1. UNCHANGED <<start, call>> /\ fault' = IF Failed THEN 1 ELSE fault
        BY <2>11 DEF DropBackup
      <3>2. CASE backupActive /\ backup' = None
        BY <2>11, <3>1, <3>2 DEF DropBackup
      <3>3. CASE backupActive /\ backup' = backup
        <4>1. fault' = 1
          BY <2>11, <3>1, <3>3 DEF DropBackup
        <4> QED BY <2>11, <3>1, <3>3, <4>1 DEF DropBackup
      <3>4. CASE ~backupActive
        BY <2>11, <3>1, <3>4 DEF DropBackup
      <3> QED BY <2>11, <3>2, <3>3, <3>4 DEF DropBackup, MayRemove
    <2>12. CASE Finish
      BY <2>12 DEF Finish, MayRemove, Return
    <2>13. CASE RecoverRename
      BY <2>13 DEF RecoverRename
    <2>14. CASE RecoverDropBackup
      BY <2>14 DEF RecoverDropBackup, MayRemove
    <2>15. CASE RecoverDropTemp
      BY <2>15 DEF RecoverDropTemp, AfterRecovery, MayRemove, Return
    <2>16. CASE RemoveTemp
      BY <2>16 DEF RemoveTemp, Return
    <2>17. CASE RemoveBackup
      BY <2>17 DEF RemoveBackup, Return
    <2>18. CASE RemovePrimary
      BY <2>18 DEF RemovePrimary
    <2>19. CASE RemoveReturn
      BY <2>19 DEF RemoveReturn, Return, files
    <2>20. ASSUME NEW v \in Value, BeginWrite(v) PROVE ObsInv'
      BY <2>20 DEF BeginWrite, files
    <2>21. CASE BeginRemove
      BY <2>21 DEF BeginRemove, files
    <2> QED
      BY <2>1, <2>2, <2>3, <2>4, <2>5, <2>6, <2>7, <2>8, <2>9, <2>10, <2>11, <2>12, <2>13, <2>14,
         <2>15, <2>16, <2>17, <2>18, <2>19, <2>20, <2>21
         DEF Next, Step, WriteStep, RecoverStep, RemoveStep
  <1> QED
    BY <1>a, <1>b

\* What is known of the files holds along the observed calls.
LEMMA ObservedInvariance == ObservedSpec => [](IndInv /\ ObsInv)
  <1>1. ObservedInit => IndInv /\ ObsInv
    BY InitIndInv, InitObsInv DEF ObservedInit
  <1>2. IndInv /\ ObsInv /\ [ObservedNext]_observed => IndInv' /\ ObsInv'
    BY NextIndInv, NextObsInv DEF ObservedNext, observed
  <1> QED
    BY <1>1, <1>2, PTL DEF ObservedSpec, observed

\* A call cut off by the loss of power.
LEMMA CutOffListed ==
  ASSUME IndInv, ObsInv, Crash, pc # "down", pc # "idle"
  PROVE  [file |-> Now', end |-> "off", cost |-> 0] \in Outcomes[call]
  <1> USE DEF IndInv, TypeOK, ObsInv, CallInv, RecoverInv, WriteInv, RemoveInv, Now, Unwritten,
              PCs, Callers, Outcomes, Outcome
  <1>0. Now' = Now
    BY DEF Crash, files
  <1>1. CASE call = "recover"
    <2>1. Now \in {start, File(Whole(start), None)}
      BY <1>1 DEF File, Whole
    <2> QED BY <1>0, <1>1, <2>1 DEF RecoverOutcome
  <1>2. CASE call = "write"
    <2>1. CASE Recovering
      <3>1. Now \in NotWritten(start)
        BY <1>2, <2>1 DEF NotWritten, File, Whole, Recovering
      <3> QED BY <1>0, <1>2, <3>1 DEF WriteOutcome
    <2>2. CASE pc \in {"openTemp", "writeTemp", "prepare", "copy", "copying", "abandon"}
      <3>1. Now \in NotWritten(start)
        BY <1>2, <2>2 DEF NotWritten, File, Whole
      <3> QED BY <1>0, <1>2, <3>1 DEF WriteOutcome
    <2>3. CASE pc \in {"unlink", "relink"} \/ (pc = "finish" /\ ~ok)
      <3>1. Now \in NotWritten(start)
        BY <1>2, <2>3 DEF NotWritten, File
      <3> QED BY <1>0, <1>2, <3>1 DEF WriteOutcome
    <2>4. CASE pc = "dropBackup" \/ (pc = "finish" /\ ok)
      <3>1. Now \in Written(start, target)
        BY <1>2, <2>4 DEF Written, File
      <3> QED BY <1>0, <1>2, <3>1 DEF WriteOutcome
    <2> QED BY <1>2, <2>1, <2>2, <2>3, <2>4 DEF Recovering
  <1>3. CASE call = "remove"
    <2>1. Now \in {start, File(start.prim, None), Empty}
      BY <1>3
    <2> QED BY <1>0, <1>3, <2>1 DEF RemoveOutcome
  <1> QED
    BY <1>1, <1>2, <1>3

\* A call that returns.
LEMMA ReturnListed ==
  ASSUME IndInv, ObsInv, ObservedNext, Step, pc # "down", pc # "idle", pc' = "idle"
  PROVE  [file |-> Now', end |-> reply', cost |-> fault'] \in Outcomes[call]
  <1> USE DEF IndInv, TypeOK, ObsInv, CallInv, RecoverInv, WriteInv, RemoveInv, Now, Unwritten,
              PCs, Callers, Outcomes, Outcome
  <1>0. fault' = IF Failed THEN 1 ELSE fault
    BY DEF ObservedNext, Begins, Calls
  <1>1. CASE RecoverDropTemp /\ caller = "boot"
    <2>1. /\ call = "recover" /\ Now' = Now /\ fault' = fault
          /\ reply' = IF pc = "recoverDropTemp" THEN "true" ELSE "false"
      BY <1>0, <1>1 DEF RecoverDropTemp, AfterRecovery, Return, Failed
    <2>2. CASE pc = "recoverDropTemp"
      BY <1>1, <2>1, <2>2 DEF RecoverOutcome
    <2>3. CASE pc = "recoverFailed"
      <3>1. start.prim = None
        BY <1>1, <2>3 DEF File
      <3> QED BY <1>1, <2>1, <2>3, <3>1 DEF RecoverOutcome
    <2> QED BY <1>1, <2>2, <2>3 DEF RecoverDropTemp
  <1>2. CASE RecoverDropTemp /\ caller # "boot"
    <2>1. /\ call = "write" /\ Now' = Now /\ fault' = 1 /\ reply' = "false"
          /\ pc = "recoverFailed" /\ caller = "write"
      BY <1>0, <1>2 DEF RecoverDropTemp, AfterRecovery, Return, Failed
    <2>2. Now \in NotWritten(start)
      BY <2>1 DEF NotWritten, File
    <2> QED BY <2>1, <2>2 DEF WriteOutcome
  <1>3. CASE Finish
    <2>1. /\ call = "write" /\ Now' = Now /\ fault' = fault
          /\ reply' = IF ok THEN "true" ELSE "false"
      BY <1>0, <1>3 DEF Finish, Return, Failed
    <2>2. CASE ok
      <3>1. /\ Now \in Written(start, target)
            /\ fault = 0 => Now = File(target, None)
        BY <1>3, <2>2 DEF Written, File, Finish
      <3> QED BY <2>1, <2>2, <3>1 DEF WriteOutcome
    <2>3. CASE ~ok
      BY <1>3, <2>1, <2>3 DEF WriteOutcome, Finish
    <2> QED BY <2>2, <2>3
  <1>4. CASE RemoveTemp \/ RemoveBackup
    <2>1. call = "remove" /\ Now' = start /\ fault' = 1 /\ reply' = "false"
      BY <1>0, <1>4 DEF RemoveTemp, RemoveBackup, Return, Failed
    <2> QED BY <2>1 DEF RemoveOutcome
  <1>5. CASE RemoveReturn
    <2>1. /\ call = "remove" /\ Now' = Now /\ fault' = fault
          /\ reply' = IF ok THEN "true" ELSE "false"
      BY <1>0, <1>5 DEF RemoveReturn, Return, Failed, files
    <2> QED BY <1>5, <2>1 DEF RemoveOutcome, RemoveReturn
  <1> QED
    BY <1>1, <1>2, <1>3, <1>4, <1>5
       DEF Step, WriteStep, RecoverStep, RemoveStep, OpenTemp, WriteTemp, PrepareBackup, BeginCopy,
           FinishCopy, AbandonTemp, RenameUnlink, RenameRelink, RenameFailed, DropBackup,
           RecoverRename, RecoverDropBackup, RemovePrimary

\* Every write, removal and recovery of zerofido_storage.c, whether it returns
\* or is cut off, ends in one of the outcomes from which SignCounter and U2f
\* build their steps: what they assume of the storage is what it does.
THEOREM OutcomeListedHolds == ObservedSpec => OutcomeListed
  <1> DEFINE Listed == pc \notin {"idle", "down"} /\ pc' \in {"idle", "down"} =>
         [file |-> File(primary', backup'),
          end |-> IF pc' = "down" THEN "off" ELSE reply',
          cost |-> IF pc' = "down" THEN 0 ELSE fault'] \in Outcomes[call]
  <1>1. IndInv /\ ObsInv /\ [ObservedNext]_observed => [Listed]_observed
    <2> SUFFICES ASSUME IndInv, ObsInv, ObservedNext, pc \notin {"idle", "down"},
                        pc' \in {"idle", "down"}
                 PROVE  Listed
      OBVIOUS
    <2>0. Now' = File(primary', backup')
      BY DEF Now
    <2>1. CASE Crash
      BY <2>0, <2>1, CutOffListed DEF Crash
    <2>2. CASE Step
      <3>1. pc' = "idle"
        BY <2>2 DEF Step, WriteStep, RecoverStep, RemoveStep, OpenTemp, WriteTemp, PrepareBackup,
             BeginCopy, FinishCopy, AbandonTemp, RenameUnlink, RenameRelink, RenameFailed,
             DropBackup, RecoverRename, RecoverDropBackup, RemovePrimary, Finish, RemoveTemp,
             RemoveBackup, RemoveReturn, RecoverDropTemp, AfterRecovery, Return
      <3> QED BY <2>0, <2>2, <3>1, ReturnListed
    <2> QED
      BY <2>1, <2>2 DEF ObservedNext, Next, Boot, BeginWrite, BeginRemove
  <1> QED
    BY <1>1, ObservedInvariance, PTL DEF ObservedSpec, OutcomeListed, observed

-----------------------------------------------------------------------------
(* The index of credentials and the commands that work on it               *)

\* Between taking and releasing the gate.
Inside == {"consent", "write", "replace", "undo", "load", "sign", "nextload", "nextsign", "wipe",
           "walk"}
Gated == Inside \cup {"release"}

\* How much of each bound is used.
Bounds == [req : Nat, del : Nat, fault : Nat, crash : Nat]

\* The prompt, the queue, the worker and the screen.
PromptType == [st : {"idle", "pending", "approved", "denied"}, menu : Seq(Nat), sel : Nat,
               chosen : Cred \cup {0}]

QueueType == [on : BOOLEAN, ses : Session \cup {0}, uv : BOOLEAN, list : Seq(Nat), i : Nat,
              fresh : BOOLEAN, meant : Seq(Cred \cup {0})]

\* The steps of a request.
WorkerPcs == {"idle", "exclude", "pin", "resolve", "ask", "wait", "retake", "take", "next"}
             \cup Gated

WorkerType ==
    [pc : WorkerPcs, kind : Kind \cup {"none"}, ses : Session \cup {0}, c : Cred \cup {0},
     uv : BOOLEAN, up : BOOLEAN, list : SUBSET Cred, found : Seq(Nat), pick : BOOLEAN, at : Nat,
     ok : BOOLEAN]

UiType == [pc : {"idle", "files", "compact", "end"}, c : Cred \cup {0}, at : Nat, ok : BOOLEAN]

\* The types of the variables that the properties speak of.
StoreTypes ==
    /\ recs \in Seq(Cred) /\ disk \subseteq Cred /\ dead \subseteq Cred
    /\ queue \in QueueType /\ gate \in BOOLEAN /\ prompt \in PromptType
    /\ w \in WorkerType /\ u \in UiType /\ used \in Bounds

\* Which steps belong to which command.
KindInv ==
    /\ w.kind = "none" => w.pc = "idle"
    /\ w.kind = "make" => w.pc \in {"exclude", "ask", "wait", "take", "write", "replace", "undo",
                                    "release"}
    /\ w.kind = "assert" => w.pc \in {"pin", "resolve", "ask", "wait", "take", "load", "sign",
                                      "release"}
    /\ w.kind = "next" => w.pc \in {"next", "nextload", "nextsign", "release"}
    /\ w.kind = "reset" => w.pc \in {"ask", "wait", "take", "wipe", "walk", "release"}
    /\ w.kind = "token" => w.pc \in {"consent", "ask", "wait", "retake", "release"}

\* A token request that only has to open the gate again.  It need not have
\* it: a deletion may have taken it while the user was asked for consent.
Leaving == w.kind = "token" /\ w.pc = "release"

\* The gate keeps the worker and the screen apart.
GateInv ==
    /\ w.pc \in Gated /\ ~Leaving => gate /\ u = UiIdle
    /\ u # UiIdle => gate /\ u.pc # "idle"

\* A credential that is being made is neither indexed nor known from before.
Making == w.kind = "make" /\ w.pc \in {"exclude", "ask", "wait", "take", "write", "replace", "undo"}

\* It has no file before it is written, and one while others are replaced.
MakingInv ==
    /\ Making => /\ w.c \in Cred /\ w.c \notin Range(recs) \cup kept \cup dead
                 /\ w.c # u.c
    /\ Making /\ w.pc \notin {"replace", "undo"} => w.c \notin disk
    /\ w.pc = "replace" => w.c \in disk
    /\ w.pc = "undo" => used.fault >= 1

\* The entries of the account that are being replaced, and the room for the
\* new one.
ReplacingInv ==
    w.pc \in {"write", "replace", "undo"} =>
        /\ w.at \in 1..(Len(w.found) + 1) /\ IsInjective(w.found)
        /\ \A k \in DOMAIN w.found : /\ w.found[k] \in DOMAIN recs
                                     /\ SameUser(w.c, recs[w.found[k]])
        /\ Len(recs) - Len(w.found) < Capacity

\* While an entry is taken out, the others are still different.
DeletingInv ==
    /\ u.pc \in {"files", "compact"} => ~u.ok
    /\ u.pc # "idle" => u.c \in Cred /\ u.c \notin kept
    /\ u.pc # "compact" => IsInjective(recs)
    /\ u.pc = "compact" =>
         /\ u.at \in DOMAIN recs /\ u.c \notin disk
         /\ \A i, j \in DOMAIN recs \ {u.at} : recs[i] = recs[j] => i = j
         /\ \A i \in DOMAIN recs \ {u.at} : recs[i] # u.c
    /\ u.pc = "end" /\ u.ok => u.c \notin disk \cup Range(recs)

\* What is kept is stored and what is gone is not; a wipe keeps nothing.
DiskInv ==
    /\ kept \subseteq disk /\ dead \cap disk = {}
    /\ w.pc \in {"wipe", "walk"} => kept = {} /\ ~queue.on

\* No entry is being taken out, or it was and the queue is still to be dropped.
Moving == u.pc = "compact" \/ (u.pc = "end" /\ u.ok)

\* The queue means the entries that it was made from.
QueueInv ==
    queue.on => /\ queue.i \in DOMAIN queue.list
                /\ ~Moving => \A k \in DOMAIN queue.list :
                                /\ queue.list[k] \in DOMAIN recs
                                /\ queue.meant[k] = recs[queue.list[k]]
                                /\ Visible(recs[queue.list[k]], queue.uv)

\* The entries that an assertion was resolved to are there and visible, and
\* the record that signs has been loaded.
AssertInv ==
    /\ ~w.up => ~w.pick /\ w.pc # "resolve"
    /\ w.pc \in {"load", "sign"} /\ ~w.pick =>
         /\ w.at \in DOMAIN recs /\ Visible(recs[w.at], w.uv)
         /\ \A k \in DOMAIN w.found : /\ w.found[k] \in DOMAIN recs
                                      /\ Visible(recs[w.found[k]], w.uv)
    /\ w.pc \in {"sign", "nextsign"} => w.c \in disk /\ Attr[w.c].rp = Rp
    /\ w.pc \in {"sign", "nextload", "nextsign"} => w.c \in Cred /\ (w.pick \/ Visible(w.c, w.uv))
    /\ w.kind = "next" => ~w.pick

\* What a request that is about to end has left behind.
ReplyInv ==
    w.pc = "release" =>
       /\ w.kind = "make" => IF w.ok THEN w.c \in disk /\ w.c \in Range(recs)
                             ELSE used.fault <= 1 => w.c \notin disk
       /\ w.kind = "reset" /\ w.ok => disk = {} /\ pinf = {} /\ recs = << >>

\* The inductive invariant.
StoreInv == /\ StoreTypes /\ KindInv /\ GateInv /\ MakingInv /\ ReplacingInv /\ DeletingInv
            /\ DiskInv /\ QueueInv /\ AssertInv /\ ReplyInv

-----------------------------------------------------------------------------
(* Lists of indices                                                        *)

\* How many numbers there are up to n.
LEMMA UpTo ==
  ASSUME NEW n \in Nat
  PROVE  IsFiniteSet(1..n) /\ Cardinality(1..n) = n
  <1>1. IsFiniteSet(1..n) /\ Cardinality(1..n) = IF 1 > n THEN 0 ELSE n - 1 + 1
    BY FS_Interval, SMT
  <1> QED
    BY <1>1

\* What is known of the elements of a sequence.
LEMMA SeqElements ==
  ASSUME NEW S, NEW s \in Seq(S)
  PROVE  /\ Len(s) \in Nat /\ DOMAIN s = 1..Len(s) /\ DOMAIN s \subseteq Nat
         /\ \A k \in DOMAIN s : s[k] \in S
  OBVIOUS

\* A sequence with one more element.
LEMMA Appended ==
  ASSUME NEW S, NEW s \in Seq(S), NEW x \in S
  PROVE  /\ Append(s, x) \in Seq(S) /\ DOMAIN Append(s, x) = 1..(Len(s) + 1)
         /\ Append(s, x)[Len(s) + 1] = x
         /\ \A k \in 1..Len(s) : Append(s, x)[k] = s[k]
  OBVIOUS

\* A function that is a sequence.
LEMMA MadeSeq ==
  ASSUME NEW S, NEW n \in Nat, NEW f \in [1..n -> S]
  PROVE  f \in Seq(S) /\ Len(f) = n
  OBVIOUS

\* A list that enumerates a set of indices.
LEMMA ListOfIndices ==
  ASSUME NEW n \in Nat, NEW I \in SUBSET (1..n), NEW f \in [1..Cardinality(I) -> I]
  PROVE  f \in Seq(Nat) /\ Len(f) = Cardinality(I) /\ DOMAIN f = 1..Len(f) /\ IsFiniteSet(I)
  <1>1. IsFiniteSet(1..n)
    BY UpTo
  <1>2. IsFiniteSet(I)
    BY <1>1, FS_Subset
  <1>3. Cardinality(I) \in Nat
    BY <1>2, FS_CardinalityType
  <1>a. \A i \in I : i \in Nat
    OBVIOUS
  <1>4. DOMAIN f = 1..Cardinality(I) /\ \A k \in 1..Cardinality(I) : f[k] \in Nat
    BY <1>a
  <1>5. f = [k \in 1..Cardinality(I) |-> f[k]]
    OBVIOUS
  <1> DEFINE m == Cardinality(I)
  <1> HIDE DEF m
  <1>6. f \in Seq(Nat) /\ Len(f) = m
    BY <1>3, <1>4, <1>5 DEF m
  <1> QED
    BY <1>2, <1>4, <1>6 DEF m

\* What the index holds without some of its entries.
LEMMA WithoutList ==
  ASSUME recs \in Seq(Cred), IsInjective(recs), NEW I, NEW rest \in Without(I)
  PROVE  /\ rest \in Seq(Cred) /\ IsInjective(rest) /\ Range(rest) \subseteq Range(recs)
         /\ Len(rest) = Cardinality(DOMAIN recs \ I)
  <1> DEFINE J == DOMAIN recs \ I
  <1>1. PICK f \in Increasing(J) : rest = [k \in DOMAIN f |-> recs[f[k]]]
    BY DEF Without
  <1>2. f \in [1..Cardinality(J) -> J] /\ \A k, l \in DOMAIN f : k < l => f[k] < f[l]
    BY <1>1 DEF Increasing
  <1>3. J \in SUBSET (1..Len(recs)) /\ Len(recs) \in Nat
    OBVIOUS
  <1>4. f \in Seq(Nat) /\ Len(f) = Cardinality(J) /\ DOMAIN f = 1..Len(f)
    BY <1>2, <1>3, ListOfIndices
  <1> HIDE DEF J
  <1>a. \A i \in DOMAIN recs : recs[i] \in Cred
    BY SeqElements, Zenon
  <1>b. \A k \in DOMAIN f : f[k] \in DOMAIN recs
    BY <1>2 DEF J
  <1>c. Len(f) \in Nat /\ DOMAIN f \subseteq Nat /\ \A k \in DOMAIN f : f[k] \in Nat
    BY <1>4, SeqElements, Zenon
  <1>5. rest \in Seq(Cred) /\ DOMAIN rest = DOMAIN f /\ Len(rest) = Cardinality(J)
    <2>1. DOMAIN rest = 1..Len(f) /\ \A k \in 1..Len(f) : rest[k] \in Cred
      BY <1>1, <1>4, <1>a, <1>b
    <2>2. rest = [k \in 1..Len(f) |-> rest[k]]
      BY <1>1, <1>4
    <2> DEFINE m == Len(f)
    <2> HIDE DEF m
    <2>3. rest \in Seq(Cred) /\ Len(rest) = m
      BY <1>c, <2>1, <2>2 DEF m
    <2> QED BY <1>4, <2>1, <2>3 DEF m
  <1>6. \A k, l \in DOMAIN f : f[k] = f[l] => k = l
    BY <1>2, <1>c
  <1>7. IsInjective(rest)
    <2> SUFFICES ASSUME NEW k \in DOMAIN rest, NEW l \in DOMAIN rest, rest[k] = rest[l]
                 PROVE  k = l
      BY DEF IsInjective
    <2>1. recs[f[k]] = recs[f[l]] /\ f[k] \in DOMAIN recs /\ f[l] \in DOMAIN recs
      BY <1>1, <1>5, <1>b
    <2>2. f[k] = f[l]
      BY <2>1 DEF IsInjective
    <2> QED BY <1>5, <1>6, <2>2
  <1>8. Range(rest) \subseteq Range(recs)
    BY <1>1, <1>5, <1>b DEF Range
  <1> QED
    BY <1>5, <1>7, <1>8 DEF J

\* The entries that a request matches.
LEMMA MatchesList ==
  ASSUME recs \in Seq(Cred), NEW list, NEW uv, NEW found \in Matches(list, uv)
  PROVE  /\ found \in Seq(Nat)
         /\ \A k \in DOMAIN found : found[k] \in DOMAIN recs /\ Visible(recs[found[k]], uv)
  <1> DEFINE I == {i \in DOMAIN recs :
                     /\ Attr[recs[i]].rp = Rp
                     /\ IF list = {} THEN Attr[recs[i]].rk ELSE recs[i] \in list
                     /\ Visible(recs[i], uv)}
  <1>1. found \in [1..Cardinality(I) -> I]
    BY DEF Matches, Sorted
  <1>2. I \in SUBSET (1..Len(recs)) /\ Len(recs) \in Nat
    OBVIOUS
  <1>3. found \in Seq(Nat) /\ DOMAIN found = 1..Cardinality(I)
    BY <1>1, <1>2, ListOfIndices
  <1>4. \A i \in I : i \in DOMAIN recs /\ Visible(recs[i], uv)
    OBVIOUS
  <1> HIDE DEF I
  <1> QED
    BY <1>1, <1>3, <1>4

\* The entries that a new credential replaces.
LEMMA ReplacedList ==
  ASSUME recs \in Seq(Cred), NEW c, NEW gone \in Replaced(c)
  PROVE  /\ gone \in Seq(Nat) /\ IsInjective(gone)
         /\ \A k \in DOMAIN gone : gone[k] \in DOMAIN recs /\ SameUser(c, recs[gone[k]])
  <1> DEFINE I == {i \in DOMAIN recs : Attr[c].rk /\ recs[i] \in disk /\ SameUser(c, recs[i])}
  <1>1. gone \in [1..Cardinality(I) -> I] /\ \A k, l \in DOMAIN gone : k < l => gone[k] < gone[l]
    BY DEF Replaced, Increasing
  <1>2. I \in SUBSET (1..Len(recs)) /\ Len(recs) \in Nat
    OBVIOUS
  <1>3. gone \in Seq(Nat) /\ DOMAIN gone = 1..Cardinality(I) /\ DOMAIN gone = 1..Len(gone)
    BY <1>1, <1>2, ListOfIndices
  <1>4. \A i \in I : i \in DOMAIN recs /\ SameUser(c, recs[i])
    OBVIOUS
  <1> HIDE DEF I
  <1>5. IsInjective(gone)
    <2> SUFFICES ASSUME NEW k \in DOMAIN gone, NEW l \in DOMAIN gone, gone[k] = gone[l]
                 PROVE  k = l
      BY DEF IsInjective
    <2>1. gone[k] \in Nat /\ gone[l] \in Nat /\ k \in Nat /\ l \in Nat
      BY <1>3, SeqElements, Zenon
    <2> QED BY <1>1, <2>1
  <1> QED
    BY <1>1, <1>3, <1>4, <1>5

\* Taking the replaced entries out makes room for the new one.
LEMMA RoomAfterRemoval ==
  ASSUME recs \in Seq(Cred), NEW found \in Seq(Nat), IsInjective(found),
         \A k \in DOMAIN found : found[k] \in DOMAIN recs
  PROVE  Cardinality(DOMAIN recs \ {found[k] : k \in 1..Len(found)}) = Len(recs) - Len(found)
  <1> DEFINE T == {found[k] : k \in 1..Len(found)}
  <1>1. T \subseteq DOMAIN recs /\ DOMAIN recs = 1..Len(recs) /\ Len(recs) \in Nat
    OBVIOUS
  <1>2. IsFiniteSet(DOMAIN recs) /\ Cardinality(DOMAIN recs) = Len(recs)
    BY <1>1, UpTo, Zenon
  <1>0. Len(found) \in Nat
    BY SeqElements, Zenon
  <1>3. IsFiniteSet(1..Len(found)) /\ Cardinality(1..Len(found)) = Len(found)
    BY <1>0, UpTo, Zenon
  <1>4. found \in Surjection(1..Len(found), T) /\ found \in Injection(1..Len(found), T)
    <2>1. found \in [1..Len(found) -> T]
      OBVIOUS
    <2> QED BY <2>1 DEF Surjection, Injection, IsInjective
  <1> HIDE DEF T
  <1>5. Cardinality(T) = Len(found)
    BY <1>3, <1>4, FS_Surjection
  <1>6. DOMAIN recs \cap T = T
    BY <1>1
  <1>7. Cardinality(DOMAIN recs \ T) = Cardinality(DOMAIN recs) - Cardinality(DOMAIN recs \cap T)
    BY <1>2, FS_Difference
  <1> QED
    BY <1>2, <1>5, <1>6, <1>7 DEF T

-----------------------------------------------------------------------------
(* The records of the model                                                *)

\* The values that the variables are reset to.
LEMMA RestingValues ==
  /\ Idle \in WorkerType /\ Idle.pc = "idle" /\ Idle.kind = "none" /\ ~Idle.up /\ ~Idle.pick
  /\ UiIdle \in UiType /\ UiIdle.pc = "idle" /\ UiIdle.c = 0 /\ ~UiIdle.ok
  /\ NoQueue \in QueueType /\ ~NoQueue.on
  /\ NoPrompt \in PromptType
  <1> << >> \in Seq(Nat) /\ << >> \in Seq(Cred \cup {0})
    OBVIOUS
  <1>1. Idle \in WorkerType /\ Idle.pc = "idle" /\ Idle.kind = "none" /\ ~Idle.up /\ ~Idle.pick
    BY DEF Idle, WorkerType, WorkerPcs
  <1>2. UiIdle \in UiType /\ UiIdle.pc = "idle" /\ UiIdle.c = 0 /\ ~UiIdle.ok
    BY DEF UiIdle, UiType
  <1>3. NoQueue \in QueueType /\ ~NoQueue.on
    BY DEF NoQueue, QueueType
  <1>4. NoPrompt \in PromptType
    BY DEF NoPrompt, PromptType
  <1> QED
    BY <1>1, <1>2, <1>3, <1>4

\* The bounds are used up one by one.
Counted == used' \in Bounds /\ used'.fault >= used.fault

\* One more use of a bound keeps the bounds counted.
LEMMA Counting ==
  ASSUME used \in Bounds
  PROVE  /\ Fine => Counted
         /\ Fault => Counted /\ used'.fault = used.fault + 1 /\ used'.fault >= 1
         /\ Use("req", MaxRequests) => Counted
         /\ Use("del", MaxDeletes) => Counted
         /\ Use("crash", MaxCrashes) => Counted
  BY DEF Bounds, Counted, Fine, Fault, Use

\* The request is answered; everything about it but its step and its result
\* stays.
Answered(good) ==
    /\ w' \in WorkerType /\ w'.pc = "release" /\ w'.ok = good
    /\ w'.kind = w.kind /\ w'.c = w.c /\ w'.up = w.up /\ w'.pick = w.pick

\* What the end of a request leaves of the worker.
LEMMA DoneFields ==
  ASSUME w \in WorkerType, NEW good \in BOOLEAN, Done(good)
  PROVE  Answered(good)
  BY DEF Done, WorkerType, WorkerPcs, Gated, Inside, Answered

-----------------------------------------------------------------------------
(* Steps that leave the index and the files alone                          *)

\* The request ends.
LEMMA QuitKeeps ==
  ASSUME StoreInv, w' = Idle, UNCHANGED <<recs, disk, pinf, u, used, kept, dead>>,
         queue' \in {queue, NoQueue}, prompt' \in PromptType, gate' \in BOOLEAN,
         u # UiIdle => gate'
  PROVE  StoreInv'
  <1>0. /\ w' \in WorkerType /\ w'.pc = "idle" /\ w'.kind = "none" /\ ~w'.up /\ ~w'.pick
        /\ queue' \in QueueType /\ (queue'.on => queue' = queue)
    <2>1. CASE queue' = queue
      BY <2>1, RestingValues DEF StoreInv, StoreTypes
    <2>2. CASE queue' = NoQueue
      BY <2>2, RestingValues
    <2> QED BY <2>1, <2>2
  <1>1. StoreTypes'
    BY <1>0 DEF StoreInv, StoreTypes
  <1>2. KindInv' /\ GateInv' /\ MakingInv' /\ ReplacingInv' /\ ReplyInv'
    BY <1>0 DEF StoreInv, KindInv, GateInv, MakingInv, Making, ReplacingInv, ReplyInv, Gated,
                Inside, Leaving
  <1>3. DeletingInv' /\ DiskInv' /\ AssertInv'
    BY <1>0 DEF StoreInv, DeletingInv, DiskInv, AssertInv
  <1>4. QueueInv'
    BY <1>0 DEF StoreInv, QueueInv, Moving
  <1> QED
    BY <1>1, <1>2, <1>3, <1>4 DEF StoreInv

\* The request is answered, without a credential or an erasure to report.
LEMMA DoneKeeps ==
  ASSUME StoreInv, NEW good \in BOOLEAN, Answered(good), Counted, prompt' = prompt, gate' = TRUE,
         UNCHANGED <<recs, disk, pinf, u, kept, dead>>, w.pc # "idle",
         u = UiIdle \/ w.kind = "token",
         queue' \in QueueType, QueueInv',
         w.kind = "make" => ~good /\ w.c \notin disk,
         w.kind = "reset" => ~good
  PROVE  StoreInv'
  <1> USE DEF Answered, Counted
  <1>1. StoreTypes'
    BY DEF StoreInv, StoreTypes
  <1>2. KindInv'
    BY DEF StoreInv, StoreTypes, WorkerType, Kind, KindInv
  <1>3. GateInv' /\ MakingInv' /\ ReplacingInv'
    BY DEF StoreInv, GateInv, MakingInv, Making, ReplacingInv, Gated, Inside, Leaving
  <1>4. DeletingInv' /\ DiskInv'
    BY DEF StoreInv, DeletingInv, DiskInv
  <1>5. AssertInv' /\ ReplyInv'
    BY DEF StoreInv, AssertInv, ReplyInv, StoreTypes, Bounds
  <1> QED
    BY <1>1, <1>2, <1>3, <1>4, <1>5 DEF StoreInv

\* The request moves on and is not under the gate afterwards.
Moved == /\ w' \in WorkerType /\ w'.pc \in {"resolve", "ask", "wait", "retake", "take"}
         /\ w'.kind = w.kind /\ w'.c = w.c /\ w'.up = w.up

\* A step that only moves the worker on keeps the invariant if the new step
\* of the request keeps the parts about it.
LEMMA MoveKeeps ==
  ASSUME StoreInv, Moved, KindInv', ~w'.up => ~w'.pick /\ w'.pc # "resolve",
         UNCHANGED <<recs, disk, pinf, queue, u, used, kept, dead>>,
         prompt' \in PromptType, gate' \in BOOLEAN,
         u # UiIdle => gate',
         w.kind = "make" => w.pc \in {"exclude", "ask", "wait"}
  PROVE  StoreInv'
  <1> USE DEF Moved
  <1>1. StoreTypes'
    BY DEF StoreInv, StoreTypes
  <1>3. GateInv' /\ MakingInv' /\ ReplacingInv'
    BY DEF StoreInv, GateInv, MakingInv, Making, ReplacingInv, Gated, Inside
  <1>4. DeletingInv' /\ DiskInv'
    BY DEF StoreInv, DeletingInv, DiskInv
  <1>5. AssertInv' /\ ReplyInv'
    BY DEF StoreInv, AssertInv, ReplyInv, KindInv
  <1>6. QueueInv'
    BY DEF StoreInv, QueueInv, Moving
  <1> QED
    BY <1>1, <1>3, <1>4, <1>5, <1>6 DEF StoreInv

-----------------------------------------------------------------------------
(* A request arrives                                                       *)

\* With the gate free the screen is not at work.
LEMMA FreeGate ==
  ASSUME StoreInv, ~gate
  PROVE  u = UiIdle
  BY DEF StoreInv, GateInv

\* The queue as it was, or none.
LEMMA QueueOrNone ==
  ASSUME StoreInv, queue' \in {queue, NoQueue}, UNCHANGED <<recs, u>>
  PROVE  queue' \in QueueType /\ QueueInv'
  <1>1. CASE queue' = queue
    BY <1>1 DEF StoreInv, StoreTypes, QueueInv, Moving
  <1>2. CASE queue' = NoQueue
    BY <1>2, RestingValues DEF QueueInv
  <1> QED
    BY <1>1, <1>2

\* Any request but makeCredential.
LEMMA NewKeeps ==
  ASSUME StoreInv, w' \in WorkerType, w'.pc \in {"pin", "next", "ask", "consent"},
         w'.kind # "make", ~w'.pick, KindInv', u = UiIdle, Counted,
         UNCHANGED <<recs, disk, pinf, prompt, u, kept, dead>>, queue' \in {queue, NoQueue},
         gate' \in BOOLEAN, w'.pc = "consent" => gate'
  PROVE  StoreInv'
  <1>0. queue' \in QueueType /\ QueueInv'
    BY QueueOrNone
  <1>1. StoreTypes'
    BY <1>0 DEF StoreInv, StoreTypes, Counted
  <1>3. GateInv' /\ MakingInv' /\ ReplacingInv'
    BY DEF StoreInv, GateInv, MakingInv, Making, ReplacingInv, Gated, Inside
  <1>4. DeletingInv' /\ DiskInv'
    BY DEF StoreInv, DeletingInv, DiskInv
  <1>5. AssertInv' /\ ReplyInv'
    BY DEF StoreInv, AssertInv, ReplyInv
  <1> QED
    BY <1>0, <1>1, <1>3, <1>4, <1>5 DEF StoreInv

\* The credential of a makeCredential request is a new one.
LEMMA NewMakeKeeps ==
  ASSUME StoreInv, w' \in WorkerType, w'.pc = "exclude", w'.kind = "make", ~w'.pick,
         w'.c \in Cred \ (disk \cup dead \cup Range(recs)), u = UiIdle, Counted,
         UNCHANGED <<recs, disk, pinf, prompt, u, kept, dead, queue, gate>>
  PROVE  StoreInv'
  <1>0. queue' \in QueueType /\ QueueInv' /\ w'.c # u.c
    BY QueueOrNone, RestingValues DEF Cred
  <1>1. StoreTypes'
    BY <1>0 DEF StoreInv, StoreTypes, Counted
  <1>2. KindInv' /\ GateInv' /\ ReplacingInv'
    BY DEF StoreInv, KindInv, GateInv, ReplacingInv, Gated, Inside, Leaving
  <1>3. MakingInv'
    BY <1>0 DEF StoreInv, MakingInv, Making, DiskInv
  <1>4. DeletingInv' /\ DiskInv'
    BY DEF StoreInv, DeletingInv, DiskInv
  <1>5. AssertInv' /\ ReplyInv'
    BY DEF StoreInv, AssertInv, ReplyInv
  <1> QED
    BY <1>0, <1>1, <1>2, <1>3, <1>4, <1>5 DEF StoreInv

\* A request arrives.
LEMMA ReceiveKeeps == ASSUME StoreInv, Receive PROVE StoreInv'
  <1>0. /\ UNCHANGED <<recs, disk, pinf, prompt, u, kept, dead>> /\ u = UiIdle /\ Counted
        /\ gate \in BOOLEAN /\ disk \subseteq Cred
    BY FreeGate, Counting DEF Receive, StoreInv, StoreTypes
  <1>a. \A kind \in Kind, ses \in Session \cup {0} :
           /\ New(kind, ses) \in WorkerType /\ New(kind, ses).kind = kind
           /\ ~New(kind, ses).pick
    BY RestingValues DEF New, WorkerType
  <1>1. ASSUME NEW c \in Cred \ (disk \cup dead \cup Range(recs)), NEW list \in SUBSET disk,
               NEW uv \in BOOLEAN, UNCHANGED <<queue, gate>>,
               w' = [New("make", 0) EXCEPT !.pc = "exclude", !.c = c, !.list = list, !.uv = uv]
        PROVE  StoreInv'
    <2> DEFINE n == New("make", 0)
    <2>1. n \in WorkerType /\ n.kind = "make" /\ ~n.pick
      BY <1>a DEF Kind
    <2> HIDE DEF n
    <2>2. w' = [n EXCEPT !.pc = "exclude", !.c = c, !.list = list, !.uv = uv]
      BY <1>1 DEF n
    <2>3. w' \in WorkerType /\ w'.pc = "exclude" /\ w'.kind = "make" /\ ~w'.pick /\ w'.c = c
      BY <1>0, <2>1, <2>2 DEF WorkerType, WorkerPcs
    <2> QED BY <1>0, <1>1, <2>3, NewMakeKeeps
  <1>2. ASSUME NEW ses \in Session, NEW list \in SUBSET disk, NEW uv \in BOOLEAN,
               NEW up \in BOOLEAN, queue' = NoQueue, UNCHANGED gate,
               w' = [New("assert", ses) EXCEPT !.pc = "pin", !.list = list, !.uv = uv, !.up = up]
        PROVE  StoreInv'
    <2> DEFINE n == New("assert", ses)
    <2>1. n \in WorkerType /\ n.kind = "assert" /\ ~n.pick
      BY <1>a DEF Kind
    <2> HIDE DEF n
    <2>2. w' = [n EXCEPT !.pc = "pin", !.list = list, !.uv = uv, !.up = up]
      BY <1>2 DEF n
    <2>3. w' \in WorkerType /\ w'.pc = "pin" /\ w'.kind = "assert" /\ ~w'.pick
      BY <1>0, <2>1, <2>2 DEF WorkerType, WorkerPcs
    <2>4. KindInv'
      BY <2>3 DEF KindInv
    <2> QED BY <1>0, <1>2, <2>3, <2>4, NewKeeps
  <1>3. ASSUME NEW ses \in Session, w' = [New("next", ses) EXCEPT !.pc = "next"],
               UNCHANGED <<queue, gate>>
        PROVE  StoreInv'
    <2>1. w' \in WorkerType /\ w'.pc = "next" /\ w'.kind = "next" /\ ~w'.pick
      BY <1>3, <1>a DEF WorkerType, WorkerPcs, Kind
    <2>2. KindInv'
      BY <2>1 DEF KindInv
    <2> QED BY <1>0, <1>3, <2>1, <2>2, NewKeeps
  <1>4. CASE w' = [New("reset", 0) EXCEPT !.pc = "ask"] /\ UNCHANGED <<queue, gate>>
    <2>1. w' \in WorkerType /\ w'.pc = "ask" /\ w'.kind = "reset" /\ ~w'.pick
      BY <1>4, <1>a DEF WorkerType, WorkerPcs, Kind
    <2>2. KindInv'
      BY <2>1 DEF KindInv
    <2> QED BY <1>0, <1>4, <2>1, <2>2, NewKeeps
  <1>5. CASE w' = [New("token", 0) EXCEPT !.pc = "consent"] /\ queue' = NoQueue /\ gate' = TRUE
    <2> DEFINE n == New("token", 0)
    <2>a. n \in WorkerType /\ n.kind = "token" /\ ~n.pick
      BY <1>a DEF Kind
    <2> HIDE DEF n
    <2>b. w' = [n EXCEPT !.pc = "consent"] /\ "consent" \in WorkerPcs
      BY <1>5 DEF n, WorkerPcs, Gated, Inside
    <2>1. w' \in WorkerType /\ w'.pc = "consent" /\ w'.kind = "token" /\ ~w'.pick
      BY <2>a, <2>b DEF WorkerType
    <2>2. KindInv'
      BY <2>1 DEF KindInv
    <2> QED BY <1>0, <1>5, <2>1, <2>2, NewKeeps
  <1> QED
    BY <1>1, <1>2, <1>3, <1>4, <1>5 DEF Receive

\* The checks before the user is asked.
LEMMA PinAuthKeeps == ASSUME StoreInv, PinAuth PROVE StoreInv'
  <1>0. /\ UNCHANGED <<recs, disk, pinf, queue, gate, prompt, u, used, kept, dead>>
        /\ gate \in BOOLEAN /\ prompt \in PromptType /\ w \in WorkerType /\ w.pc = "pin"
        /\ u # UiIdle => gate
    BY DEF PinAuth, StoreInv, StoreTypes, GateInv
  <1>1. CASE Quit
    BY <1>0, <1>1, QuitKeeps DEF Quit
  <1>2. CASE ~gate /\ w' = [w EXCEPT !.pc = IF w.up THEN "resolve" ELSE "take"]
    <2>1. w.kind = "assert" /\ (~w.up => ~w.pick)
      BY <1>0 DEF StoreInv, KindInv, WorkerType, Kind, AssertInv
    <2>2. /\ Moved /\ w'.pc \in {"resolve", "take"} /\ w'.pick = w.pick
          /\ ~w.up => w'.pc = "take"
      BY <1>0, <1>2 DEF Moved, WorkerType, WorkerPcs
    <2>3. KindInv'
      BY <2>1, <2>2 DEF KindInv, Moved
    <2>4. w'.up = w.up
      BY <2>2 DEF Moved
    <2> QED BY <1>0, <2>1, <2>2, <2>3, <2>4, MoveKeeps
  <1> QED
    BY <1>1, <1>2 DEF PinAuth

\* makeCredential looks the exclude list up.
LEMMA ExcludeCheckKeeps == ASSUME StoreInv, ExcludeCheck PROVE StoreInv'
  <1>0. /\ UNCHANGED <<recs, disk, pinf, queue, gate, prompt, u, used, kept, dead>>
        /\ gate \in BOOLEAN /\ prompt \in PromptType /\ w \in WorkerType /\ w.pc = "exclude"
        /\ u # UiIdle => gate
    BY DEF ExcludeCheck, StoreInv, StoreTypes, GateInv
  <1>1. CASE gate
    BY <1>0, <1>1, QuitKeeps DEF Quit, ExcludeCheck
  <1>2. CASE ~gate
    <2>1. w.kind = "make" /\ (~w.up => ~w.pick)
      BY <1>0 DEF StoreInv, KindInv, WorkerType, Kind, AssertInv
    <2> DEFINE a == IF Excluded(w.c, w.list, w.uv) THEN 1 ELSE 0
    <2>2. w' = [w EXCEPT !.pc = "ask", !.at = a, !.list = {}, !.uv = FALSE]
      BY <1>2 DEF ExcludeCheck
    <2>3. a \in Nat
      OBVIOUS
    <2> HIDE DEF a
    <2>4. Moved /\ w'.pc = "ask" /\ w'.pick = w.pick
      BY <1>0, <2>2, <2>3 DEF Moved, WorkerType, WorkerPcs
    <2>5. KindInv' /\ w'.up = w.up
      BY <2>1, <2>4 DEF KindInv, Moved
    <2> QED BY <1>0, <2>1, <2>4, <2>5, MoveKeeps
  <1> QED
    BY <1>1, <1>2

\* getAssertion finds its matches before it asks.
LEMMA ResolveKeeps == ASSUME StoreInv, Resolve PROVE StoreInv'
  <1>0. /\ UNCHANGED <<recs, disk, pinf, queue, gate, prompt, u, used, kept, dead>>
        /\ gate \in BOOLEAN /\ prompt \in PromptType /\ w \in WorkerType /\ w.pc = "resolve"
        /\ (u # UiIdle => gate) /\ recs \in Seq(Cred) /\ w.kind = "assert" /\ w.up
    BY DEF Resolve, StoreInv, StoreTypes, GateInv, KindInv, WorkerType, Kind, AssertInv
  <1>1. PICK found \in Matches(w.list, w.uv) :
          w' = [w EXCEPT !.pc = "ask", !.found = found, !.pick = w.list = {} /\ Len(found) > 1]
    BY DEF Resolve
  <1>2. found \in Seq(Nat)
    BY <1>0, MatchesList, Zenon
  <1> DEFINE several == w.list = {} /\ Len(found) > 1
  <1>a. several \in BOOLEAN
    OBVIOUS
  <1> HIDE DEF several
  <1>b. w' = [w EXCEPT !.pc = "ask", !.found = found, !.pick = several]
    BY <1>1 DEF several
  <1>3. Moved /\ w'.pc = "ask"
    BY <1>0, <1>2, <1>a, <1>b DEF Moved, WorkerType, WorkerPcs
  <1>4. KindInv' /\ w'.up
    BY <1>0, <1>3 DEF KindInv, Moved
  <1> QED
    BY <1>0, <1>3, <1>4, MoveKeeps

-----------------------------------------------------------------------------
(* Asking the user                                                         *)

\* The user is asked, or the request is refused as busy.
LEMMA AskKeeps == ASSUME StoreInv, Ask PROVE StoreInv'
  <1>0. /\ UNCHANGED <<recs, disk, pinf, queue, gate, u, used, kept, dead>>
        /\ gate \in BOOLEAN /\ prompt \in PromptType /\ w \in WorkerType /\ w.pc = "ask"
        /\ (u # UiIdle => gate) /\ (~w.up => ~w.pick)
    BY DEF Ask, StoreInv, StoreTypes, GateInv, AssertInv
  <1>1. CASE gate /\ w.kind = "token"
    <2>1. w' = [w EXCEPT !.pc = "retake", !.ok = FALSE] /\ prompt' = prompt
      BY <1>1 DEF Ask
    <2>2. Moved /\ w'.pc = "retake" /\ w'.pick = w.pick
      BY <1>0, <2>1 DEF Moved, WorkerType, WorkerPcs
    <2>3. KindInv' /\ w'.up = w.up
      BY <1>1, <2>2 DEF KindInv, Moved
    <2> QED BY <1>0, <1>1, <2>1, <2>2, <2>3, MoveKeeps
  <1>2. CASE gate /\ w.kind # "token"
    BY <1>0, <1>2, QuitKeeps DEF Ask, Quit
  <1>3. CASE ~gate
    <2>1. w' = [w EXCEPT !.pc = "wait"]
      BY <1>3 DEF Ask
    <2>2. Moved /\ w'.pc = "wait" /\ w'.pick = w.pick
      BY <1>0, <2>1 DEF Moved, WorkerType, WorkerPcs
    <2>3. KindInv' /\ w'.up = w.up
      BY <1>0, <2>2 DEF StoreInv, KindInv, Moved
    <2> DEFINE st == IF AutoAccept /\ ~Selecting THEN "approved" ELSE "pending"
               menu == IF Selecting THEN w.found ELSE << >>
    <2>4. prompt' = [NoPrompt EXCEPT !.st = st, !.menu = menu]
      BY <1>3 DEF Ask
    <2>5. st \in {"approved", "pending"} /\ menu \in Seq(Nat)
      BY <1>0 DEF WorkerType
    <2> HIDE DEF st, menu
    <2>6. prompt' \in PromptType
      BY <2>4, <2>5, RestingValues DEF PromptType
    <2>8. w.kind = "make" => w.pc \in {"exclude", "ask", "wait"}
      BY <1>0
    <2> QED BY <1>0, <2>2, <2>3, <2>6, <2>8, MoveKeeps
  <1> QED
    BY <1>1, <1>2, <1>3

\* The handler goes on with the answer.
LEMMA ResumeKeeps == ASSUME StoreInv, Resume PROVE StoreInv'
  <1>0. /\ UNCHANGED <<recs, disk, pinf, queue, gate, u, used, kept, dead>>
        /\ gate \in BOOLEAN /\ prompt \in PromptType /\ w \in WorkerType /\ w.pc = "wait"
        /\ (u # UiIdle => gate) /\ (~w.up => ~w.pick)
    BY DEF Resume, StoreInv, StoreTypes, GateInv, AssertInv
  <1>1. prompt' \in PromptType
    <2>1. CASE Selecting
      <3>1. prompt' = [prompt EXCEPT !.menu = << >>] /\ << >> \in Seq(Nat)
        BY <2>1 DEF Resume
      <3> QED BY <1>0, <3>1 DEF PromptType
    <2>2. CASE ~Selecting
      BY <2>2, RestingValues DEF Resume
    <2> QED BY <2>1, <2>2
  <1>2. PICK yes \in {FALSE, prompt.st = "approved"} :
          IF w.kind = "token" THEN w' = [w EXCEPT !.pc = "retake", !.ok = yes]
          ELSE IF yes /\ ~(w.kind = "make" /\ w.at = 1) THEN w' = [w EXCEPT !.pc = "take"]
          ELSE Quit
    BY DEF Resume
  <1>3. yes \in BOOLEAN
    OBVIOUS
  <1>4. CASE w.kind = "token"
    <2>1. w' = [w EXCEPT !.pc = "retake", !.ok = yes]
      BY <1>2, <1>4
    <2>2. Moved /\ w'.pc = "retake" /\ w'.pick = w.pick
      BY <1>0, <1>3, <2>1 DEF Moved, WorkerType, WorkerPcs
    <2>3. KindInv' /\ w'.up = w.up
      BY <1>4, <2>2 DEF KindInv, Moved
    <2> QED BY <1>0, <1>1, <1>4, <2>2, <2>3, MoveKeeps
  <1>5. CASE w.kind # "token" /\ w' = [w EXCEPT !.pc = "take"]
    <2>2. Moved /\ w'.pc = "take" /\ w'.pick = w.pick
      BY <1>0, <1>5 DEF Moved, WorkerType, WorkerPcs
    <2>3. KindInv' /\ w'.up = w.up
      BY <1>0, <1>5, <2>2 DEF StoreInv, KindInv, Moved
    <2>4. w.kind = "make" => w.pc \in {"exclude", "ask", "wait"}
      BY <1>0
    <2> QED BY <1>0, <1>1, <2>2, <2>3, <2>4, MoveKeeps
  <1>6. CASE w.kind # "token" /\ Quit
    BY <1>0, <1>1, <1>6, QuitKeeps DEF Quit
  <1> QED
    BY <1>2, <1>4, <1>5, <1>6

\* Only the prompt changes.
LEMMA PromptKeeps ==
  ASSUME StoreInv, prompt' \in PromptType,
         UNCHANGED <<recs, disk, pinf, queue, gate, w, u, used, kept, dead>>
  PROVE  StoreInv'
  <1>1. StoreTypes' /\ KindInv' /\ GateInv' /\ MakingInv' /\ ReplacingInv'
    BY DEF StoreInv, StoreTypes, KindInv, GateInv, MakingInv, ReplacingInv, Making, Leaving
  <1>2. DeletingInv' /\ DiskInv' /\ QueueInv' /\ AssertInv' /\ ReplyInv'
    BY DEF StoreInv, DeletingInv, DiskInv, QueueInv, Moving, AssertInv, ReplyInv
  <1> QED
    BY <1>1, <1>2 DEF StoreInv

\* The user approves or chooses an account.
LEMMA AnswerKeeps == ASSUME StoreInv, Answer PROVE StoreInv'
  <1>0. /\ UNCHANGED <<recs, disk, pinf, queue, gate, w, u, used, kept, dead>>
        /\ prompt \in PromptType /\ recs \in Seq(Cred)
    BY DEF Answer, StoreInv, StoreTypes
  <1>1. CASE prompt.menu = << >>
    <2>1. prompt' = [prompt EXCEPT !.st = "approved"]
      BY <1>1 DEF Answer
    <2>2. prompt' \in PromptType
      BY <1>0, <2>1 DEF PromptType
    <2> QED BY <1>0, <2>2, PromptKeeps
  <1>2. CASE prompt.menu # << >>
    <2>1. PICK m \in DOMAIN prompt.menu :
            /\ prompt.menu[m] \in DOMAIN recs
            /\ prompt' = [prompt EXCEPT !.st = "approved", !.sel = prompt.menu[m],
                                        !.chosen = recs[prompt.menu[m]]]
      BY <1>2 DEF Answer
    <2> DEFINE i == prompt.menu[m]
    <2>2. i \in Nat /\ recs[i] \in Cred
      BY <1>0, <2>1, SeqElements DEF PromptType
    <2>3. prompt' = [prompt EXCEPT !.st = "approved", !.sel = i, !.chosen = recs[i]]
      BY <2>1
    <2> HIDE DEF i
    <2>4. prompt' \in PromptType
      BY <1>0, <2>2, <2>3 DEF PromptType
    <2> QED BY <1>0, <2>4, PromptKeeps
  <1> QED
    BY <1>1, <1>2

\* The prompt is denied, expires or is cancelled.
LEMMA DeclineKeeps == ASSUME StoreInv, Decline PROVE StoreInv'
  <1>1. /\ UNCHANGED <<recs, disk, pinf, queue, gate, w, u, used, kept, dead>>
        /\ prompt' \in PromptType
    BY DEF Decline, StoreInv, StoreTypes, PromptType
  <1> QED
    BY <1>1, PromptKeeps

\* A token request gives the gate away.
LEMMA ConsentKeeps == ASSUME StoreInv, Consent PROVE StoreInv'
  <1>0. /\ UNCHANGED <<recs, disk, pinf, queue, prompt, u, used, kept, dead>> /\ gate' = FALSE
        /\ prompt \in PromptType /\ w \in WorkerType /\ u = UiIdle
        /\ w' = [w EXCEPT !.pc = "ask"] /\ w.pc = "consent" /\ (~w.up => ~w.pick)
    BY DEF Consent, StoreInv, StoreTypes, GateInv, Gated, Inside, Leaving, AssertInv
  <1>1. w.kind = "token"
    BY <1>0 DEF StoreInv, KindInv, WorkerType, Kind
  <1>2. Moved /\ w'.pc = "ask" /\ w'.pick = w.pick
    BY <1>0 DEF Moved, WorkerType, WorkerPcs
  <1>3. KindInv' /\ w'.up = w.up
    BY <1>1, <1>2 DEF KindInv, Moved
  <1> QED
    BY <1>0, <1>1, <1>2, <1>3, MoveKeeps

\* A ClientPIN command without consent.
LEMMA NoConsentKeeps == ASSUME StoreInv, NoConsent PROVE StoreInv'
  <1>0. /\ UNCHANGED <<recs, disk, pinf, queue, gate, prompt, u, used, kept, dead>>
        /\ w \in WorkerType /\ u = UiIdle /\ gate /\ w.pc = "consent" /\ used \in Bounds
        /\ Done(TRUE) /\ gate \in BOOLEAN
    BY DEF NoConsent, StoreInv, StoreTypes, GateInv, Gated, Inside, Leaving
  <1>1. w.kind = "token"
    BY <1>0 DEF StoreInv, KindInv, WorkerType, Kind
  <1>2. Answered(TRUE) /\ Counted
    BY <1>0, DoneFields, Counting DEF Fine
  <1>3. queue' \in QueueType /\ QueueInv'
    BY <1>0, QueueOrNone
  <1>4. gate' = TRUE
    BY <1>0
  <1> QED
    BY <1>0, <1>1, <1>2, <1>3, <1>4, DoneKeeps

\* A token request takes the gate back, or leaves it to a deletion.
LEMMA RetakeKeeps == ASSUME StoreInv, Retake PROVE StoreInv'
  <1>0. /\ UNCHANGED <<recs, disk, pinf, queue, prompt, u, used, kept, dead>>
        /\ w \in WorkerType /\ gate' = TRUE /\ w.pc = "retake" /\ used \in Bounds
        /\ gate \in BOOLEAN
    BY DEF Retake, StoreInv, StoreTypes
  <1>1. w.kind = "token"
    BY <1>0 DEF StoreInv, KindInv, WorkerType, Kind
  <1> DEFINE good == w.ok /\ ~gate
  <1>3. good \in BOOLEAN /\ Done(good)
    BY DEF Retake
  <1> HIDE DEF good
  <1>4. Answered(good) /\ Counted
    BY <1>0, <1>3, DoneFields, Counting DEF Fine
  <1>5. queue' \in QueueType /\ QueueInv'
    BY <1>0, QueueOrNone
  <1> QED
    BY <1>0, <1>1, <1>3, <1>4, <1>5, DoneKeeps

\* The gate is taken by the screen.
LEMMA BusyKeeps == ASSUME StoreInv, Busy PROVE StoreInv'
  <1>0. /\ UNCHANGED <<recs, disk, pinf, queue, gate, prompt, u, used, kept, dead>> /\ w' = Idle
        /\ gate \in BOOLEAN /\ prompt \in PromptType /\ gate
    BY DEF Busy, Quit, StoreInv, StoreTypes
  <1> QED
    BY <1>0, QuitKeeps

\* The gate is released, and no deletion is at work.
LEMMA ReleaseKeeps == ASSUME StoreInv, Release, ~torn' PROVE StoreInv'
  <1>0. /\ UNCHANGED <<recs, disk, pinf, queue, u, used, kept, dead>> /\ w' = Idle
        /\ gate' = FALSE /\ prompt' \in PromptType /\ u = UiIdle
    BY RestingValues DEF Release
  <1> QED
    BY <1>0, QuitKeeps

\* The queue's time is over.
LEMMA ExpireKeeps == ASSUME StoreInv, Expire PROVE StoreInv'
  <1>0. /\ UNCHANGED <<recs, disk, pinf, gate, prompt, w, u, used, kept, dead>>
        /\ queue \in QueueType /\ queue' = [queue EXCEPT !.fresh = FALSE]
    BY DEF Expire, StoreInv, StoreTypes
  <1>1. /\ queue' \in QueueType /\ queue'.on = queue.on /\ queue'.i = queue.i
        /\ queue'.list = queue.list /\ queue'.meant = queue.meant /\ queue'.uv = queue.uv
    BY <1>0 DEF QueueType
  <1>2. StoreTypes' /\ KindInv' /\ GateInv' /\ MakingInv' /\ ReplacingInv'
    BY <1>0, <1>1 DEF StoreInv, StoreTypes, KindInv, GateInv, MakingInv, ReplacingInv, Making,
                      Leaving
  <1>3. DeletingInv' /\ DiskInv' /\ QueueInv' /\ AssertInv' /\ ReplyInv'
    BY <1>0, <1>1 DEF StoreInv, DeletingInv, DiskInv, QueueInv, Moving, AssertInv, ReplyInv
  <1> QED
    BY <1>2, <1>3 DEF StoreInv

-----------------------------------------------------------------------------
(* Under the gate                                                          *)

\* What remains to be shown of a step that ends under the gate.
LEMMA GatedKeeps ==
  ASSUME StoreInv, w' \in WorkerType, w'.pc \in Gated, KindInv', gate' = TRUE, u' = UiIdle,
         used' \in Bounds, prompt' \in PromptType, queue' \in QueueType, recs' \in Seq(Cred),
         IsInjective(recs'), disk' \subseteq Cred, dead' \subseteq Cred,
         MakingInv', ReplacingInv', DiskInv', QueueInv', AssertInv', ReplyInv'
  PROVE  StoreInv'
  <1>1. StoreTypes'
    BY RestingValues DEF StoreTypes
  <1>2. GateInv'
    BY DEF GateInv, Gated, Inside
  <1>3. DeletingInv'
    BY RestingValues DEF DeletingInv
  <1> QED
    BY <1>1, <1>2, <1>3 DEF StoreInv

\* What is known while a handler holds the gate.
LEMMA UnderGate ==
  ASSUME StoreInv, w.pc \in Inside \/ (w.pc = "take" /\ ~gate) \/ (w.pc = "next" /\ ~gate)
  PROVE  /\ u = UiIdle /\ u.pc = "idle" /\ u.c = 0 /\ ~Moving
         /\ recs \in Seq(Cred) /\ IsInjective(recs) /\ disk \subseteq Cred /\ dead \subseteq Cred
         /\ w \in WorkerType /\ used \in Bounds /\ prompt \in PromptType /\ queue \in QueueType
         /\ kept \subseteq disk /\ dead \cap disk = {}
         /\ w.pc \in Inside => gate
  <1>1. u = UiIdle /\ (w.pc \in Inside => gate)
    BY FreeGate DEF StoreInv, GateInv, Gated, Inside, Leaving
  <1>2. u.pc = "idle" /\ u.c = 0 /\ ~Moving
    BY <1>1, RestingValues DEF Moving
  <1> QED
    BY <1>1, <1>2 DEF StoreInv, StoreTypes, DeletingInv, DiskInv

\* The entries to be replaced are found, and the room for the new one.
LEMMA MakeBeginKeeps == ASSUME StoreInv, MakeBegin PROVE StoreInv'
  <1>0. /\ w.pc = "take" /\ w.kind = "make" /\ ~gate /\ gate' = TRUE
        /\ UNCHANGED <<recs, disk, pinf, queue, prompt, u, used, kept, dead>>
    BY DEF MakeBegin
  <1>1. /\ u = UiIdle /\ u.pc = "idle" /\ ~Moving
        /\ recs \in Seq(Cred) /\ IsInjective(recs) /\ disk \subseteq Cred /\ dead \subseteq Cred
        /\ w \in WorkerType /\ used \in Bounds /\ prompt \in PromptType /\ queue \in QueueType
    BY <1>0, UnderGate
  <1>2. /\ w.c \in Cred /\ w.c \notin Range(recs) \cup kept \cup dead /\ w.c # u.c
        /\ w.c \notin disk /\ (~w.up => ~w.pick)
    BY <1>0 DEF StoreInv, MakingInv, Making, AssertInv
  <1>3. queue' \in QueueType /\ QueueInv' /\ Counted
    BY <1>0, <1>1, QueueOrNone, Counting DEF Fine
  <1>4. PICK gone \in Replaced(w.c) :
          IF Len(recs) - Len(gone) < Capacity
          THEN w' = [w EXCEPT !.pc = "write", !.found = gone, !.at = 1]
          ELSE Done(FALSE)
    BY DEF MakeBegin
  <1>5. CASE Len(recs) - Len(gone) < Capacity
    <2>1. /\ gone \in Seq(Nat) /\ IsInjective(gone)
          /\ \A k \in DOMAIN gone : gone[k] \in DOMAIN recs /\ SameUser(w.c, recs[gone[k]])
      BY <1>1, ReplacedList, Zenon
    <2>2. w' = [w EXCEPT !.pc = "write", !.found = gone, !.at = 1] /\ "write" \in WorkerPcs
      BY <1>4, <1>5 DEF WorkerPcs, Gated, Inside
    <2>3. /\ w' \in WorkerType /\ w'.pc = "write" /\ w'.kind = "make" /\ w'.c = w.c
          /\ w'.up = w.up /\ w'.pick = w.pick /\ w'.found = gone /\ w'.at = 1
      BY <1>0, <1>1, <2>1, <2>2 DEF WorkerType
    <2>4. KindInv' /\ ReplyInv' /\ w'.pc \in Gated
      BY <2>3 DEF KindInv, ReplyInv, Gated, Inside
    <2>5. MakingInv' /\ DiskInv' /\ AssertInv'
      BY <1>0, <1>2, <2>3 DEF StoreInv, MakingInv, Making, DiskInv, AssertInv
    <2>6. ReplacingInv'
      <3>1. Len(gone) \in Nat
        BY <2>1, SeqElements, Zenon
      <3>2. 1 \in 1..(Len(gone) + 1)
        BY <3>1
      <3> QED BY <1>0, <1>5, <2>1, <2>3, <3>2 DEF ReplacingInv
    <2> QED BY <1>0, <1>1, <1>3, <2>3, <2>4, <2>5, <2>6, GatedKeeps
  <1>6. CASE ~(Len(recs) - Len(gone) < Capacity)
    <2>1. Answered(FALSE)
      BY <1>1, <1>4, <1>6, DoneFields
    <2> QED BY <1>0, <1>1, <1>2, <1>3, <2>1, DoneKeeps
  <1> QED
    BY <1>5, <1>6

\* The matches are resolved again under the gate.
LEMMA AssertBeginKeeps == ASSUME StoreInv, AssertBegin PROVE StoreInv'
  <1>0. /\ w.pc = "take" /\ w.kind = "assert" /\ ~gate /\ gate' = TRUE
        /\ UNCHANGED <<recs, disk, pinf, queue, prompt, u, used, kept, dead>>
    BY DEF AssertBegin
  <1>1. /\ u = UiIdle /\ u.pc = "idle" /\ ~Moving
        /\ recs \in Seq(Cred) /\ IsInjective(recs) /\ disk \subseteq Cred /\ dead \subseteq Cred
        /\ w \in WorkerType /\ used \in Bounds /\ prompt \in PromptType /\ queue \in QueueType
    BY <1>0, UnderGate
  <1>3. queue' \in QueueType /\ QueueInv' /\ Counted
    BY <1>0, <1>1, QueueOrNone, Counting DEF Fine
  <1>4. PICK found \in IF Selecting THEN {w.found} ELSE Matches(w.list, w.uv) :
          IF found = << >> THEN Done(FALSE)
          ELSE w' = [w EXCEPT !.pc = "load", !.found = found,
                              !.at = IF Selecting THEN prompt.sel ELSE found[1]]
    BY DEF AssertBegin
  <1>5. CASE found = << >>
    <2>1. Answered(FALSE)
      BY <1>1, <1>4, <1>5, DoneFields
    <2> QED BY <1>0, <1>1, <1>3, <2>1, DoneKeeps
  <1>6. CASE found # << >>
    <2> DEFINE a == IF Selecting THEN prompt.sel ELSE found[1]
    <2>1. w' = [w EXCEPT !.pc = "load", !.found = found, !.at = a] /\ "load" \in WorkerPcs
      BY <1>4, <1>6 DEF WorkerPcs, Gated, Inside
    <2>2. /\ found \in Seq(Nat)
          /\ ~w.pick => \A k \in DOMAIN found : /\ found[k] \in DOMAIN recs
                                                /\ Visible(recs[found[k]], w.uv)
      <3>1. CASE Selecting
        <4>1. found = w.found
          BY <1>4, <3>1
        <4> QED BY <1>1, <3>1, <4>1 DEF WorkerType, Selecting
      <3>2. CASE ~Selecting
        <4>1. found \in Matches(w.list, w.uv)
          BY <1>4, <3>2
        <4> QED BY <1>1, <4>1, MatchesList, Zenon
      <3> QED BY <3>1, <3>2
    <2>3. 1 \in DOMAIN found
      BY <1>6, <2>2
    <2>4. a \in Nat /\ (~w.pick => a = found[1])
      BY <1>1, <2>2, <2>3, SeqElements DEF Selecting, PromptType
    <2> HIDE DEF a
    <2>5. /\ w' \in WorkerType /\ w'.pc = "load" /\ w'.kind = "assert" /\ w'.c = w.c
          /\ w'.up = w.up /\ w'.pick = w.pick /\ w'.found = found /\ w'.at = a /\ w'.uv = w.uv
      BY <1>0, <1>1, <2>1, <2>2, <2>4 DEF WorkerType
    <2>6. KindInv' /\ ReplyInv' /\ w'.pc \in Gated
      BY <2>5 DEF KindInv, ReplyInv, Gated, Inside
    <2>7. MakingInv' /\ DiskInv' /\ ReplacingInv'
      BY <1>0, <2>5 DEF StoreInv, MakingInv, Making, DiskInv, ReplacingInv
    <2>8. AssertInv'
      <3>1. ~w.pick => a \in DOMAIN recs /\ Visible(recs[a], w.uv)
        BY <2>2, <2>3, <2>4
      <3> QED BY <1>0, <2>2, <2>5, <3>1 DEF StoreInv, AssertInv
    <2> QED BY <1>0, <1>1, <1>3, <2>5, <2>6, <2>7, <2>8, GatedKeeps
  <1> QED
    BY <1>5, <1>6

\* The reset drops the queue; nothing is kept from here on.
LEMMA ResetBeginKeeps == ASSUME StoreInv, ResetBegin PROVE StoreInv'
  <1>0. /\ w.pc = "take" /\ w.kind = "reset" /\ ~gate /\ gate' = TRUE
        /\ w' = [w EXCEPT !.pc = "wipe"] /\ kept' = {} /\ queue' = NoQueue
        /\ UNCHANGED <<recs, disk, pinf, prompt, u, used, dead>>
    BY DEF ResetBegin
  <1>1. /\ u = UiIdle /\ u.pc = "idle" /\ ~Moving
        /\ recs \in Seq(Cred) /\ IsInjective(recs) /\ disk \subseteq Cred /\ dead \subseteq Cred
        /\ w \in WorkerType /\ used \in Bounds /\ prompt \in PromptType
    BY <1>0, UnderGate
  <1>2. queue' \in QueueType /\ ~queue'.on /\ QueueInv' /\ "wipe" \in WorkerPcs
    BY <1>0, RestingValues DEF QueueInv, WorkerPcs, Gated, Inside
  <1>3. /\ w' \in WorkerType /\ w'.pc = "wipe" /\ w'.kind = "reset" /\ w'.c = w.c
        /\ w'.up = w.up /\ w'.pick = w.pick
    BY <1>0, <1>1, <1>2 DEF WorkerType
  <1>4. KindInv' /\ ReplyInv' /\ w'.pc \in Gated
    BY <1>3 DEF KindInv, ReplyInv, Gated, Inside
  <1>5. MakingInv' /\ DiskInv' /\ ReplacingInv' /\ AssertInv'
    BY <1>0, <1>2, <1>3 DEF StoreInv, MakingInv, Making, DiskInv, ReplacingInv, AssertInv
  <1> QED
    BY <1>0, <1>1, <1>2, <1>3, <1>4, <1>5, GatedKeeps

-----------------------------------------------------------------------------
(* makeCredential                                                          *)

\* What is known while a credential is being stored.
LEMMA UnderMake ==
  ASSUME StoreInv, w.pc \in {"write", "replace", "undo"}
  PROVE  /\ u = UiIdle /\ u.pc = "idle" /\ u.c = 0 /\ ~Moving /\ gate
         /\ recs \in Seq(Cred) /\ IsInjective(recs) /\ disk \subseteq Cred /\ dead \subseteq Cred
         /\ w \in WorkerType /\ used \in Bounds /\ prompt \in PromptType /\ queue \in QueueType
         /\ kept \subseteq disk /\ dead \cap disk = {}
         /\ w.kind = "make" /\ w.c \in Cred /\ w.c \notin Range(recs) \cup kept \cup dead
         /\ w.c # 0 /\ (~w.up => ~w.pick)
         /\ w.at \in Nat /\ w.found \in Seq(Nat)
  <1>1. w.pc \in Inside
    BY DEF Inside
  <1>2. w.kind = "make" /\ w.at \in Nat /\ w.found \in Seq(Nat)
    BY DEF StoreInv, StoreTypes, KindInv, WorkerType, Kind
  <1>3. w.c \in Cred /\ w.c \notin Range(recs) \cup kept \cup dead /\ w.c # 0
    BY <1>2 DEF StoreInv, MakingInv, Making, Cred
  <1>4. ~w.up => ~w.pick
    BY DEF StoreInv, AssertInv
  <1> QED
    BY <1>1, <1>2, <1>3, <1>4, UnderGate

\* The new record is written, or its write fails.
LEMMA WriteRecordKeeps == ASSUME StoreInv, WriteRecord PROVE StoreInv'
  <1>0. /\ w.pc = "write" /\ UNCHANGED <<recs, pinf, queue, gate, prompt, u, kept, dead>>
        /\ w.c \notin disk
    BY DEF WriteRecord, StoreInv, MakingInv, Making, StoreTypes, KindInv, WorkerType, Kind
  <1>1. /\ u = UiIdle /\ u.c = 0 /\ gate
        /\ recs \in Seq(Cred) /\ IsInjective(recs) /\ disk \subseteq Cred /\ dead \subseteq Cred
        /\ w \in WorkerType /\ used \in Bounds /\ prompt \in PromptType /\ queue \in QueueType
        /\ w.kind = "make" /\ w.c \in Cred /\ w.c \notin Range(recs) \cup kept \cup dead
        /\ w.c # 0 /\ (~w.up => ~w.pick)
    BY <1>0, UnderMake
  <1>2. queue' \in QueueType /\ QueueInv' /\ gate' = TRUE
    BY <1>0, <1>1, QueueOrNone DEF StoreInv, StoreTypes
  <1>3. CASE Fine /\ disk' = disk \cup {w.c} /\ w' = [w EXCEPT !.pc = "replace"]
    <2>1. used' \in Bounds /\ "replace" \in WorkerPcs
      BY <1>1, <1>3 DEF Fine, WorkerPcs, Gated, Inside
    <2>2. /\ w' \in WorkerType /\ w'.pc = "replace" /\ w'.kind = "make" /\ w'.c = w.c
          /\ w'.up = w.up /\ w'.pick = w.pick /\ w'.found = w.found /\ w'.at = w.at
      BY <1>1, <1>3, <2>1 DEF WorkerType
    <2>3. KindInv' /\ ReplyInv' /\ w'.pc \in Gated
      BY <2>2 DEF KindInv, ReplyInv, Gated, Inside
    <2>4. MakingInv' /\ AssertInv' /\ ReplacingInv'
      BY <1>0, <1>1, <1>3, <2>2 DEF StoreInv, MakingInv, Making, AssertInv, ReplacingInv
    <2>5. DiskInv' /\ disk' \subseteq Cred
      BY <1>0, <1>1, <1>3, <2>2 DEF StoreInv, DiskInv
    <2> QED BY <1>0, <1>1, <1>2, <2>1, <2>2, <2>3, <2>4, <2>5, GatedKeeps
  <1>4. CASE Fault /\ Done(FALSE) /\ UNCHANGED disk
    <2>1. Answered(FALSE) /\ Counted
      BY <1>1, <1>4, DoneFields, Counting
    <2>2. w.pc # "idle" /\ w.kind # "reset"
      BY <1>0, <1>1
    <2> QED BY <1>0, <1>1, <1>2, <1>4, <2>1, <2>2, DoneKeeps
  <1> QED
    BY <1>3, <1>4 DEF WriteRecord

\* A replaced record is removed: it belongs to the account of the new one.
LEMMA RemoveReplacedKeeps == ASSUME StoreInv, RemoveReplaced PROVE StoreInv'
  <1>0. /\ w.pc = "replace" /\ UNCHANGED <<recs, pinf, queue, gate, prompt, u>>
        /\ w.at <= Len(w.found) /\ w.c \in disk
    BY DEF RemoveReplaced, StoreInv, MakingInv
  <1>1. /\ u = UiIdle /\ u.c = 0 /\ gate
        /\ recs \in Seq(Cred) /\ IsInjective(recs) /\ disk \subseteq Cred /\ dead \subseteq Cred
        /\ w \in WorkerType /\ used \in Bounds /\ prompt \in PromptType /\ queue \in QueueType
        /\ kept \subseteq disk /\ dead \cap disk = {}
        /\ w.kind = "make" /\ w.c \in Cred /\ w.c \notin Range(recs) \cup kept \cup dead
        /\ w.c # 0 /\ (~w.up => ~w.pick) /\ w.at \in Nat /\ w.found \in Seq(Nat)
    BY <1>0, UnderMake
  <1>2. queue' \in QueueType /\ QueueInv' /\ gate' = TRUE
    BY <1>0, <1>1, QueueOrNone DEF StoreInv, StoreTypes
  <1> DEFINE i == w.found[w.at]
             d == recs[i]
  <1>3. i \in DOMAIN recs /\ SameUser(w.c, d)
    <2>1. /\ w.at \in 1..(Len(w.found) + 1)
          /\ \A k \in DOMAIN w.found : /\ w.found[k] \in DOMAIN recs
                                       /\ SameUser(w.c, recs[w.found[k]])
      BY <1>0 DEF StoreInv, ReplacingInv
    <2>2. w.at \in DOMAIN w.found
      BY <1>0, <1>1, <2>1
    <2> QED BY <2>1, <2>2
  <1>4. /\ kept' = kept \ {d}
        /\ \/ /\ Fine /\ disk' = disk \ {d} /\ dead' = dead \cup {d}
              /\ w' = [w EXCEPT !.at = @ + 1]
           \/ /\ Fault /\ disk' \in {disk, disk \ {d}} /\ UNCHANGED dead
              /\ w' = [w EXCEPT !.pc = "undo"]
    BY <1>3 DEF RemoveReplaced
  <1>5. d \in Cred /\ d \in Range(recs) /\ d # w.c
    BY <1>1, <1>3, SeqElements DEF Range
  <1> HIDE DEF i, d
  <1>6. CASE /\ Fine /\ disk' = disk \ {d} /\ dead' = dead \cup {d}
             /\ w' = [w EXCEPT !.at = @ + 1]
    <2>1. used' \in Bounds
      BY <1>1, <1>6 DEF Fine
    <2>2. /\ w' \in WorkerType /\ w'.pc = "replace" /\ w'.kind = "make" /\ w'.c = w.c
          /\ w'.up = w.up /\ w'.pick = w.pick /\ w'.found = w.found /\ w'.at = w.at + 1
      BY <1>0, <1>1, <1>6 DEF WorkerType
    <2>3. KindInv' /\ ReplyInv' /\ w'.pc \in Gated
      BY <2>2 DEF KindInv, ReplyInv, Gated, Inside
    <2>4. MakingInv' /\ AssertInv'
      BY <1>0, <1>1, <1>4, <1>5, <1>6, <2>2 DEF MakingInv, Making, AssertInv
    <2>5. DiskInv' /\ disk' \subseteq Cred /\ dead' \subseteq Cred
      BY <1>0, <1>1, <1>4, <1>5, <1>6, <2>2 DEF DiskInv
    <2>6. ReplacingInv'
      <3>1. Len(w.found) \in Nat
        BY <1>1, SeqElements, Zenon
      <3>2. w.at + 1 \in 1..(Len(w.found) + 1)
        BY <1>0, <1>1, <3>1
      <3> QED BY <1>0, <2>2, <3>2 DEF StoreInv, ReplacingInv
    <2> QED BY <1>0, <1>1, <1>2, <2>1, <2>2, <2>3, <2>4, <2>5, <2>6, GatedKeeps
  <1>7. CASE /\ Fault /\ disk' \in {disk, disk \ {d}} /\ UNCHANGED dead
             /\ w' = [w EXCEPT !.pc = "undo"]
    <2>1. used' \in Bounds /\ used'.fault >= 1 /\ "undo" \in WorkerPcs
      BY <1>1, <1>7, Counting DEF Counted, WorkerPcs, Gated, Inside
    <2>2. /\ w' \in WorkerType /\ w'.pc = "undo" /\ w'.kind = "make" /\ w'.c = w.c
          /\ w'.up = w.up /\ w'.pick = w.pick /\ w'.found = w.found /\ w'.at = w.at
      BY <1>1, <1>7, <2>1 DEF WorkerType
    <2>3. KindInv' /\ ReplyInv' /\ w'.pc \in Gated
      BY <2>2 DEF KindInv, ReplyInv, Gated, Inside
    <2>4. MakingInv' /\ AssertInv'
      BY <1>0, <1>1, <1>4, <1>7, <2>1, <2>2 DEF MakingInv, Making, AssertInv
    <2>5. DiskInv' /\ disk' \subseteq Cred /\ dead' \subseteq Cred
      BY <1>0, <1>1, <1>4, <1>7, <2>2 DEF DiskInv
    <2>6. ReplacingInv'
      BY <1>0, <2>2 DEF StoreInv, ReplacingInv
    <2> QED BY <1>0, <1>1, <1>2, <2>1, <2>2, <2>3, <2>4, <2>5, <2>6, GatedKeeps
  <1> QED
    BY <1>4, <1>6, <1>7

\* A failed makeCredential: what was removed is published.
LEMMA UndoKeeps == ASSUME StoreInv, Undo PROVE StoreInv'
  <1>0. /\ w.pc = "undo" /\ UNCHANGED <<pinf, gate, prompt, u, kept, dead>> /\ Done(FALSE)
        /\ used.fault >= 1
    BY DEF Undo, StoreInv, MakingInv
  <1>1. /\ u = UiIdle /\ u.c = 0 /\ gate
        /\ recs \in Seq(Cred) /\ IsInjective(recs) /\ disk \subseteq Cred /\ dead \subseteq Cred
        /\ w \in WorkerType /\ used \in Bounds /\ prompt \in PromptType /\ queue \in QueueType
        /\ kept \subseteq disk /\ dead \cap disk = {}
        /\ w.kind = "make" /\ w.c \in Cred /\ w.c \notin Range(recs) \cup kept \cup dead
        /\ w.c # 0 /\ (~w.up => ~w.pick)
    BY <1>0, UnderMake
  <1>2. /\ w' \in WorkerType /\ w'.pc = "release" /\ w'.ok = FALSE
        /\ w'.kind = "make" /\ w'.c = w.c /\ w'.up = w.up /\ w'.pick = w.pick
    BY <1>0, <1>1, DoneFields DEF Answered
  <1>3. recs' \in Seq(Cred) /\ IsInjective(recs') /\ queue' \in QueueType /\ QueueInv'
    <2>1. CASE w.at > 1
      <3>1. recs' \in Without(RemovedSoFar) /\ queue' = NoQueue
        BY <2>1 DEF Undo
      <3>2. recs' \in Seq(Cred) /\ IsInjective(recs')
        BY <1>1, <3>1, WithoutList, Zenon
      <3> QED BY <3>1, <3>2, RestingValues DEF QueueInv
    <2>2. CASE ~(w.at > 1)
      <3>1. UNCHANGED <<recs, queue, u>>
        BY <1>0, <2>2 DEF Undo
      <3> QED BY <1>1, <3>1, QueueOrNone
    <2> QED BY <2>1, <2>2
  <1>4. /\ used' \in Bounds /\ disk' \in {disk, disk \ {w.c}}
        /\ used'.fault <= 1 => w.c \notin disk'
    <2>1. CASE Fine /\ disk' = disk \ {w.c}
      BY <1>1, <2>1 DEF Fine
    <2>2. CASE Fault /\ disk' \in {disk, disk \ {w.c}}
      BY <1>0, <1>1, <2>2, Counting DEF Counted, Bounds
    <2> QED BY <2>1, <2>2 DEF Undo
  <1>5. KindInv' /\ ReplyInv' /\ w'.pc \in Gated
    BY <1>2, <1>4 DEF KindInv, ReplyInv, Gated, Inside
  <1>6. MakingInv' /\ AssertInv' /\ ReplacingInv'
    BY <1>1, <1>2 DEF MakingInv, Making, AssertInv, ReplacingInv
  <1>7. DiskInv' /\ disk' \subseteq Cred /\ gate' = TRUE
    BY <1>0, <1>1, <1>2, <1>4 DEF DiskInv, StoreInv, StoreTypes
  <1> QED
    BY <1>0, <1>1, <1>2, <1>3, <1>4, <1>5, <1>6, <1>7, GatedKeeps

\* The new credential is published; there is room for it.
LEMMA PublishKeeps == ASSUME StoreInv, Publish PROVE StoreInv'
  <1>0. /\ w.pc = "replace" /\ UNCHANGED <<pinf, gate, prompt, u, used, dead>>
        /\ w.at > Len(w.found) /\ w.c \in disk
    BY DEF Publish, StoreInv, MakingInv
  <1>1. /\ u = UiIdle /\ u.c = 0 /\ gate
        /\ recs \in Seq(Cred) /\ IsInjective(recs) /\ disk \subseteq Cred /\ dead \subseteq Cred
        /\ w \in WorkerType /\ used \in Bounds /\ prompt \in PromptType /\ queue \in QueueType
        /\ kept \subseteq disk /\ dead \cap disk = {}
        /\ w.kind = "make" /\ w.c \in Cred /\ w.c \notin Range(recs) \cup kept \cup dead
        /\ w.c # 0 /\ (~w.up => ~w.pick) /\ w.at \in Nat /\ w.found \in Seq(Nat)
    BY <1>0, UnderMake
  <1>2. /\ w.at \in 1..(Len(w.found) + 1) /\ IsInjective(w.found)
        /\ \A k \in DOMAIN w.found : w.found[k] \in DOMAIN recs
        /\ Len(recs) - Len(w.found) < Capacity
    BY <1>0 DEF StoreInv, ReplacingInv
  <1>3. RemovedSoFar = {w.found[k] : k \in 1..Len(w.found)}
    <2>1. Len(w.found) \in Nat
      BY <1>1, SeqElements, Zenon
    <2>2. w.at - 1 = Len(w.found)
      BY <1>0, <1>1, <1>2, <2>1
    <2> QED BY <2>2 DEF RemovedSoFar
  <1>4. PICK rest \in Without(RemovedSoFar) :
          IF Len(rest) < Capacity
          THEN /\ recs' = Append(rest, w.c) /\ queue' = NoQueue
               /\ kept' = kept \cup {w.c}
               /\ Done(TRUE) /\ UNCHANGED disk
          ELSE /\ recs' = rest /\ disk' = disk \ {w.c}
               /\ Done(FALSE) /\ UNCHANGED <<queue, kept>>
    BY DEF Publish
  <1>5. /\ rest \in Seq(Cred) /\ IsInjective(rest) /\ Range(rest) \subseteq Range(recs)
        /\ Len(rest) = Cardinality(DOMAIN recs \ RemovedSoFar)
    BY <1>1, WithoutList, Zenon
  <1>6. Len(rest) < Capacity
    <2>1. Cardinality(DOMAIN recs \ {w.found[k] : k \in 1..Len(w.found)})
             = Len(recs) - Len(w.found)
      BY <1>1, <1>2, RoomAfterRemoval, Zenon
    <2> QED BY <1>2, <1>3, <1>5, <2>1
  <1>7. /\ recs' = Append(rest, w.c) /\ queue' = NoQueue /\ kept' = kept \cup {w.c}
        /\ Done(TRUE) /\ UNCHANGED disk
    BY <1>4, <1>6
  <1>8. /\ w' \in WorkerType /\ w'.pc = "release" /\ w'.ok = TRUE
        /\ w'.kind = "make" /\ w'.c = w.c /\ w'.up = w.up /\ w'.pick = w.pick
    BY <1>1, <1>7, DoneFields DEF Answered
  <1>9. recs' \in Seq(Cred) /\ IsInjective(recs') /\ w.c \in Range(recs')
    <2>1. w.c \notin Range(rest)
      BY <1>1, <1>5
    <2>2. recs' = Append(rest, w.c)
      BY <1>7
    <2>3. /\ recs' \in Seq(Cred) /\ DOMAIN recs' = 1..(Len(rest) + 1)
          /\ recs'[Len(rest) + 1] = w.c
          /\ \A k \in 1..Len(rest) : recs'[k] = rest[k]
      <3>1. w.c \in Cred /\ rest \in Seq(Cred)
        BY <1>1, <1>5
      <3> DEFINE a == Append(rest, w.c)
      <3>2. /\ a \in Seq(Cred) /\ DOMAIN a = 1..(Len(rest) + 1) /\ a[Len(rest) + 1] = w.c
            /\ \A k \in 1..Len(rest) : a[k] = rest[k]
        BY <3>1, Appended
      <3>3. recs' = a
        BY <2>2
      <3> HIDE DEF a
      <3> QED BY <3>2, <3>3
    <2>4. /\ Len(rest) \in Nat /\ DOMAIN rest = 1..Len(rest)
          /\ \A k \in 1..Len(rest) : rest[k] # w.c
      BY <1>5, <2>1, SeqElements DEF Range
    <2>5. IsInjective(recs')
      <3> SUFFICES ASSUME NEW j \in 1..(Len(rest) + 1), NEW k \in 1..(Len(rest) + 1),
                          recs'[j] = recs'[k]
                   PROVE  j = k
        BY <2>3 DEF IsInjective
      <3>1. CASE j \in 1..Len(rest) /\ k \in 1..Len(rest)
        BY <1>5, <2>3, <2>4, <3>1 DEF IsInjective
      <3>2. CASE j = Len(rest) + 1 /\ k \in 1..Len(rest)
        BY <2>3, <2>4, <3>2
      <3>3. CASE k = Len(rest) + 1 /\ j \in 1..Len(rest)
        BY <2>3, <2>4, <3>3
      <3> QED BY <2>4, <3>1, <3>2, <3>3
    <2>6. w.c \in Range(recs')
      BY <2>3, <2>4 DEF Range
    <2> QED BY <2>3, <2>5, <2>6
  <1>10. queue' \in QueueType /\ QueueInv'
    BY <1>7, RestingValues DEF QueueInv
  <1>11. KindInv' /\ ReplyInv' /\ w'.pc \in Gated
    BY <1>0, <1>7, <1>8, <1>9 DEF KindInv, ReplyInv, Gated, Inside
  <1>12. MakingInv' /\ AssertInv' /\ ReplacingInv'
    BY <1>1, <1>8 DEF MakingInv, Making, AssertInv, ReplacingInv
  <1>13. DiskInv' /\ gate' = TRUE
    BY <1>0, <1>1, <1>7, <1>8 DEF DiskInv, StoreInv, StoreTypes
  <1> QED
    BY <1>0, <1>1, <1>7, <1>8, <1>9, <1>10, <1>11, <1>12, <1>13, GatedKeeps

-----------------------------------------------------------------------------
(* getAssertion and getNextAssertion                                       *)

\* An assertion request that fails, or whose queue is kept or dropped.
LEMMA AssertDoneKeeps ==
  ASSUME StoreInv, NEW good \in BOOLEAN, Done(good), Counted,
         w.pc \in {"load", "sign", "nextload", "nextsign"},
         queue' \in QueueType, QueueInv',
         UNCHANGED <<recs, disk, pinf, gate, prompt, u, kept, dead>>
  PROVE  StoreInv'
  <1>1. w.pc \in Inside /\ w.kind \in {"assert", "next"}
    BY DEF Gated, Inside, StoreInv, StoreTypes, KindInv, WorkerType, Kind
  <1>2. u = UiIdle /\ gate /\ gate \in BOOLEAN /\ w \in WorkerType
    BY <1>1, UnderGate DEF StoreInv, StoreTypes
  <1>3. Answered(good) /\ gate' = TRUE /\ w.kind # "make" /\ w.kind # "reset" /\ w.pc # "idle"
    BY <1>1, <1>2, DoneFields
  <1> QED
    BY <1>2, <1>3, DoneKeeps

\* A step of an assertion request that holds the gate.
LEMMA AssertStepKeeps ==
  ASSUME StoreInv, w.pc \in {"load", "nextload"}, used' = used,
         w' \in WorkerType, w'.pc \in {"sign", "nextsign"}, w'.kind = w.kind,
         KindInv', AssertInv',
         UNCHANGED <<recs, disk, pinf, queue, gate, prompt, u, kept, dead>>
  PROVE  StoreInv'
  <1>1. w.pc \in Inside /\ w'.pc \in Gated /\ w.kind \in {"assert", "next"}
    BY DEF Gated, Inside, StoreInv, StoreTypes, KindInv, WorkerType, Kind
  <1>2. /\ u = UiIdle /\ gate /\ recs \in Seq(Cred) /\ IsInjective(recs) /\ disk \subseteq Cred
        /\ dead \subseteq Cred /\ used \in Bounds /\ prompt \in PromptType
        /\ queue \in QueueType /\ gate' = TRUE
    BY <1>1, UnderGate DEF StoreInv, StoreTypes
  <1>3. queue' \in QueueType /\ QueueInv'
    BY QueueOrNone
  <1>4. MakingInv' /\ ReplacingInv' /\ DiskInv' /\ ReplyInv'
    BY <1>1 DEF StoreInv, MakingInv, Making, ReplacingInv, DiskInv, ReplyInv
  <1> QED
    BY <1>1, <1>2, <1>3, <1>4, GatedKeeps

\* getAssertion loads the record of its entry.
LEMMA LoadKeeps == ASSUME StoreInv, Load PROVE StoreInv'
  <1>0. /\ w.pc = "load" /\ UNCHANGED <<recs, disk, pinf, queue, gate, prompt, u, kept, dead>>
        /\ used \in Bounds /\ w \in WorkerType /\ recs \in Seq(Cred)
    BY DEF Load, StoreInv, StoreTypes
  <1>1. queue' \in QueueType /\ QueueInv'
    BY <1>0, QueueOrNone
  <1>2. CASE (Fine \/ Fault) /\ Done(FALSE)
    <2>1. Counted
      BY <1>0, <1>2, Counting
    <2> QED BY <1>0, <1>1, <1>2, <2>1, AssertDoneKeeps
  <1>3. CASE Fine /\ Loads(w.at) /\ w' = [w EXCEPT !.pc = "sign", !.c = recs[w.at]]
    <2> DEFINE c == recs[w.at]
    <2>1. /\ w.at \in DOMAIN recs /\ c \in disk /\ Attr[c].rp = Rp /\ c \in Cred
          /\ "sign" \in WorkerPcs
      BY <1>0, <1>3, SeqElements DEF Loads, WorkerPcs, Gated, Inside
    <2>2. w' = [w EXCEPT !.pc = "sign", !.c = c] /\ used' = used
      BY <1>3 DEF Fine
    <2>3. w.kind = "assert"
      BY <1>0 DEF StoreInv, KindInv, WorkerType, Kind
    <2>4. ~w.pick => Visible(c, w.uv)
      BY <1>0 DEF StoreInv, AssertInv
    <2> HIDE DEF c
    <2>5. /\ w' \in WorkerType /\ w'.pc = "sign" /\ w'.kind = "assert" /\ w'.c = c
          /\ w'.up = w.up /\ w'.pick = w.pick /\ w'.found = w.found /\ w'.at = w.at
          /\ w'.uv = w.uv
      BY <1>0, <2>1, <2>2, <2>3 DEF WorkerType
    <2>6. KindInv'
      BY <2>5 DEF KindInv
    <2>7. AssertInv'
      BY <1>0, <2>1, <2>4, <2>5 DEF StoreInv, AssertInv
    <2> QED BY <1>0, <2>2, <2>3, <2>5, <2>6, <2>7, AssertStepKeeps
  <1> QED
    BY <1>2, <1>3 DEF Load

\* The queue that a getAssertion leaves for getNextAssertion.
LEMMA SeedQueue ==
  ASSUME StoreInv, w.pc = "sign", queue' = Seed, UNCHANGED <<recs, u>>
  PROVE  queue' \in QueueType /\ QueueInv'
  <1>1. /\ w \in WorkerType /\ recs \in Seq(Cred) /\ (~w.up => ~w.pick)
        /\ ~w.pick => \A k \in DOMAIN w.found : /\ w.found[k] \in DOMAIN recs
                                                /\ Visible(recs[w.found[k]], w.uv)
    BY DEF StoreInv, StoreTypes, AssertInv
  <1>2. CASE ~Seeds
    BY <1>2, RestingValues DEF Seed, QueueInv
  <1>3. CASE Seeds
    <2> DEFINE m == [k \in DOMAIN w.found |-> EntryAt(w.found[k])]
    <2>1. queue' = [on |-> TRUE, ses |-> w.ses, uv |-> w.uv, list |-> w.found, i |-> 2,
                    fresh |-> TRUE, meant |-> m]
      BY <1>3 DEF Seed
    <2>2. /\ w.found \in Seq(Nat) /\ w.ses \in Session \cup {0} /\ w.uv \in BOOLEAN
          /\ Len(w.found) \in Nat /\ DOMAIN w.found = 1..Len(w.found) /\ Len(w.found) > 1
      BY <1>1, <1>3, SeqElements DEF WorkerType, Seeds
    <2>3. \A k \in DOMAIN w.found : /\ w.found[k] \in DOMAIN recs
                                    /\ Visible(recs[w.found[k]], w.uv)
                                    /\ recs[w.found[k]] \in Cred
                                    /\ m[k] = recs[w.found[k]]
      BY <1>1, <1>3, SeqElements DEF Seeds, EntryAt
    <2>4. DOMAIN m = 1..Len(w.found) /\ m = [k \in 1..Len(w.found) |-> m[k]]
      BY <2>2
    <2> HIDE DEF m
    <2>5. m \in Seq(Cred \cup {0})
      <3>1. \A k \in 1..Len(w.found) : m[k] \in Cred \cup {0}
        BY <2>2, <2>3
      <3>2. m \in [1..Len(w.found) -> Cred \cup {0}]
        BY <2>4, <3>1
      <3> QED BY <2>2, <3>2, MadeSeq, Zenon
    <2>6. /\ queue' \in QueueType /\ queue'.i = 2 /\ queue'.list = w.found
          /\ queue'.meant = m /\ queue'.uv = w.uv
      BY <2>1, <2>2, <2>5 DEF QueueType
    <2>7. 2 \in DOMAIN w.found
      BY <2>2
    <2>8. QueueInv'
      BY <2>3, <2>6, <2>7 DEF QueueInv
    <2> QED BY <2>6, <2>8
  <1> QED
    BY <1>2, <1>3

\* The assertion is published and the queue seeded.
LEMMA SignKeeps == ASSUME StoreInv, Sign PROVE StoreInv'
  <1>0. /\ w.pc = "sign" /\ UNCHANGED <<recs, disk, pinf, gate, prompt, u, kept, dead>>
        /\ used \in Bounds
    BY DEF Sign, StoreInv, StoreTypes
  <1>1. CASE Fine /\ StillCurrent /\ queue' = Seed /\ Done(TRUE)
    <2>1. Counted /\ queue' \in QueueType /\ QueueInv'
      BY <1>0, <1>1, Counting, SeedQueue
    <2> QED BY <1>0, <1>1, <2>1, AssertDoneKeeps
  <1>2. CASE (Fine \/ Fault) /\ Done(FALSE) /\ UNCHANGED queue
    <2>1. Counted /\ queue' \in QueueType /\ QueueInv'
      BY <1>0, <1>2, Counting, QueueOrNone
    <2> QED BY <1>0, <1>2, <2>1, AssertDoneKeeps
  <1> QED
    BY <1>1, <1>2 DEF Sign

\* getNextAssertion picks the entry of the queue.
LEMMA NextBeginKeeps == ASSUME StoreInv, NextBegin PROVE StoreInv'
  <1>0. /\ w.pc = "next" /\ UNCHANGED <<recs, disk, pinf, prompt, u, used, kept, dead>>
        /\ used \in Bounds /\ w \in WorkerType /\ recs \in Seq(Cred) /\ gate \in BOOLEAN
        /\ (u # UiIdle => gate) /\ prompt \in PromptType /\ queue \in QueueType
    BY DEF NextBegin, StoreInv, StoreTypes, GateInv
  <1>1. CASE gate /\ Quit /\ UNCHANGED <<queue, gate>>
    BY <1>0, <1>1, QuitKeeps DEF Quit
  <1>2. CASE Quit /\ queue' = NoQueue /\ UNCHANGED gate
    BY <1>0, <1>2, QuitKeeps DEF Quit
  <1>3. w.kind = "next"
    BY <1>0 DEF StoreInv, KindInv, WorkerType, Kind
  <1>4. CASE ~gate /\ gate' = TRUE /\ queue' \in {queue, NoQueue} /\ Done(FALSE)
    <2>1. queue' \in QueueType /\ QueueInv' /\ Counted /\ Answered(FALSE) /\ u = UiIdle
      BY <1>0, <1>4, QueueOrNone, Counting, DoneFields, FreeGate DEF Fine
    <2> QED BY <1>0, <1>3, <1>4, <2>1, DoneKeeps
  <1>5. CASE /\ ~gate /\ gate' = TRUE /\ queue.on /\ queue.list[queue.i] \in DOMAIN recs
             /\ w' = [w EXCEPT !.pc = "nextload", !.at = queue.list[queue.i],
                               !.c = recs[queue.list[queue.i]], !.uv = queue.uv]
             /\ UNCHANGED queue
    <2>1. /\ u = UiIdle /\ recs \in Seq(Cred) /\ IsInjective(recs) /\ disk \subseteq Cred
          /\ dead \subseteq Cred /\ ~Moving
      BY <1>0, <1>5, UnderGate
    <2>2. queue' \in QueueType /\ QueueInv'
      BY <1>0, <1>5, QueueOrNone
    <2> DEFINE i == queue.list[queue.i]
               c == recs[i]
    <2>3. /\ i \in DOMAIN recs /\ i \in Nat /\ c \in Cred /\ Visible(c, queue.uv)
          /\ queue.uv \in BOOLEAN
      BY <1>0, <1>5, <2>1, SeqElements DEF StoreInv, QueueInv, QueueType
    <2>4. /\ w' = [w EXCEPT !.pc = "nextload", !.at = i, !.c = c, !.uv = queue.uv]
          /\ "nextload" \in WorkerPcs
      BY <1>5 DEF WorkerPcs, Gated, Inside
    <2> HIDE DEF i, c
    <2>5. /\ w' \in WorkerType /\ w'.pc = "nextload" /\ w'.kind = "next" /\ w'.c = c
          /\ w'.up = w.up /\ w'.pick = w.pick /\ w'.uv = queue.uv
      BY <1>0, <1>3, <2>3, <2>4 DEF WorkerType
    <2>6. KindInv' /\ ReplyInv' /\ w'.pc \in Gated
      BY <2>5 DEF KindInv, ReplyInv, Gated, Inside
    <2>7. MakingInv' /\ ReplacingInv' /\ DiskInv'
      BY <1>0, <2>5 DEF StoreInv, MakingInv, Making, ReplacingInv, DiskInv
    <2>8. AssertInv'
      BY <1>3, <2>3, <2>5 DEF StoreInv, AssertInv
    <2> QED BY <1>0, <1>5, <2>1, <2>2, <2>5, <2>6, <2>7, <2>8, GatedKeeps
  <1> QED
    BY <1>1, <1>2, <1>4, <1>5 DEF NextBegin

\* getNextAssertion loads the record.
LEMMA NextLoadKeeps == ASSUME StoreInv, NextLoad PROVE StoreInv'
  <1>0. /\ w.pc = "nextload" /\ UNCHANGED <<recs, disk, pinf, gate, prompt, u, kept, dead>>
        /\ used \in Bounds /\ w \in WorkerType
    BY DEF NextLoad, StoreInv, StoreTypes
  <1>1. CASE Fine /\ w.c \in disk /\ Attr[w.c].rp = Rp /\ w' = [w EXCEPT !.pc = "nextsign"]
             /\ UNCHANGED queue
    <2>1. used' = used /\ "nextsign" \in WorkerPcs
      BY <1>1 DEF Fine, WorkerPcs, Gated, Inside
    <2>2. w.kind = "next"
      BY <1>0 DEF StoreInv, KindInv, WorkerType, Kind
    <2>3. /\ w' \in WorkerType /\ w'.pc = "nextsign" /\ w'.kind = "next" /\ w'.c = w.c
          /\ w'.up = w.up /\ w'.pick = w.pick /\ w'.uv = w.uv
      BY <1>0, <1>1, <2>1, <2>2 DEF WorkerType
    <2>4. KindInv'
      BY <2>3 DEF KindInv
    <2>5. AssertInv'
      BY <1>0, <1>1, <2>2, <2>3 DEF StoreInv, AssertInv
    <2> QED BY <1>0, <1>1, <2>1, <2>2, <2>3, <2>4, <2>5, AssertStepKeeps
  <1>2. CASE (Fine \/ Fault) /\ Done(FALSE) /\ ClearIfCurrent
    <2>1. queue' \in {queue, NoQueue}
      BY <1>2 DEF ClearIfCurrent
    <2>2. Counted /\ queue' \in QueueType /\ QueueInv'
      BY <1>0, <1>2, <2>1, Counting, QueueOrNone
    <2> QED BY <1>0, <1>2, <2>2, AssertDoneKeeps
  <1> QED
    BY <1>1, <1>2 DEF NextLoad

\* The queue goes on with its next entry.
LEMMA AdvanceQueue ==
  ASSUME StoreInv, queue.on, queue.i < Len(queue.list),
         queue' = [queue EXCEPT !.i = @ + 1, !.fresh = TRUE], UNCHANGED <<recs, u>>
  PROVE  queue' \in QueueType /\ QueueInv'
  <1>1. /\ queue \in QueueType /\ queue.i \in Nat /\ queue.list \in Seq(Nat)
        /\ queue.i \in DOMAIN queue.list
    BY DEF StoreInv, StoreTypes, QueueType, QueueInv
  <1> DEFINE j == queue.i + 1
  <1>a. queue' = [queue EXCEPT !.i = j, !.fresh = TRUE] /\ j \in Nat
    BY <1>1
  <1> HIDE DEF j
  <1>b. /\ queue' \in QueueType /\ queue'.on = queue.on /\ queue'.i = j
        /\ queue'.list = queue.list /\ queue'.meant = queue.meant /\ queue'.uv = queue.uv
    BY <1>1, <1>a DEF QueueType
  <1>2. /\ queue' \in QueueType /\ queue'.on = queue.on /\ queue'.i = queue.i + 1
        /\ queue'.list = queue.list /\ queue'.meant = queue.meant /\ queue'.uv = queue.uv
    BY <1>b DEF j
  <1>3. queue.i + 1 \in DOMAIN queue.list
    BY <1>1
  <1> QED
    BY <1>2, <1>3 DEF StoreInv, QueueInv, Moving

\* The next assertion is published and the queue goes on.
LEMMA NextSignKeeps == ASSUME StoreInv, NextSign PROVE StoreInv'
  <1>0. /\ w.pc = "nextsign" /\ UNCHANGED <<recs, disk, pinf, gate, prompt, u, kept, dead>>
        /\ used \in Bounds
    BY DEF NextSign, StoreInv, StoreTypes
  <1>1. CASE /\ Fine /\ QueueCurrent /\ Done(TRUE)
             /\ queue' = IF queue.i < Len(queue.list)
                         THEN [queue EXCEPT !.i = @ + 1, !.fresh = TRUE] ELSE NoQueue
    <2>1. queue' \in QueueType /\ QueueInv'
      <3>1. CASE queue.i < Len(queue.list)
        BY <1>0, <1>1, <3>1, AdvanceQueue DEF QueueCurrent
      <3>2. CASE ~(queue.i < Len(queue.list))
        BY <1>0, <1>1, <3>2, QueueOrNone
      <3> QED BY <3>1, <3>2
    <2>2. Counted
      BY <1>0, <1>1, Counting
    <2> QED BY <1>0, <1>1, <2>1, <2>2, AssertDoneKeeps
  <1>2. CASE (Fine \/ Fault) /\ Done(FALSE) /\ (ClearIfCurrent \/ UNCHANGED queue)
    <2>1. queue' \in {queue, NoQueue}
      BY <1>2 DEF ClearIfCurrent
    <2>2. Counted /\ queue' \in QueueType /\ QueueInv'
      BY <1>0, <1>2, <2>1, Counting, QueueOrNone
    <2> QED BY <1>0, <1>2, <2>2, AssertDoneKeeps
  <1> QED
    BY <1>1, <1>2 DEF NextSign

-----------------------------------------------------------------------------
(* reset                                                                   *)

\* What is known while the files are erased.
LEMMA UnderWipe ==
  ASSUME StoreInv, w.pc \in {"wipe", "walk"}
  PROVE  /\ u = UiIdle /\ gate
         /\ recs \in Seq(Cred) /\ IsInjective(recs) /\ disk \subseteq Cred /\ dead \subseteq Cred
         /\ w \in WorkerType /\ used \in Bounds /\ prompt \in PromptType /\ queue \in QueueType
         /\ dead \cap disk = {} /\ kept = {} /\ ~queue.on
         /\ w.kind = "reset" /\ (~w.up => ~w.pick)
  <1>1. w.pc \in Inside
    BY DEF Inside
  <1>2. w.kind = "reset"
    BY DEF StoreInv, StoreTypes, KindInv, WorkerType, Kind
  <1>3. (~w.up => ~w.pick) /\ kept = {} /\ ~queue.on
    BY DEF StoreInv, AssertInv, DiskInv
  <1> QED
    BY <1>1, <1>2, <1>3, UnderGate

\* A wipe that is given up.
LEMMA WipeFailKeeps ==
  ASSUME StoreInv, w.pc \in {"wipe", "walk"}, Fault, Done(FALSE),
         UNCHANGED <<recs, disk, pinf, queue, gate, prompt, u, kept, dead>>
  PROVE  StoreInv'
  <1>1. /\ u = UiIdle /\ gate /\ w \in WorkerType /\ used \in Bounds /\ w.kind = "reset"
        /\ gate \in BOOLEAN
    BY UnderWipe DEF StoreInv, StoreTypes
  <1>2. Answered(FALSE) /\ Counted /\ queue' \in QueueType /\ QueueInv' /\ gate' = TRUE
    BY <1>1, DoneFields, Counting, QueueOrNone
  <1> QED
    BY <1>1, <1>2, DoneKeeps

\* The wipe removes the PIN record by name.
LEMMA WipePinKeeps == ASSUME StoreInv, WipePin PROVE StoreInv'
  <1>0. w.pc = "wipe" /\ UNCHANGED <<recs, disk, queue, gate, prompt, u, kept, dead>>
    BY DEF WipePin
  <1>1. CASE Fine /\ w' = [w EXCEPT !.pc = "walk"]
    <2>1. /\ u = UiIdle /\ gate
          /\ recs \in Seq(Cred) /\ IsInjective(recs) /\ disk \subseteq Cred /\ dead \subseteq Cred
          /\ w \in WorkerType /\ used \in Bounds /\ prompt \in PromptType /\ queue \in QueueType
          /\ dead \cap disk = {} /\ kept = {} /\ ~queue.on
          /\ w.kind = "reset" /\ (~w.up => ~w.pick) /\ gate \in BOOLEAN
      BY <1>0, UnderWipe DEF StoreInv, StoreTypes
    <2>2. used' \in Bounds /\ "walk" \in WorkerPcs /\ gate' = TRUE
      BY <1>0, <1>1, <2>1 DEF Fine, WorkerPcs, Gated, Inside
    <2>3. /\ w' \in WorkerType /\ w'.pc = "walk" /\ w'.kind = "reset"
          /\ w'.up = w.up /\ w'.pick = w.pick
      BY <1>1, <2>1, <2>2 DEF WorkerType
    <2>4. KindInv' /\ ReplyInv' /\ w'.pc \in Gated
      BY <2>3 DEF KindInv, ReplyInv, Gated, Inside
    <2>5. MakingInv' /\ ReplacingInv' /\ DiskInv' /\ QueueInv' /\ AssertInv'
      BY <1>0, <2>1, <2>3 DEF MakingInv, Making, ReplacingInv, DiskInv, QueueInv, AssertInv
    <2> QED BY <1>0, <2>1, <2>2, <2>3, <2>4, <2>5, GatedKeeps
  <1>2. CASE Fault /\ Done(FALSE) /\ UNCHANGED pinf
    BY <1>0, <1>2, WipeFailKeeps
  <1> QED
    BY <1>1, <1>2 DEF WipePin

\* The wipe removes a file of the directory.
LEMMA WipeFileKeeps == ASSUME StoreInv, WipeFile PROVE StoreInv'
  <1>0. w.pc = "walk" /\ UNCHANGED <<recs, queue, gate, prompt, u, kept>>
    BY DEF WipeFile
  <1>1. CASE /\ Fine /\ UNCHANGED w
             /\ \/ \E c \in disk : disk' = disk \ {c} /\ dead' = dead \cup {c}
                \/ UNCHANGED <<disk, dead>>
    <2>1. /\ u = UiIdle /\ gate
          /\ recs \in Seq(Cred) /\ IsInjective(recs) /\ disk \subseteq Cred /\ dead \subseteq Cred
          /\ w \in WorkerType /\ used \in Bounds /\ prompt \in PromptType /\ queue \in QueueType
          /\ dead \cap disk = {} /\ kept = {} /\ ~queue.on
          /\ w.kind = "reset" /\ (~w.up => ~w.pick) /\ gate \in BOOLEAN
      BY <1>0, UnderWipe DEF StoreInv, StoreTypes
    <2>2. used' \in Bounds /\ gate' = TRUE
      BY <1>0, <1>1, <2>1 DEF Fine
    <2>3. disk' \subseteq Cred /\ dead' \subseteq Cred /\ dead' \cap disk' = {}
      BY <1>1, <2>1
    <2>4. KindInv' /\ ReplyInv' /\ w'.pc \in Gated
      BY <1>0, <1>1, <2>1 DEF KindInv, ReplyInv, Gated, Inside
    <2>5. MakingInv' /\ ReplacingInv' /\ DiskInv' /\ QueueInv' /\ AssertInv'
      BY <1>0, <1>1, <2>1, <2>3 DEF MakingInv, Making, ReplacingInv, DiskInv, QueueInv, AssertInv
    <2> QED BY <1>0, <1>1, <2>1, <2>2, <2>3, <2>4, <2>5, GatedKeeps
  <1>2. CASE Fault /\ Done(FALSE) /\ UNCHANGED <<disk, dead, pinf>>
    BY <1>0, <1>2, WipeFailKeeps
  <1> QED
    BY <1>1, <1>2 DEF WipeFile

\* The index is cleared after the walk.
LEMMA WipeEndKeeps == ASSUME StoreInv, WipeEnd PROVE StoreInv'
  <1>0. /\ w.pc = "walk" /\ UNCHANGED <<disk, pinf, queue, gate, prompt, u, kept, dead>>
        /\ recs' = << >> /\ disk = {} /\ pinf = {}
    BY DEF WipeEnd, Walked
  <1>1. /\ u = UiIdle /\ gate /\ dead \subseteq Cred
        /\ w \in WorkerType /\ used \in Bounds /\ prompt \in PromptType /\ queue \in QueueType
        /\ dead \cap disk = {} /\ kept = {} /\ ~queue.on
        /\ w.kind = "reset" /\ (~w.up => ~w.pick) /\ gate \in BOOLEAN
    BY <1>0, UnderWipe DEF StoreInv, StoreTypes
  <1>2. PICK good \in BOOLEAN : Done(good) /\ (Fine \/ Fault)
    BY DEF WipeEnd
  <1>3. Answered(good) /\ used' \in Bounds
    BY <1>1, <1>2, DoneFields, Counting DEF Counted
  <1>4. recs' \in Seq(Cred) /\ IsInjective(recs') /\ gate' = TRUE
    BY <1>0, <1>1 DEF IsInjective
  <1>5. KindInv' /\ ReplyInv' /\ w'.pc \in Gated
    BY <1>0, <1>1, <1>3 DEF KindInv, ReplyInv, Gated, Inside, Answered
  <1>6. MakingInv' /\ ReplacingInv' /\ DiskInv' /\ QueueInv' /\ AssertInv'
    BY <1>0, <1>1, <1>3 DEF MakingInv, Making, ReplacingInv, DiskInv, QueueInv, AssertInv, Answered
  <1> QED
    BY <1>0, <1>1, <1>3, <1>4, <1>5, <1>6, GatedKeeps DEF Answered

-----------------------------------------------------------------------------
(* The deletion of a passkey from the screen                               *)

\* The worker is not under the gate while the screen is.
LEMMA Apart ==
  ASSUME StoreInv, u # UiIdle \/ ~gate
  PROVE  w.pc \notin Gated \/ Leaving
  BY DEF StoreInv, GateInv

\* What remains to be shown of a step of the screen.
LEMMA ScreenKeeps ==
  ASSUME StoreInv, w' = w, w.pc \notin Gated \/ Leaving, UNCHANGED prompt, gate' \in BOOLEAN,
         u' \in UiType, u' # UiIdle => gate' /\ u'.pc # "idle", used' \in Bounds,
         recs' \in Seq(Cred), disk' \subseteq disk, dead' \subseteq Cred, queue' \in QueueType,
         Range(recs') \subseteq Range(recs), kept' \subseteq kept,
         kept' \subseteq disk', dead' \cap disk' = {},
         Making => w.c \notin dead' /\ w.c # u'.c,
         DeletingInv', QueueInv'
  PROVE  StoreInv'
  <1>1. StoreTypes' /\ KindInv'
    BY DEF StoreInv, StoreTypes, KindInv
  <1>2. GateInv'
    BY DEF StoreInv, GateInv, Leaving
  <1>3. MakingInv'
    BY DEF StoreInv, MakingInv, Making, Gated, Inside, Leaving
  <1>4. ReplacingInv' /\ DiskInv' /\ ReplyInv'
    BY DEF StoreInv, ReplacingInv, DiskInv, ReplyInv, Gated, Inside, Leaving
  <1>5. AssertInv'
    BY DEF StoreInv, AssertInv, Gated, Inside, Leaving
  <1> QED
    BY <1>1, <1>2, <1>3, <1>4, <1>5 DEF StoreInv

\* The state a step of the screen starts from.
LEMMA UnderScreen ==
  ASSUME StoreInv
  PROVE  /\ recs \in Seq(Cred) /\ disk \subseteq Cred /\ dead \subseteq Cred /\ queue \in QueueType
         /\ used \in Bounds /\ u \in UiType /\ gate \in BOOLEAN
         /\ kept \subseteq disk /\ dead \cap disk = {}
         /\ Making => w.c \in Cred /\ w.c \notin Range(recs) \cup kept \cup dead /\ w.c # u.c
         /\ u # UiIdle => gate
  BY DEF StoreInv, StoreTypes, DiskInv, MakingInv, GateInv

\* The deletion from the screen takes the gate.
LEMMA DeleteBeginKeeps == ASSUME StoreInv, DeleteBegin PROVE StoreInv'
  <1>0. /\ u = UiIdle /\ ~gate /\ gate' = TRUE /\ Use("del", MaxDeletes)
        /\ UNCHANGED <<recs, disk, pinf, queue, prompt, w, dead>>
    BY DEF DeleteBegin
  <1>1. PICK c \in Range(recs) : u' = [UiIdle EXCEPT !.pc = "files", !.c = c] /\ kept' = kept \ {c}
    BY DEF DeleteBegin
  <1>2. w.pc \notin Gated \/ Leaving
    BY <1>0, Apart
  <1>3. c \in Cred
    BY UnderScreen, SeqElements DEF Range
  <1>4. u' \in UiType /\ u'.pc = "files" /\ u'.c = c /\ ~u'.ok
    BY <1>1, <1>3, RestingValues DEF UiType
  <1>5. used' \in Bounds /\ queue' \in QueueType
    BY <1>0, Counting, UnderScreen DEF Counted
  <1>6. IsInjective(recs) /\ ~Moving
    BY <1>0, RestingValues DEF StoreInv, DeletingInv, Moving
  <1>7. DeletingInv'
    BY <1>0, <1>1, <1>3, <1>4, <1>6 DEF DeletingInv
  <1>8. QueueInv'
    BY <1>0, <1>4, <1>6 DEF StoreInv, QueueInv, Moving
  <1>9. Making => w.c \notin dead' /\ w.c # u'.c
    BY <1>0, <1>4, UnderScreen
  <1> QED
    BY <1>0, <1>1, <1>2, <1>4, <1>5, <1>7, <1>8, <1>9, UnderScreen, ScreenKeeps

\* The files of the deleted passkey are removed.
LEMMA DeleteFilesKeeps == ASSUME StoreInv, DeleteFiles PROVE StoreInv'
  <1>0. /\ u.pc = "files" /\ UNCHANGED <<recs, pinf, queue, gate, prompt, w, kept, dead>>
        /\ u # UiIdle /\ u \in UiType /\ used \in Bounds /\ recs \in Seq(Cred)
    BY RestingValues DEF DeleteFiles, StoreInv, StoreTypes
  <1>1. /\ (w.pc \notin Gated \/ Leaving) /\ IsInjective(recs) /\ ~Moving
        /\ u.c \in Cred /\ u.c \notin kept /\ ~u.ok
    BY <1>0, Apart DEF StoreInv, DeletingInv, Moving
  <1>2. CASE (Fine \/ Fault) /\ disk' \in {disk, disk \ {u.c}} /\ u' = [u EXCEPT !.pc = "end"]
    <2>1. u' \in UiType /\ u'.pc = "end" /\ u'.c = u.c /\ ~u'.ok /\ u' # UiIdle
      BY <1>0, <1>1, <1>2, RestingValues DEF UiType
    <2>2. used' \in Bounds
      BY <1>0, <1>2, Counting DEF Counted
    <2>3. DeletingInv'
      BY <1>0, <1>1, <2>1 DEF DeletingInv
    <2>4. QueueInv'
      BY <1>0, <1>1, <2>1 DEF StoreInv, QueueInv, Moving
    <2>5. /\ disk' \subseteq disk /\ kept' \subseteq disk' /\ dead' \cap disk' = {}
          /\ Making => w.c \notin dead' /\ w.c # u'.c
      BY <1>0, <1>1, <1>2, <2>1, UnderScreen
    <2> QED BY <1>0, <1>1, <2>1, <2>2, <2>3, <2>4, <2>5, UnderScreen, ScreenKeeps
  <1>3. CASE /\ u.c \in Range(recs) /\ Fine /\ disk' = disk \ {u.c}
             /\ u' = [u EXCEPT !.pc = "compact", !.at = CHOOSE i \in DOMAIN recs : recs[i] = u.c]
    <2> DEFINE at == CHOOSE i \in DOMAIN recs : recs[i] = u.c
    <2>1. at \in DOMAIN recs /\ recs[at] = u.c
      BY <1>3 DEF Range
    <2>2. u' = [u EXCEPT !.pc = "compact", !.at = at]
      BY <1>3
    <2> HIDE DEF at
    <2>3. at \in Nat
      BY <1>0, <2>1, SeqElements
    <2>4. u' \in UiType /\ u'.pc = "compact" /\ u'.c = u.c /\ ~u'.ok /\ u'.at = at /\ u' # UiIdle
      BY <1>0, <1>1, <2>2, <2>3, RestingValues DEF UiType
    <2>5. used' \in Bounds
      BY <1>0, <1>3 DEF Fine
    <2>6. DeletingInv'
      <3>1. /\ \A i, j \in DOMAIN recs : recs[i] = recs[j] => i = j
            /\ \A i \in DOMAIN recs : recs[i] = u.c => i = at
        BY <1>1, <2>1 DEF IsInjective
      <3> QED BY <1>0, <1>1, <1>3, <2>1, <2>4, <3>1 DEF DeletingInv
    <2>7. QueueInv'
      BY <1>0, <2>4 DEF StoreInv, QueueInv, Moving
    <2>8. /\ disk' \subseteq disk /\ kept' \subseteq disk' /\ dead' \cap disk' = {}
          /\ Making => w.c \notin dead' /\ w.c # u'.c
      BY <1>0, <1>1, <1>3, <2>4, UnderScreen
    <2> QED BY <1>0, <1>1, <2>4, <2>5, <2>6, <2>7, <2>8, UnderScreen, ScreenKeeps
  <1> QED
    BY <1>2, <1>3 DEF DeleteFiles

\* The entries after the deleted one move up.
LEMMA DeleteCompactKeeps == ASSUME StoreInv, DeleteCompact PROVE StoreInv'
  <1>0. /\ u.pc = "compact" /\ UNCHANGED <<disk, pinf, queue, gate, prompt, w, used, kept, dead>>
        /\ u # UiIdle /\ u \in UiType /\ used \in Bounds /\ recs \in Seq(Cred)
        /\ queue \in QueueType
    BY RestingValues DEF DeleteCompact, StoreInv, StoreTypes
  <1>1. /\ (w.pc \notin Gated \/ Leaving) /\ ~u.ok /\ u.c \in Cred /\ u.c \notin kept
        /\ u.at \in DOMAIN recs /\ u.c \notin disk
        /\ \A i, j \in DOMAIN recs \ {u.at} : recs[i] = recs[j] => i = j
        /\ \A i \in DOMAIN recs \ {u.at} : recs[i] # u.c
    BY <1>0, Apart DEF StoreInv, DeletingInv
  <1>2. /\ Len(recs) \in Nat /\ DOMAIN recs = 1..Len(recs)
        /\ \A i \in 1..Len(recs) : recs[i] \in Cred /\ recs[i] \in Range(recs)
    BY <1>0, SeqElements DEF Range
  <1>3. u.at \in Nat /\ u.at \in 1..Len(recs)
    BY <1>0, <1>1, <1>2 DEF UiType
  <1>4. disk' \subseteq disk /\ kept' \subseteq disk' /\ dead' \cap disk' = {}
    BY <1>0, UnderScreen
  <1>5. CASE u.at < Len(recs)
    <2> DEFINE r == [recs EXCEPT ![u.at] = recs[u.at + 1]]
               n == Len(recs)
               a == u.at
               b == u.at + 1
    <2>1. recs' = r /\ u' = [u EXCEPT !.at = b]
      BY <1>5 DEF DeleteCompact
    <2>2. a \in 1..n /\ b \in 1..n /\ a # b /\ n \in Nat /\ b \in Nat /\ DOMAIN recs = 1..n
      BY <1>2, <1>3, <1>5
    <2>3. DOMAIN r = 1..n /\ r[a] = recs[b] /\ \A i \in 1..n : i # a => r[i] = recs[i]
      BY <1>2, <1>3, <1>5
    <2>4. /\ \A i, j \in (1..n) \ {a} : recs[i] = recs[j] => i = j
          /\ \A i \in (1..n) \ {a} : recs[i] # u.c
          /\ \A i \in 1..n : recs[i] \in Cred /\ recs[i] \in Range(recs)
      BY <1>1, <1>2
    <2>5. r = [i \in 1..n |-> r[i]]
      BY <1>2
    <2> HIDE DEF r, n, a, b
    <2>6. /\ u' \in UiType /\ u'.pc = "compact" /\ u'.c = u.c /\ ~u'.ok /\ u'.at = b /\ u' # UiIdle
      BY <1>0, <1>1, <2>1, <2>2, RestingValues DEF UiType
    <2>7. \A i \in 1..n : r[i] \in Cred /\ r[i] \in Range(recs)
      BY <2>2, <2>3, <2>4
    <2>8. recs' \in Seq(Cred) /\ Range(recs') \subseteq Range(recs)
      <3>1. r \in [1..n -> Cred]
        BY <2>5, <2>7
      <3>2. r \in Seq(Cred)
        BY <2>2, <3>1, MadeSeq, Zenon
      <3> QED BY <2>1, <2>3, <2>7, <3>2 DEF Range
    <2>9. /\ \A i, j \in (1..n) \ {b} : r[i] = r[j] => i = j
          /\ \A i \in (1..n) \ {b} : r[i] # u.c
      <3>1. \A i \in (1..n) \ {b} : r[i] = recs[IF i = a THEN b ELSE i]
        BY <2>2, <2>3
      <3>2. \A i \in (1..n) \ {b} : (IF i = a THEN b ELSE i) \in (1..n) \ {a}
        BY <2>2
      <3> QED BY <2>2, <2>4, <3>1, <3>2
    <2>10. DeletingInv'
      BY <1>0, <1>1, <2>1, <2>2, <2>3, <2>6, <2>9 DEF DeletingInv
    <2>11. QueueInv'
      BY <1>0, <2>6 DEF StoreInv, QueueInv, Moving
    <2>12. Making => w.c \notin dead' /\ w.c # u'.c
      BY <1>0, <2>6, UnderScreen
    <2> QED BY <1>0, <1>1, <1>4, <2>6, <2>8, <2>10, <2>11, <2>12, UnderScreen, ScreenKeeps
  <1>6. CASE ~(u.at < Len(recs))
    <2> DEFINE n == Len(recs) - 1
               r == SubSeq(recs, 1, n)
    <2>1. recs' = r /\ u' = [u EXCEPT !.pc = "end", !.ok = TRUE]
      BY <1>6 DEF DeleteCompact
    <2>2. u.at = n + 1 /\ n \in Nat /\ 1..n = (1..Len(recs)) \ {u.at}
      BY <1>2, <1>3, <1>6
    <2>3. DOMAIN r = 1..n /\ r \in [1..n -> Cred] /\ \A i \in 1..n : r[i] = recs[i]
      <3>1. r = [i \in 1..n |-> recs[i]]
        <4>1. r = [i \in 1..(n - 1 + 1) |-> recs[1 + i - 1]]
          BY <1>0, <1>2, <2>2 DEF SubSeq
        <4>2. n - 1 + 1 = n /\ \A i \in 1..n : 1 + i - 1 = i
          BY <2>2
        <4> QED BY <4>1, <4>2
      <3> QED BY <1>2, <2>2, <3>1
    <2>4. /\ \A i, j \in 1..n : recs[i] = recs[j] => i = j
          /\ \A i \in 1..n : recs[i] # u.c /\ recs[i] \in Range(recs)
      BY <1>1, <1>2, <2>2
    <2> HIDE DEF r, n
    <2>5. u' \in UiType /\ u'.pc = "end" /\ u'.c = u.c /\ u'.ok /\ u' # UiIdle
      BY <1>0, <2>1, RestingValues DEF UiType
    <2>6. recs' \in Seq(Cred)
      BY <2>1, <2>2, <2>3, MadeSeq, Zenon
    <2>7. /\ IsInjective(recs') /\ u.c \notin Range(recs') /\ Range(recs') \subseteq Range(recs)
      BY <2>1, <2>3, <2>4 DEF IsInjective, Range
    <2>8. DeletingInv'
      BY <1>0, <1>1, <2>5, <2>7 DEF DeletingInv
    <2>9. QueueInv'
      BY <1>0, <2>5 DEF StoreInv, QueueInv, Moving
    <2>10. Making => w.c \notin dead' /\ w.c # u'.c
      BY <1>0, <2>5, UnderScreen
    <2> QED BY <1>0, <1>1, <1>4, <2>5, <2>6, <2>7, <2>8, <2>9, <2>10, UnderScreen, ScreenKeeps
  <1> QED
    BY <1>5, <1>6

\* The gate is released, the queue dropped.
LEMMA DeleteEndKeeps == ASSUME StoreInv, DeleteEnd PROVE StoreInv'
  <1>0. /\ u.pc = "end" /\ UNCHANGED <<recs, disk, pinf, prompt, w, used, kept>>
        /\ gate' = FALSE /\ u' = UiIdle
        /\ u # UiIdle /\ used \in Bounds /\ recs \in Seq(Cred)
    BY RestingValues DEF DeleteEnd, StoreInv, StoreTypes
  <1>1. /\ (w.pc \notin Gated \/ Leaving) /\ IsInjective(recs) /\ u.c \in Cred
        /\ u.ok => u.c \notin disk
    BY <1>0, Apart DEF StoreInv, DeletingInv
  <1>2. u' \in UiType /\ u'.pc = "idle" /\ u'.c = 0 /\ ~u'.ok
    BY <1>0, RestingValues
  <1>3. DeletingInv'
    BY <1>0, <1>1, <1>2 DEF DeletingInv
  <1>4. Making => w.c # u'.c
    BY <1>2, UnderScreen DEF Cred
  <1>5. CASE u.ok
    <2>1. queue' = NoQueue /\ dead' = dead \cup {u.c}
      BY <1>5 DEF DeleteEnd
    <2>2. queue' \in QueueType /\ QueueInv'
      BY <2>1, RestingValues DEF QueueInv
    <2>3. /\ dead' \subseteq Cred /\ dead' \cap disk' = {} /\ kept' \subseteq disk'
          /\ Making => w.c \notin dead'
      BY <1>0, <1>1, <1>5, <2>1, UnderScreen
    <2> QED BY <1>0, <1>1, <1>2, <1>3, <1>4, <2>2, <2>3, UnderScreen, ScreenKeeps
  <1>6. CASE ~u.ok
    <2>1. queue' = queue /\ dead' = dead
      BY <1>6 DEF DeleteEnd
    <2>2. queue' \in QueueType /\ QueueInv'
      BY <1>0, <1>2, <1>6, <2>1, UnderScreen DEF StoreInv, QueueInv, Moving
    <2>3. /\ dead' \subseteq Cred /\ dead' \cap disk' = {} /\ kept' \subseteq disk'
          /\ Making => w.c \notin dead'
      BY <1>0, <2>1, UnderScreen
    <2> QED BY <1>0, <1>1, <1>2, <1>3, <1>4, <2>2, <2>3, UnderScreen, ScreenKeeps
  <1> QED
    BY <1>5, <1>6

-----------------------------------------------------------------------------
(* Power, and the theorems                                                 *)

\* With nothing going on, only the index and the files count.
LEMMA RestingInv ==
  ASSUME w = Idle, u = UiIdle, queue = NoQueue, prompt = NoPrompt, gate = FALSE, used \in Bounds,
         recs \in Seq(Cred), IsInjective(recs), disk \subseteq Cred, dead \subseteq Cred,
         kept \subseteq disk, dead \cap disk = {}
  PROVE  StoreInv
  <1>1. StoreTypes
    BY RestingValues DEF StoreTypes
  <1>2. KindInv /\ GateInv /\ MakingInv /\ ReplacingInv
    BY RestingValues DEF KindInv, GateInv, Gated, Inside, Leaving, MakingInv, Making, ReplacingInv
  <1>3. DeletingInv /\ DiskInv /\ QueueInv /\ AssertInv /\ ReplyInv
    BY RestingValues DEF DeletingInv, DiskInv, QueueInv, AssertInv, ReplyInv
  <1> QED
    BY <1>1, <1>2, <1>3 DEF StoreInv

\* The initial states: the index that earlier requests left.
LEMMA InitStoreInv == StoreInit => StoreInv
  <1> SUFFICES ASSUME StoreInit PROVE StoreInv
    OBVIOUS
  <1>1. recs \in Seq(Cred) /\ IsInjective(recs) /\ used \in Bounds
    BY StoreAssumption DEF StoreInit, Bounds
  <1>2. disk \subseteq Cred /\ kept \subseteq disk /\ dead = {}
    BY <1>1, SeqElements DEF StoreInit, Range
  <1> QED
    BY <1>1, <1>2, RestingInv DEF StoreInit

\* After a power loss the index is built anew from the files.
LEMMA RestartKeeps == ASSUME StoreInv, Restart PROVE StoreInv'
  <1>1. PICK I \in SUBSET disk :
          /\ Cardinality(I) = IF Cardinality(disk) < Capacity THEN Cardinality(disk) ELSE Capacity
          /\ recs' \in SetToSeqs(I)
    BY DEF Restart
  <1>2. /\ queue' = NoQueue /\ gate' = FALSE /\ prompt' = NoPrompt /\ w' = Idle /\ u' = UiIdle
        /\ UNCHANGED <<disk, kept, dead>> /\ used' \in Bounds
    BY UnderScreen, Counting DEF Restart, Counted
  <1>3. recs' \in [1..Cardinality(I) -> I] /\ IsInjective(recs')
    BY <1>1 DEF SetToSeqs, IsInjective
  <1>4. recs' \in Seq(Cred)
    <2>1. I \subseteq 1..MaxCred /\ MaxCred \in Nat
      BY UnderScreen, StoreAssumption DEF Cred
    <2>2. IsFiniteSet(I)
      BY <2>1, UpTo, FS_Subset
    <2>3. Cardinality(I) \in Nat
      BY <2>2, FS_CardinalityType
    <2>4. recs' \in [1..Cardinality(I) -> Cred]
      BY <1>3, <2>1 DEF Cred
    <2> QED BY <2>3, <2>4, MadeSeq, Zenon
  <1>5. /\ disk' \subseteq Cred /\ dead' \subseteq Cred /\ kept' \subseteq disk'
        /\ dead' \cap disk' = {}
    BY <1>2, UnderScreen
  <1>6. StoreTypes'
    BY <1>2, <1>4, <1>5, RestingValues DEF StoreTypes
  <1>7. KindInv' /\ GateInv' /\ MakingInv' /\ ReplacingInv'
    BY <1>2, RestingValues
       DEF KindInv, GateInv, Gated, Inside, Leaving, MakingInv, Making, ReplacingInv
  <1>8. DeletingInv' /\ DiskInv' /\ QueueInv' /\ AssertInv' /\ ReplyInv'
    BY <1>2, <1>3, <1>5, RestingValues DEF DeletingInv, DiskInv, QueueInv, AssertInv, ReplyInv
  <1> QED
    BY <1>6, <1>7, <1>8 DEF StoreInv

\* The invariant lasts until a request opens the gate under a deletion.
Guarded == ~torn => StoreInv

\* Nothing mends the gate.
LEMMA TornStays ==
  ASSUME [StoreNext]_storeVars, torn PROVE torn'
  <1>1. Worker => torn'
    BY DEF Worker, Receive, PinAuth, ExcludeCheck, Resolve, Ask, Resume, Consent, NoConsent, Retake,
           Busy, MakeBegin, AssertBegin, ResetBegin, WriteRecord, RemoveReplaced, Undo, Publish,
           Load, Sign, NextBegin, NextLoad, NextSign, WipePin, WipeFile, WipeEnd, Release
  <1>2. Ui \/ Expire \/ Restart => torn'
    BY DEF Ui, Answer, Decline, DeleteBegin, DeleteFiles, DeleteCompact, DeleteEnd, Expire, Restart
  <1> QED
    BY <1>1, <1>2 DEF StoreNext, storeVars

\* Every step of the worker and of the screen preserves the invariant, unless
\* it opens the gate under a deletion.
LEMMA NextStoreInv == Guarded /\ [StoreNext]_storeVars => Guarded'
  <1> SUFFICES ASSUME StoreInv, [StoreNext]_storeVars, ~torn' PROVE StoreInv'
    BY TornStays DEF Guarded
  <1>1. CASE Worker
    BY <1>1, ReceiveKeeps, PinAuthKeeps, ExcludeCheckKeeps, ResolveKeeps, AskKeeps, ResumeKeeps,
       ConsentKeeps, NoConsentKeeps, RetakeKeeps, BusyKeeps, MakeBeginKeeps, AssertBeginKeeps,
       ResetBeginKeeps, WriteRecordKeeps, RemoveReplacedKeeps, UndoKeeps, PublishKeeps, LoadKeeps,
       SignKeeps, NextBeginKeeps, NextLoadKeeps, NextSignKeeps, WipePinKeeps, WipeFileKeeps,
       WipeEndKeeps, ReleaseKeeps
       DEF Worker
  <1>2. CASE Ui
    BY <1>2, AnswerKeeps, DeclineKeeps, DeleteBeginKeeps, DeleteFilesKeeps, DeleteCompactKeeps,
       DeleteEndKeeps
       DEF Ui
  <1>3. CASE Expire \/ Restart
    BY <1>3, ExpireKeeps, RestartKeeps
  <1>4. CASE UNCHANGED storeVars
    <2>1. UNCHANGED <<recs, disk, pinf, queue, gate, w, u, used, kept, dead>> /\ prompt' = prompt
      BY <1>4 DEF storeVars
    <2>2. prompt \in PromptType
      BY DEF StoreInv, StoreTypes
    <2> QED BY <2>1, <2>2, PromptKeeps
  <1> QED
    BY <1>1, <1>2, <1>3, <1>4 DEF StoreNext

\* The inductive invariant holds in every reachable state, until a token
\* request that lost the gate to a deletion opens it.
THEOREM StoreInvariance == StoreSpec => []Guarded
  <1>1. StoreInit => Guarded
    BY InitStoreInv DEF Guarded
  <1> QED
    BY <1>1, NextStoreInv, PTL DEF StoreSpec

\* A credential whose creation was reported keeps its file until the user
\* deletes, replaces or resets it: for any number of credentials, requests,
\* deletions, failing storage calls and losses of power, and for a deletion
\* that begins while a token request asks for consent, up to the moment when
\* that request opens the gate under it.
THEOREM CredentialsKeptHolds == StoreSpec => [](~torn => CredentialsKept)
  <1>1. Guarded => (~torn => CredentialsKept)
    BY DEF Guarded, StoreInv, DiskInv, CredentialsKept
  <1> QED
    BY <1>1, StoreInvariance, PTL

\* What makeCredential, reset and the deletion from the screen report is what
\* is stored.  With a second failing storage call a failed makeCredential may
\* leave a record behind: the removal of the new file failed as well.
THEOREM ReplyTellsStoreHolds ==
  StoreSpec => [](~torn /\ used.fault <= 1 => ReplyTellsStore)
  <1>1. Guarded => (~torn /\ used.fault <= 1 => ReplyTellsStore)
    BY DEF Guarded, StoreInv, StoreTypes, WorkerType, ReplyInv, DeletingInv, ReplyTellsStore
  <1> QED
    BY <1>1, StoreInvariance, PTL

\* The worker and the screen never work on the store at the same time, until
\* a token request that lost the gate to a deletion opens it.
THEOREM MaintenanceExcludesHolds == StoreSpec => []MaintenanceExcludes
  <1>1. Guarded => MaintenanceExcludes
    BY RestingValues DEF Guarded, StoreInv, GateInv, Gated, Inside, Leaving, MaintenanceExcludes
  <1> QED
    BY <1>1, StoreInvariance, PTL

\* The step that returns an assertion is Sign or NextSign.
LEMMA SigningStep ==
  ASSUME StoreInv, StoreNext, Signs("sign") \/ Signs("nextsign")
  PROVE  \/ Sign
         \/ NextSign /\ QueueCurrent /\ StillCurrent
  <1>0. w.pc \in {"sign", "nextsign"} /\ w'.ok /\ ~w.ok /\ w \in WorkerType /\ u.pc = "idle"
    <2>1. w.pc \in {"sign", "nextsign"} /\ w'.ok /\ ~w.ok /\ w \in WorkerType
      BY DEF Signs, StoreInv, StoreTypes
    <2>2. w.pc \in Inside
      BY <2>1 DEF Gated, Inside
    <2> QED BY <2>1, <2>2, UnderGate
  <1>1. CASE Worker
    <2>a. ~Receive
      <3>1. w # Idle
        BY <1>0 DEF Idle
      <3> QED BY <3>1 DEF Receive
    <2>b. ~PinAuth /\ ~ExcludeCheck /\ ~Resolve /\ ~Ask /\ ~Resume /\ ~Consent
      BY <1>0 DEF PinAuth, ExcludeCheck, Resolve, Ask, Resume, Consent
    <2>c. ~NoConsent /\ ~Retake /\ ~Busy /\ ~MakeBegin /\ ~AssertBegin /\ ~ResetBegin
      BY <1>0 DEF NoConsent, Retake, Busy, MakeBegin, AssertBegin, ResetBegin
    <2>d. ~WriteRecord /\ ~RemoveReplaced /\ ~Undo /\ ~Publish /\ ~Load /\ ~NextBegin
      BY <1>0 DEF WriteRecord, RemoveReplaced, Undo, Publish, Load, NextBegin
    <2>e. ~NextLoad /\ ~WipePin /\ ~WipeFile /\ ~WipeEnd /\ ~Release
      BY <1>0 DEF NextLoad, WipePin, WipeFile, WipeEnd, Release
    <2>1. Sign \/ NextSign
      BY <1>1, <2>a, <2>b, <2>c, <2>d, <2>e DEF Worker
    <2>2. ASSUME NextSign PROVE QueueCurrent /\ StillCurrent
      <3>1. ~Done(FALSE)
        BY <1>0 DEF Done, WorkerType
      <3> QED BY <2>2, <3>1 DEF NextSign
    <2> QED BY <2>1, <2>2
  <1>2. CASE Ui \/ Expire
    <2>1. w' = w
      BY <1>2 DEF Ui, Answer, Decline, DeleteBegin, DeleteFiles, DeleteCompact, DeleteEnd, Expire
    <2> QED BY <1>0, <2>1
  <1>3. CASE Restart
    <2>1. w' = Idle
      BY <1>3 DEF Restart
    <2>2. ~Idle.ok
      BY DEF Idle
    <2> QED BY <1>0, <2>1, <2>2
  <1> QED
    BY <1>1, <1>2, <1>3 DEF StoreNext

\* Every assertion is made with a live credential of the relying party that
\* asked, and without a choice of the user with one that credProtect allows.
THEOREM AssertedIsLiveHolds == StoreSpec => AssertedIsLive
  <1> DEFINE Live == ~torn /\ (Signs("sign") \/ Signs("nextsign")) =>
                        /\ w.c \notin dead /\ Attr[w.c].rp = Rp
                        /\ Selecting \/ Visible(w.c, w.uv)
  <1>1. Guarded /\ [StoreNext]_storeVars => [Live]_storeVars
    BY DEF Guarded, StoreInv, AssertInv, DiskInv, Signs, Selecting
  <1> QED
    BY <1>1, StoreInvariance, PTL DEF StoreSpec, AssertedIsLive

\* getNextAssertion goes through the credentials that getAssertion matched,
\* in their order and in their session.
THEOREM NextInOrderHolds == StoreSpec => NextInOrder
  <1> DEFINE InOrder == ~torn /\ Signs("nextsign") =>
                           w.c = queue.meant[queue.i] /\ w.ses = queue.ses
  <1>1. Guarded /\ [StoreNext]_storeVars => [InOrder]_storeVars
    <2> SUFFICES ASSUME StoreInv, StoreNext, Signs("nextsign")
                 PROVE  w.c = queue.meant[queue.i] /\ w.ses = queue.ses
      BY DEF Guarded
    <2>1. w.pc = "nextsign" /\ w.pc \in Inside
      BY DEF Signs, Gated, Inside
    <2>2. QueueCurrent /\ StillCurrent
      BY <2>1, SigningStep DEF Sign
    <2>3. ~Moving
      BY <2>1, UnderGate
    <2>4. queue.on /\ queue.ses = w.ses /\ queue.list[queue.i] = w.at
      BY <2>2 DEF QueueCurrent
    <2>5. w.at \in DOMAIN recs /\ queue.meant[queue.i] = recs[w.at]
      BY <2>3, <2>4 DEF StoreInv, QueueInv
    <2>6. recs[w.at] = w.c
      BY <2>2, <2>5 DEF StillCurrent, EntryAt
    <2> QED BY <2>4, <2>5, <2>6
  <1> QED
    BY <1>1, StoreInvariance, PTL DEF StoreSpec, NextInOrder
=============================================================================
