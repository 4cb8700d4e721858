----------------------------- MODULE AtomicFile -----------------------------
(***************************************************************************)
(* The crash-safe file protocol of src/src/zerofido_storage.c, for one     *)
(* path: the primary file, its ".bak" copy and its temporary file.  Every  *)
(* step below is one storage call; each may fail, and the power may go     *)
(* away between any two of them.  The PIN record, the credential records,  *)
(* the counter files and the encrypted blobs are all kept this way.        *)
(*                                                                         *)
(* A file holds one of the values written to it, None when it does not     *)
(* exist, or Torn when a write or a copy of it stopped half way.           *)
(***************************************************************************)
CONSTANTS Value, None, Torn

ASSUME ContentAssumption == None \notin Value /\ Torn \notin Value /\ None # Torn

VARIABLES primary,       \* the file at path
          backup,        \* the file at path.bak
          temp,          \* the file at temp_path
          pc,            \* the next storage call of the running operation
          caller,        \* who runs zf_storage_recover_atomic_file
          backupActive,  \* backup_active of zf_storage_publish_atomic_temp
          ok,            \* the result the running operation will return
          target,        \* the value being written, None for a removal
          before,        \* history: the logical content when it began
          reply          \* what the last operation returned

files == <<primary, backup, temp>>
vars  == <<primary, backup, temp, pc, caller, backupActive, ok, target, before, reply>>

Content == Value \cup {None, Torn}

PCs == {"down", "idle", "recover", "recoverDropBackup", "recoverDropTemp",
        "recoverFailed", "openTemp", "writeTemp", "prepare", "copy", "copying",
        "abandon", "unlink", "relink", "dropBackup", "finish",
        "removeTemp", "removeBackup", "removePrimary", "removed"}

Callers == {"boot", "write", "publish"}

(***************************************************************************)
(* The content a recovery run now would leave at path: the primary file,   *)
(* or the backup when the primary is missing.                              *)
(***************************************************************************)
Logical == IF primary # None THEN primary ELSE backup

\* storage_common_remove: gone (or never there), or an error and no change.
MayRemove(f) == {None, f}

Init == /\ primary \in Value \cup {None}
        /\ backup = None
        /\ temp = None
        /\ pc = "down"
        /\ caller = "boot"
        /\ backupActive = FALSE
        /\ ok = FALSE
        /\ target = None
        /\ before = None
        /\ reply = "none"

-----------------------------------------------------------------------------
(* Power, and the calls the application makes.                             *)

\* Start-up runs recovery on the file before anything reads it.
Boot == /\ pc = "down"
        /\ pc' = "recover"
        /\ caller' = "boot"
        /\ UNCHANGED <<files, backupActive, ok, target, before, reply>>

\* Losing power keeps the files and loses everything else.
Crash == /\ pc' = "down"
         /\ caller' = "boot"
         /\ backupActive' = FALSE
         /\ ok' = FALSE
         /\ reply' = "none"
         /\ UNCHANGED <<files, target, before>>

BeginWrite(v) == /\ pc = "idle"
                 /\ pc' = "recover"
                 /\ caller' = "write"
                 /\ ok' = FALSE
                 /\ target' = v
                 /\ before' = Logical
                 /\ reply' = "none"
                 /\ UNCHANGED <<files, backupActive>>

BeginRemove == /\ pc = "idle"
               /\ pc' = "removeTemp"
               /\ ok' = FALSE
               /\ target' = None
               /\ before' = Logical
               /\ reply' = "none"
               /\ UNCHANGED <<files, caller, backupActive>>

Return(r) == /\ pc' = "idle"
             /\ reply' = IF r THEN "true" ELSE "false"

-----------------------------------------------------------------------------
(* zf_storage_recover_atomic_file                                          *)

\* The caller of recovery goes on with its verdict: boot keeps it, a write
\* gives up when recovery failed, publication ignores it and fails.
AfterRecovery(good) ==
    \/ /\ caller = "boot"
       /\ Return(good)
    \/ /\ caller = "write" /\ good
       /\ pc' = "openTemp"
       /\ UNCHANGED reply
    \/ /\ caller = "write" /\ ~good
       /\ Return(FALSE)
    \/ /\ caller = "publish"
       /\ pc' = "finish"
       /\ UNCHANGED reply

\* Variant: a failed restore is reported as a success.
RecoverRenameUnchecked ==
    /\ pc = "recover"
    /\ IF primary = None /\ backup # None
         THEN \/ primary' = backup /\ backup' = None
              \/ UNCHANGED <<primary, backup>>
         ELSE UNCHANGED <<primary, backup>>
    /\ pc' = IF primary' # None THEN "recoverDropBackup" ELSE "recoverDropTemp"
    /\ UNCHANGED <<temp, caller, backupActive, ok, target, before, reply>>

\* rename(backup, path) when only the backup exists; there is no file to
\* overwrite, so the rename either relinks the backup or changes nothing.
RecoverRename ==
    /\ pc = "recover"
    /\ \/ /\ primary = None /\ backup # None
          /\ \/ /\ primary' = backup
                /\ backup' = None
                /\ pc' = "recoverDropBackup"
             \/ /\ pc' = "recoverFailed"
                /\ UNCHANGED <<primary, backup>>
       \/ /\ primary # None
          /\ pc' = "recoverDropBackup"
          /\ UNCHANGED <<primary, backup>>
       \/ /\ primary = None /\ backup = None
          /\ pc' = "recoverDropTemp"
          /\ UNCHANGED <<primary, backup>>
    /\ UNCHANGED <<temp, caller, backupActive, ok, target, before, reply>>

RecoverDropBackup ==
    /\ pc = "recoverDropBackup"
    /\ backup' \in MayRemove(backup)
    /\ pc' = "recoverDropTemp"
    /\ UNCHANGED <<primary, temp, caller, backupActive, ok, target, before, reply>>

RecoverDropTemp ==
    /\ pc \in {"recoverDropTemp", "recoverFailed"}
    /\ temp' \in MayRemove(temp)
    /\ AfterRecovery(pc = "recoverDropTemp")
    /\ UNCHANGED <<primary, backup, caller, backupActive, ok, target, before>>

-----------------------------------------------------------------------------
(* zf_storage_write_file_atomic and zf_storage_write_format_atomic         *)

\* Remove a stale temporary file and create an empty one.
OpenTemp ==
    /\ pc = "openTemp"
    /\ \/ temp' = Torn /\ pc' = "writeTemp"
       \/ temp' \in MayRemove(temp) /\ pc' = "finish"
    /\ UNCHANGED <<primary, backup, caller, backupActive, ok, target, before, reply>>

\* Variant: the number of bytes written is not compared with the size.
WriteTempUnchecked ==
    /\ pc = "writeTemp"
    /\ temp' \in {target, temp}
    /\ pc' = "prepare"
    /\ UNCHANGED <<primary, backup, caller, backupActive, ok, target, before, reply>>

\* Only a complete temporary file is published.
WriteTemp ==
    /\ pc = "writeTemp"
    /\ \/ temp' = target /\ pc' = "prepare"
       \/ UNCHANGED temp /\ pc' = "finish"
    /\ UNCHANGED <<primary, backup, caller, backupActive, ok, target, before, reply>>

\* zf_storage_prepare_atomic_backup: make way for the backup copy.
PrepareBackup ==
    /\ pc = "prepare"
    /\ backupActive' = FALSE
    /\ \/ primary = None /\ pc' = "unlink" /\ UNCHANGED backup
       \/ primary # None /\ pc' = "copy" /\ backup' = None
       \/ primary # None /\ pc' = "abandon" /\ UNCHANGED backup
    /\ UNCHANGED <<primary, temp, caller, ok, target, before, reply>>

\* storage_common_copy(path, backup_path) creates the copy ...
BeginCopy ==
    /\ pc = "copy"
    /\ \/ backup' = Torn /\ pc' = "copying"
       \/ UNCHANGED backup /\ pc' = "abandon"
    /\ UNCHANGED <<primary, temp, caller, backupActive, ok, target, before, reply>>

\* ... and fills it.
FinishCopy ==
    /\ pc = "copying"
    /\ \/ backup' = primary /\ backupActive' = TRUE /\ pc' = "unlink"
       \/ UNCHANGED <<backup, backupActive>> /\ pc' = "abandon"
    /\ UNCHANGED <<primary, temp, caller, ok, target, before, reply>>

AbandonTemp ==
    /\ pc = "abandon"
    /\ temp' \in MayRemove(temp)
    /\ pc' = "finish"
    /\ UNCHANGED <<primary, backup, caller, backupActive, ok, target, before, reply>>

\* A rename that fails starts the recovery of the file.
RenameFailed == /\ pc' = "recover"
                /\ caller' = "publish"

\* storage_common_rename(temp_path, path) first removes the file at path ...
RenameUnlink ==
    /\ pc = "unlink"
    /\ \/ primary' = None /\ pc' = "relink" /\ UNCHANGED caller
       \/ UNCHANGED primary /\ RenameFailed
    /\ UNCHANGED <<backup, temp, backupActive, ok, target, before, reply>>

\* ... and then gives its name to the temporary file.
RenameRelink ==
    /\ pc = "relink"
    /\ \/ /\ primary' = temp
          /\ temp' = None
          /\ ok' = TRUE
          /\ pc' = "dropBackup"
          /\ UNCHANGED caller
       \/ RenameFailed /\ UNCHANGED <<primary, temp, ok>>
    /\ UNCHANGED <<backup, backupActive, target, before, reply>>

DropBackup ==
    /\ pc = "dropBackup"
    /\ backup' \in IF backupActive THEN MayRemove(backup) ELSE {backup}
    /\ pc' = "finish"
    /\ UNCHANGED <<primary, temp, caller, backupActive, ok, target, before, reply>>

Finish ==
    /\ pc = "finish"
    /\ temp' \in MayRemove(temp)
    /\ Return(ok)
    /\ UNCHANGED <<primary, backup, caller, backupActive, ok, target, before>>

-----------------------------------------------------------------------------
(* zf_storage_remove_atomic_file: temporary file, backup, primary, and     *)
(* stop at the first error.                                                *)

RemoveTemp ==
    /\ pc = "removeTemp"
    /\ \/ temp' = None /\ pc' = "removeBackup" /\ UNCHANGED reply
       \/ UNCHANGED temp /\ Return(FALSE)
    /\ UNCHANGED <<primary, backup, caller, backupActive, ok, target, before>>

\* Variant: the removal forgets the backup.
RemoveBackupSkipped ==
    /\ pc = "removeBackup"
    /\ pc' = "removePrimary"
    /\ UNCHANGED <<files, caller, backupActive, ok, target, before, reply>>

RemoveBackup ==
    /\ pc = "removeBackup"
    /\ \/ backup' = None /\ pc' = "removePrimary" /\ UNCHANGED reply
       \/ UNCHANGED backup /\ Return(FALSE)
    /\ UNCHANGED <<primary, temp, caller, backupActive, ok, target, before>>

RemovePrimary ==
    /\ pc = "removePrimary"
    /\ pc' = "removed"
    /\ \/ primary' = None /\ ok' = TRUE
       \/ UNCHANGED <<primary, ok>>
    /\ UNCHANGED <<backup, temp, caller, backupActive, target, before, reply>>

RemoveReturn ==
    /\ pc = "removed"
    /\ Return(ok)
    /\ UNCHANGED <<files, caller, backupActive, ok, target, before>>

-----------------------------------------------------------------------------
WriteStep == \/ OpenTemp \/ WriteTemp \/ PrepareBackup \/ BeginCopy \/ FinishCopy
             \/ AbandonTemp \/ RenameUnlink \/ RenameRelink \/ DropBackup \/ Finish

RecoverStep == RecoverRename \/ RecoverDropBackup \/ RecoverDropTemp

RemoveStep == RemoveTemp \/ RemoveBackup \/ RemovePrimary \/ RemoveReturn

Step == WriteStep \/ RecoverStep \/ RemoveStep

Next == \/ Boot
        \/ Crash
        \/ \E v \in Value : BeginWrite(v)
        \/ BeginRemove
        \/ Step

Spec == Init /\ [][Next]_vars

-----------------------------------------------------------------------------
(* Properties                                                              *)

\* Every variable has its type; the file at path is always a complete one.
TypeOK == /\ primary \in Value \cup {None}
          /\ backup \in Content
          /\ temp \in Content
          /\ pc \in PCs
          /\ caller \in Callers
          /\ backupActive \in BOOLEAN
          /\ ok \in BOOLEAN
          /\ target \in Value \cup {None}
          /\ before \in Value \cup {None}
          /\ reply \in {"none", "true", "false"}

(***************************************************************************)
(* However often the power fails and whichever calls of zerofido_storage.c *)
(* fail, what recovery would find at path is a value that was written in   *)
(* full, never a half-written file.                                        *)
(***************************************************************************)
NeverTorn == Logical # Torn

(***************************************************************************)
(* A caller that was told TRUE, by a write, a removal or the recovery at   *)
(* start-up, finds the logical content by reading the primary file alone,  *)
(* which is all zf_storage_read_file does: no reply of TRUE leaves the     *)
(* value stranded in the backup.                                           *)
(***************************************************************************)
TrueReplyReadsBack == pc = "idle" /\ reply = "true" => primary = Logical

(***************************************************************************)
(* zf_storage_publish_atomic_temp takes the old file away only when a      *)
(* complete copy of it is in the backup, so the old value survives a power *)
(* loss between the two halves of the rename.                              *)
(***************************************************************************)
BackupGuardsRename == pc = "relink" /\ before # None => backup = before

(***************************************************************************)
(* The protocol implements the register its callers rely on.               *)
(***************************************************************************)
Recovering == pc \in {"recover", "recoverDropBackup", "recoverDropTemp", "recoverFailed"}

Phase == IF pc = "idle" THEN "idle"
         ELSE IF pc = "down" \/ (Recovering /\ caller = "boot") THEN "down"
         ELSE "busy"

Register == INSTANCE AtomicRegister WITH reg <- Logical, phase <- Phase

\* Seen through Logical, the sequence of storage calls is an atomic register:
\* each write or removal of zerofido_storage.c takes effect at once or not at
\* all, its Boolean result is truthful, and neither a power loss nor recovery
\* ever changes the content (in particular nothing removed comes back).
ImplementsRegister == Register!Spec
=============================================================================
