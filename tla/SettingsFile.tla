----------------------------- MODULE SettingsFile -----------------------------
(***************************************************************************)
(* SaveSettings() and LoadSettings() of the OLED menu                      *)
(* (src/src/Pi1551Oled.cpp), call by call, on a card that can refuse any   *)
(* call and on a device that can lose power between any two.               *)
(*                                                                         *)
(* A file is what its options parse to; comments and layout are            *)
(* abstracted.  Each FatFS directory update is taken as atomic, and a file *)
(* being written is Torn until f_sync() returned.                          *)
(***************************************************************************)
EXTENDS Naturals

CONSTANTS Settings, Values, Defaults, Absent,
          None,     (* FR_NO_FILE                                          *)
          Torn      (* a file that is not completely written               *)

VARIABLES
  options, backup, tmp,   (* options.txt, options-backup.txt, options.txt.tmp *)
  runtime,                (* the Options the device runs with                 *)
  baseline,               (* the values at the last successful load or save   *)
  pc,
  exists,                 (* options.txt existed when the save began          *)
  text                    (* what the save writes                             *)

card  == <<options, backup, tmp>>
local == <<exists, text>>
vars  == <<options, backup, tmp, runtime, baseline, pc, exists, text>>

(* The version of the options that is on the card: while a save swaps the    *)
(* files, or after one was interrupted, it is the backup.                    *)
Kept == IF options # None THEN options ELSE backup

Store == INSTANCE SettingsStore WITH store <- Kept

Runtimes == Store!Runtimes
Texts    == Store!Texts
Files    == Texts \union {None, Torn}

ASSUME SettingsAssumption ==
  /\ Defaults \in [Settings -> Values]
  /\ Absent \notin Values
  /\ None \notin Texts /\ Torn \notin Texts /\ None # Torn

At(l)   == pc = l
Goto(l) == pc' = l

-----------------------------------------------------------------------------
(* The runtime options. *)

(* Backend::Set(), and a device number set by the host. *)
Change(s, v) ==
  /\ At("idle")
  /\ runtime' = [runtime EXCEPT ![s] = v]
  /\ UNCHANGED <<card, baseline, pc, local>>

(* LoadSettings(); when reading or parsing fails nothing changes. *)
LoadSettings ==
  /\ At("idle") /\ options \in Texts
  /\ runtime' = Store!Loaded(options) /\ baseline' = runtime'
  /\ UNCHANGED <<card, pc, local>>

-----------------------------------------------------------------------------
(* SaveSettings(). *)

(* f_stat(), ReadText(), MergeRuntimeSettings(). *)
ReadOptions ==
  /\ At("idle") /\ options \in Texts \union {None}
  /\ exists' = (options # None)
  /\ text' = Store!Merged(options, runtime, baseline)
  /\ Goto("create")
  /\ UNCHANGED <<card, runtime, baseline>>

(* Mutant: the temporary file is truncated instead of refused. *)
CreateAlways ==
  /\ At("create")
  /\ tmp' = Torn /\ Goto("write")
  /\ UNCHANGED <<options, backup, runtime, baseline, local>>

(* An existing temporary file refuses the save, and so does f_open(). *)
CreateTemp ==
  /\ At("create")
  /\ \/ tmp = None /\ tmp' = Torn /\ Goto("write")
     \/ UNCHANGED tmp /\ Goto("idle")
  /\ UNCHANGED <<options, backup, runtime, baseline, local>>

(* Mutant: the result of f_write() is ignored. *)
WriteUnchecked ==
  /\ At("write")
  /\ tmp' \in {text, Torn} /\ Goto("backup")
  /\ UNCHANGED <<options, backup, runtime, baseline, local>>

(* f_write(), f_sync() and f_close(). *)
WriteTemp ==
  /\ At("write")
  /\ \/ tmp' = text /\ Goto("backup")
     \/ tmp' \in {text, Torn} /\ Goto("cleanup")
  /\ UNCHANGED <<options, backup, runtime, baseline, local>>

(* f_unlink(options.txt.tmp), whose result nobody looks at. *)
Cleanup ==
  /\ At("cleanup") /\ Goto("idle")
  /\ tmp' \in {tmp, None}
  /\ UNCHANGED <<options, backup, runtime, baseline, local>>

(* f_stat() and f_unlink() of the previous backup. *)
RemoveBackup ==
  /\ At("backup")
  /\ \/ backup' = None /\ Goto(IF exists THEN "keep" ELSE "install")
     \/ UNCHANGED backup /\ Goto("cleanup")
  /\ UNCHANGED <<options, tmp, runtime, baseline, local>>

(* f_rename(options.txt, options-backup.txt). *)
KeepOld ==
  /\ At("keep")
  /\ \/ backup' = options /\ options' = None /\ Goto("install")
     \/ UNCHANGED <<options, backup>> /\ Goto("cleanup")
  /\ UNCHANGED <<tmp, runtime, baseline, local>>

(* f_rename(options.txt.tmp, options.txt); CaptureBaseline(). *)
Install ==
  /\ At("install")
  /\ \/ options' = tmp /\ tmp' = None /\ baseline' = runtime /\ Goto("idle")
     \/ UNCHANGED <<options, tmp, baseline>> /\ Goto(IF exists THEN "restore" ELSE "cleanup")
  /\ UNCHANGED <<backup, runtime, local>>

(* Put the old file back; when that fails too, the temporary file stays. *)
Restore ==
  /\ At("restore")
  /\ \/ options' = backup /\ backup' = None /\ Goto("cleanup")
     \/ UNCHANGED <<options, backup>> /\ Goto("idle")
  /\ UNCHANGED <<tmp, runtime, baseline, local>>

SaveSettings ==
  \/ ReadOptions \/ CreateTemp \/ WriteTemp \/ Cleanup
  \/ RemoveBackup \/ KeepOld \/ Install \/ Restore

-----------------------------------------------------------------------------
(* Outside the program. *)

(* Power fails at any point, and the device boots. *)
PowerFails ==
  /\ Goto("idle")
  /\ runtime' = IF options \in Texts THEN Store!Loaded(options) ELSE Defaults
  /\ baseline' = runtime'
  /\ UNCHANGED <<card, local>>

(* The user edits options.txt on a computer, or recovers it from the backup  *)
(* and removes what an interrupted save left.                                *)
EditOptions ==
  /\ At("idle") /\ options # None
  /\ options' \in Texts
  /\ UNCHANGED <<backup, tmp, runtime, baseline, pc, local>>

RecoverOptions ==
  /\ At("idle") /\ tmp # None
  /\ tmp' = None /\ options' = Kept
  /\ UNCHANGED <<backup, runtime, baseline, pc, local>>

Init ==
  /\ options \in Texts \union {None} /\ backup = None /\ tmp = None
  /\ runtime = (IF options = None THEN Defaults ELSE Store!Loaded(options))
  /\ baseline = runtime
  /\ pc = "idle" /\ exists = FALSE /\ text = Torn

Next ==
  \/ \E s \in Settings, v \in Values : Change(s, v)
  \/ LoadSettings \/ SaveSettings
  \/ PowerFails \/ EditOptions \/ RecoverOptions

Spec == Init /\ [][Next]_vars

-----------------------------------------------------------------------------
Labels == {"idle", "create", "write", "cleanup", "backup", "keep", "install", "restore"}

TypeOK ==
  /\ options \in Files /\ backup \in Files /\ tmp \in Files
  /\ runtime \in Runtimes /\ baseline \in Runtimes
  /\ pc \in Labels /\ exists \in BOOLEAN /\ text \in Files

(* At whatever moment the power fails, options.txt and the backup are not    *)
(* half-written: only the temporary file is ever written to.                 *)
NothingTorn == options # Torn /\ backup # Torn

(* The version on the card changes in one step and only by a save, a failed  *)
(* save loses neither the old file nor the changes still to be saved.        *)
StoreSpec == Store!Spec
===============================================================================
