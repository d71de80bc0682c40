-------------------------- MODULE SettingsFileProofs --------------------------
(***************************************************************************)
(* SettingsFile: what an interrupted or failed save leaves can always be   *)
(* recovered, and saving implements SettingsStore, for any set of settings *)
(* and values.                                                             *)
(***************************************************************************)
EXTENDS SettingsFile, TLAPS

(* Where a save stands. *)
Saving    == {"create", "write", "backup", "keep", "install", "restore"}
Untouched == {"create", "write", "backup"}

(* What is to be installed contains the changes. *)
NewText ==
  pc \in Saving => /\ text \in Texts
                   /\ text = Store!Merged(IF exists THEN Kept ELSE None, runtime, baseline)

(* The temporary file is complete before any other file is touched. *)
TempComplete == pc \in {"backup", "keep", "install", "restore"} => tmp = text

(* How far the swap has gone. *)
Swap ==
  /\ pc \in Untouched => exists = (options # None)
  /\ pc \in {"write", "backup", "cleanup"} => options # None \/ backup = None
  /\ pc = "keep" => exists /\ options # None /\ backup = None
  /\ pc = "install" => options = None /\ exists = (backup # None)
  /\ pc = "restore" => exists /\ options = None /\ backup # None

(* As long as only the backup holds the options, the temporary file is there *)
(* and refuses the next save, which would remove the backup.                 *)
BackupGuarded == options = None /\ backup # None => tmp # None

Inv == TypeOK /\ NothingTorn /\ NewText /\ TempComplete /\ Swap /\ BackupGuarded

(* Merging gives a complete file.                                            *)
LEMMA MergedText ==
  ASSUME NEW t \in Texts \union {None}, NEW now \in Runtimes, NEW before \in Runtimes
  PROVE  Store!Merged(t, now, before) \in Texts
BY SettingsAssumption DEF Store!Merged, Texts, Runtimes, Store!Texts, Store!Runtimes

(* Loading a file gives a value to every setting.                           *)
LEMMA LoadedRuntime ==
  ASSUME NEW t \in Texts
  PROVE  Store!Loaded(t) \in Runtimes
BY SettingsAssumption DEF Store!Loaded, Texts, Runtimes, Store!Texts, Store!Runtimes

(* The initial states satisfy the invariant.                                 *)
LEMMA InvInit == Init => Inv
<1> SUFFICES ASSUME Init PROVE Inv  OBVIOUS
<1>1. runtime \in Runtimes
  BY LoadedRuntime, SettingsAssumption DEF Init, Runtimes, Store!Runtimes
<1> QED
  BY <1>1, SettingsAssumption
  DEF Init, Inv, TypeOK, NothingTorn, NewText, TempComplete, Swap, BackupGuarded,
      Files, Labels, Saving, Untouched

(* Every call of a save, and every way it fails, keeps the invariant.        *)
LEMMA InvSave == Inv /\ SaveSettings => Inv'
<1> SUFFICES ASSUME Inv, SaveSettings PROVE Inv'  OBVIOUS
<1> USE SettingsAssumption
        DEF Inv, TypeOK, NothingTorn, NewText, TempComplete, Swap, BackupGuarded,
            Saving, Untouched, Labels, At, Goto, Files, Kept, card, local
<1>1. CASE ReadOptions
  <2>1. text' \in Texts  BY <1>1, MergedText DEF ReadOptions
  <2>2. (IF exists' THEN Kept' ELSE None) = options  BY <1>1 DEF ReadOptions
  <2>3. text' = Store!Merged(IF exists' THEN Kept' ELSE None, runtime', baseline')
    BY <1>1, <2>2 DEF ReadOptions
  <2>4. TypeOK'  BY <1>1, <2>1 DEF ReadOptions
  <2>5. (NothingTorn /\ TempComplete /\ Swap /\ BackupGuarded)'  BY <1>1 DEF ReadOptions
  <2>6. NewText'
    <3> HIDE DEF Kept
    <3> QED  BY <2>1, <2>3 DEF Store!Merged
  <2> HIDE DEF TypeOK, NothingTorn, NewText, TempComplete, Swap, BackupGuarded
  <2> QED  BY <2>4, <2>5, <2>6
<1>2. CASE CreateTemp    BY <1>2 DEF CreateTemp
<1>3. CASE WriteTemp     BY <1>3 DEF WriteTemp
<1>4. CASE Cleanup       BY <1>4 DEF Cleanup
<1>5. CASE RemoveBackup  BY <1>5 DEF RemoveBackup
<1>6. CASE KeepOld
  <2>1. Kept' = Kept /\ UNCHANGED <<runtime, baseline, local>>  BY <1>6 DEF KeepOld
  <2>2. pc \in Saving /\ (pc' \in Saving => pc' = "install")  BY <1>6 DEF KeepOld
  <2>3. (TypeOK /\ NothingTorn /\ TempComplete /\ Swap /\ BackupGuarded)'
    <3>1. tmp \in Texts /\ exists /\ options # None  BY <1>6 DEF KeepOld
    <3>2. CASE options' = None  BY <1>6, <3>1, <3>2 DEF KeepOld
    <3>3. CASE options' # None  BY <1>6, <3>1, <3>3 DEF KeepOld
    <3> QED  BY <3>2, <3>3
  <2>4. NewText'
    <3> HIDE DEF Kept
    <3> QED  BY <2>1, <2>2
  <2> HIDE DEF TypeOK, NothingTorn, NewText, TempComplete, Swap, BackupGuarded
  <2> QED  BY <2>3, <2>4
<1>7. CASE Install       BY <1>7 DEF Install
<1>8. CASE Restore       BY <1>8 DEF Restore
<1> QED  BY <1>1, <1>2, <1>3, <1>4, <1>5, <1>6, <1>7, <1>8 DEF SaveSettings

(* So does whatever happens between saves, and a power failure during one.   *)
LEMMA InvOther ==
  Inv /\ ((\E s \in Settings, v \in Values : Change(s, v)) \/ LoadSettings \/ PowerFails
          \/ EditOptions \/ RecoverOptions) => Inv'
<1> USE SettingsAssumption
        DEF Inv, TypeOK, NothingTorn, NewText, TempComplete, Swap, BackupGuarded,
            Saving, Untouched, Labels, At, Goto, Files, Kept, card, local
<1>1. ASSUME Inv, NEW s \in Settings, NEW v \in Values, Change(s, v) PROVE Inv'
  <2>1. runtime' \in Runtimes  BY <1>1 DEF Change, Runtimes, Store!Runtimes
  <2> QED  BY <1>1, <2>1 DEF Change
<1>2. ASSUME Inv, LoadSettings PROVE Inv'
  BY <1>2, LoadedRuntime DEF LoadSettings
<1>3. ASSUME Inv, PowerFails PROVE Inv'
  <2>1. runtime' \in Runtimes
    BY <1>3, LoadedRuntime DEF PowerFails, Runtimes, Store!Runtimes
  <2> QED  BY <1>3, <2>1 DEF PowerFails
<1>4. ASSUME Inv, EditOptions PROVE Inv'  BY <1>4 DEF EditOptions
<1>5. ASSUME Inv, RecoverOptions PROVE Inv'  BY <1>5 DEF RecoverOptions
<1> QED  BY <1>1, <1>2, <1>3, <1>4, <1>5

(* The strengthened invariant: how far a save has gone decides which file    *)
(* holds the options.                                                        *)
THEOREM SaveInvariant == Spec => []Inv
<1>1. Inv /\ [Next]_vars => Inv'
  <2>1. Inv /\ UNCHANGED vars => Inv'
    BY DEF vars, Inv, TypeOK, NothingTorn, NewText, TempComplete, Swap, BackupGuarded, Kept
  <2> QED  BY <2>1, InvSave, InvOther DEF Next
<1> QED  BY <1>1, InvInit, PTL DEF Spec

(* No power failure leaves options.txt or its backup half-written.           *)
THEOREM NeverTorn == Spec => []NothingTorn
<1>1. Inv => NothingTorn  BY DEF Inv
<1> QED  BY <1>1, SaveInvariant, PTL

(* A save is one step of SettingsStore, or no step when it fails.            *)
LEMMA StoreStep == Inv /\ [Next]_vars => [Store!Next]_(Store!vars)
<1> SUFFICES ASSUME Inv, [Next]_vars PROVE [Store!Next]_(Store!vars)  OBVIOUS
<1> USE SettingsAssumption
        DEF Inv, TypeOK, NothingTorn, NewText, TempComplete, Swap, BackupGuarded,
            Saving, Untouched, At, Goto, Files, Kept, card, local, Store!vars
<1>1. CASE \E s \in Settings, v \in Values : Change(s, v)
  <2>1. PICK s \in Settings, v \in Values : Change(s, v)  BY <1>1
  <2>2. runtime' \in Store!Runtimes  BY <2>1 DEF Change, Runtimes, Store!Runtimes
  <2> QED  BY <2>1, <2>2 DEF Change, Store!Next, Store!Change
<1>2. CASE LoadSettings   BY <1>2 DEF LoadSettings, Store!Next, Store!Load
<1>3. CASE ReadOptions    BY <1>3 DEF ReadOptions
<1>4. CASE CreateTemp     BY <1>4 DEF CreateTemp
<1>5. CASE WriteTemp      BY <1>5 DEF WriteTemp
<1>6. CASE Cleanup        BY <1>6 DEF Cleanup
<1>7. CASE RemoveBackup   BY <1>7 DEF RemoveBackup
<1>8. CASE KeepOld        BY <1>8 DEF KeepOld
<1>9. CASE Install
  <2>1. text # None /\ text = Store!Merged(Kept, runtime, baseline)
    BY <1>9 DEF Install
  <2> QED  BY <1>9, <2>1 DEF Install, Store!Next, Store!Save
<1>10. CASE Restore       BY <1>10 DEF Restore
<1>11. CASE PowerFails
  BY <1>11 DEF PowerFails, Store!Next, Store!Restart
<1>12. CASE EditOptions
  BY <1>12 DEF EditOptions, Texts, Store!Next, Store!Edit
<1>13. CASE RecoverOptions  BY <1>13 DEF RecoverOptions
<1>14. CASE UNCHANGED vars  BY <1>14 DEF vars
<1> QED  BY <1>1, <1>2, <1>3, <1>4, <1>5, <1>6, <1>7, <1>8, <1>9, <1>10, <1>11, <1>12, <1>13, <1>14
         DEF Next, SaveSettings

(* Saving is atomic: SettingsFile implements SettingsStore.                  *)
THEOREM SavesAtomically == Spec => StoreSpec
<1>1. Init => Store!Init
  BY SettingsAssumption DEF Init, Store!Init, Kept, Texts
<1> QED  BY <1>1, StoreStep, SaveInvariant, PTL DEF Spec, StoreSpec, Store!Spec
===============================================================================
