---------------------------- MODULE SettingsStore ----------------------------
(***************************************************************************)
(* What "Save settings" promises: the options on the card change from one  *)
(* complete version to the next in one step, which contains every value    *)
(* changed on the device since the last load or save and leaves the other  *)
(* options as the user wrote them.  A save that fails changes nothing.     *)
(***************************************************************************)
CONSTANTS
  Settings,   (* oled::Setting                                            *)
  Values,
  Defaults,   (* the values a default-constructed Options has             *)
  Absent,     (* an option the file does not set                          *)
  None        (* no file                                                  *)

Runtimes == [Settings -> Values]
Texts    == [Settings -> Values \union {Absent}]

VARIABLES store, runtime, baseline

vars == <<store, runtime, baseline>>

(* The values an options file gives; LoadRuntimeText(). *)
Loaded(text) == [s \in Settings |-> IF text[s] = Absent THEN Defaults[s] ELSE text[s]]

(* MergeRuntimeSettings(): only values changed since the baseline are written. *)
Merged(text, now, before) ==
  [s \in Settings |-> IF now[s] # before[s] THEN now[s]
                      ELSE IF text = None THEN Absent ELSE text[s]]

Init == /\ store \in Texts \union {None}
        /\ runtime = IF store = None THEN Defaults ELSE Loaded(store)
        /\ baseline = runtime

Change == /\ runtime' \in Runtimes
          /\ UNCHANGED <<store, baseline>>

Save == /\ store' = Merged(store, runtime, baseline)
        /\ baseline' = runtime
        /\ UNCHANGED runtime

Load == /\ store # None
        /\ runtime' = Loaded(store) /\ baseline' = runtime'
        /\ UNCHANGED store

(* A restart in the middle of a save can find no file, and runs with defaults. *)
Restart == /\ runtime' \in {Defaults} \union (IF store = None THEN {} ELSE {Loaded(store)})
           /\ baseline' = runtime'
           /\ UNCHANGED store

(* The user edits the file on a computer. *)
Edit == /\ store # None /\ store' \in Texts
        /\ UNCHANGED <<runtime, baseline>>

Next == Change \/ Save \/ Load \/ Restart \/ Edit

Spec == Init /\ [][Next]_vars
===============================================================================
