---------------------------- MODULE MCSettingsFile ----------------------------
(* Two settings with two values each. *)
EXTENDS SettingsFile

AllOff == [s \in Settings |-> 0]
===============================================================================
