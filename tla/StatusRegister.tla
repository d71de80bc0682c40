---------------------------- MODULE StatusRegister ----------------------------
(* What the display is promised of the drive state that core 1 publishes: an *)
(* atomic register. A read gives every field of one publication, of the last *)
(* one completed at that moment. UiSnapshot implements this module.          *)
EXTENDS Naturals
CONSTANT Fields
VARIABLES edition,   \* number of the last publication
          result     \* what the last read gave, field by field

Init == edition = 0 /\ result = [f \in Fields |-> 0]
Publish == edition' = edition + 1 /\ UNCHANGED result
Read == result' = [f \in Fields |-> edition] /\ UNCHANGED edition
Next == Publish \/ Read
Spec == Init /\ [][Next]_<<edition, result>>
===============================================================================
