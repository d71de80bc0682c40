------------------------------- MODULE KeyQueue -------------------------------
(***************************************************************************)
(* What the input ring of the OLED menu promises to the user: the menu     *)
(* gets the keys in the order they were pressed, each at most once, and a  *)
(* key is lost only when Capacity keys are waiting already.  Keys are      *)
(* numbered in the order they are pressed.                                 *)
(***************************************************************************)
EXTENDS Naturals, Sequences

CONSTANT Capacity

VARIABLES presses,   (* number of the last key pressed                      *)
          queue,     (* keys accepted and not given to the menu yet         *)
          handled    (* the last key the menu got                           *)

vars == <<presses, queue, handled>>

Init == presses = 0 /\ queue = << >> /\ handled = 0

Press ==
  /\ presses' = presses + 1
  /\ \/ queue' = Append(queue, presses')
     \/ Len(queue) >= Capacity /\ UNCHANGED queue
  /\ UNCHANGED handled

Handle ==
  /\ queue # << >>
  /\ handled' = Head(queue) /\ queue' = Tail(queue)
  /\ UNCHANGED presses

Spec == Init /\ [][Press \/ Handle]_vars
===============================================================================
