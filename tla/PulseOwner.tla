------------------------------ MODULE PulseOwner ------------------------------
(***************************************************************************)
(* What PausePlayback()/ResumePlayback() and CoreLoop() of the cassette    *)
(* player promise each other: the array of half-wave timings has at most   *)
(* one owner, which is either core 2 (it is producing a half-wave) or the  *)
(* one core that is editing the tape, and ownership only changes hands     *)
(* through Nobody.  TapePlayer implements this module.                     *)
(***************************************************************************)
CONSTANTS
  Cores,   (* the cores that edit the tape                     *)
  Player,  (* core 2, which plays it                           *)
  Nobody

VARIABLE owner

Init == owner = Nobody

Acquire == /\ owner = Nobody
           /\ \E c \in Cores \union {Player} : owner' = c

Release == /\ owner # Nobody
           /\ owner' = Nobody

Next == Acquire \/ Release

Spec == Init /\ [][Next]_owner
===============================================================================
