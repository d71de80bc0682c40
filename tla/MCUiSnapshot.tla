----------------------------- MODULE MCUiSnapshot -----------------------------
(* UiSnapshot with three fields and three publications: one before, one      *)
(* during and one after a read, or two that overtake it.                     *)
EXTENDS UiSnapshot
===============================================================================
