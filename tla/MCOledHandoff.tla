---------------------------- MODULE MCOledHandoff -----------------------------
(* OledHandoff with a ring of two slots: one key fills it, the second is     *)
(* lost unless the first was taken, and the indices wrap.                    *)
EXTENDS OledHandoff
===============================================================================
