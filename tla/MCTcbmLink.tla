------------------------------ MODULE MCTcbmLink ------------------------------
(* TcbmLink with the codes themselves among the bytes that are sent.         *)
EXTENDS TcbmLink

MCBytes == {0, 255} \cup Codes
===============================================================================
