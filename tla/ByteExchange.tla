----------------------------- MODULE ByteExchange -----------------------------
(***************************************************************************)
(* What one byte exchange on the TCBM bus promises: the host calls with a  *)
(* code, and with a byte unless it asks for one; the device replies once,  *)
(* having got exactly that byte; the host gets exactly that reply.  A      *)
(* reset of the host takes the call back.                                  *)
(***************************************************************************)
CONSTANTS Bytes, PutCodes, GetCode, Statuses, None

VARIABLES call,     (* the exchange the host is in                          *)
          reply,    (* what the device did for it                           *)
          result    (* what the last exchange brought the host              *)

vars == <<call, reply, result>>

Calls   == [code : PutCodes, byte : Bytes] \cup [code : {GetCode}, byte : {None}]
Replies == [byte : Bytes, status : Statuses]

Init == call = None /\ reply = None /\ result = None

Call ==
  /\ call = None /\ call' \in Calls
  /\ result' = None /\ UNCHANGED reply

Reply ==
  /\ call # None /\ reply = None
  /\ \E r \in Replies : reply' = r /\ (call.code # GetCode => r.byte = call.byte)
  /\ UNCHANGED <<call, result>>

Return ==
  /\ reply # None
  /\ result' = reply /\ call' = None /\ reply' = None

Reset == call' = None /\ reply' = None /\ result' = None

Spec == Init /\ [][Call \/ Reply \/ Return \/ Reset]_vars
===============================================================================
