------------------------------- MODULE TcbmLink -------------------------------
(***************************************************************************)
(* One byte over the TCBM bus while browsing, line by line: the device is  *)
(* src/src/tcbm_commands.cpp on the lines of src/src/tcbm_bus.h, the host  *)
(* is the KERNAL of the computer (docs/plus4-kernal-disassembly.txt, an    *)
(* external party).  A step is one access to the lines.                    *)
(*                                                                         *)
(* dav and ack are TRUE when the line is high.  DIO is driven by whoever   *)
(* has made it an output; nobody driving it, the pull-ups make it $FF.     *)
(* The device answers every code here; TcbmServer says which it drops.     *)
(* The reset line is honoured (setting Reset REACT), a reset lasts until   *)
(* the device has seen it, and the host boots slower than the device       *)
(* recovers.  A host that is not in reset does not stop for five seconds.  *)
(***************************************************************************)
EXTENDS Naturals

CONSTANTS
  Bytes,        (* what the lines can carry                                  *)
  Statuses,     (* values of the two ST lines                                *)
  None

CODE_COMMAND == 129
CODE_SECOND  == 130
CODE_RECV    == 131
CODE_SEND    == 132
STATUS_OK    == 0
High         == 255

PutCodes == {CODE_COMMAND, CODE_SECOND, CODE_RECV}
Codes    == PutCodes \cup {CODE_SEND}

Calls   == [code : PutCodes, byte : Bytes] \cup [code : {CODE_SEND}, byte : {None}]
Replies == [byte : Bytes, status : Statuses]

ASSUME LinkAssumption ==
  /\ Bytes \subseteq 0 .. 255 /\ Codes \cup {0, High} \subseteq Bytes
  /\ Statuses \subseteq 0 .. 3 /\ STATUS_OK \in Statuses
  /\ None \notin Bytes \cup Calls \cup Replies

VARIABLES
  hostPc, call, hostByte, hostStatus,   (* the KERNAL: where, and its registers *)
  result,                               (* history: what the last call brought  *)
  hostLatch, hostOut, dav,              (* its side of the lines                *)
  reset,                                (* the RESET line is low                *)
  devPc, first, byte, status,           (* the device: where, and its variables *)
  devOut, st, ack                       (* its side: DIO carries byte            *)

hostRegs  == <<call, hostByte, hostStatus, result>>
hostLines == <<hostLatch, hostOut, dav>>
host      == <<hostPc, hostRegs, hostLines, reset>>
devRegs   == <<first, byte, status>>
devLines  == <<devOut, st, ack>>
dev       == <<devPc, devRegs, devLines>>
vars      == <<host, dev>>

(* What a reader of DIO may see; two drivers at once may give anything.      *)
Dio == IF hostOut /\ devOut THEN Bytes
       ELSE {IF hostOut THEN hostLatch ELSE IF devOut THEN byte ELSE High}

Host(from, to) == hostPc = from /\ hostPc' = to /\ UNCHANGED <<dev, reset>>
Dev(from, to)  == devPc = from /\ devPc' = to /\ UNCHANGED host

Init ==
  /\ hostPc = "idle" /\ call = None /\ hostByte = 0 /\ hostStatus = STATUS_OK /\ result = None
  /\ hostLatch = 0 /\ hostOut = TRUE /\ dav = TRUE /\ reset = FALSE
  /\ devPc = "poll" /\ first = 0 /\ byte = 0 /\ status = STATUS_OK
  /\ devOut = FALSE /\ st = STATUS_OK /\ ack = TRUE

-----------------------------------------------------------------------------
(* The host. *)

PlaceCode ==
  /\ call' \in Calls /\ hostLatch' = call'.code
  /\ Host("idle", IF call'.code = CODE_SEND THEN "get" ELSE "put")
  /\ result' = None
  /\ UNCHANGED <<hostByte, hostStatus, hostOut, dav>>

HostAwait(from, to, level) ==
  /\ Host(from, to) /\ ack = level
  /\ UNCHANGED <<hostRegs, hostLines>>

HostWaits ==
  \/ HostAwait("put", "put byte", FALSE) \/ HostAwait("put sent", "put status", TRUE)
  \/ HostAwait("get", "get float", FALSE) \/ HostAwait("get asked", "get status", TRUE)
  \/ HostAwait("get taken", "get drive", FALSE) \/ HostAwait("get thanked", "release", TRUE)

HostSetDav ==
  /\ \/ Host("put strobe", "put sent") /\ dav' = FALSE
     \/ Host("get ask", "get asked") /\ dav' = FALSE
     \/ Host("get take", "get taken") /\ dav' = TRUE
     \/ Host("get thank", "get thanked") /\ dav' = FALSE
  /\ UNCHANGED <<hostRegs, hostLatch, hostOut>>

HostSetDio ==
  /\ \/ Host("put byte", "put strobe") /\ hostLatch' = call.byte
     \/ Host("put clear", "release") /\ hostLatch' = 0
     \/ Host("get clear", "get thank") /\ hostLatch' = 0
  /\ UNCHANGED <<hostRegs, hostOut, dav>>

HostTurnDio ==
  /\ \/ Host("get float", "get ask") /\ hostOut' = FALSE
     \/ Host("get drive", "get clear") /\ hostOut' = TRUE
  /\ UNCHANGED <<hostRegs, hostLatch, dav>>

HostReadStatus ==
  /\ Host("put status", "put clear") \/ Host("get status", "get read")
  /\ hostStatus' = st
  /\ UNCHANGED <<call, hostByte, result, hostLines>>

HostReadByte ==
  /\ Host("get read", "get take")
  /\ hostByte' \in Dio
  /\ UNCHANGED <<call, hostStatus, result, hostLines>>

(* The byte a put brings to result is its own, as the device has taken it.   *)
Release ==
  /\ Host("release", "idle")
  /\ dav' = TRUE /\ call' = None
  /\ result' = [byte |-> IF call.code = CODE_SEND THEN hostByte ELSE call.byte,
                status |-> hostStatus]
  /\ hostByte' = 0 /\ hostStatus' = STATUS_OK
  /\ UNCHANGED <<hostLatch, hostOut>>

PressReset ==
  /\ ~reset /\ reset' = TRUE /\ hostPc' = "off"
  /\ call' = None /\ hostByte' = 0 /\ hostStatus' = STATUS_OK /\ result' = None
  /\ hostLatch' = 0 /\ hostOut' = FALSE /\ dav' = TRUE
  /\ UNCHANGED dev

ReleaseReset ==
  /\ reset /\ devPc = "recover"
  /\ reset' = FALSE /\ hostPc' = "boot"
  /\ UNCHANGED <<hostRegs, hostLines, dev>>

Boot ==
  /\ Host("boot", "idle")
  /\ devPc # "recover"
  /\ hostOut' = TRUE
  /\ UNCHANGED <<hostRegs, hostLatch, dav>>

-----------------------------------------------------------------------------
(* The device: ReadTCBMCommandByte() and its blocking form. *)

SeeIdle ==
  /\ Dev("poll", "first") /\ dav
  /\ UNCHANGED <<devRegs, devLines>>

ReadFirst ==
  /\ Dev("first", "second")
  /\ first' \in Dio
  /\ UNCHANGED <<byte, status, devLines>>

(* Mutant: the code of CIOUT is not among those waited for. *)
ReadSecondNoRecv ==
  \E second \in Dio :
    /\ IF first = second /\ second \in Codes \ {CODE_RECV}
         THEN Dev("second", IF second = CODE_SEND THEN "accept send" ELSE "accept")
         ELSE Dev("second", "poll")
    /\ first' = 0
    /\ UNCHANGED <<byte, status, devLines>>

ReadSecond ==
  \E second \in Dio :
    /\ IF first = second /\ second \in Codes
         THEN Dev("second", IF second = CODE_SEND THEN "accept send" ELSE "accept")
         ELSE Dev("second", "poll")
    /\ first' = 0
    /\ UNCHANGED <<byte, status, devLines>>

(* WaitForDAVState(). *)
WaitForDAVState(from, to, level) ==
  /\ Dev(from, to) /\ dav = level
  /\ UNCHANGED <<devRegs, devLines>>

(* The function returns, and its variables with it.                          *)
Return(from) ==
  /\ Dev(from, "poll")
  /\ byte' = 0 /\ status' = STATUS_OK

DeviceWaits ==
  \/ WaitForDAVState("data", "read", FALSE)
  \/ WaitForDAVState("data acked", "data done", TRUE)
  \/ WaitForDAVState("send", "drive", FALSE)
  \/ WaitForDAVState("send acked", "send float", TRUE)
  \/ WaitForDAVState("send thanked", "send done", FALSE)
  \/ Return("send over") /\ dav /\ UNCHANGED <<first, devLines>>

SetACK(from, to, level) ==
  /\ Dev(from, to) /\ ack' = level
  /\ UNCHANGED <<devRegs, devOut, st>>

AssertACK ==
  \/ SetACK("data ack", "data acked", TRUE)
  \/ SetACK("send ack", "send acked", TRUE)
  \/ SetACK("send done", "send over", TRUE)

ReleaseACK ==
  \/ SetACK("accept", "data", FALSE)
  \/ SetACK("accept send", "send", FALSE)
  \/ SetACK("send release", "send thanked", FALSE)

(* ReadTCBMDataByteBlocking(): a rejected SAVE passes STATUS_RECV.           *)

(* Mutant: the byte is read as soon as the code is accepted. *)
ReadDataEarly ==
  /\ devPc \in {"data", "read"} /\ devPc' = "data status"
  /\ byte' \in Dio /\ status' \in Statuses
  /\ UNCHANGED <<host, first, devLines>>

ReadData ==
  /\ Dev("read", "data status")
  /\ byte' \in Dio /\ status' \in Statuses
  /\ UNCHANGED <<first, devLines>>

(* WriteSerialPortByteWithStatus(). *)
SetData ==
  /\ Dev("drive", "send status")
  /\ byte' \in Bytes /\ status' \in Statuses
  /\ devOut' = TRUE
  /\ UNCHANGED <<first, st, ack>>

(* Mutant: ACK is released, but DIO is not. *)
SetDataInputNever ==
  /\ Dev("send float", "send clear")
  /\ UNCHANGED <<devRegs, devLines>>

SetDataInput ==
  /\ Dev("send float", "send clear")
  /\ devOut' = FALSE
  /\ UNCHANGED <<devRegs, st, ack>>

SetStatus ==
  /\ \/ Dev("data status", "data ack") /\ st' = status /\ UNCHANGED devRegs
     \/ Dev("send status", "send ack") /\ st' = status /\ UNCHANGED devRegs
     \/ Dev("send clear", "send release") /\ st' = STATUS_OK /\ UNCHANGED devRegs
     \/ Return("data done") /\ st' = STATUS_OK /\ UNCHANGED first
  /\ UNCHANGED <<devOut, ack>>

(* SimulateIECUpdate() or the wait that fails notices the reset; while it    *)
(* lasts dav is high, so only waits for the low level can fail.              *)
NoticeReset ==
  /\ reset /\ \E pc \in {"poll", "data", "send", "send thanked"} : Dev(pc, "recover")
  /\ UNCHANGED <<devRegs, devLines>>

(* ResetStateMachine() and PrepareBrowseIdleBus().                           *)
PrepareBrowseIdleBus ==
  /\ Return("recover")
  /\ devOut' = FALSE /\ st' = STATUS_OK /\ ack' = TRUE
  /\ UNCHANGED first

-----------------------------------------------------------------------------
HostStep == \/ HostWaits \/ HostSetDav \/ HostSetDio \/ HostTurnDio
            \/ HostReadStatus \/ HostReadByte \/ Release

DeviceStep == \/ SeeIdle \/ ReadFirst \/ ReadSecond \/ DeviceWaits \/ AssertACK \/ ReleaseACK
              \/ ReadData \/ SetData \/ SetDataInput \/ SetStatus
              \/ NoticeReset \/ PrepareBrowseIdleBus

Next == HostStep \/ DeviceStep \/ PlaceCode \/ PressReset \/ ReleaseReset \/ Boot

Spec == Init /\ [][Next]_vars

(* Both processors run; nobody need call, and nobody need press reset.       *)
FairSpec == Spec /\ WF_vars(HostStep) /\ WF_vars(DeviceStep)

-----------------------------------------------------------------------------
HostPcs == {"idle", "off", "boot", "put", "put byte", "put strobe", "put sent", "put status",
            "put clear", "get", "get float", "get ask", "get asked", "get status", "get read",
            "get take", "get taken", "get drive", "get clear", "get thank", "get thanked",
            "release"}

DevPcs == {"poll", "first", "second", "accept", "accept send", "data", "read", "data status",
           "data ack", "data acked", "data done", "send", "drive", "send status", "send ack",
           "send acked", "send float", "send clear", "send release", "send thanked", "send done",
           "send over", "recover"}

PlacesOK == hostPc \in HostPcs /\ devPc \in DevPcs

ValuesOK ==
  /\ call \in Calls \cup {None} /\ hostByte \in Bytes /\ hostStatus \in Statuses
  /\ result \in Replies \cup {None}
  /\ hostLatch \in Bytes /\ hostOut \in BOOLEAN /\ dav \in BOOLEAN /\ reset \in BOOLEAN
  /\ first \in Bytes /\ byte \in Bytes /\ status \in Statuses
  /\ devOut \in BOOLEAN /\ st \in Statuses /\ ack \in BOOLEAN

TypeOK == PlacesOK /\ ValuesOK

(* Host and device never drive the data lines against each other, resets     *)
(* in the middle of an exchange included: SetDataInput() comes before the    *)
(* ACK that lets the host turn its side round.                               *)
NoContention == ~(hostOut /\ devOut)

(* Where the device has served the call; a last wait that dav ends is over.  *)
Served ==
  /\ call # None
  /\ \/ devPc \in {"data status", "data ack", "send status", "send ack", "send acked",
                   "send float", "send clear", "send release", "send thanked", "send done"}
     \/ devPc \in {"data acked", "send over"} /\ dav = FALSE

Link == INSTANCE ByteExchange WITH
          GetCode <- CODE_SEND,
          reply   <- IF Served THEN [byte |-> byte, status |-> status] ELSE None

(* Every call of the host is served once, with the byte and the status that  *)
(* were put on the lines: no edge of DAV or ACK is taken twice or missed,    *)
(* no code is taken for a byte or a byte for a code, and a reset leaves      *)
(* nothing behind for the next call.                                         *)
ExchangesBytes == Link!Spec

(* An exchange ends: the host is never left waiting for ACK, unless it is    *)
(* reset.                                                                    *)
CallsReturn == call # None ~> call = None
===============================================================================
