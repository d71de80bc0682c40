---------------------------- MODULE TcbmLinkProofs ----------------------------
(***************************************************************************)
(* For any set of bytes: the types, that the two sides never drive DIO     *)
(* against each other, and that the handshake implements ByteExchange.     *)
(*                                                                         *)
(* The lines do not say how far the other side has come; what makes the    *)
(* handshake work is which places of one program meet which places of the  *)
(* other.  That relation, Meeting, with the lines as functions of the      *)
(* places, is the inductive invariant.                                     *)
(***************************************************************************)
EXTENDS TcbmLink, TLAPS

PutPcs == {"put", "put byte", "put strobe", "put sent", "put status", "put clear"}
GetPcs == {"get", "get float", "get ask", "get asked", "get status", "get read", "get take",
           "get taken", "get drive", "get clear", "get thank", "get thanked"}
Down   == {"off", "boot"}
Floats == {"get ask", "get asked", "get status", "get read", "get take", "get taken", "get drive"}
Strobes == {"put sent", "put status", "put clear", "get asked", "get status", "get read",
            "get take", "get thanked", "release"}

TrueIff(line, condition) == (condition => line = TRUE) /\ (~condition => line = FALSE)

(* What the host drives and knows, by where it is.                           *)
HostSide ==
  /\ TrueIff(reset, hostPc = "off")
  /\ call = None <=> hostPc \in {"idle"} \cup Down
  /\ hostPc \in PutPcs => call.code \in PutCodes
  /\ hostPc \in GetPcs => call.code = CODE_SEND
  /\ TrueIff(hostOut, hostPc \notin Floats \cup Down)
  /\ TrueIff(dav, hostPc \notin Strobes)
  /\ hostPc \in {"put", "get"} => hostLatch = call.code
  /\ hostPc \in {"idle", "off", "boot", "get thank", "get thanked", "release"} => hostLatch = 0
  /\ hostPc \in {"put strobe", "put sent", "put status", "put clear"} => hostLatch = call.byte

(* What the device drives, by where it is.                                   *)
DeviceSide ==
  /\ TrueIff(devOut, devPc \in {"send status", "send ack", "send acked", "send float"})
  /\ devPc \in {"data", "read", "data status", "data ack", "send", "drive", "send status",
                "send ack", "send thanked", "send done"} => ack = FALSE
  /\ devPc \in {"poll", "first", "second", "accept", "accept send", "data acked", "data done",
                "send acked", "send float", "send clear", "send release", "send over"} => ack = TRUE
  /\ devPc \in {"data ack", "data acked", "data done", "send ack", "send acked", "send float",
                "send clear"} => st = status

Meets(devPcs, hostPcs) == devPc \in devPcs => hostPc \in hostPcs

Meeting ==
  /\ Meets({"poll", "first", "second"}, {"idle", "put", "get", "off", "boot"})
  /\ Meets({"accept"}, {"put", "off"})
  /\ Meets({"data"}, {"put", "put byte", "put strobe", "put sent", "off"})
  /\ Meets({"read", "data status", "data ack"}, {"put sent", "off"})
  /\ Meets({"data acked"}, {"put sent", "put status", "put clear", "release",
                            "idle", "put", "get", "off"})
  /\ Meets({"data done"}, {"idle", "put", "get", "off"})
  /\ Meets({"accept send"}, {"get", "off"})
  /\ Meets({"send"}, {"get", "get float", "get ask", "get asked", "off"})
  /\ Meets({"drive", "send status", "send ack"}, {"get asked", "off"})
  /\ Meets({"send acked"}, {"get asked", "get status", "get read", "get take", "get taken", "off"})
  /\ Meets({"send float", "send clear", "send release"}, {"get taken", "off"})
  /\ Meets({"send thanked"}, {"get taken", "get drive", "get clear", "get thank", "get thanked",
                              "off"})
  /\ Meets({"send done"}, {"get thanked", "off"})
  /\ Meets({"send over"}, {"get thanked", "release", "idle", "put", "get", "off"})
  /\ Meets({"recover"}, Down)

(* What was served is what was asked for, and what the host has read.        *)
Agreement ==
  /\ Served /\ call.code # CODE_SEND => byte = call.byte
  /\ hostPc \in {"put clear", "get read", "get take", "get taken", "get drive", "get clear",
                 "get thank", "get thanked", "release"} => hostStatus = status
  /\ hostPc \in {"get take", "get taken", "get drive", "get clear", "get thank", "get thanked"}
       => hostByte = byte
  /\ hostPc = "release" /\ call.code = CODE_SEND => hostByte = byte
  /\ hostPc = "release" => Served
  /\ hostPc = "release" => (devPc = "send over" <=> call.code = CODE_SEND)

LinkInv == TypeOK /\ HostSide /\ DeviceSide /\ Meeting /\ Agreement

-----------------------------------------------------------------------------

(* What the constants are known for.                                         *)
LEMMA Constants ==
  /\ 0 \in Bytes /\ High \in Bytes /\ STATUS_OK \in Statuses
  /\ CODE_SEND \in Bytes /\ CODE_SEND \notin PutCodes
  /\ \A c \in PutCodes : c \in Bytes
  /\ \A c \in Codes : c # 0 /\ c # High
  /\ Codes = PutCodes \cup {CODE_SEND}
  BY LinkAssumption
  DEF Codes, PutCodes, CODE_COMMAND, CODE_SECOND, CODE_RECV, CODE_SEND, High

(* None is none of the others.                                               *)
LEMMA NoneApart == None \notin Calls /\ None \notin Replies
  BY LinkAssumption

(* A call is a put with its byte or a get.                                   *)
LEMMA CallFields ==
  ASSUME NEW c \in Calls
  PROVE  /\ (c.code \in PutCodes /\ c.byte \in Bytes) \/ c.code = CODE_SEND
         /\ c.code \in Codes /\ c.code \in Bytes
  BY Constants DEF Calls

(* The initial states have the invariant.                                    *)
LEMMA InvInit == Init => LinkInv
<1> SUFFICES ASSUME Init PROVE LinkInv
  OBVIOUS
<1>1. TypeOK
  BY Constants DEF Init, TypeOK, PlacesOK, ValuesOK, HostPcs, DevPcs
<1>2. HostSide
  BY DEF Init, HostSide, TrueIff, PutPcs, GetPcs, Down, Floats, Strobes
<1>3. DeviceSide /\ Meeting /\ Agreement
  BY DEF Init, DeviceSide, TrueIff, Meeting, Meets, Agreement, Served
<1> QED
  BY <1>1, <1>2, <1>3 DEF LinkInv

(* What a reader of DIO sees is a byte.                                      *)
LEMMA DioBytes == ValuesOK => Dio \subseteq Bytes
  BY Constants DEF ValuesOK, Dio

(* Every step stays within the two programs.                                *)
LEMMA PlacesStep == PlacesOK /\ [Next]_vars => PlacesOK'
<1> USE DEF PlacesOK, HostPcs, DevPcs, Host, Dev, host, dev
<1>1. PlacesOK /\ HostWaits => PlacesOK'
  BY DEF HostWaits, HostAwait
<1>2. PlacesOK /\ HostSetDav => PlacesOK'
  BY DEF HostSetDav
<1>3. PlacesOK /\ HostSetDio => PlacesOK'
  BY DEF HostSetDio
<1>4. PlacesOK /\ HostTurnDio => PlacesOK'
  BY DEF HostTurnDio
<1>5. PlacesOK /\ HostReadStatus => PlacesOK'
  BY DEF HostReadStatus
<1>6. PlacesOK /\ HostReadByte => PlacesOK'
  BY DEF HostReadByte
<1>7. PlacesOK /\ Release => PlacesOK'
  BY DEF Release
<1>8. PlacesOK /\ PlaceCode => PlacesOK'
  BY DEF PlaceCode
<1>9. PlacesOK /\ PressReset => PlacesOK'
  BY DEF PressReset
<1>10. PlacesOK /\ ReleaseReset => PlacesOK'
  BY DEF ReleaseReset
<1>11. PlacesOK /\ Boot => PlacesOK'
  BY DEF Boot
<1>12. PlacesOK /\ SeeIdle => PlacesOK'
  BY DEF SeeIdle
<1>13. PlacesOK /\ ReadFirst => PlacesOK'
  BY DEF ReadFirst
<1>14. PlacesOK /\ ReadSecond => PlacesOK'
  BY DEF ReadSecond
<1>15. PlacesOK /\ DeviceWaits => PlacesOK'
  BY DEF DeviceWaits, WaitForDAVState, Return
<1>16. PlacesOK /\ AssertACK => PlacesOK'
  BY DEF AssertACK, SetACK
<1>17. PlacesOK /\ ReleaseACK => PlacesOK'
  BY DEF ReleaseACK, SetACK
<1>18. PlacesOK /\ ReadData => PlacesOK'
  BY DEF ReadData
<1>19. PlacesOK /\ SetData => PlacesOK'
  BY DEF SetData
<1>20. PlacesOK /\ SetDataInput => PlacesOK'
  BY DEF SetDataInput
<1>21. PlacesOK /\ SetStatus => PlacesOK'
  BY DEF SetStatus, Return
<1>22. PlacesOK /\ NoticeReset => PlacesOK'
  BY DEF NoticeReset
<1>23. PlacesOK /\ PrepareBrowseIdleBus => PlacesOK'
  BY DEF PrepareBrowseIdleBus, Return
<1>24. PlacesOK /\ UNCHANGED vars => PlacesOK'
  BY DEF vars
<1> HIDE DEF PlacesOK, HostPcs, DevPcs, Host, Dev, host, dev
<1> QED
  BY <1>1, <1>2, <1>3, <1>4, <1>5, <1>6, <1>7, <1>8, <1>9, <1>10, <1>11, <1>12, <1>13,
     <1>14, <1>15, <1>16, <1>17, <1>18, <1>19, <1>20, <1>21, <1>22, <1>23, <1>24 DEF Next,
     HostStep, DeviceStep

(* Every step keeps the types.                                              *)
LEMMA ValuesStep == ValuesOK /\ HostSide /\ [Next]_vars => ValuesOK'
<1> USE DEF ValuesOK, Host, Dev, host, dev, hostRegs, hostLines, devRegs, devLines
<1>1. ValuesOK /\ HostSide /\ HostWaits => ValuesOK'
  BY DEF HostWaits, HostAwait
<1>2. ValuesOK /\ HostSide /\ HostSetDav => ValuesOK'
  BY DEF HostSetDav
<1>3. ValuesOK /\ HostSide /\ HostSetDio => ValuesOK'
  BY Constants, CallFields, NoneApart DEF HostSetDio, HostSide, PutPcs, Down
<1>4. ValuesOK /\ HostSide /\ HostTurnDio => ValuesOK'
  BY DEF HostTurnDio
<1>5. ValuesOK /\ HostSide /\ HostReadStatus => ValuesOK'
  BY DEF HostReadStatus
<1>6. ValuesOK /\ HostSide /\ HostReadByte => ValuesOK'
  BY DioBytes DEF HostReadByte
<1>7. ValuesOK /\ HostSide /\ Release => ValuesOK'
  BY Constants, CallFields, NoneApart DEF Release, Replies, HostSide, Down
<1>8. ValuesOK /\ HostSide /\ PlaceCode => ValuesOK'
  BY CallFields DEF PlaceCode
<1>9. ValuesOK /\ HostSide /\ PressReset => ValuesOK'
  BY Constants DEF PressReset
<1>10. ValuesOK /\ HostSide /\ ReleaseReset => ValuesOK'
  BY DEF ReleaseReset
<1>11. ValuesOK /\ HostSide /\ Boot => ValuesOK'
  BY DEF Boot
<1>12. ValuesOK /\ HostSide /\ SeeIdle => ValuesOK'
  BY DEF SeeIdle
<1>13. ValuesOK /\ HostSide /\ ReadFirst => ValuesOK'
  BY DioBytes DEF ReadFirst
<1>14. ValuesOK /\ HostSide /\ ReadSecond => ValuesOK'
  BY Constants DEF ReadSecond
<1>15. ValuesOK /\ HostSide /\ DeviceWaits => ValuesOK'
  BY Constants DEF DeviceWaits, WaitForDAVState, Return
<1>16. ValuesOK /\ HostSide /\ AssertACK => ValuesOK'
  BY DEF AssertACK, SetACK
<1>17. ValuesOK /\ HostSide /\ ReleaseACK => ValuesOK'
  BY DEF ReleaseACK, SetACK
<1>18. ValuesOK /\ HostSide /\ ReadData => ValuesOK'
  BY DioBytes DEF ReadData
<1>19. ValuesOK /\ HostSide /\ SetData => ValuesOK'
  BY DEF SetData
<1>20. ValuesOK /\ HostSide /\ SetDataInput => ValuesOK'
  BY DEF SetDataInput
<1>21. ValuesOK /\ HostSide /\ SetStatus => ValuesOK'
  BY Constants DEF SetStatus, Return
<1>22. ValuesOK /\ HostSide /\ NoticeReset => ValuesOK'
  BY DEF NoticeReset
<1>23. ValuesOK /\ HostSide /\ PrepareBrowseIdleBus => ValuesOK'
  BY Constants DEF PrepareBrowseIdleBus, Return
<1>24. ValuesOK /\ HostSide /\ UNCHANGED vars => ValuesOK'
  BY DEF vars
<1> HIDE DEF ValuesOK, Host, Dev, host, dev, hostRegs, hostLines, devRegs, devLines
<1> QED
  BY <1>1, <1>2, <1>3, <1>4, <1>5, <1>6, <1>7, <1>8, <1>9, <1>10, <1>11, <1>12, <1>13,
     <1>14, <1>15, <1>16, <1>17, <1>18, <1>19, <1>20, <1>21, <1>22, <1>23, <1>24 DEF Next,
     HostStep, DeviceStep

(* Every step keeps the host's side.                                        *)
LEMMA HostSideStep == HostSide /\ [Next]_vars => HostSide'
<1> USE DEF HostSide, TrueIff, Host, Dev, host, dev, hostRegs, hostLines, PutPcs,
       GetPcs, Down, Floats, Strobes
<1>1. HostSide /\ HostWaits => HostSide'
  BY DEF HostWaits, HostAwait
<1>2. HostSide /\ HostSetDav => HostSide'
  BY DEF HostSetDav
<1>3. HostSide /\ HostSetDio => HostSide'
  BY DEF HostSetDio
<1>4. HostSide /\ HostTurnDio => HostSide'
  BY DEF HostTurnDio
<1>5. HostSide /\ HostReadStatus => HostSide'
  BY DEF HostReadStatus
<1>6. HostSide /\ HostReadByte => HostSide'
  BY DEF HostReadByte
<1>7. HostSide /\ Release => HostSide'
  BY DEF Release
<1>8. HostSide /\ PlaceCode => HostSide'
  BY Constants, CallFields, NoneApart DEF PlaceCode
<1>9. HostSide /\ PressReset => HostSide'
  BY DEF PressReset
<1>10. HostSide /\ ReleaseReset => HostSide'
  BY DEF ReleaseReset
<1>11. HostSide /\ Boot => HostSide'
  BY DEF Boot
<1>12. HostSide /\ SeeIdle => HostSide'
  BY DEF SeeIdle
<1>13. HostSide /\ ReadFirst => HostSide'
  BY DEF ReadFirst
<1>14. HostSide /\ ReadSecond => HostSide'
  BY DEF ReadSecond
<1>15. HostSide /\ DeviceWaits => HostSide'
  BY DEF DeviceWaits, WaitForDAVState, Return
<1>16. HostSide /\ AssertACK => HostSide'
  BY DEF AssertACK, SetACK
<1>17. HostSide /\ ReleaseACK => HostSide'
  BY DEF ReleaseACK, SetACK
<1>18. HostSide /\ ReadData => HostSide'
  BY DEF ReadData
<1>19. HostSide /\ SetData => HostSide'
  BY DEF SetData
<1>20. HostSide /\ SetDataInput => HostSide'
  BY DEF SetDataInput
<1>21. HostSide /\ SetStatus => HostSide'
  BY DEF SetStatus, Return
<1>22. HostSide /\ NoticeReset => HostSide'
  BY DEF NoticeReset
<1>23. HostSide /\ PrepareBrowseIdleBus => HostSide'
  BY DEF PrepareBrowseIdleBus, Return
<1>24. HostSide /\ UNCHANGED vars => HostSide'
  BY DEF vars
<1> HIDE DEF HostSide, TrueIff, Host, Dev, host, dev, hostRegs, hostLines, PutPcs,
       GetPcs, Down, Floats, Strobes
<1> QED
  BY <1>1, <1>2, <1>3, <1>4, <1>5, <1>6, <1>7, <1>8, <1>9, <1>10, <1>11, <1>12, <1>13,
     <1>14, <1>15, <1>16, <1>17, <1>18, <1>19, <1>20, <1>21, <1>22, <1>23, <1>24 DEF Next,
     HostStep, DeviceStep

(* Every step keeps the device's side.                                      *)
LEMMA DeviceSideStep == DeviceSide /\ [Next]_vars => DeviceSide'
<1> USE DEF DeviceSide, TrueIff, Host, Dev, dev, devRegs, devLines
<1>1. DeviceSide /\ HostWaits => DeviceSide'
  BY DEF HostWaits, HostAwait
<1>2. DeviceSide /\ HostSetDav => DeviceSide'
  BY DEF HostSetDav
<1>3. DeviceSide /\ HostSetDio => DeviceSide'
  BY DEF HostSetDio
<1>4. DeviceSide /\ HostTurnDio => DeviceSide'
  BY DEF HostTurnDio
<1>5. DeviceSide /\ HostReadStatus => DeviceSide'
  BY DEF HostReadStatus
<1>6. DeviceSide /\ HostReadByte => DeviceSide'
  BY DEF HostReadByte
<1>7. DeviceSide /\ Release => DeviceSide'
  BY DEF Release
<1>8. DeviceSide /\ PlaceCode => DeviceSide'
  BY DEF PlaceCode
<1>9. DeviceSide /\ PressReset => DeviceSide'
  BY DEF PressReset
<1>10. DeviceSide /\ ReleaseReset => DeviceSide'
  BY DEF ReleaseReset
<1>11. DeviceSide /\ Boot => DeviceSide'
  BY DEF Boot
<1>12. DeviceSide /\ SeeIdle => DeviceSide'
  BY DEF SeeIdle
<1>13. DeviceSide /\ ReadFirst => DeviceSide'
  BY DEF ReadFirst
<1>14. DeviceSide /\ ReadSecond => DeviceSide'
  BY DEF ReadSecond
<1>15. DeviceSide /\ DeviceWaits => DeviceSide'
  BY DEF DeviceWaits, WaitForDAVState, Return
<1>16. DeviceSide /\ AssertACK => DeviceSide'
  BY DEF AssertACK, SetACK
<1>17. DeviceSide /\ ReleaseACK => DeviceSide'
  BY DEF ReleaseACK, SetACK
<1>18. DeviceSide /\ ReadData => DeviceSide'
  BY DEF ReadData
<1>19. DeviceSide /\ SetData => DeviceSide'
  BY DEF SetData
<1>20. DeviceSide /\ SetDataInput => DeviceSide'
  BY DEF SetDataInput
<1>21. DeviceSide /\ SetStatus => DeviceSide'
  BY DEF SetStatus, Return
<1>22. DeviceSide /\ NoticeReset => DeviceSide'
  BY DEF NoticeReset
<1>23. DeviceSide /\ PrepareBrowseIdleBus => DeviceSide'
  BY DEF PrepareBrowseIdleBus, Return
<1>24. DeviceSide /\ UNCHANGED vars => DeviceSide'
  BY DEF vars
<1> HIDE DEF DeviceSide, TrueIff, Host, Dev, dev, devRegs, devLines
<1> QED
  BY <1>1, <1>2, <1>3, <1>4, <1>5, <1>6, <1>7, <1>8, <1>9, <1>10, <1>11, <1>12, <1>13,
     <1>14, <1>15, <1>16, <1>17, <1>18, <1>19, <1>20, <1>21, <1>22, <1>23, <1>24 DEF Next,
     HostStep, DeviceStep

(* A code the device sees was placed by the host for this exchange.         *)
LEMMA CodeOnLines ==
  ASSUME HostSide, DeviceSide, Meeting, devPc = "second", NEW c \in Dio, c \in Codes
  PROVE  c = call.code /\ hostPc = (IF c = CODE_SEND THEN "get" ELSE "put")
<1>1. hostPc \in {"idle", "put", "get", "off", "boot"}
  BY DEF Meeting, Meets
<1>2. devOut = FALSE
  BY DEF DeviceSide, TrueIff
<1>3. CASE hostPc \in {"idle", "off", "boot"}
  <2>1. c = 0 \/ c = High
    BY <1>2, <1>3 DEF HostSide, TrueIff, Dio, Down, Floats
  <2> QED
    BY <2>1, Constants
<1>4. CASE hostPc \in {"put", "get"}
  <2>1. c = call.code
    BY <1>2, <1>4 DEF HostSide, TrueIff, Dio, Down, Floats
  <2>2. hostPc = "put" => call.code \in PutCodes
    BY DEF HostSide, PutPcs
  <2>3. hostPc = "get" => call.code = CODE_SEND
    BY DEF HostSide, GetPcs
  <2> QED
    BY <1>4, <2>1, <2>2, <2>3, Constants
<1> QED
  BY <1>1, <1>3, <1>4

(* The second reading keeps the two programs in step.                        *)
LEMMA ReadSecondMeets ==
  ASSUME Meeting, HostSide, DeviceSide, ReadSecond
  PROVE  Meeting'
<1>1. devPc = "second" /\ hostPc' = hostPc
  BY DEF ReadSecond, Dev, host
<1>2. hostPc \in {"idle", "put", "get", "off", "boot"}
  BY <1>1 DEF Meeting, Meets
<1>3. CASE devPc' = "poll"
  BY <1>1, <1>2, <1>3 DEF Meeting, Meets
<1>4. ASSUME devPc' # "poll"
      PROVE  \/ devPc' = "accept" /\ hostPc = "put"
             \/ devPc' = "accept send" /\ hostPc = "get"
  BY <1>1, <1>4, CodeOnLines DEF ReadSecond, Dev
<1> QED
  BY <1>1, <1>3, <1>4 DEF Meeting, Meets

(* Every step keeps the two programs in step.                               *)
LEMMA MeetingStep == Meeting /\ PlacesOK /\ HostSide /\ DeviceSide /\ [Next]_vars => Meeting'
<1> USE DEF Meeting, Meets, TrueIff, PlacesOK, HostPcs, DevPcs, HostSide, DeviceSide,
       Host, Dev, host, dev, hostLines, devLines, PutPcs, GetPcs, Down, Floats, Strobes
<1>1. Meeting /\ PlacesOK /\ HostSide /\ DeviceSide /\ HostWaits => Meeting'
  BY DEF HostWaits, HostAwait
<1>2. Meeting /\ PlacesOK /\ HostSide /\ DeviceSide /\ HostSetDav => Meeting'
  BY DEF HostSetDav
<1>3. Meeting /\ PlacesOK /\ HostSide /\ DeviceSide /\ HostSetDio => Meeting'
  BY DEF HostSetDio
<1>4. Meeting /\ PlacesOK /\ HostSide /\ DeviceSide /\ HostTurnDio => Meeting'
  BY DEF HostTurnDio
<1>5. Meeting /\ PlacesOK /\ HostSide /\ DeviceSide /\ HostReadStatus => Meeting'
  BY DEF HostReadStatus
<1>6. Meeting /\ PlacesOK /\ HostSide /\ DeviceSide /\ HostReadByte => Meeting'
  BY DEF HostReadByte
<1>7. Meeting /\ PlacesOK /\ HostSide /\ DeviceSide /\ Release => Meeting'
  BY DEF Release
<1>8. Meeting /\ PlacesOK /\ HostSide /\ DeviceSide /\ PlaceCode => Meeting'
  BY DEF PlaceCode
<1>9. Meeting /\ PlacesOK /\ HostSide /\ DeviceSide /\ PressReset => Meeting'
  BY DEF PressReset
<1>10. Meeting /\ PlacesOK /\ HostSide /\ DeviceSide /\ ReleaseReset => Meeting'
  BY DEF ReleaseReset
<1>11. Meeting /\ PlacesOK /\ HostSide /\ DeviceSide /\ Boot => Meeting'
  BY DEF Boot
<1>12. Meeting /\ PlacesOK /\ HostSide /\ DeviceSide /\ SeeIdle => Meeting'
  BY DEF SeeIdle
<1>13. Meeting /\ PlacesOK /\ HostSide /\ DeviceSide /\ ReadFirst => Meeting'
  BY DEF ReadFirst
<1>14. Meeting /\ PlacesOK /\ HostSide /\ DeviceSide /\ ReadSecond => Meeting'
  BY ONLY ReadSecondMeets
<1>15. Meeting /\ PlacesOK /\ HostSide /\ DeviceSide /\ DeviceWaits => Meeting'
  BY DEF DeviceWaits, WaitForDAVState, Return
<1>16. Meeting /\ PlacesOK /\ HostSide /\ DeviceSide /\ AssertACK => Meeting'
  BY DEF AssertACK, SetACK
<1>17. Meeting /\ PlacesOK /\ HostSide /\ DeviceSide /\ ReleaseACK => Meeting'
  BY DEF ReleaseACK, SetACK
<1>18. Meeting /\ PlacesOK /\ HostSide /\ DeviceSide /\ ReadData => Meeting'
  BY DEF ReadData
<1>19. Meeting /\ PlacesOK /\ HostSide /\ DeviceSide /\ SetData => Meeting'
  BY DEF SetData
<1>20. Meeting /\ PlacesOK /\ HostSide /\ DeviceSide /\ SetDataInput => Meeting'
  BY DEF SetDataInput
<1>21. Meeting /\ PlacesOK /\ HostSide /\ DeviceSide /\ SetStatus => Meeting'
  BY DEF SetStatus, Return
<1>22. Meeting /\ PlacesOK /\ HostSide /\ DeviceSide /\ NoticeReset => Meeting'
  BY DEF NoticeReset
<1>23. Meeting /\ PlacesOK /\ HostSide /\ DeviceSide /\ PrepareBrowseIdleBus => Meeting'
  BY DEF PrepareBrowseIdleBus, Return
<1>24. Meeting /\ PlacesOK /\ HostSide /\ DeviceSide /\ UNCHANGED vars => Meeting'
  BY DEF vars
<1> HIDE DEF Meeting, Meets, TrueIff, PlacesOK, HostPcs, DevPcs, HostSide, DeviceSide,
       Host, Dev, host, dev, hostLines, devLines, PutPcs, GetPcs, Down, Floats, Strobes
<1> QED
  BY <1>1, <1>2, <1>3, <1>4, <1>5, <1>6, <1>7, <1>8, <1>9, <1>10, <1>11, <1>12, <1>13,
     <1>14, <1>15, <1>16, <1>17, <1>18, <1>19, <1>20, <1>21, <1>22, <1>23, <1>24 DEF Next,
     HostStep, DeviceStep

(* A call that has just been placed is not served yet.                       *)
LEMMA NothingServed ==
  HostSide /\ Meeting /\ PlaceCode => Agreement'
<1> SUFFICES ASSUME HostSide, Meeting, PlaceCode PROVE Agreement'
  OBVIOUS
<1>1. hostPc = "idle" /\ hostPc' \in {"put", "get"} /\ devPc' = devPc /\ dav' = dav
  BY DEF PlaceCode, Host, dev
<1>2. dav = TRUE
  BY <1>1 DEF HostSide, TrueIff, Strobes
<1>3. devPc \notin {"data status", "data ack", "send status", "send ack", "send acked",
                   "send float", "send clear", "send release", "send thanked", "send done"}
  BY <1>1 DEF Meeting, Meets
<1>4. ~Served'
  BY <1>1, <1>2, <1>3 DEF Served
<1> QED
  BY <1>1, <1>4 DEF Agreement

(* Nothing changes, and nothing disagrees.                                   *)
LEMMA AgreementStutter == Agreement /\ UNCHANGED vars => Agreement'
  BY DEF Agreement, Served, vars, host, dev, hostRegs, hostLines, devRegs

(* Every step keeps what was read in agreement with what was put.           *)
LEMMA AgreementStep ==
  Agreement /\ PlacesOK /\ HostSide /\ DeviceSide /\ Meeting /\ [Next]_vars => Agreement'
<1> USE DEF Agreement, Served, Meeting, Meets, TrueIff, PlacesOK, HostPcs, DevPcs,
       HostSide, DeviceSide, Host, Dev, host, dev, hostRegs, hostLines, devRegs, devLines,
       PutPcs, GetPcs, Down, Floats, Strobes
<1>1. Agreement /\ PlacesOK /\ HostSide /\ DeviceSide /\ Meeting /\ HostWaits => Agreement'
  <2>1. Agreement /\ PlacesOK /\ HostSide /\ DeviceSide /\ Meeting
       /\ HostAwait("put", "put byte", FALSE) => Agreement'
    BY DEF HostAwait
  <2>2. Agreement /\ PlacesOK /\ HostSide /\ DeviceSide /\ Meeting
       /\ HostAwait("put sent", "put status", TRUE) => Agreement'
    BY DEF HostAwait
  <2>3. Agreement /\ PlacesOK /\ HostSide /\ DeviceSide /\ Meeting
       /\ HostAwait("get", "get float", FALSE) => Agreement'
    BY DEF HostAwait
  <2>4. Agreement /\ PlacesOK /\ HostSide /\ DeviceSide /\ Meeting
       /\ HostAwait("get asked", "get status", TRUE) => Agreement'
    BY DEF HostAwait
  <2>5. Agreement /\ PlacesOK /\ HostSide /\ DeviceSide /\ Meeting
       /\ HostAwait("get taken", "get drive", FALSE) => Agreement'
    BY DEF HostAwait
  <2>6. Agreement /\ PlacesOK /\ HostSide /\ DeviceSide /\ Meeting
       /\ HostAwait("get thanked", "release", TRUE) => Agreement'
    BY DEF HostAwait
  <2> QED
    BY <2>1, <2>2, <2>3, <2>4, <2>5, <2>6 DEF HostWaits
<1>2. Agreement /\ PlacesOK /\ HostSide /\ DeviceSide /\ Meeting /\ HostSetDav => Agreement'
  BY DEF HostSetDav
<1>3. Agreement /\ PlacesOK /\ HostSide /\ DeviceSide /\ Meeting /\ HostSetDio => Agreement'
  BY Constants DEF HostSetDio
<1>4. Agreement /\ PlacesOK /\ HostSide /\ DeviceSide /\ Meeting /\ HostTurnDio => Agreement'
  BY DEF HostTurnDio
<1>5. Agreement /\ PlacesOK /\ HostSide /\ DeviceSide /\ Meeting /\ HostReadStatus => Agreement'
  BY DEF HostReadStatus
<1>6. Agreement /\ PlacesOK /\ HostSide /\ DeviceSide /\ Meeting /\ HostReadByte => Agreement'
  BY Constants DEF HostReadByte, Dio
<1>7. Agreement /\ PlacesOK /\ HostSide /\ DeviceSide /\ Meeting /\ Release => Agreement'
  BY DEF Release
<1>8. Agreement /\ PlacesOK /\ HostSide /\ DeviceSide /\ Meeting /\ PlaceCode => Agreement'
  BY ONLY NothingServed
<1>9. Agreement /\ PlacesOK /\ HostSide /\ DeviceSide /\ Meeting /\ PressReset => Agreement'
  BY DEF PressReset
<1>10. Agreement /\ PlacesOK /\ HostSide /\ DeviceSide /\ Meeting /\ ReleaseReset => Agreement'
  BY DEF ReleaseReset
<1>11. Agreement /\ PlacesOK /\ HostSide /\ DeviceSide /\ Meeting /\ Boot => Agreement'
  BY DEF Boot
<1>12. Agreement /\ PlacesOK /\ HostSide /\ DeviceSide /\ Meeting /\ SeeIdle => Agreement'
  BY DEF SeeIdle
<1>13. Agreement /\ PlacesOK /\ HostSide /\ DeviceSide /\ Meeting /\ ReadFirst => Agreement'
  BY DEF ReadFirst
<1>14. Agreement /\ PlacesOK /\ HostSide /\ DeviceSide /\ Meeting /\ ReadSecond => Agreement'
  BY Constants DEF ReadSecond, Dio
<1>15. Agreement /\ PlacesOK /\ HostSide /\ DeviceSide /\ Meeting /\ DeviceWaits => Agreement'
  <2>1. Agreement /\ PlacesOK /\ HostSide /\ DeviceSide /\ Meeting
       /\ WaitForDAVState("data", "read", FALSE) => Agreement'
    BY DEF WaitForDAVState, Return
  <2>2. Agreement /\ PlacesOK /\ HostSide /\ DeviceSide /\ Meeting
       /\ WaitForDAVState("data acked", "data done", TRUE) => Agreement'
    BY DEF WaitForDAVState, Return
  <2>3. Agreement /\ PlacesOK /\ HostSide /\ DeviceSide /\ Meeting
       /\ WaitForDAVState("send", "drive", FALSE) => Agreement'
    BY DEF WaitForDAVState, Return
  <2>4. Agreement /\ PlacesOK /\ HostSide /\ DeviceSide /\ Meeting
       /\ WaitForDAVState("send acked", "send float", TRUE) => Agreement'
    BY DEF WaitForDAVState, Return
  <2>5. Agreement /\ PlacesOK /\ HostSide /\ DeviceSide /\ Meeting
       /\ WaitForDAVState("send thanked", "send done", FALSE) => Agreement'
    BY DEF WaitForDAVState, Return
  <2>6. Agreement /\ PlacesOK /\ HostSide /\ DeviceSide /\ Meeting
       /\ Return("send over") /\ dav /\ UNCHANGED <<first, devLines>> => Agreement'
    BY DEF WaitForDAVState, Return
  <2> QED
    BY <2>1, <2>2, <2>3, <2>4, <2>5, <2>6 DEF DeviceWaits
<1>16. Agreement /\ PlacesOK /\ HostSide /\ DeviceSide /\ Meeting /\ AssertACK => Agreement'
  BY DEF AssertACK, SetACK
<1>17. Agreement /\ PlacesOK /\ HostSide /\ DeviceSide /\ Meeting /\ ReleaseACK => Agreement'
  BY DEF ReleaseACK, SetACK
<1>18. Agreement /\ PlacesOK /\ HostSide /\ DeviceSide /\ Meeting /\ ReadData => Agreement'
  BY Constants DEF ReadData, Dio
<1>19. Agreement /\ PlacesOK /\ HostSide /\ DeviceSide /\ Meeting /\ SetData => Agreement'
  BY DEF SetData
<1>20. Agreement /\ PlacesOK /\ HostSide /\ DeviceSide /\ Meeting /\ SetDataInput => Agreement'
  BY DEF SetDataInput
<1>21. Agreement /\ PlacesOK /\ HostSide /\ DeviceSide /\ Meeting /\ SetStatus => Agreement'
  BY DEF SetStatus, Return
<1>22. Agreement /\ PlacesOK /\ HostSide /\ DeviceSide /\ Meeting /\ NoticeReset => Agreement'
  BY DEF NoticeReset
<1>23. Agreement /\ PlacesOK /\ HostSide /\ DeviceSide /\ Meeting /\ PrepareBrowseIdleBus => Agreement'
  BY DEF PrepareBrowseIdleBus, Return
<1>24. Agreement /\ PlacesOK /\ HostSide /\ DeviceSide /\ Meeting /\ UNCHANGED vars => Agreement'
  BY ONLY AgreementStutter
<1> HIDE DEF Agreement, Served, Meeting, Meets, TrueIff, PlacesOK, HostPcs, DevPcs,
       HostSide, DeviceSide, Host, Dev, host, dev, hostRegs, hostLines, devRegs, devLines,
       PutPcs, GetPcs, Down, Floats, Strobes
<1> QED
  BY <1>1, <1>2, <1>3, <1>4, <1>5, <1>6, <1>7, <1>8, <1>9, <1>10, <1>11, <1>12, <1>13,
     <1>14, <1>15, <1>16, <1>17, <1>18, <1>19, <1>20, <1>21, <1>22, <1>23, <1>24 DEF Next,
     HostStep, DeviceStep

-----------------------------------------------------------------------------

(* The invariant: every reachable state has it.                              *)
THEOREM LinkInvariant == Spec => []LinkInv
<1>1. LinkInv /\ [Next]_vars => LinkInv'
  BY PlacesStep, ValuesStep, HostSideStep, DeviceSideStep, MeetingStep, AgreementStep
     DEF LinkInv, TypeOK
<1> QED
  BY InvInit, <1>1, PTL DEF Spec

(* Every variable keeps its type, for any bytes and statuses.                *)
THEOREM LinkTypesCorrect == Spec => []TypeOK
<1>1. LinkInv => TypeOK
  BY DEF LinkInv
<1> QED
  BY LinkInvariant, <1>1, PTL

(* SetDataInput() precedes the ACK on which the host drives DIO again, and   *)
(* PrepareBrowseIdleBus() the boot of a host that was reset: the two sides   *)
(* never drive DIO against each other.                                       *)
THEOREM DriversApart == Spec => []NoContention
<1>1. LinkInv => NoContention
  <2> SUFFICES ASSUME LinkInv, devOut = TRUE PROVE hostOut = FALSE
    BY DEF LinkInv, HostSide, DeviceSide, TrueIff, NoContention
  <2>1. devPc \in {"send status", "send ack", "send acked", "send float"}
    BY DEF LinkInv, DeviceSide, TrueIff
  <2>2. hostPc \in Floats \cup Down
    BY <2>1 DEF LinkInv, Meeting, Meets, Floats, Down
  <2> QED
    BY <2>2 DEF LinkInv, HostSide, TrueIff
<1> QED
  BY LinkInvariant, <1>1, PTL

(* No progress of the abstract exchange: the same call, reply and result.    *)
Quiet ==
  /\ call' = call /\ result' = result
  /\ Served' <=> Served
  /\ Served => byte' = byte /\ status' = status

(* The steps of the handshake between placing, serving and releasing.       *)
LEMMA QuietSteps ==
  /\ HostSide /\ Meeting
  /\ \/ HostWaits \/ HostSetDav \/ HostSetDio \/ HostTurnDio \/ HostReadStatus
     \/ HostReadByte \/ ReleaseReset \/ Boot \/ SeeIdle \/ ReadFirst
     \/ ReadSecond \/ DeviceWaits \/ AssertACK \/ ReleaseACK \/ SetDataInput
     \/ SetStatus \/ NoticeReset \/ PrepareBrowseIdleBus
  => Quiet
<1> USE DEF Quiet, Served, HostSide, TrueIff, Strobes, Down, Meeting, Meets, Host, Dev,
       host, dev, hostRegs, hostLines, devRegs
<1>1. HostSide /\ Meeting /\ HostWaits => Quiet
  BY DEF HostWaits, HostAwait
<1>2. HostSide /\ Meeting /\ HostSetDav => Quiet
  BY DEF HostSetDav
<1>3. HostSide /\ Meeting /\ HostSetDio => Quiet
  BY DEF HostSetDio
<1>4. HostSide /\ Meeting /\ HostTurnDio => Quiet
  BY DEF HostTurnDio
<1>5. HostSide /\ Meeting /\ HostReadStatus => Quiet
  BY DEF HostReadStatus
<1>6. HostSide /\ Meeting /\ HostReadByte => Quiet
  BY DEF HostReadByte
<1>7. HostSide /\ Meeting /\ ReleaseReset => Quiet
  BY DEF ReleaseReset
<1>8. HostSide /\ Meeting /\ Boot => Quiet
  BY DEF Boot
<1>9. HostSide /\ Meeting /\ SeeIdle => Quiet
  BY DEF SeeIdle
<1>10. HostSide /\ Meeting /\ ReadFirst => Quiet
  BY DEF ReadFirst
<1>11. HostSide /\ Meeting /\ ReadSecond => Quiet
  BY DEF ReadSecond
<1>12. HostSide /\ Meeting /\ DeviceWaits => Quiet
  BY DEF DeviceWaits, WaitForDAVState, Return
<1>13. HostSide /\ Meeting /\ AssertACK => Quiet
  BY DEF AssertACK, SetACK
<1>14. HostSide /\ Meeting /\ ReleaseACK => Quiet
  BY DEF ReleaseACK, SetACK
<1>15. HostSide /\ Meeting /\ SetDataInput => Quiet
  BY DEF SetDataInput
<1>16. HostSide /\ Meeting /\ SetStatus => Quiet
  BY DEF SetStatus, Return
<1>17. HostSide /\ Meeting /\ NoticeReset => Quiet
  BY DEF NoticeReset
<1>18. HostSide /\ Meeting /\ PrepareBrowseIdleBus => Quiet
  BY DEF PrepareBrowseIdleBus, Return
<1> HIDE DEF Quiet, Served, HostSide, TrueIff, Strobes, Down, Meeting, Meets, Host, Dev,
       host, dev, hostRegs, hostLines, devRegs
<1> QED
  BY <1>1, <1>2, <1>3, <1>4, <1>5, <1>6, <1>7, <1>8, <1>9, <1>10, <1>11, <1>12, <1>13,
     <1>14, <1>15, <1>16, <1>17, <1>18

reply == IF Served THEN [byte |-> byte, status |-> status] ELSE None

(* Serving a call: ReadData() and SetData() are a Reply, or are lost on a    *)
(* host that was reset.                                                      *)
LEMMA ServingSteps ==
  ASSUME ValuesOK, HostSide, Meeting, Agreement', ReadData \/ SetData
  PROVE  \/ Link!Reply
         \/ call' = call /\ reply' = reply /\ result' = result
<1>1. call' = call /\ result' = result /\ hostPc' = hostPc
  BY DEF ReadData, SetData, Dev, host, hostRegs
<1>2. ~Served
  BY DEF ReadData, SetData, Dev, Served
<1>3. byte' \in Bytes /\ status' \in Statuses
  BY DioBytes DEF ReadData, SetData
<1>4. CASE call = None
  BY <1>1, <1>2, <1>4 DEF reply, Served
<1>5. CASE call # None
  <2>1. Served'
    BY <1>1, <1>5 DEF ReadData, SetData, Dev, Served
  <2>2. reply' = [byte |-> byte', status |-> status'] /\ reply = None
    BY <1>2, <2>1 DEF reply
  <2>3. call.code # CODE_SEND => byte' = call.byte
    BY <1>1, <2>1 DEF Agreement
  <2> DEFINE r == [byte |-> byte', status |-> status']
  <2>4. r \in Link!Replies /\ (call.code # CODE_SEND => r.byte = call.byte)
    BY <1>3, <2>3 DEF Link!Replies
  <2> HIDE DEF r
  <2> QED
    BY <1>1, <1>2, <1>5, <2>1, <2>2, <2>4 DEF Link!Reply, r
<1> QED
  BY <1>4, <1>5

(* Release() returns to the host what the device replied.                    *)
LEMMA ReleaseReturns ==
  ASSUME ValuesOK, HostSide, Meeting, Agreement, Release
  PROVE  Link!Return
<1>1. hostPc = "release" /\ Served
  BY DEF Release, Host, Agreement
<1>2. hostStatus = status /\ (IF call.code = CODE_SEND THEN hostByte ELSE call.byte) = byte
  BY <1>1 DEF Agreement
<1>3. call' = None /\ result' = [byte |-> byte, status |-> status]
  BY <1>2 DEF Release
<1>4. ~Served'
  BY <1>3 DEF Served
<1>5. [byte |-> byte, status |-> status] \in Replies
  BY DEF ValuesOK, Replies
<1> QED
  BY <1>1, <1>3, <1>4, <1>5, NoneApart DEF Link!Return

(* Placing a code is a Call.                                                 *)
LEMMA PlacingCalls ==
  ASSUME HostSide, Meeting, PlaceCode
  PROVE  Link!Call
<1>1. call = None /\ devPc' = devPc
  BY DEF PlaceCode, Host, HostSide, dev
<1>2. ~Served /\ ~Served'
  <2>1. dav = TRUE /\ hostPc = "idle" /\ dav' = dav
    BY DEF PlaceCode, Host, HostSide, TrueIff, Strobes
  <2> QED
    BY <1>1, <2>1 DEF Served, Meeting, Meets
<1> QED
  BY <1>1, <1>2 DEF PlaceCode, Link!Call, Link!Calls, Calls

(* A reset takes the call back.                                              *)
LEMMA PressingResets == PressReset => Link!Reset
  BY DEF PressReset, Link!Reset, Served

(* The handshake implements the exchange of bytes: every call is served      *)
(* once, the device gets the byte that was put, the host the reply that was  *)
(* given, and a reset in the middle leaves nothing behind.                   *)
THEOREM LinkExchangesBytes == Spec => ExchangesBytes
<1>1. Init => Link!Init
  BY DEF Init, Link!Init, Served
<1>2. LinkInv /\ LinkInv' /\ [Next]_vars
        => [Link!Call \/ Link!Reply \/ Link!Return \/ Link!Reset]_(Link!vars)
  <2> SUFFICES ASSUME LinkInv, LinkInv', [Next]_vars
               PROVE  \/ Link!Call \/ Link!Reply \/ Link!Return \/ Link!Reset
                      \/ call' = call /\ reply' = reply /\ result' = result
    BY DEF Link!vars, reply
  <2>1. ValuesOK /\ HostSide /\ Meeting /\ Agreement /\ Agreement'
    BY DEF LinkInv, TypeOK
  <2>2. CASE PlaceCode
    BY <2>1, <2>2, PlacingCalls
  <2>3. CASE ReadData \/ SetData
    BY <2>1, <2>3, ServingSteps
  <2>4. CASE Release
    BY <2>1, <2>4, ReleaseReturns
  <2>5. CASE PressReset
    BY <2>5, PressingResets
  <2>6. CASE Quiet
    BY <2>6 DEF Quiet, reply
  <2>7. CASE UNCHANGED vars
    BY <2>7 DEF vars, host, dev, hostRegs, hostLines, devRegs, reply, Served
  <2> QED
    BY <2>1, <2>2, <2>3, <2>4, <2>5, <2>6, <2>7, QuietSteps DEF Next, HostStep, DeviceStep
<1> QED
  BY <1>1, <1>2, LinkInvariant, PTL DEF Spec, ExchangesBytes, Link!Spec
===============================================================================
