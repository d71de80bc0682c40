------------------------------ MODULE TcbmServer ------------------------------
(***************************************************************************)
(* The file service of browse mode, src/src/tcbm_commands.cpp, exchange by *)
(* exchange.  One exchange over the bus is one step: TcbmLink shows that   *)
(* the lines carry it.  The host runs the scripts of its KERNAL (LOAD,     *)
(* SAVE) and of BASIC (DIRECTORY, DS$, the command channel); READ is a     *)
(* program that reads a file from a data channel in one go.                *)
(*                                                                         *)
(* A byte, a name, an error message is one value.  Mounted images, the     *)
(* fast protocol and commands that change what is mounted are left out.    *)
(***************************************************************************)
EXTENDS Naturals, Sequences, SequencesExt

CONSTANTS
  Names, Data,   (* of files, and the bytes in them                        *)
  Contents,      (* of files there from the start                          *)
  SaveData,      (* what SAVE may write                                    *)
  BufferSize,    (* bytes of a channel's buffer                            *)
  ListingSize,   (* lines of a listing that it holds                       *)
  None

ASSUME ServerAssumption ==
  /\ IsFiniteSet(Names) /\ {"$", "S"} \cap Names = {}
  /\ None \notin Names /\ None \notin Seq(Data)
  /\ None \notin {"LISTEN", "TALK"} /\ None \notin 129 .. 132
  /\ Contents \cup SaveData \subseteq Seq(Data)
  /\ BufferSize \in Nat \ {0} /\ ListingSize \in Nat \ {0}
  /\ \A d \in SaveData : Len(d) >= 3     (* the address, and a byte *)

CODE_COMMAND == 129
CODE_SECOND  == 130
CODE_RECV    == 131
CODE_SEND    == 132

STATUS_OK   == 0
STATUS_RECV == 1
STATUS_SEND == 2
STATUS_EOI  == 3

Channels == {0, 1, 2, 15}
Errors   == {"00", "01", "25", "62", "74"}
Tokens   == Errors \cup {"$", "S", "CR", "address", "header", "blocks free"}

(* LoadDirectory(), of the entries that f_readdir() finds before it fails, or *)
(* before the directory ends: nothing in the listing tells the one from the   *)
(* other.  What does not fit in the capture buffer is cut off.                *)
Captured(lines) ==
  SubSeq(lines, 1, IF Len(lines) < ListingSize THEN Len(lines) ELSE ListingSize)

Listing(files, found) ==
  Captured(<<"address", "header">> \o SetToSeq({n \in Names : n \in found /\ files[n] # None})
             \o <<"blocks free">>)

VARIABLES
  op, todo,                  (* host: what it does, the exchanges still to come   *)
  pause,                     (* it holds the next for over 100000 polls, under 5 s *)
  got, told,                 (* what it has read, the statuses it was told        *)
  stopped, want,             (* history: STOP was pressed; what a read should give *)
  tcbmState, expects,        (* device; a LISTEN or TALK whose SECOND is awaited  *)
  secondaryAddress, channels, errorMessage,
  owed,                      (* a code accepted, but dropped                      *)
  card,                      (* what is on the card                               *)
  stale                      (* history: channels whose user was cut off          *)

host   == <<op, todo, pause, got, told, stopped, want>>
server == <<tcbmState, expects, secondaryAddress, channels, errorMessage, owed>>
vars   == <<host, server, card, stale>>

-----------------------------------------------------------------------------
(* The host's scripts. *)

Command(byte)       == [code |-> CODE_COMMAND, byte |-> byte]
Second(kind, c)     == [code |-> CODE_SECOND, byte |-> [kind |-> kind, channel |-> c]]
Recv(byte)          == [code |-> CODE_RECV, byte |-> byte]
Send                == [code |-> CODE_SEND, byte |-> None]

Put(bytes)          == [i \in DOMAIN bytes |-> Recv(bytes[i])]
Listen(kind, c)     == <<Command("LISTEN"), Second(kind, c)>>
Talk(c)             == <<Command("TALK"), Second("SECOND", c)>>
Unlisten            == <<Command("UNLISTEN")>>
Untalk              == <<Command("UNTALK")>>
OpenScript(c, name) == Listen("OPEN", c) \o Put(name) \o Unlisten
CloseScript(c)      == Listen("CLOSE", c) \o Unlisten

(* A final Send is repeated; AfterReads says what follows it.                *)
Script(o) ==
  CASE o.kind = "LOAD"      -> OpenScript(0, <<o.name>>) \o Talk(0) \o <<Send, Send, Send>>
    [] o.kind = "DIRECTORY" -> OpenScript(0, <<"$">>) \o Talk(0) \o <<Send>>
    [] o.kind = "READ"      -> OpenScript(2, <<o.name>>) \o Talk(2) \o <<Send>>
    [] o.kind = "DS"        -> Talk(15) \o <<Send>>
    [] o.kind = "SAVE"      -> OpenScript(1, <<o.name>>) \o Listen("SECOND", 1)
                                 \o Put(o.data) \o Unlisten \o CloseScript(1)
    [] o.kind = "OPEN15"    -> OpenScript(15, <<"S", o.name>>) \o CloseScript(15)
    [] o.kind = "PRINT15"   -> Listen("SECOND", 15) \o Put(<<"S", o.name>>) \o Unlisten

AfterReads(o) == CASE o.kind = "DS"   -> Untalk
                   [] o.kind = "READ" -> Untalk \o CloseScript(2)
                   [] OTHER           -> Untalk \o CloseScript(0)

(* found are the files that the card lets the device find for a listing.     *)
Operations ==
  [kind : {"LOAD", "READ", "OPEN15", "PRINT15"}, name : Names]
    \cup [kind : {"LOAD"}, name : {"$"}, found : SUBSET Names]
    \cup [kind : {"DIRECTORY"}, found : SUBSET Names] \cup [kind : {"DS"}]
    \cup [kind : {"SAVE"}, name : Names, data : SaveData]

Done      == todo = <<>>
Reading   == ~Done /\ Head(todo) = Send
Repeating == Reading /\ Len(todo) = 1

(* The KERNAL's LOAD looks for an error after the first byte, for nothing    *)
(* after the second, and from the third on for EOI alone.                    *)
AfterStatus(status) ==
  IF ~Repeating
    THEN IF Reading /\ Len(todo) = 3 /\ status = STATUS_SEND THEN <<>> ELSE Tail(todo)
    ELSE LET end == IF op.kind = "LOAD" THEN {STATUS_EOI} ELSE {STATUS_EOI, STATUS_SEND}
         IN IF (told \cup {status}) \cap end # {} THEN AfterReads(op) ELSE todo

(* The exchange at hand ends for the host.                                   *)
Reply(byte, status) ==
  /\ todo' = AfterStatus(status)
  /\ told' = told \cup ({status} \ {STATUS_OK})
  /\ got' = IF Reading THEN Append(got, byte) ELSE got
  /\ pause' = "none"
  /\ UNCHANGED <<op, stopped, want, owed>>

Served == Reply(None, STATUS_OK)

(* The code is accepted, ACK stays low, and nobody serves the exchange.      *)
Dropped == owed' = Head(todo).code /\ UNCHANGED host

(* The next exchange, as the device meets it.                                *)
Offers(code) == ~Done /\ pause # "on" /\ owed = None /\ Head(todo).code = code
Byte == Head(todo).byte

-----------------------------------------------------------------------------
(* Channels, and the card behind them.  data is what a reader has still to   *)
(* read, or what a writer has written.                                       *)

Channel == [open : BOOLEAN, writing : BOOLEAN, command : Seq(Names \cup {"$", "S"}),
            buffer : Seq(Data \cup Names \cup Tokens), sent : Nat,
            file : Names \cup {None}, data : Seq(Data)]

ClosedChannel == [open |-> FALSE, writing |-> FALSE, command |-> <<>>, buffer |-> <<>>,
                  sent |-> 0, file |-> None, data |-> <<>>]

(* f_write(), of a card that takes it.                                       *)
Write(ch) == [ch EXCEPT !.data = @ \o ch.buffer, !.buffer = <<>>]

(* Channel::Close(), and what f_close() puts on the card.  What was open, and *)
(* how, says nothing any more.                                               *)
Close(ch) ==
  [ch EXCEPT !.open = FALSE, !.writing = FALSE, !.buffer = <<>>, !.sent = 0,
             !.file = None, !.data = <<>>]

CardAfterClose(ch) ==
  IF ch.open /\ ch.writing /\ card[ch.file] # None
    THEN [card EXCEPT ![ch.file] = Write(ch).data]
    ELSE card

Cut(ch) == [ch EXCEPT !.command = <<>>]

(* ResetStateMachine(): the files stay open, though nobody will read on.     *)
ResetStateMachine ==
  /\ tcbmState' = "IDLE" /\ expects' = None /\ secondaryAddress' = 0
  /\ channels' = [c \in Channels |->
                    IF channels[c].writing THEN Cut(channels[c])
                    ELSE [ClosedChannel EXCEPT !.open = channels[c].open]]

(* ReleaseTransferChannel().                                                 *)
ReleaseTransferChannel(c) ==
  /\ channels' = [channels EXCEPT ![c] = Cut(Close(@))]
  /\ card' = CardAfterClose(channels[c])

Passive == tcbmState' = "IDLE" /\ expects' = None

Init ==
  /\ op = None /\ todo = <<>> /\ pause = "none"
  /\ got = <<>> /\ told = {} /\ stopped = FALSE /\ want = None
  /\ tcbmState = "IDLE" /\ expects = None /\ secondaryAddress = 0
  /\ channels = [c \in Channels |-> ClosedChannel]
  /\ errorMessage = "00" /\ owed = None
  /\ card \in [Names -> Contents \cup {None}]
  /\ stale = {}

-----------------------------------------------------------------------------
(* The secondary address after LISTEN. *)

EnterOpenState(c) ==
  /\ tcbmState' = "OPEN"
  /\ channels' = [channels EXCEPT ![c] = Cut(Close(@))]
  /\ card' = CardAfterClose(channels[c])
  /\ UNCHANGED errorMessage

CloseFile(c) ==
  /\ tcbmState' = "IDLE"
  /\ channels' = [channels EXCEPT ![c] = Close(@)]
  /\ card' = CardAfterClose(channels[c])
  /\ UNCHANGED errorMessage

(* Mutant: a name that cannot be opened is not reported. *)
PrepareSaveChannelSilent(c) ==
  LET ch    == [channels[c] EXCEPT !.command = channels[0].command, !.buffer = <<>>, !.sent = 0]
      name  == IF ch.command = <<>> THEN None ELSE Head(ch.command)
      fresh == ~ch.open /\ name \in Names
  IN /\ tcbmState' = "SAVE"
     /\ channels' = [channels EXCEPT ![c] =
                       IF fresh THEN [ch EXCEPT !.open = TRUE, !.writing = TRUE, !.file = name]
                       ELSE ch]
     /\ card' = IF fresh THEN [card EXCEPT ![name] = <<>>] ELSE card
     /\ UNCHANGED errorMessage

(* The command of channel 0 takes the place of the channel's own.            *)
PrepareSaveChannel(c) ==
  LET ch    == [channels[c] EXCEPT !.command = channels[0].command, !.buffer = <<>>, !.sent = 0]
      name  == IF ch.command = <<>> THEN None ELSE Head(ch.command)
      fresh == ~ch.open /\ name \in Names
  IN /\ tcbmState' = "SAVE"
     /\ channels' = [channels EXCEPT ![c] =
                       IF fresh THEN [ch EXCEPT !.open = TRUE, !.writing = TRUE, !.file = name]
                       ELSE ch]
     /\ card' = IF fresh THEN [card EXCEPT ![name] = <<>>] ELSE card
     /\ errorMessage' = IF ch.open \/ fresh THEN errorMessage ELSE "25"

HandleListenSecondary ==
  /\ Offers(CODE_SECOND) /\ expects = "LISTEN"
  /\ secondaryAddress' = Byte.channel /\ expects' = None
  /\ CASE Byte.kind = "OPEN"                            -> EnterOpenState(Byte.channel)
       [] Byte.kind = "CLOSE"                           -> CloseFile(Byte.channel)
       [] Byte.kind = "SECOND" /\ Byte.channel = 15     -> EnterOpenState(15)
       [] Byte.kind = "SECOND" /\ Byte.channel = 1      -> PrepareSaveChannel(1)
  /\ Served

-----------------------------------------------------------------------------
(* The secondary address after TALK. *)

PrepareLoadChannel(c) ==
  LET ch   == Close(channels[c])
      name == Head(ch.command)
  IN /\ tcbmState' = "LOAD"
     /\ card' = CardAfterClose(channels[c])
     /\ \/ /\ name \in Names /\ card[name] # None
           /\ channels' = [channels EXCEPT ![c] =
                             [ch EXCEPT !.open = TRUE, !.file = name, !.data = card'[name]]]
           /\ UNCHANGED errorMessage
        \/ /\ channels' = [channels EXCEPT ![c] = ch]
           /\ errorMessage' = "62"

PrepareDirectoryResponse(c) ==
  /\ tcbmState' = "DIR"
  /\ channels' = [channels EXCEPT ![c].buffer = Listing(card, op.found), ![c].sent = 0]
  /\ UNCHANGED <<card, errorMessage>>

(* Mutant: the state is left as it was. *)
PrepareStatusResponseIdle ==
  /\ tcbmState' = tcbmState
  /\ channels' = [channels EXCEPT ![15].buffer = <<errorMessage>>, ![15].sent = 0]
  /\ UNCHANGED <<card, errorMessage>>

PrepareStatusResponse ==
  /\ tcbmState' = "DIR"
  /\ channels' = [channels EXCEPT ![15].buffer = <<errorMessage>>, ![15].sent = 0]
  /\ UNCHANGED <<card, errorMessage>>

(* DecodeTalkSecondary(), of the ordinary protocol.                          *)
HandleTalkSecondary ==
  /\ Offers(CODE_SECOND) /\ expects = "TALK"
  /\ secondaryAddress' = Byte.channel /\ expects' = None
  /\ LET c  == Byte.channel
         ch == channels[c]
     IN IF c = 15 THEN PrepareStatusResponse
        ELSE IF ch.command = <<"$">> \/ (c = 0 /\ ch.command = <<>> /\ ~ch.open)
               THEN PrepareDirectoryResponse(c)
        ELSE PrepareLoadChannel(c)
  /\ Served

-----------------------------------------------------------------------------
(* Idle, and the file being named. *)

HandleIdleCommand ==
  /\ tcbmState = "IDLE" /\ expects = None /\ Offers(CODE_COMMAND)
  /\ expects' = IF Byte \in {"LISTEN", "TALK"} THEN Byte ELSE None
  /\ Served
  /\ UNCHANGED <<tcbmState, secondaryAddress, channels, errorMessage, card>>

DiscardIdleByte ==
  /\ tcbmState = "IDLE" /\ expects = None
  /\ Offers(CODE_SECOND) \/ Offers(CODE_RECV)
  /\ Served
  /\ UNCHANGED <<tcbmState, expects, secondaryAddress, channels, errorMessage, card>>

DropIdleSend ==
  /\ tcbmState = "IDLE" /\ expects = None /\ Offers(CODE_SEND)
  /\ Dropped
  /\ UNCHANGED <<tcbmState, expects, secondaryAddress, channels, errorMessage, card>>

AppendCommandByte ==
  /\ tcbmState = "OPEN" /\ Offers(CODE_RECV)
  /\ channels' = [channels EXCEPT ![secondaryAddress].buffer = Append(@, Byte)]
  /\ Served
  /\ UNCHANGED <<tcbmState, expects, secondaryAddress, errorMessage, card>>

(* ProcessCommand(), of the one command sent here; the file may be open.     *)
ProcessCommand(command) ==
  /\ errorMessage' = "01"
  /\ card' = [card EXCEPT ![command[2]] = None]

(* Nobody reads the command of channel 15 later on: it is not kept.          *)
FinaliseOpenState ==
  LET c == secondaryAddress IN
  /\ tcbmState = "OPEN" /\ Offers(CODE_COMMAND) /\ Byte = "UNLISTEN"
  /\ channels' = [channels EXCEPT ![c].buffer = <<>>, ![c].sent = 0,
                                  ![c].command = IF c = 15 THEN <<>> ELSE channels[c].buffer]
  /\ IF c = 15 THEN ProcessCommand(channels[15].buffer) ELSE UNCHANGED <<card, errorMessage>>
  /\ tcbmState' = "IDLE"
  /\ Served
  /\ UNCHANGED <<expects, secondaryAddress>>

-----------------------------------------------------------------------------
(* LOAD: a file is read. *)

(* Mutant: the end is seen one byte early. *)
LoadByteShort ==
  LET c    == secondaryAddress
      ch   == channels[c]
      last == Len(ch.data) <= 2
  IN /\ tcbmState = "LOAD" /\ expects = None /\ Offers(CODE_SEND)
     /\ ch.open /\ ch.data # <<>>
     /\ Reply(Head(ch.data), IF last THEN STATUS_EOI ELSE STATUS_OK)
     /\ IF last
          THEN Passive /\ ReleaseTransferChannel(c)
          ELSE /\ channels' = [channels EXCEPT ![c].data = Tail(@)]
               /\ UNCHANGED <<tcbmState, expects, card>>
     /\ UNCHANGED <<secondaryAddress, errorMessage>>

LoadByte ==
  LET c    == secondaryAddress
      ch   == channels[c]
      last == Len(ch.data) = 1
  IN /\ tcbmState = "LOAD" /\ expects = None /\ Offers(CODE_SEND)
     /\ ch.open /\ ch.data # <<>>
     /\ Reply(Head(ch.data), IF last THEN STATUS_EOI ELSE STATUS_OK)
     /\ IF last
          THEN Passive /\ ReleaseTransferChannel(c)
          ELSE /\ channels' = [channels EXCEPT ![c].data = Tail(@)]
               /\ UNCHANGED <<tcbmState, expects, card>>
     /\ UNCHANGED <<secondaryAddress, errorMessage>>

(* Mutant: a missing file does not end the transfer. *)
LoadFailsStaying ==
  LET c  == secondaryAddress
      ch == channels[c]
  IN /\ tcbmState = "LOAD" /\ expects = None /\ Offers(CODE_SEND)
     /\ \/ ~ch.open /\ Reply("CR", STATUS_SEND) /\ UNCHANGED <<tcbmState, channels, errorMessage>>
        \/ /\ ch.open /\ ch.data = <<>> /\ tcbmState' = "IDLE"
           /\ Reply("CR", STATUS_EOI)
           /\ channels' = [channels EXCEPT ![c] = Close(@)] /\ UNCHANGED errorMessage
     /\ UNCHANGED <<expects, secondaryAddress, card>>

(* Mutant: a file that cannot be read is not closed. *)
LoadFailsOpen ==
  LET c  == secondaryAddress
      ch == channels[c]
  IN /\ tcbmState = "LOAD" /\ expects = None /\ Offers(CODE_SEND)
     /\ \/ ~ch.open /\ Reply("CR", STATUS_SEND) /\ UNCHANGED <<channels, errorMessage>>
        \/ /\ ch.open
           /\ Reply("CR", STATUS_SEND)
           /\ UNCHANGED channels /\ errorMessage' = "74"
     /\ Passive
     /\ UNCHANGED <<secondaryAddress, card>>

(* No file, a file without a byte, or the card cannot be read.               *)
LoadFails ==
  LET c  == secondaryAddress
      ch == channels[c]
  IN /\ tcbmState = "LOAD" /\ expects = None /\ Offers(CODE_SEND)
     /\ \/ ~ch.open /\ Reply("CR", STATUS_SEND) /\ UNCHANGED <<channels, errorMessage>>
        \/ /\ ch.open /\ ch.data = <<>>
           /\ Reply("CR", STATUS_EOI)
           /\ channels' = [channels EXCEPT ![c] = Close(@)] /\ UNCHANGED errorMessage
        \/ /\ ch.open
           /\ Reply("CR", STATUS_SEND)
           /\ channels' = [channels EXCEPT ![c] = Close(@)] /\ errorMessage' = "74"
     /\ Passive
     /\ UNCHANGED <<secondaryAddress, card>>

-----------------------------------------------------------------------------
(* DIR: a listing or the error message is read. *)

DirectoryByte ==
  LET c    == secondaryAddress
      ch   == channels[c]
      last == ch.sent + 1 >= Len(ch.buffer)
  IN /\ tcbmState = "DIR" /\ expects = None /\ Offers(CODE_SEND)
     /\ Reply(IF ch.sent < Len(ch.buffer) THEN ch.buffer[ch.sent + 1] ELSE "CR",
              IF last THEN STATUS_EOI ELSE STATUS_OK)
     /\ IF last
          THEN Passive /\ ReleaseTransferChannel(c)
          ELSE /\ channels' = [channels EXCEPT ![c].sent = @ + 1]
               /\ UNCHANGED <<tcbmState, expects, card>>
     /\ UNCHANGED <<secondaryAddress, errorMessage>>

(* The end of a read before its last byte; a LISTEN or TALK may end it.      *)
HandleTransferBusCommand ==
  /\ tcbmState \in {"LOAD", "DIR"} /\ expects = None /\ Offers(CODE_COMMAND)
  /\ ReleaseTransferChannel(secondaryAddress)
  /\ IF Byte \in {"LISTEN", "TALK"}
       THEN expects' = Byte /\ UNCHANGED tcbmState
       ELSE Passive
  /\ Served
  /\ UNCHANGED <<secondaryAddress, errorMessage>>

-----------------------------------------------------------------------------
(* SAVE: a file is written. *)

(* Mutant: the byte that finds the buffer full is lost. *)
SaveByteFull ==
  LET c  == secondaryAddress
      ch == channels[c]
  IN /\ tcbmState = "SAVE" /\ Offers(CODE_RECV) /\ ch.open
     /\ channels' = [channels EXCEPT ![c] =
                       IF Len(ch.buffer) = BufferSize THEN Write(ch)
                       ELSE [ch EXCEPT !.buffer = Append(@, Byte)]]
     /\ Served
     /\ UNCHANGED <<tcbmState, expects, secondaryAddress, errorMessage, card>>

SaveByte ==
  LET c  == secondaryAddress
      ch == [channels[c] EXCEPT !.buffer = Append(@, Byte)]
  IN /\ tcbmState = "SAVE" /\ Offers(CODE_RECV) /\ channels[c].open
     /\ channels' = [channels EXCEPT ![c] = IF Len(ch.buffer) = BufferSize THEN Write(ch) ELSE ch]
     /\ Served
     /\ UNCHANGED <<tcbmState, expects, secondaryAddress, errorMessage, card>>

RejectByte ==
  /\ tcbmState = "SAVE" /\ Offers(CODE_RECV) /\ ~channels[secondaryAddress].open
  /\ Reply(None, STATUS_RECV)
  /\ Passive
  /\ UNCHANGED <<secondaryAddress, channels, errorMessage, card>>

SaveCommand ==
  LET c == secondaryAddress IN
  /\ tcbmState = "SAVE" /\ Offers(CODE_COMMAND)
  /\ IF Byte = "UNLISTEN"
       THEN /\ channels' = [channels EXCEPT ![c] = Close(@)]
            /\ card' = CardAfterClose(channels[c])
            /\ tcbmState' = "IDLE"
       ELSE UNCHANGED <<channels, card, tcbmState>>
  /\ Served
  /\ UNCHANGED <<expects, secondaryAddress, errorMessage>>

DropSaveSecond ==
  /\ tcbmState = "SAVE" /\ Offers(CODE_SECOND)
  /\ Dropped
  /\ UNCHANGED <<tcbmState, expects, secondaryAddress, channels, errorMessage, card>>

-----------------------------------------------------------------------------
(* Waiting, and giving up. *)

(* AbortBlockingTransfer(), when the stable code does not come within        *)
(* MAX_COMMAND_STABLE_ATTEMPTS polls.                                        *)
GiveUp ==
  /\ tcbmState \in {"SAVE", "DIR"} /\ expects = None
  /\ owed = None /\ (Done \/ pause = "on")
  /\ ResetStateMachine
  /\ UNCHANGED <<host, errorMessage, owed, card>>

(* Mutant: ACK is left low. *)
TimeOutQuietly ==
  /\ tcbmState = "SAVE" /\ owed = CODE_SECOND
  /\ ResetStateMachine
  /\ UNCHANGED <<host, errorMessage, owed, card>>

(* DAV has been low for five seconds.  PrepareBrowseIdleBus() raises ACK:    *)
(* the host takes that for the byte being accepted.                          *)
TimeOut ==
  /\ tcbmState = "SAVE" /\ owed = CODE_SECOND
  /\ ResetStateMachine
  /\ todo' = Tail(todo) /\ owed' = None
  /\ UNCHANGED <<op, pause, got, told, stopped, want, errorMessage, card>>

-----------------------------------------------------------------------------
(* The host, and its user. *)

Begin(o) ==
  /\ Done
  /\ op' = o /\ todo' = Script(o) /\ pause' = "none"
  /\ got' = <<>> /\ told' = {} /\ stopped' = FALSE
  /\ want' = CASE o.kind = "DS"                    -> <<errorMessage>>
               [] o.kind = "DIRECTORY"              -> Listing(card, o.found)
               [] o.kind = "LOAD" /\ o.name = "$"   -> Listing(card, o.found)
               [] o.kind = "LOAD" /\ o.name # "$"   -> card[o.name]
               [] o.kind = "READ"                  -> IF card[o.name] = <<>> THEN <<"CR">>
                                                       ELSE card[o.name]
               [] OTHER                             -> None
  /\ UNCHANGED <<server, card, stale>>

(* STOP is looked at between two bytes; LOAD and SAVE go straight to CLOSE.  *)
Stop ==
  /\ owed = None /\ pause # "on"
  /\ \/ op # None /\ Repeating /\ op.kind = "LOAD" /\ todo' = CloseScript(0)
     \/ op # None /\ Repeating /\ op.kind = "DIRECTORY" /\ todo' = AfterReads(op)
     \/ op # None /\ op.kind = "SAVE" /\ Len(todo) \in 4 .. Len(op.data) + 1
          /\ todo' = CloseScript(1)
  /\ stopped' = TRUE /\ pause' = "none"
  /\ stale' = IF op.kind = "SAVE" THEN stale \cup {1} ELSE stale
  /\ UNCHANGED <<op, got, told, want, server, card>>

Pause ==
  /\ op # None /\ op.kind \in {"DIRECTORY", "READ"} /\ Repeating /\ owed = None
  /\ pause = "none" /\ pause' = "on"
  /\ UNCHANGED <<op, todo, got, told, stopped, want, server, card, stale>>

Resume ==
  /\ pause = "on" /\ pause' = "over"
  /\ UNCHANGED <<op, todo, got, told, stopped, want, server, card, stale>>

(* The host is reset, and SimulateIECUpdate() notices.                       *)
PressReset ==
  /\ op' = None /\ todo' = <<>> /\ pause' = "none"
  /\ got' = <<>> /\ told' = {} /\ stopped' = FALSE /\ want' = None
  /\ ResetStateMachine /\ owed' = None
  /\ stale' = {c \in Channels : channels[c].open}
  /\ UNCHANGED <<errorMessage, card>>

-----------------------------------------------------------------------------
Serve ==
  /\ \/ HandleIdleCommand \/ DiscardIdleByte \/ DropIdleSend
     \/ HandleListenSecondary \/ HandleTalkSecondary
     \/ AppendCommandByte \/ FinaliseOpenState
     \/ LoadByte \/ LoadFails \/ DirectoryByte \/ HandleTransferBusCommand
     \/ SaveByte \/ RejectByte \/ SaveCommand \/ DropSaveSecond
     \/ GiveUp \/ TimeOut
  /\ stale' = {c \in stale : channels'[c].open}

Next == \/ Serve \/ \E o \in Operations : Begin(o)
        \/ Stop \/ Pause \/ Resume \/ PressReset

Spec == Init /\ [][Next]_vars

(* The device serves what is offered; a user who holds a listing lets go.    *)
FairSpec == Spec /\ WF_vars(Serve) /\ WF_vars(Resume)

-----------------------------------------------------------------------------
Bytes == Data \cup Names \cup Tokens

IsStep(s) ==
  CASE s.code = CODE_COMMAND -> s.byte \in {"LISTEN", "UNLISTEN", "TALK", "UNTALK"}
    [] s.code = CODE_SECOND  -> s.byte \in [kind : {"OPEN", "CLOSE", "SECOND"}, channel : Channels]
    [] s.code = CODE_RECV    -> s.byte \in Data \cup Names \cup {"$", "S"}
    [] s.code = CODE_SEND    -> s.byte = None

TypeOK ==
  /\ op \in Operations \cup {None} /\ \A i \in DOMAIN todo : IsStep(todo[i])
  /\ pause \in {"none", "on", "over"}
  /\ got \in Seq(Bytes) /\ told \subseteq {STATUS_RECV, STATUS_SEND, STATUS_EOI}
  /\ stopped \in BOOLEAN /\ want \in Seq(Bytes) \cup {None}
  /\ tcbmState \in {"IDLE", "OPEN", "LOAD", "SAVE", "DIR"} /\ expects \in {"LISTEN", "TALK", None}
  /\ secondaryAddress \in Channels /\ channels \in [Channels -> Channel]
  /\ errorMessage \in Errors /\ owed \in {None, CODE_SECOND, CODE_SEND}
  /\ card \in [Names -> Seq(Data) \cup {None}]
  /\ stale \subseteq Channels

Finished(kinds) == op # None /\ Done /\ ~stopped /\ op.kind \in kinds

(* A read that ends with EOI has brought all of what it was asked for, in    *)
(* order, and nothing else: a file that is missing, a card that cannot be    *)
(* read, what earlier operations have left in the channels, STOP and resets  *)
(* at any point are all there.  Of a directory that is the listing of the    *)
(* files the card let the device find, as much of it as the buffer holds:    *)
(* the host is not told when that is not the whole directory.                *)
ReadsWhole ==
  Finished({"LOAD", "READ", "DIRECTORY", "DS"}) /\ told = {STATUS_EOI} => got = want

(* A SAVE that the host is told nothing bad of is on the card, whole; under  *)
(* which name is another question (SavedUnderItsName).                       *)
SavedWhole ==
  Finished({"SAVE"}) /\ told = {} => \E n \in Names : card[n] = op.data

(* A SAVE that goes through leaves the file under the name it was given.     *)
SavedUnderItsName ==
  Finished({"SAVE"}) => card[op.name] = op.data

(* When an operation is over, so is the device with it.                      *)
InStep == Done => tcbmState = "IDLE" /\ expects = None /\ owed = None

(* No channel's file is still open between two operations, unless its user   *)
(* was cut off: by a reset, or by STOP during SAVE.                          *)
FilesClosed == Done => \A c \in Channels : channels[c].open => c \in stale

(* What the host was told went wrong, it can read about.                     *)
FailureTold ==
  Finished({"LOAD", "READ", "SAVE"}) /\ told \cap {STATUS_RECV, STATUS_SEND} # {}
    => errorMessage \in Errors \ {"00", "01"}

(* The device leaves a read unanswered only when the host goes on reading    *)
(* after it was told of the end, or of an error, or after a long pause.      *)
ReadsAnswered == owed = CODE_SEND => told # {} \/ pause = "over"

(* Every operation ends, but for such a read.                                *)
OperationsEnd == ~Done ~> (Done \/ owed = CODE_SEND)
===============================================================================
