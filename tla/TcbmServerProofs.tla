--------------------------- MODULE TcbmServerProofs ---------------------------
(***************************************************************************)
(* The safety of the file service, for any names, bytes, files and buffer. *)
(*                                                                         *)
(* Neither side sees how far the other has come, and what the device holds *)
(* in its channels outlives an operation.  The inductive invariant names,  *)
(* for every place in every script, the states the device can be in when   *)
(* the host is there, and what it then has ready or has taken; it is the   *)
(* disjunction of these situations.                                        *)
(***************************************************************************)
EXTENDS TcbmServer, TLAPS, FiniteSetTheorems, SequenceTheorems

(* The host has the exchanges of script s from the i-th on still to do.      *)
At(s, i) == i \in 1 .. Len(s) + 1 /\ todo = SubSeq(s, i, Len(s))

Within(state, e) == tcbmState = state /\ expects = e
Idle   == Within("IDLE", None)
Called == Within("IDLE", "LISTEN")

Quiet  == owed = None /\ pause = "none"
Fresh  == got = <<>> /\ told = {} /\ stopped = FALSE

KindIn(kinds) == op \in Operations /\ op.kind \in kinds

(* What of a LOAD, a listing or a READ is a file's.                          *)
NameOf(o)    == IF o.kind = "DIRECTORY" THEN "$" ELSE o.name
ChannelOf(o) == CASE o.kind = "READ"              -> 2
                  [] o.kind = "SAVE"              -> 1
                  [] o.kind = "DS"                -> 15
                  [] o.kind \in {"OPEN15", "PRINT15"} -> 15
                  [] OTHER                        -> 0

(* What a read should give, asked now.                                       *)
WantOf(o) ==
  CASE o.kind = "DS"                    -> <<errorMessage>>
    [] o.kind = "DIRECTORY"             -> Listing(card, o.found)
    [] o.kind = "LOAD" /\ o.name = "$"  -> Listing(card, o.found)
    [] o.kind = "LOAD" /\ o.name # "$"  -> card[o.name]
    [] o.kind = "READ"                  -> IF card[o.name] = <<>> THEN <<"CR">> ELSE card[o.name]
    [] OTHER                            -> None

(* The channel c is being named, and so far with bytes.                      *)
Naming(c, bytes) ==
  /\ Within("OPEN", None) /\ secondaryAddress = c
  /\ ~channels[c].open /\ channels[c].buffer = bytes /\ channels[c].data = <<>>

-----------------------------------------------------------------------------
(* The types, and what the files of the channels are.                        *)

HostTyped ==
  /\ op \in Operations \cup {None}
  /\ pause \in {"none", "on", "over"}
  /\ got \in Seq(Bytes) /\ told \subseteq {STATUS_RECV, STATUS_SEND, STATUS_EOI}
  /\ stopped \in BOOLEAN /\ want \in Seq(Bytes) \cup {None}

DeviceTyped ==
  /\ secondaryAddress \in Channels /\ channels \in [Channels -> Channel]
  /\ errorMessage \in Errors
  /\ card \in [Names -> Seq(Data) \cup {None}]
  /\ stale \subseteq Channels

(* Only SAVE's channel is written to.                                        *)
Writers ==
  \A c \in Channels : channels[c].writing =>
    /\ c = 1 /\ channels[c].open /\ channels[c].file \in Names
    /\ channels[c].buffer \in Seq(Data)

(* A file is open for the transfer at hand, or its user was cut off.         *)
Owned ==
  \A c \in Channels : channels[c].open =>
    c \in stale \/ (tcbmState \in {"LOAD", "SAVE"} /\ c = secondaryAddress)

Device == DeviceTyped /\ Writers /\ Owned

Failed == errorMessage \in Errors \ {"00", "01"}

(* What the properties say of an operation that ends now.                    *)
Verdict ==
  op # None /\ ~stopped =>
    /\ op.kind \in {"LOAD", "READ", "DIRECTORY", "DS"} /\ told = {STATUS_EOI} => got = want
    /\ op.kind = "SAVE" /\ told = {} => \E n \in Names : card[n] = op.data
    /\ op.kind \in {"LOAD", "READ", "SAVE"} /\ told \cap {STATUS_RECV, STATUS_SEND} # {}
         => Failed

-----------------------------------------------------------------------------
(* The situations. *)

(* Between two operations.                                                   *)
Over == Done /\ Idle /\ Quiet /\ Verdict

(* The file is named: up to the TALK or the second LISTEN.                   *)
Opening ==
  LET s == Script(op)
      c == ChannelOf(op)
      named == /\ ~channels[c].open /\ channels[c].data = <<>>
               /\ c # 1 => channels[c].command = <<NameOf(op)>>
  IN /\ KindIn({"LOAD", "DIRECTORY", "READ", "SAVE"})
     /\ Fresh /\ Quiet /\ want = WantOf(op)
     /\ \/ At(s, 1) /\ Idle
        \/ At(s, 2) /\ Called
        \/ At(s, 3) /\ Naming(c, <<>>)
        \/ At(s, 4) /\ Naming(c, <<NameOf(op)>>)
        \/ At(s, 5) /\ Idle /\ named
        \/ At(s, 6) /\ Within("IDLE", IF op.kind = "SAVE" THEN "LISTEN" ELSE "TALK") /\ named

(* The command channel is opened and closed.                                 *)
Commanding15 ==
  LET s == Script(op) IN
  /\ KindIn({"OPEN15"}) /\ Fresh /\ Quiet
  /\ \/ At(s, 1) /\ Idle
     \/ At(s, 2) /\ Called
     \/ At(s, 3) /\ Naming(15, <<>>)
     \/ At(s, 4) /\ Naming(15, <<"S">>)
     \/ At(s, 5) /\ Naming(15, <<"S", op.name>>)
     \/ At(s, 6) /\ Idle
     \/ At(s, 7) /\ Called
     \/ At(s, 8) /\ Idle

(* A command is printed to it.                                               *)
Printing15 ==
  LET s == Script(op) IN
  /\ KindIn({"PRINT15"}) /\ Fresh /\ Quiet
  /\ \/ At(s, 1) /\ Idle
     \/ At(s, 2) /\ Called
     \/ At(s, 3) /\ Naming(15, <<>>)
     \/ At(s, 4) /\ Naming(15, <<"S">>)
     \/ At(s, 5) /\ Naming(15, <<"S", op.name>>)

(* DS$ is asked for.                                                         *)
Asking ==
  LET s == Script(op) IN
  /\ KindIn({"DS"}) /\ Fresh /\ Quiet /\ want = WantOf(op)
  /\ \/ At(s, 1) /\ Idle
     \/ At(s, 2) /\ Within("IDLE", "TALK")

(* Where the reads are in the script: LOAD's first two are not repeated.     *)
ReadAt ==
  LET n == Len(Script(op))
  IN IF op.kind = "LOAD" /\ Len(got) < 2 THEN At(Script(op), n - 2 + Len(got))
     ELSE At(Script(op), n)

Paused == pause # "none" => op.kind \in {"DIRECTORY", "READ"}

(* A file is read.                                                           *)
Loading ==
  LET ch == channels[ChannelOf(op)] IN
  /\ KindIn({"LOAD", "READ"}) /\ NameOf(op) \in Names /\ ReadAt
  /\ Within("LOAD", None) /\ secondaryAddress = ChannelOf(op) /\ ch.open
  /\ told = {} /\ stopped = FALSE /\ owed = None /\ Paused
  /\ IF ch.data = <<>>
     THEN got = <<>> /\ want = (IF op.kind = "READ" THEN <<"CR">> ELSE <<>>)
     ELSE got \o ch.data = want

(* There is no such file.                                                    *)
Missing ==
  /\ KindIn({"LOAD", "READ"}) /\ ReadAt /\ got = <<>>
  /\ Within("LOAD", None) /\ secondaryAddress = ChannelOf(op)
  /\ ~channels[ChannelOf(op)].open /\ errorMessage = "62"
  /\ told = {} /\ stopped = FALSE /\ owed = None /\ Paused

(* A LOAD goes on reading after an end that it does not take for one.        *)
ReadingOn ==
  /\ KindIn({"LOAD"}) /\ ReadAt /\ got # <<>>
  /\ Idle /\ pause = "none" /\ owed \in {None, CODE_SEND}
  /\ stopped = FALSE
  /\ \/ told = {STATUS_EOI} /\ Len(got) <= 2
     \/ told = {STATUS_SEND} /\ Failed

(* A listing, or the error message, is read.                                 *)
Listed ==
  LET ch == channels[ChannelOf(op)] IN
  /\ KindIn({"LOAD", "DIRECTORY", "DS"}) /\ ReadAt
  /\ Within("DIR", None) /\ secondaryAddress = ChannelOf(op)
  /\ ch.buffer = want /\ want \in Seq(Bytes)
  /\ ch.sent = Len(got) /\ ch.sent < Len(want) /\ got = SubSeq(want, 1, ch.sent)
  /\ told = {} /\ stopped = FALSE /\ owed = None
  /\ pause # "none" => op.kind = "DIRECTORY"

(* The device did not wait for the rest of it.                               *)
GivenUp ==
  /\ KindIn({"DIRECTORY"}) /\ ReadAt /\ Idle
  /\ told = {} /\ stopped = FALSE
  /\ pause \in {"on", "over"} /\ owed \in {None, CODE_SEND}
  /\ owed = CODE_SEND => pause = "over"

(* The host is done reading.                                                 *)
Closing ==
  LET s == AfterReads(op) IN
  /\ KindIn({"LOAD", "READ", "DIRECTORY", "DS"}) /\ Quiet /\ Verdict
  /\ \/ At(s, 1) /\ Idle
     \/ At(s, 1) /\ Within("DIR", None) /\ secondaryAddress = 0
          /\ op.kind = "DIRECTORY" /\ stopped = TRUE
     \/ op.kind # "DS" /\ At(s, 2) /\ Idle
     \/ op.kind # "DS" /\ At(s, 3) /\ Called
     \/ op.kind # "DS" /\ At(s, 4) /\ Idle

(* LOAD was stopped.                                                         *)
LoadStopped ==
  LET s == CloseScript(0) IN
  /\ KindIn({"LOAD"}) /\ stopped = TRUE /\ Quiet
  /\ \/ At(s, 1) /\ Idle
     \/ At(s, 1) /\ tcbmState \in {"LOAD", "DIR"} /\ expects = None /\ secondaryAddress = 0
     \/ At(s, 2) /\ Called
     \/ At(s, 2) /\ tcbmState \in {"LOAD", "DIR"} /\ expects = "LISTEN" /\ secondaryAddress = 0
     \/ At(s, 3) /\ Idle

(* A file is written: k bytes are sent.                                      *)
Kept(k) ==
  LET ch == channels[1] IN
  /\ ch.open /\ ch.writing /\ card[ch.file] # None
  /\ ch.data \o ch.buffer = SubSeq(op.data, 1, k) /\ told = {}

Saving ==
  /\ KindIn({"SAVE"}) /\ stopped = FALSE /\ Quiet
  /\ \E k \in 0 .. Len(op.data) :
       /\ At(Script(op), 7 + k)
       /\ \/ Within("SAVE", None) /\ secondaryAddress = 1 /\ Kept(k)
          \/ Within("SAVE", None) /\ secondaryAddress = 1 /\ k = 0
               /\ ~channels[1].open /\ told = {} /\ Failed
          \/ Idle /\ ~channels[1].open /\ told = {STATUS_RECV} /\ Failed

(* It is written, or it was not taken.                                       *)
Saved ==
  LET s == Script(op)
      n == Len(op.data)
  IN /\ KindIn({"SAVE"}) /\ stopped = FALSE /\ Quiet /\ Verdict /\ ~channels[1].open
     /\ \/ At(s, 8 + n) /\ Idle
        \/ At(s, 9 + n) /\ Called
        \/ At(s, 10 + n) /\ Idle

(* SAVE was stopped: SAVE does not listen to LISTEN.                         *)
SaveStopped ==
  LET s == CloseScript(1)
      kept == channels[1].open => 1 \in stale
  IN /\ KindIn({"SAVE"}) /\ stopped = TRUE /\ pause = "none" /\ kept
     /\ \/ At(s, 1) /\ Idle /\ owed = None
        \/ At(s, 1) /\ Within("SAVE", None) /\ secondaryAddress = 1 /\ owed = None
        \/ At(s, 2) /\ Called /\ owed = None
        \/ At(s, 2) /\ Within("SAVE", None) /\ secondaryAddress = 1
             /\ owed \in {None, CODE_SECOND}
        \/ At(s, 3) /\ Idle /\ owed = None

Situation ==
  \/ Over \/ Opening \/ Commanding15 \/ Printing15 \/ Asking
  \/ Loading \/ Missing \/ ReadingOn \/ Listed \/ GivenUp
  \/ Closing \/ LoadStopped \/ Saving \/ Saved \/ SaveStopped

(* What is always so: the invariant that every step keeps.                   *)
ServerInv == HostTyped /\ Device /\ Situation

-----------------------------------------------------------------------------
(* The scripts. *)

Steps ==
  [code : {CODE_COMMAND}, byte : {"LISTEN", "UNLISTEN", "TALK", "UNTALK"}]
    \cup [code : {CODE_SECOND}, byte : [kind : {"OPEN", "CLOSE", "SECOND"}, channel : Channels]]
    \cup [code : {CODE_RECV}, byte : Data \cup Names \cup {"$", "S"}]
    \cup {Send}

(* The exchanges of a script are exchanges.                                  *)
LEMMA StepsAre ==
  /\ \A b \in {"LISTEN", "UNLISTEN", "TALK", "UNTALK"} : Command(b) \in Steps
  /\ \A k \in {"OPEN", "CLOSE", "SECOND"}, c \in Channels : Second(k, c) \in Steps
  /\ \A b \in Data \cup Names \cup {"$", "S"} : Recv(b) \in Steps
  /\ Send \in Steps
  BY DEF Steps, Command, Second, Recv, Send

(* The codes of the exchanges tell them apart (the CODE_ constants).         *)
LEMMA CodesAre ==
  /\ \A b : Command(b) # Send /\ Command(b).code = CODE_COMMAND /\ Command(b).byte = b
  /\ \A k, c : /\ Second(k, c) # Send /\ Second(k, c).code = CODE_SECOND
               /\ Second(k, c).byte.kind = k /\ Second(k, c).byte.channel = c
  /\ \A b : Recv(b) # Send /\ Recv(b).code = CODE_RECV /\ Recv(b).byte = b
  /\ Send.code = CODE_SEND
  BY DEF Command, Second, Recv, Send, CODE_COMMAND, CODE_SECOND, CODE_RECV, CODE_SEND

(* A host at the i-th exchange of a script has it at hand, and the rest to   *)
(* come.                                                                     *)
LEMMA Position ==
  ASSUME NEW s \in Seq(Steps), NEW i, At(s, i)
  PROVE  /\ i = Len(s) + 1 <=> Done
         /\ i # Len(s) + 1 => /\ i \in 1 .. Len(s) /\ Head(todo) = s[i]
                              /\ Tail(todo) = SubSeq(s, i + 1, Len(s))
                              /\ Len(todo) = Len(s) - i + 1
                              /\ i + 1 \in 1 .. Len(s) + 1
<1> USE DEF At
<1>0. Len(s) \in Nat /\ \A j \in 1 .. Len(s) : s[j] \in Steps
  BY LenProperties, ElementOfSeq
<1>1. CASE i = Len(s) + 1
  <2>1. i \in Int /\ Len(s) \in Int /\ Len(s) < i
    BY <1>0, <1>1
  <2>2. SubSeq(s, i, Len(s)) = <<>>
    BY <2>1, SubSeqEmpty
  <2> QED
    BY <1>1, <2>2 DEF Done
<1>2. CASE i # Len(s) + 1
  <2>1. i \in 1 .. Len(s) /\ Len(s) \in i .. Len(s)
    BY <1>0, <1>2
  <2>2. Head(todo) = s[i] /\ Tail(todo) = SubSeq(s, i + 1, Len(s))
    BY <2>1, HeadTailOfSubSeq
  <2>3. Len(todo) = Len(s) - i + 1
    BY <1>0, <2>1, SubSeqProperties
  <2>4. todo # <<>>
    <3>1. Len(s) - i + 1 # 0
      BY <1>0, <2>1
    <3>2. Len(<<>>) = 0
      OBVIOUS
    <3> QED
      BY <2>3, <3>1, <3>2, Zenon
  <2> QED
    BY <1>0, <1>2, <2>1, <2>2, <2>3, <2>4 DEF Done
<1> QED
  BY <1>1, <1>2

(* The host at a script's first exchange.                                    *)
LEMMA Started ==
  ASSUME NEW s \in Seq(Steps), todo = s
  PROVE  At(s, 1)
  BY SubSeqFull, LenProperties DEF At

(* Parts of scripts put together, for the scripts below: CLOSE, DS, ...      *)
LEMMA Joined3 ==
  ASSUME NEW a \in Steps, NEW b \in Steps, NEW c \in Steps
  PROVE  <<a, b>> \o <<c>> = <<a, b, c>>
<1> DEFINE s == <<a, b>> \o <<c>>
           t == <<a, b, c>>
<1>1. s \in Seq(Steps) /\ t \in Seq(Steps)
  OBVIOUS
<1>2. Len(s) = Len(t)
  OBVIOUS
<1>3. \A i \in 1 .. Len(s) : s[i] = t[i]
  OBVIOUS
<1>4. s = t
  <2> HIDE DEF s, t
  <2> QED
    BY <1>1, <1>2, <1>3, SeqEqual
<1> QED
  BY <1>4 DEF s, t

(* ... the end of a read, ...                                                *)
LEMMA Joined4 ==
  ASSUME NEW a \in Steps, NEW b \in Steps, NEW c \in Steps, NEW d \in Steps
  PROVE  <<a>> \o (<<b, c>> \o <<d>>) = <<a, b, c, d>>
<1> DEFINE s == <<a>> \o (<<b, c>> \o <<d>>)
           t == <<a, b, c, d>>
<1>1. s \in Seq(Steps) /\ t \in Seq(Steps)
  OBVIOUS
<1>2. Len(s) = Len(t)
  OBVIOUS
<1>3. \A i \in 1 .. Len(s) : s[i] = t[i]
  OBVIOUS
<1>4. s = t
  <2> HIDE DEF s, t
  <2> QED
    BY <1>1, <1>2, <1>3, SeqEqual
<1> QED
  BY <1>4 DEF s, t

(* ... a command that is printed, ...                                        *)
LEMMA Joined5 ==
  ASSUME NEW a \in Steps, NEW b \in Steps, NEW c \in Steps, NEW d \in Steps,
         NEW e \in Steps
  PROVE  <<a, b>> \o <<c, d>> \o <<e>> = <<a, b, c, d, e>>
<1> DEFINE s == <<a, b>> \o <<c, d>> \o <<e>>
           t == <<a, b, c, d, e>>
<1>1. s \in Seq(Steps) /\ t \in Seq(Steps)
  OBVIOUS
<1>2. Len(s) = Len(t)
  OBVIOUS
<1>3. \A i \in 1 .. Len(s) : s[i] = t[i]
  OBVIOUS
<1>4. s = t
  <2> HIDE DEF s, t
  <2> QED
    BY <1>1, <1>2, <1>3, SeqEqual
<1> QED
  BY <1>4 DEF s, t

(* ... the first half of SAVE, ...                                           *)
LEMMA Joined6 ==
  ASSUME NEW b \in Steps, NEW c \in Steps, NEW f \in Steps
  PROVE  <<Command("LISTEN"), b>> \o <<c>> \o <<Command("UNLISTEN")>>
           \o <<Command("LISTEN"), f>>
           = <<Command("LISTEN"), b, c, Command("UNLISTEN"), Command("LISTEN"), f>>
<1> DEFINE s == <<Command("LISTEN"), b>> \o <<c>> \o <<Command("UNLISTEN")>>
                  \o <<Command("LISTEN"), f>>
           t == <<Command("LISTEN"), b, c, Command("UNLISTEN"), Command("LISTEN"), f>>
<1>1. s \in Seq(Steps) /\ t \in Seq(Steps)
  BY StepsAre
<1>2. Len(s) = Len(t)
  OBVIOUS
<1>3. \A i \in 1 .. Len(s) : s[i] = t[i]
  OBVIOUS
<1>4. s = t
  <2> HIDE DEF s, t
  <2> QED
    BY <1>1, <1>2, <1>3, SeqEqual
<1> QED
  BY <1>4 DEF s, t

(* ... DIRECTORY and READ, ...                                               *)
LEMMA Joined7 ==
  ASSUME NEW b \in Steps, NEW c \in Steps, NEW f \in Steps
  PROVE  <<Command("LISTEN"), b>> \o <<c>> \o <<Command("UNLISTEN")>>
           \o <<Command("TALK"), f>> \o <<Send>>
           = <<Command("LISTEN"), b, c, Command("UNLISTEN"), Command("TALK"), f, Send>>
<1> DEFINE s == <<Command("LISTEN"), b>> \o <<c>> \o <<Command("UNLISTEN")>>
                  \o <<Command("TALK"), f>> \o <<Send>>
           t == <<Command("LISTEN"), b, c, Command("UNLISTEN"), Command("TALK"), f, Send>>
<1>1. s \in Seq(Steps) /\ t \in Seq(Steps)
  BY StepsAre
<1>2. Len(s) = Len(t)
  OBVIOUS
<1>3. \A i \in 1 .. Len(s) : s[i] = t[i]
  OBVIOUS
<1>4. s = t
  <2> HIDE DEF s, t
  <2> QED
    BY <1>1, <1>2, <1>3, SeqEqual
<1> QED
  BY <1>4 DEF s, t

(* ... a command that goes with OPEN, ...                                    *)
LEMMA Joined8 ==
  ASSUME NEW b \in Steps, NEW c \in Steps, NEW d \in Steps, NEW g \in Steps
  PROVE  <<Command("LISTEN"), b>> \o <<c, d>> \o <<Command("UNLISTEN")>>
           \o (<<Command("LISTEN"), g>> \o <<Command("UNLISTEN")>>)
           = <<Command("LISTEN"), b, c, d, Command("UNLISTEN"), Command("LISTEN"), g,
               Command("UNLISTEN")>>
<1> DEFINE s == <<Command("LISTEN"), b>> \o <<c, d>> \o <<Command("UNLISTEN")>>
                  \o (<<Command("LISTEN"), g>> \o <<Command("UNLISTEN")>>)
           t == <<Command("LISTEN"), b, c, d, Command("UNLISTEN"), Command("LISTEN"), g,
               Command("UNLISTEN")>>
<1>1. s \in Seq(Steps) /\ t \in Seq(Steps)
  BY StepsAre
<1>2. Len(s) = Len(t)
  OBVIOUS
<1>3. \A i \in 1 .. Len(s) : s[i] = t[i]
  OBVIOUS
<1>4. s = t
  <2> HIDE DEF s, t
  <2> QED
    BY <1>1, <1>2, <1>3, SeqEqual
<1> QED
  BY <1>4 DEF s, t

(* ... and LOAD.                                                             *)
LEMMA Joined9 ==
  ASSUME NEW b \in Steps, NEW c \in Steps, NEW f \in Steps
  PROVE  <<Command("LISTEN"), b>> \o <<c>> \o <<Command("UNLISTEN")>>
           \o <<Command("TALK"), f>> \o <<Send, Send, Send>>
           = <<Command("LISTEN"), b, c, Command("UNLISTEN"), Command("TALK"), f, Send,
               Send, Send>>
<1> DEFINE s == <<Command("LISTEN"), b>> \o <<c>> \o <<Command("UNLISTEN")>>
                  \o <<Command("TALK"), f>> \o <<Send, Send, Send>>
           t == <<Command("LISTEN"), b, c, Command("UNLISTEN"), Command("TALK"), f, Send,
               Send, Send>>
<1>1. s \in Seq(Steps) /\ t \in Seq(Steps)
  BY StepsAre
<1>2. Len(s) = Len(t)
  OBVIOUS
<1>3. \A i \in 1 .. Len(s) : s[i] = t[i]
  OBVIOUS
<1>4. s = t
  <2> HIDE DEF s, t
  <2> QED
    BY <1>1, <1>2, <1>3, SeqEqual
<1> QED
  BY <1>4 DEF s, t

(* The bytes of a name of one part or two are one exchange or two.           *)
LEMMA NamePut ==
  ASSUME NEW m, NEW n
  PROVE  Put(<<m>>) = <<Recv(m)>> /\ Put(<<m, n>>) = <<Recv(m), Recv(n)>>
  BY DEF Put

(* CLOSE, exchange by exchange.                                              *)
LEMMA CloseIs ==
  ASSUME NEW c \in Channels
  PROVE  CloseScript(c) = <<Command("LISTEN"), Second("CLOSE", c), Command("UNLISTEN")>>
  BY Joined3, StepsAre DEF CloseScript, Listen, Unlisten

(* The end of a read, exchange by exchange.                                  *)
LEMMA AfterReadsIs ==
  ASSUME NEW o \in Operations, o.kind \in {"LOAD", "DIRECTORY", "READ", "DS"}
  PROVE  AfterReads(o) =
           IF o.kind = "DS" THEN <<Command("UNTALK")>>
           ELSE <<Command("UNTALK"), Command("LISTEN"), Second("CLOSE", ChannelOf(o)),
                  Command("UNLISTEN")>>
<1> DEFINE c == ChannelOf(o)
<1>1. c \in Channels
  BY DEF ChannelOf, Channels
<1>2. /\ Command("UNTALK") \in Steps /\ Command("LISTEN") \in Steps
      /\ Second("CLOSE", c) \in Steps /\ Command("UNLISTEN") \in Steps
  <2> HIDE DEF c
  <2> QED
    BY <1>1, StepsAre
<1>3. AfterReads(o) =
        IF o.kind = "DS" THEN <<Command("UNTALK")>>
        ELSE <<Command("UNTALK")>>
               \o (<<Command("LISTEN"), Second("CLOSE", c)>> \o <<Command("UNLISTEN")>>)
  BY DEF AfterReads, CloseScript, Listen, Unlisten, Untalk, ChannelOf
<1> HIDE DEF c
<1>4. <<Command("UNTALK")>>
        \o (<<Command("LISTEN"), Second("CLOSE", c)>> \o <<Command("UNLISTEN")>>)
          = <<Command("UNTALK"), Command("LISTEN"), Second("CLOSE", c), Command("UNLISTEN")>>
  BY <1>2, Joined4
<1> QED
  BY <1>3, <1>4 DEF c

(* The scripts that read, exchange by exchange.                              *)
LEMMA ReadScripts ==
  ASSUME NEW o \in Operations, o.kind \in {"LOAD", "DIRECTORY", "READ", "DS"}
  PROVE  /\ o.kind = "LOAD" =>
              Script(o) = <<Command("LISTEN"), Second("OPEN", 0), Recv(NameOf(o)),
                            Command("UNLISTEN"), Command("TALK"), Second("SECOND", 0),
                            Send, Send, Send>>
         /\ o.kind \in {"DIRECTORY", "READ"} =>
              Script(o) = <<Command("LISTEN"), Second("OPEN", ChannelOf(o)), Recv(NameOf(o)),
                            Command("UNLISTEN"), Command("TALK"),
                            Second("SECOND", ChannelOf(o)), Send>>
         /\ o.kind = "DS" => Script(o) = <<Command("TALK"), Second("SECOND", 15), Send>>
<1>1. NameOf(o) \in Names \cup {"$", "S"} \/ o.kind = "DS"
  BY DEF NameOf, Operations
<1>2. CASE o.kind = "LOAD"
  <2>1. Script(o) = <<Command("LISTEN"), Second("OPEN", 0)>> \o <<Recv(NameOf(o))>>
                      \o <<Command("UNLISTEN")>> \o <<Command("TALK"), Second("SECOND", 0)>>
                      \o <<Send, Send, Send>>
    BY <1>2, NamePut DEF Script, OpenScript, Listen, Unlisten, Talk, NameOf
  <2>2. /\ Command("LISTEN") \in Steps /\ Second("OPEN", 0) \in Steps
        /\ Recv(NameOf(o)) \in Steps /\ Command("UNLISTEN") \in Steps
        /\ Command("TALK") \in Steps /\ Second("SECOND", 0) \in Steps /\ Send \in Steps
    BY <1>1, <1>2, StepsAre DEF Channels
  <2> QED
    BY <1>2, <2>1, <2>2, Joined9
<1>3. CASE o.kind \in {"DIRECTORY", "READ"}
  <2>1. Script(o) = <<Command("LISTEN"), Second("OPEN", ChannelOf(o))>> \o <<Recv(NameOf(o))>>
                      \o <<Command("UNLISTEN")>>
                      \o <<Command("TALK"), Second("SECOND", ChannelOf(o))>> \o <<Send>>
    BY <1>3, NamePut DEF Script, OpenScript, Listen, Unlisten, Talk, NameOf, ChannelOf
  <2>2. ChannelOf(o) \in Channels
    BY <1>3 DEF ChannelOf, Channels
  <2> HIDE DEF ChannelOf
  <2>3. /\ Command("LISTEN") \in Steps /\ Second("OPEN", ChannelOf(o)) \in Steps
        /\ Recv(NameOf(o)) \in Steps /\ Command("UNLISTEN") \in Steps
        /\ Command("TALK") \in Steps /\ Second("SECOND", ChannelOf(o)) \in Steps
        /\ Send \in Steps
    BY <1>1, <1>3, <2>2, StepsAre
  <2> QED
    BY <1>3, <2>1, <2>3, Joined7
<1>4. CASE o.kind = "DS"
  BY <1>4, Joined3, StepsAre DEF Script, Talk, Channels
<1> QED
  BY <1>2, <1>3, <1>4

(* How a file's operation begins: it is opened, and spoken to.               *)
LEMMA OpeningSteps ==
  ASSUME NEW o \in Operations, o.kind \in {"LOAD", "DIRECTORY", "READ"}
  PROVE  LET s == Script(o)
             c == ChannelOf(o)
         IN /\ s \in Seq(Steps) /\ Len(s) = IF o.kind = "LOAD" THEN 9 ELSE 7
            /\ s[1] = Command("LISTEN") /\ s[2] = Second("OPEN", c)
            /\ s[3] = Recv(NameOf(o)) /\ s[4] = Command("UNLISTEN")
            /\ s[5] = Command("TALK") /\ s[6] = Second("SECOND", c)
            /\ \A i \in 7 .. Len(s) : s[i] = Send
<1>1. NameOf(o) \in Names \cup {"$", "S"}
  BY DEF NameOf, Operations
<1>2. ChannelOf(o) \in Channels
  BY DEF ChannelOf, Channels
<1>3. /\ Command("LISTEN") \in Steps /\ Second("OPEN", ChannelOf(o)) \in Steps
      /\ Recv(NameOf(o)) \in Steps /\ Command("UNLISTEN") \in Steps
      /\ Command("TALK") \in Steps /\ Second("SECOND", ChannelOf(o)) \in Steps
      /\ Send \in Steps
  BY <1>1, <1>2, StepsAre
<1>4. CASE o.kind = "LOAD"
  <2>1. ChannelOf(o) = 0
    BY <1>4 DEF ChannelOf
  <2>2. Script(o) = <<Command("LISTEN"), Second("OPEN", ChannelOf(o)), Recv(NameOf(o)),
                      Command("UNLISTEN"), Command("TALK"), Second("SECOND", ChannelOf(o)),
                      Send, Send, Send>>
    BY <1>4, <2>1, ReadScripts
  <2> QED
    BY <1>3, <1>4, <2>2
<1>5. CASE o.kind \in {"DIRECTORY", "READ"}
  <2>1. Script(o) = <<Command("LISTEN"), Second("OPEN", ChannelOf(o)), Recv(NameOf(o)),
                      Command("UNLISTEN"), Command("TALK"), Second("SECOND", ChannelOf(o)),
                      Send>>
    BY <1>5, ReadScripts
  <2> QED
    BY <1>3, <1>5, <2>1
<1> QED
  BY <1>4, <1>5

(* How DS$ is asked for.                                                     *)
LEMMA AskingSteps ==
  ASSUME NEW o \in Operations, o.kind = "DS"
  PROVE  /\ Script(o) \in Seq(Steps) /\ Len(Script(o)) = 3
         /\ Script(o)[1] = Command("TALK") /\ Script(o)[2] = Second("SECOND", 15)
         /\ Script(o)[3] = Send
<1>1. Command("TALK") \in Steps /\ Second("SECOND", 15) \in Steps /\ Send \in Steps
  BY StepsAre DEF Channels
<1>2. Script(o) = <<Command("TALK"), Second("SECOND", 15), Send>>
  BY ReadScripts
<1> QED
  BY <1>1, <1>2

(* How a read ends.                                                          *)
LEMMA ClosingSteps ==
  ASSUME NEW o \in Operations, o.kind \in {"LOAD", "DIRECTORY", "READ", "DS"}
  PROVE  LET s == AfterReads(o)
         IN /\ s \in Seq(Steps) /\ Len(s) = IF o.kind = "DS" THEN 1 ELSE 4
            /\ s[1] = Command("UNTALK")
            /\ o.kind # "DS" => /\ s[2] = Command("LISTEN")
                                /\ s[3] = Second("CLOSE", ChannelOf(o))
                                /\ s[4] = Command("UNLISTEN")
<1>1. ChannelOf(o) \in Channels
  BY DEF ChannelOf, Channels
<1>2. /\ Command("UNTALK") \in Steps /\ Command("LISTEN") \in Steps
      /\ Second("CLOSE", ChannelOf(o)) \in Steps /\ Command("UNLISTEN") \in Steps
  BY <1>1, StepsAre
<1>3. CASE o.kind = "DS"
  <2>1. AfterReads(o) = <<Command("UNTALK")>>
    BY <1>3, AfterReadsIs
  <2> QED
    BY <1>2, <1>3, <2>1
<1>4. CASE o.kind # "DS"
  <2>1. AfterReads(o) = <<Command("UNTALK"), Command("LISTEN"), Second("CLOSE", ChannelOf(o)),
                          Command("UNLISTEN")>>
    BY <1>4, AfterReadsIs
  <2> QED
    BY <1>2, <1>4, <2>1
<1> QED
  BY <1>3, <1>4

(* How a stopped operation ends.                                             *)
LEMMA CloseSteps ==
  ASSUME NEW c \in Channels
  PROVE  LET s == CloseScript(c)
         IN /\ s \in Seq(Steps) /\ Len(s) = 3 /\ s[1] = Command("LISTEN")
            /\ s[2] = Second("CLOSE", c) /\ s[3] = Command("UNLISTEN")
<1>1. /\ Command("LISTEN") \in Steps /\ Second("CLOSE", c) \in Steps
      /\ Command("UNLISTEN") \in Steps
  BY StepsAre
<1>2. CloseScript(c) = <<Command("LISTEN"), Second("CLOSE", c), Command("UNLISTEN")>>
  BY CloseIs
<1> QED
  BY <1>1, <1>2

(* How a command is sent with OPEN, and by PRINT#.                           *)
LEMMA CommandSteps ==
  ASSUME NEW o \in Operations, o.kind \in {"OPEN15", "PRINT15"}
  PROVE  LET s == Script(o)
         IN /\ s \in Seq(Steps) /\ Len(s) = IF o.kind = "OPEN15" THEN 8 ELSE 5
            /\ s[1] = Command("LISTEN")
            /\ s[2] = Second(IF o.kind = "OPEN15" THEN "OPEN" ELSE "SECOND", 15)
            /\ s[3] = Recv("S") /\ s[4] = Recv(o.name) /\ s[5] = Command("UNLISTEN")
            /\ o.kind = "OPEN15" => /\ s[6] = Command("LISTEN") /\ s[7] = Second("CLOSE", 15)
                                    /\ s[8] = Command("UNLISTEN")
<1>1. o.name \in Names
  BY DEF Operations
<1>2. /\ Command("LISTEN") \in Steps /\ Second("OPEN", 15) \in Steps
      /\ Second("SECOND", 15) \in Steps /\ Second("CLOSE", 15) \in Steps
      /\ Recv("S") \in Steps /\ Recv(o.name) \in Steps /\ Command("UNLISTEN") \in Steps
  BY <1>1, StepsAre DEF Channels
<1>3. CASE o.kind = "OPEN15"
  <2>1. Script(o) = <<Command("LISTEN"), Second("OPEN", 15)>> \o <<Recv("S"), Recv(o.name)>>
                      \o <<Command("UNLISTEN")>>
                      \o (<<Command("LISTEN"), Second("CLOSE", 15)>> \o <<Command("UNLISTEN")>>)
    BY <1>3, NamePut DEF Script, OpenScript, CloseScript, Listen, Unlisten
  <2>2. Script(o) = <<Command("LISTEN"), Second("OPEN", 15), Recv("S"), Recv(o.name),
                      Command("UNLISTEN"), Command("LISTEN"), Second("CLOSE", 15),
                      Command("UNLISTEN")>>
    BY <1>2, <2>1, Joined8
  <2> QED
    BY <1>2, <1>3, <2>2
<1>4. CASE o.kind = "PRINT15"
  <2>1. Script(o) = <<Command("LISTEN"), Second("SECOND", 15)>> \o <<Recv("S"), Recv(o.name)>>
                      \o <<Command("UNLISTEN")>>
    BY <1>4, NamePut DEF Script, Listen, Unlisten
  <2>2. Script(o) = <<Command("LISTEN"), Second("SECOND", 15), Recv("S"), Recv(o.name),
                      Command("UNLISTEN")>>
    BY <1>2, <2>1, Joined5
  <2> QED
    BY <1>2, <1>4, <2>2
<1> QED
  BY <1>3, <1>4

(* Script r is s and then t.                                                 *)
Joined(r, s, t) ==
  /\ r \in Seq(Steps) /\ Len(r) = Len(s) + Len(t)
  /\ \A i \in 1 .. Len(s) : r[i] = s[i]
  /\ \A i \in 1 .. Len(t) : r[Len(s) + i] = t[i]

(* A script made of two is the one and then the other.                       *)
LEMMA Joining ==
  ASSUME NEW s \in Seq(Steps), NEW t \in Seq(Steps)
  PROVE  Joined(s \o t, s, t)
<1>1. s \o t \in Seq(Steps)
  BY ConcatProperties
<1>2. Len(s \o t) = Len(s) + Len(t)
  BY ConcatProperties
<1>3. ASSUME NEW i \in 1 .. Len(s) PROVE (s \o t)[i] = s[i]
  BY ConcatProperties
<1>4. ASSUME NEW i \in 1 .. Len(t) PROVE (s \o t)[Len(s) + i] = t[i]
  BY ConcatProperties
<1> QED
  BY <1>1, <1>2, <1>3, <1>4 DEF Joined

(* The bytes of a file are one exchange each.                                *)
LEMMA Puts ==
  ASSUME NEW b \in Seq(Data \cup Names \cup {"$", "S"})
  PROVE  /\ Put(b) \in Seq(Steps) /\ Len(Put(b)) = Len(b)
         /\ \A i \in 1 .. Len(b) : Put(b)[i] = Recv(b[i])
<1>1. DOMAIN b = 1 .. Len(b) /\ Len(b) \in Nat
  BY LenProperties
<1>2. \A i \in 1 .. Len(b) : Recv(b[i]) \in Steps
  BY StepsAre, ElementOfSeq
<1> QED
  BY <1>1, <1>2 DEF Put

(* What a SAVE writes is a sequence of bytes, of three at least.             *)
LEMMA SavedData ==
  ASSUME NEW o \in Operations, o.kind = "SAVE"
  PROVE  o.name \in Names /\ o.data \in Seq(Data) /\ Len(o.data) \in Nat /\ Len(o.data) >= 3
<1>1. o.data \in SaveData /\ o.name \in Names
  BY DEF Operations
<1>2. o.data \in Seq(Data)
  BY <1>1, ServerAssumption
<1> QED
  BY <1>1, <1>2, ServerAssumption, LenProperties

(* How a SAVE goes.                                                          *)
LEMMA SavingSteps ==
  ASSUME NEW o \in Operations, o.kind = "SAVE"
  PROVE  LET s == Script(o)
             n == Len(o.data)
         IN /\ s \in Seq(Steps) /\ Len(s) = n + 10
            /\ s[1] = Command("LISTEN") /\ s[2] = Second("OPEN", 1)
            /\ s[3] = Recv(o.name) /\ s[4] = Command("UNLISTEN")
            /\ s[5] = Command("LISTEN") /\ s[6] = Second("SECOND", 1)
            /\ \A i \in 1 .. n : s[6 + i] = Recv(o.data[i])
            /\ s[7 + n] = Command("UNLISTEN") /\ s[8 + n] = Command("LISTEN")
            /\ s[9 + n] = Second("CLOSE", 1) /\ s[10 + n] = Command("UNLISTEN")
<1> DEFINE s == Script(o)
           n == Len(o.data)
           a == <<Command("LISTEN"), Second("OPEN", 1), Recv(o.name), Command("UNLISTEN"),
                  Command("LISTEN"), Second("SECOND", 1)>>
           b == Put(o.data)
           u == <<Command("UNLISTEN")>>
           c == CloseScript(1)
           d == a \o b
           e == d \o u
<1>1. o.name \in Names /\ o.data \in Seq(Data) /\ n \in Nat
  BY SavedData
<1>2. /\ Command("LISTEN") \in Steps /\ Second("OPEN", 1) \in Steps
      /\ Recv(o.name) \in Steps /\ Command("UNLISTEN") \in Steps
      /\ Second("SECOND", 1) \in Steps
  BY <1>1, StepsAre DEF Channels
<1>3. s = e \o c
  <2>1. <<Command("LISTEN"), Second("OPEN", 1)>> \o <<Recv(o.name)>> \o <<Command("UNLISTEN")>>
          \o <<Command("LISTEN"), Second("SECOND", 1)>> = a
    BY <1>2, Joined6
  <2>2. s = OpenScript(1, <<o.name>>) \o Listen("SECOND", 1) \o Put(o.data) \o Unlisten
              \o CloseScript(1)
    BY DEF Script
  <2>3. OpenScript(1, <<o.name>>) \o Listen("SECOND", 1) = a
    <3> HIDE DEF a
    <3> QED
      BY <2>1, NamePut DEF OpenScript, Listen, Unlisten
  <2> HIDE DEF a, s
  <2> QED
    BY <2>2, <2>3 DEF Unlisten
<1>4. /\ a \in Seq(Steps) /\ Len(a) = 6
      /\ a[1] = Command("LISTEN") /\ a[2] = Second("OPEN", 1) /\ a[3] = Recv(o.name)
      /\ a[4] = Command("UNLISTEN") /\ a[5] = Command("LISTEN") /\ a[6] = Second("SECOND", 1)
  BY <1>2
<1>5. u \in Seq(Steps) /\ Len(u) = 1 /\ u[1] = Command("UNLISTEN")
  BY <1>2
<1>6. b \in Seq(Steps) /\ Len(b) = n /\ \A i \in 1 .. n : b[i] = Recv(o.data[i])
  <2>1. o.data \in Seq(Data \cup Names \cup {"$", "S"})
    BY <1>1, SeqMonotonic
  <2> QED
    BY <2>1, Puts
<1>7. c \in Seq(Steps) /\ Len(c) = 3 /\ c[1] = Command("LISTEN") /\ c[2] = Second("CLOSE", 1)
        /\ c[3] = Command("UNLISTEN")
  BY CloseSteps DEF Channels
<1> HIDE DEF s, a, b, u, c
<1>8. Joined(d, a, b)
  BY <1>4, <1>6, Joining
<1> HIDE DEF d
<1>9. Joined(e, d, u)
  BY <1>5, <1>8, Joining DEF Joined
<1> HIDE DEF e
<1>10. Joined(s, e, c)
  BY <1>3, <1>7, <1>9, Joining DEF Joined
<1>11. /\ d \in Seq(Steps) /\ Len(d) = n + 6 /\ \A i \in 1 .. 6 : d[i] = a[i]
       /\ \A i \in 1 .. n : d[6 + i] = b[i]
  BY <1>1, <1>4, <1>6, <1>8 DEF Joined
<1>12. /\ e \in Seq(Steps) /\ Len(e) = n + 7 /\ \A i \in 1 .. n + 6 : e[i] = d[i]
       /\ e[n + 7] = u[1]
  BY <1>1, <1>5, <1>9, <1>11 DEF Joined
<1>13. /\ s \in Seq(Steps) /\ Len(s) = n + 10 /\ \A i \in 1 .. n + 7 : s[i] = e[i]
       /\ s[n + 8] = c[1] /\ s[n + 9] = c[2] /\ s[n + 10] = c[3]
  BY <1>1, <1>7, <1>10, <1>12 DEF Joined
<1>14. ASSUME NEW i \in 1 .. n + 6 PROVE s[i] = d[i]
  <2>1. i \in 1 .. n + 7
    BY <1>1
  <2>2. s[i] = e[i]
    BY <1>13, <2>1, Zenon
  <2>3. e[i] = d[i]
    BY <1>12, Zenon
  <2> QED
    BY <2>2, <2>3
<1>15. ASSUME NEW i \in 1 .. 6 PROVE s[i] = a[i]
  <2>1. i \in 1 .. n + 6
    BY <1>1
  <2>2. s[i] = d[i]
    BY <1>14, <2>1
  <2> QED
    BY <1>11, <2>2, Zenon
<1>16. ASSUME NEW i \in 1 .. n PROVE s[6 + i] = b[i]
  <2>1. 6 + i \in 1 .. n + 6
    BY <1>1
  <2> QED
    BY <1>11, <1>14, <2>1
<1>17. s[7 + n] = u[1]
  <2>1. n + 7 \in 1 .. n + 7 /\ n + 7 = 7 + n
    BY <1>1
  <2>2. s[n + 7] = e[n + 7]
    BY <1>13, <2>1, Zenon
  <2> QED
    BY <1>12, <2>1, <2>2
<1>18. n + 8 = 8 + n /\ n + 9 = 9 + n /\ n + 10 = 10 + n
  BY <1>1
<1>19. /\ s[1] = Command("LISTEN") /\ s[2] = Second("OPEN", 1) /\ s[3] = Recv(o.name)
       /\ s[4] = Command("UNLISTEN") /\ s[5] = Command("LISTEN") /\ s[6] = Second("SECOND", 1)
  BY <1>4, <1>15
<1>20. \A i \in 1 .. n : s[6 + i] = Recv(o.data[i])
  BY <1>6, <1>16
<1>21. /\ s[7 + n] = Command("UNLISTEN") /\ s[8 + n] = Command("LISTEN")
       /\ s[9 + n] = Second("CLOSE", 1) /\ s[10 + n] = Command("UNLISTEN")
  BY <1>5, <1>7, <1>13, <1>17, <1>18
<1> QED
  BY <1>13, <1>19, <1>20, <1>21, Zenon DEF s

-----------------------------------------------------------------------------
(* The host's side of an exchange. *)

(* The host goes on to the i-th exchange of s.                               *)
Moved(s, i) ==
  /\ i \in 1 .. Len(s) + 1 /\ todo' = SubSeq(s, i, Len(s)) /\ pause' = "none"
  /\ UNCHANGED <<op, got, told, stopped, want, owed>>

(* A served exchange that is no read takes the host to the next (Served).    *)
LEMMA ServedMoves ==
  ASSUME NEW s \in Seq(Steps), NEW i, At(s, i), i # Len(s) + 1, s[i] # Send,
         HostTyped, Served
  PROVE  Moved(s, i + 1)
<1>1. /\ Head(todo) = s[i] /\ Tail(todo) = SubSeq(s, i + 1, Len(s))
      /\ i + 1 \in 1 .. Len(s) + 1
  BY Position
<1>2. ~Reading
  BY <1>1 DEF Reading
<1>3. todo' = Tail(todo) /\ told' = told /\ got' = got /\ pause' = "none"
        /\ UNCHANGED <<op, stopped, want, owed>>
  BY <1>2 DEF Served, Reply, AfterStatus, Repeating, STATUS_OK, HostTyped
<1> QED
  BY <1>1, <1>3 DEF Moved

(* The host's types go on with it.                                           *)
LEMMA MovedTyped ==
  ASSUME HostTyped, NEW s, NEW i, Moved(s, i)
  PROVE  HostTyped'
  BY DEF HostTyped, Moved

-----------------------------------------------------------------------------
(* The device's channels. *)

Trimmed == stale' = {c \in stale : channels'[c].open}

(* A closed channel is a channel, and what it wrote is a file's bytes        *)
(* (Channel::Close()).                                                       *)
LEMMA ClosedWell ==
  ASSUME Device, NEW c \in Channels
  PROVE  LET ch == channels[c]
         IN /\ ch \in Channel
            /\ Close(ch) \in Channel /\ Cut(ch) \in Channel /\ Cut(Close(ch)) \in Channel
            /\ ~Close(ch).open /\ ~Close(ch).writing
            /\ ~Cut(Close(ch)).open /\ ~Cut(Close(ch)).writing
            /\ Cut(Close(ch)).buffer = <<>> /\ Cut(Close(ch)).data = <<>>
            /\ CardAfterClose(ch) \in [Names -> Seq(Data) \cup {None}]
            /\ (c # 1 \/ ~ch.open) => CardAfterClose(ch) = card
<1>1. channels[c] \in Channel
  BY DEF Device, DeviceTyped
<1>2. Close(channels[c]) \in Channel /\ Cut(channels[c]) \in Channel
        /\ Cut(Close(channels[c])) \in Channel
  <2>0. /\ <<>> \in Seq(Names \cup {"$", "S"}) /\ <<>> \in Seq(Data \cup Names \cup Tokens)
        /\ <<>> \in Seq(Data)
    BY EmptySeq
  <2>1. ASSUME NEW x \in Channel PROVE Close(x) \in Channel
    BY <2>0, Zenon DEF Close, Channel
  <2>2. ASSUME NEW x \in Channel PROVE Cut(x) \in Channel
    BY <2>0 DEF Cut, Channel
  <2> QED
    BY <1>1, <2>1, <2>2
<1>3. /\ ~Close(channels[c]).open /\ ~Close(channels[c]).writing
      /\ ~Cut(Close(channels[c])).open /\ ~Cut(Close(channels[c])).writing
      /\ Cut(Close(channels[c])).buffer = <<>> /\ Cut(Close(channels[c])).data = <<>>
  BY <1>1 DEF Close, Cut, Channel
<1>4. CardAfterClose(channels[c]) \in [Names -> Seq(Data) \cup {None}]
  <2>1. CASE channels[c].open /\ channels[c].writing /\ card[channels[c].file] # None
    <3>1. channels[c].data \in Seq(Data) /\ channels[c].buffer \in Seq(Data)
      BY <1>1, <2>1 DEF Device, Writers, Channel
    <3>2. channels[c].data \o channels[c].buffer \in Seq(Data)
      BY <3>1, ConcatProperties
    <3>3. Write(channels[c]).data = channels[c].data \o channels[c].buffer
      BY <1>1 DEF Write, Channel
    <3> QED
      BY <2>1, <3>2, <3>3 DEF CardAfterClose, Device, DeviceTyped
  <2>2. CASE ~(channels[c].open /\ channels[c].writing /\ card[channels[c].file] # None)
    BY <2>2 DEF CardAfterClose, Device, DeviceTyped
  <2> QED
    BY <2>1, <2>2
<1>5. (c # 1 \/ ~channels[c].open) => CardAfterClose(channels[c]) = card
  BY DEF CardAfterClose, Device, Writers
<1> QED
  BY <1>1, <1>2, <1>3, <1>4, <1>5

(* One channel changes at a time, the one of the transfer at hand.           *)
LEMMA OneChannel ==
  ASSUME Device, Trimmed, NEW c \in Channels, NEW x \in Channel,
         channels' = [channels EXCEPT ![c] = x],
         x.writing => c = 1 /\ x.open /\ x.file \in Names /\ x.buffer \in Seq(Data),
         x.open => c \in stale \/ (tcbmState' \in {"LOAD", "SAVE"} /\ c = secondaryAddress'),
         tcbmState \in {"LOAD", "SAVE"} => secondaryAddress = c,
         secondaryAddress' \in Channels, errorMessage' \in Errors,
         card' \in [Names -> Seq(Data) \cup {None}]
  PROVE  Device'
<1>1. /\ channels' \in [Channels -> Channel] /\ channels'[c] = x
      /\ \A d \in Channels \ {c} : channels'[d] = channels[d]
  BY DEF Device, DeviceTyped
<1>2. DeviceTyped'
  BY <1>1 DEF Device, DeviceTyped, Trimmed
<1>3. Writers'
  BY <1>1 DEF Device, Writers
<1>4. Owned'
  BY <1>1 DEF Device, Owned, Trimmed
<1> QED
  BY <1>2, <1>3, <1>4 DEF Device

(* Or none does.                                                             *)
LEMMA NoChannel ==
  ASSUME Device, Trimmed, channels' = channels,
         secondaryAddress' = secondaryAddress,
         tcbmState \in {"LOAD", "SAVE"} =>
           tcbmState' = tcbmState \/ ~channels[secondaryAddress].open,
         errorMessage' \in Errors, card' \in [Names -> Seq(Data) \cup {None}]
  PROVE  Device'
<1>1. DeviceTyped'
  BY DEF Device, DeviceTyped, Trimmed
<1>2. Writers'
  BY DEF Device, Writers
<1>3. Owned'
  BY DEF Device, DeviceTyped, Owned, Trimmed
<1> QED
  BY <1>1, <1>2, <1>3 DEF Device

(* A name is to come (EnterOpenState()).                                     *)
LEMMA EntersOpen ==
  ASSUME Device, Trimmed, NEW c \in Channels, EnterOpenState(c), tcbmState = "IDLE",
         secondaryAddress' = c, expects' = None
  PROVE  /\ Device' /\ Naming(c, <<>>)' /\ errorMessage' = errorMessage
         /\ c # 1 => card' = card
<1> DEFINE x == Cut(Close(channels[c]))
<1>1. x \in Channel /\ ~x.open /\ ~x.writing /\ x.buffer = <<>> /\ x.data = <<>>
  BY ClosedWell
<1>2. card' \in [Names -> Seq(Data) \cup {None}] /\ (c # 1 => card' = card)
  BY ClosedWell DEF EnterOpenState
<1>3. channels' = [channels EXCEPT ![c] = x] /\ tcbmState' = "OPEN"
        /\ errorMessage' = errorMessage
  BY DEF EnterOpenState
<1>4. errorMessage \in Errors /\ channels \in [Channels -> Channel]
  BY DEF Device, DeviceTyped
<1> HIDE DEF x
<1>5. Device'
  BY <1>1, <1>2, <1>3, <1>4, OneChannel
<1>6. Naming(c, <<>>)'
  BY <1>1, <1>3, <1>4 DEF Naming, Within
<1> QED
  BY <1>2, <1>3, <1>5, <1>6

(* A file is closed on the host's word (CloseFile()).                        *)
LEMMA ClosesFile ==
  ASSUME Device, Trimmed, NEW c \in Channels, CloseFile(c),
         tcbmState \in {"LOAD", "SAVE"} => secondaryAddress = c,
         secondaryAddress' = c, expects' = None
  PROVE  /\ Device' /\ Idle' /\ errorMessage' = errorMessage /\ ~channels'[c].open
         /\ c # 1 \/ ~channels[c].open => card' = card
<1> DEFINE x == Close(channels[c])
<1>1. x \in Channel /\ ~x.open /\ ~x.writing
  BY ClosedWell
<1>2. /\ card' \in [Names -> Seq(Data) \cup {None}]
      /\ c # 1 \/ ~channels[c].open => card' = card
  BY ClosedWell DEF CloseFile
<1>3. channels' = [channels EXCEPT ![c] = x] /\ tcbmState' = "IDLE"
        /\ errorMessage' = errorMessage
  BY DEF CloseFile
<1>4. errorMessage \in Errors /\ channels \in [Channels -> Channel]
  BY DEF Device, DeviceTyped
<1> HIDE DEF x
<1>5. Device'
  BY <1>1, <1>2, <1>3, <1>4, OneChannel
<1> QED
  BY <1>1, <1>2, <1>3, <1>4, <1>5 DEF Idle, Within

(* A file is made for SAVE, or that is reported (PrepareSaveChannel()).      *)
LEMMA PreparesSave ==
  ASSUME Device, Trimmed, PrepareSaveChannel(1), tcbmState = "IDLE",
         ~channels[1].open, channels[1].data = <<>>,
         secondaryAddress' = 1, expects' = None
  PROVE  /\ Device' /\ Within("SAVE", None)'
         /\ \/ /\ channels'[1].open /\ channels'[1].writing
               /\ card'[channels'[1].file] # None
               /\ channels'[1].data = <<>> /\ channels'[1].buffer = <<>>
            \/ ~channels'[1].open /\ Failed'
<1> DEFINE ch   == [channels[1] EXCEPT !.command = channels[0].command, !.buffer = <<>>,
                                       !.sent = 0]
           name == IF ch.command = <<>> THEN None ELSE Head(ch.command)
           x    == IF name \in Names
                   THEN [ch EXCEPT !.open = TRUE, !.writing = TRUE, !.file = name] ELSE ch
<1>1. channels[1] \in Channel /\ channels[0].command \in Seq(Names \cup {"$", "S"})
        /\ 1 \in Channels /\ channels \in [Channels -> Channel] /\ errorMessage \in Errors
        /\ card \in [Names -> Seq(Data) \cup {None}] /\ ~channels[1].writing
  BY DEF Device, DeviceTyped, Writers, Channels, Channel
<1>2. <<>> \in Seq(Data \cup Names \cup Tokens) /\ <<>> \in Seq(Data)
  BY EmptySeq
<1>3. /\ ch \in Channel /\ ~ch.open /\ ~ch.writing /\ ch.data = <<>> /\ ch.buffer = <<>>
  BY <1>1, <1>2 DEF Channel
<1> HIDE DEF ch
<1>4. /\ x \in Channel /\ x.data = <<>> /\ x.buffer = <<>>
      /\ name \in Names => x.open /\ x.writing /\ x.file = name
      /\ name \notin Names => ~x.open /\ ~x.writing
  <2>1. CASE name \in Names
    <3> HIDE DEF name
    <3> QED
      BY <1>3, <2>1 DEF Channel
  <2>2. CASE name \notin Names
    BY <1>3, <2>2
  <2> QED
    BY <2>1, <2>2
<1>5. /\ tcbmState' = "SAVE" /\ channels' = [channels EXCEPT ![1] = x]
      /\ card' = IF name \in Names THEN [card EXCEPT ![name] = <<>>] ELSE card
      /\ errorMessage' = IF name \in Names THEN errorMessage ELSE "25"
  BY <1>3 DEF PrepareSaveChannel, ch
<1> HIDE DEF x, name
<1>6. card' \in [Names -> Seq(Data) \cup {None}]
  BY <1>1, <1>2, <1>5
<1>7. errorMessage' \in Errors
  BY <1>1, <1>5 DEF Errors
<1>8. Device'
  BY <1>1, <1>2, <1>4, <1>5, <1>6, <1>7, OneChannel
<1>9. channels'[1] = x
  BY <1>1, <1>5
<1>10. CASE name \in Names
  <2>1. card'[name] = <<>> /\ <<>> # None
    BY <1>1, <1>2, <1>5, <1>10, ServerAssumption
  <2> QED
    BY <1>4, <1>5, <1>8, <1>9, <1>10, <2>1 DEF Within
<1>11. CASE name \notin Names
  BY <1>4, <1>5, <1>8, <1>9, <1>11 DEF Within, Failed, Errors
<1> QED
  BY <1>10, <1>11

(* The error message is made ready (PrepareStatusResponse()).                *)
LEMMA PreparesStatus ==
  ASSUME Device, Trimmed, PrepareStatusResponse, tcbmState = "IDLE",
         secondaryAddress' = 15, expects' = None
  PROVE  /\ Device' /\ Within("DIR", None)' /\ UNCHANGED <<card, errorMessage>>
         /\ channels'[15].buffer = <<errorMessage>> /\ channels'[15].sent = 0
<1> DEFINE x == [channels[15] EXCEPT !.buffer = <<errorMessage>>, !.sent = 0]
<1>1. channels[15] \in Channel /\ 15 \in Channels /\ channels \in [Channels -> Channel]
        /\ errorMessage \in Errors /\ card \in [Names -> Seq(Data) \cup {None}]
        /\ ~channels[15].writing /\ (channels[15].open => 15 \in stale)
  BY DEF Device, DeviceTyped, Writers, Owned, Channels
<1>2. errorMessage \in Data \cup Names \cup Tokens
  BY <1>1 DEF Tokens
<1>3. <<errorMessage>> \in Seq(Data \cup Names \cup Tokens)
  <2> DEFINE bytes == Data \cup Names \cup Tokens
  <2> HIDE DEF bytes
  <2>1. errorMessage \in bytes => <<errorMessage>> \in Seq(bytes)
    OBVIOUS
  <2> QED
    BY <1>2, <2>1 DEF bytes
<1>4. /\ x \in Channel /\ ~x.writing /\ (x.open => 15 \in stale)
      /\ x.buffer = <<errorMessage>> /\ x.sent = 0
  BY <1>1, <1>3, Zenon DEF Channel
<1>5. channels' = [channels EXCEPT ![15] = x] /\ tcbmState' = "DIR"
        /\ UNCHANGED <<card, errorMessage>>
  BY <1>1 DEF PrepareStatusResponse
<1> HIDE DEF x
<1>6. Device'
  BY <1>1, <1>4, <1>5, OneChannel
<1> QED
  BY <1>1, <1>4, <1>5, <1>6 DEF Within

(* Sequences of one and of two.                                              *)
LEMMA ShortSeq ==
  ASSUME NEW S, NEW p \in S, NEW q \in S
  PROVE  <<p>> \in Seq(S) /\ <<p, q>> \in Seq(S)
  OBVIOUS

(* A name of two parts is put together.                                      *)
LEMMA TwoParts ==
  ASSUME NEW p, NEW q
  PROVE  Append(<<p>>, q) = <<p, q>>
<1> DEFINE S == {p, q}
           a == <<p>>
           s == Append(a, q)
           t == <<p, q>>
<1>1. p \in S /\ q \in S
  OBVIOUS
<1>2. a \in Seq(S) /\ t \in Seq(S)
  <2> HIDE DEF S
  <2> QED
    BY <1>1, ShortSeq
<1>3. Len(a) = 1 /\ a[1] = p /\ Len(t) = 2 /\ t[1] = p /\ t[2] = q
  OBVIOUS
<1> HIDE DEF S, a, t
<1>4. /\ s \in Seq(S) /\ Len(s) = Len(a) + 1 /\ \A i \in 1 .. Len(a) : s[i] = a[i]
      /\ s[Len(a) + 1] = q
  BY <1>1, <1>2, AppendProperties
<1>5. Len(s) = Len(t) /\ \A i \in 1 .. Len(s) : s[i] = t[i]
  <2> HIDE DEF s
  <2> QED
    BY <1>3, <1>4
<1>6. s = t
  <2> HIDE DEF s
  <2> QED
    BY <1>2, <1>4, <1>5, SeqEqual
<1> QED
  BY <1>6 DEF a, t

(* What comes after two sequences comes after the second.                    *)
LEMMA AppendLater ==
  ASSUME NEW S, NEW s \in Seq(S), NEW t \in Seq(S), NEW e \in S
  PROVE  s \o Append(t, e) = Append(s \o t, e)
<1>1. <<e>> \in Seq(S) /\ s \o t \in Seq(S)
  BY ConcatProperties
<1>2. Append(t, e) = t \o <<e>> /\ Append(s \o t, e) = (s \o t) \o <<e>>
  BY <1>1, AppendIsConcat
<1> QED
  BY <1>1, <1>2, ConcatAssociative

(* One more of a sequence.                                                   *)
LEMMA OneMore ==
  ASSUME NEW S, NEW s \in Seq(S), NEW k \in Nat, k < Len(s)
  PROVE  SubSeq(s, 1, k + 1) = Append(SubSeq(s, 1, k), s[k + 1])
<1>1. Len(s) \in Nat
  BY LenProperties
<1>2. 1 \in 1 .. Len(s) /\ k + 1 \in 1 .. Len(s) /\ (k + 1) - 1 = k
  BY <1>1
<1>3. SubSeq(s, 1, k + 1) = SubSeq(s, 1, k) \o <<s[k + 1]>>
  BY <1>2, SubSeqRecursiveSecond
<1>4. s[k + 1] \in S /\ SubSeq(s, 1, k) \in Seq(S)
  <2>1. \A i \in 1 .. k : i \in 1 .. Len(s)
    BY <1>1
  <2>2. s[k + 1] \in S
    BY <1>2, ElementOfSeq
  <2> QED
    BY <1>2, <2>1, <2>2, SubSeqProperties
<1> QED
  BY <1>3, <1>4, AppendIsConcat

(* The first of what is left comes after what is there.                      *)
LEMMA OneOver ==
  ASSUME NEW S, NEW s \in Seq(S), NEW t \in Seq(S), t # <<>>
  PROVE  /\ Append(s, Head(t)) \in Seq(S)
         /\ Append(s, Head(t)) \o Tail(t) = s \o t
         /\ Len(t) = 1 => Append(s, Head(t)) = s \o t
<1>1. Head(t) \in S /\ Tail(t) \in Seq(S) /\ Len(Tail(t)) = Len(t) - 1
  BY HeadTailProperties
<1>2. <<Head(t)>> \in Seq(S)
  BY <1>1
<1>3. t = <<Head(t)>> \o Tail(t)
  <2>1. 1 \in 1 .. Len(t) /\ Len(t) \in 1 .. Len(t) /\ Len(t) \in Nat
    BY EmptySeq, LenProperties
  <2>2. t = SubSeq(t, 1, Len(t)) /\ Tail(t) = SubSeq(t, 2, Len(t))
    BY SubSeqFull, TailIsSubSeq
  <2>3. SubSeq(t, 1, Len(t)) = <<t[1]>> \o SubSeq(t, 1 + 1, Len(t))
    BY <2>1, SubSeqRecursiveFirst
  <2>4. t[1] = Head(t)
    OBVIOUS
  <2>5. 1 + 1 = 2
    OBVIOUS
  <2> QED
    BY <2>2, <2>3, <2>4, <2>5
<1>4. Append(s, Head(t)) = s \o <<Head(t)>>
  BY <1>1, AppendIsConcat
<1>5. (s \o <<Head(t)>>) \o Tail(t) = s \o (<<Head(t)>> \o Tail(t))
  BY <1>1, <1>2, ConcatAssociative
<1>6. Append(s, Head(t)) \in Seq(S)
  BY <1>1, AppendProperties
<1>7. Append(s, Head(t)) \o Tail(t) = s \o t
  BY <1>3, <1>4, <1>5, Zenon
<1>8. ASSUME Len(t) = 1 PROVE Append(s, Head(t)) = s \o t
  <2>0. Len(Tail(t)) = 0
    BY <1>1, <1>8
  <2>1. Tail(t) = <<>>
    BY <1>1, <2>0, EmptySeq, Zenon
  <2>2. Append(s, Head(t)) \o <<>> = Append(s, Head(t))
    BY <1>6, ConcatEmptySeq
  <2> QED
    BY <1>7, <2>1, <2>2
<1> QED
  BY <1>6, <1>7, <1>8

(* A listing is a sequence of lines (SetToSeq()).                            *)
LEMMA ListingIs ==
  ASSUME NEW files \in [Names -> Seq(Data) \cup {None}], NEW found
  PROVE  Listing(files, found) \in Seq(Bytes) /\ Len(Listing(files, found)) >= 1
<1> DEFINE S == {n \in Names : n \in found /\ files[n] # None}
           f == SetToSeq(S)
           a == <<"address", "header">>
           z == <<"blocks free">>
<1>1. IsFiniteSet(S) /\ Cardinality(S) \in Nat
  <2>1. IsFiniteSet(Names) /\ S \subseteq Names
    BY ServerAssumption
  <2> QED
    BY <2>1, FS_Subset, FS_CardinalityType
<1>2. f \in Seq(S)
  <2>1. PICK g \in [1 .. Cardinality(S) -> S] : IsInjective(g)
    <3>1. ExistsBijection(1 .. Cardinality(S), S)
      BY <1>1, FS_CardinalityType
    <3> QED
      BY <3>1 DEF ExistsBijection, Bijection, Injection, IsInjective
  <2>2. f \in [1 .. Cardinality(S) -> S]
    BY <2>1 DEF SetToSeq
  <2> QED
    BY <1>1, <2>2
<1>3. f \in Seq(Bytes)
  <2>1. S \subseteq Bytes
    BY DEF Bytes
  <2> QED
    BY <1>2, <2>1, SeqMonotonic
<1>4. a \in Seq(Bytes) /\ z \in Seq(Bytes) /\ Len(a) = 2 /\ Len(z) = 1
  <2>1. "address" \in Bytes /\ "header" \in Bytes /\ "blocks free" \in Bytes
    BY DEF Bytes, Tokens
  <2>2. a \in Seq(Bytes)
    BY <2>1, ShortSeq, Zenon
  <2>3. z \in Seq(Bytes)
    BY <2>1, ShortSeq, Zenon
  <2> QED
    BY <2>2, <2>3
<1> DEFINE b == a \o f
           c == b \o z
<1> HIDE DEF f, a, z
<1>5. b \in Seq(Bytes)
  BY <1>3, <1>4, ConcatProperties
<1>6. Len(f) \in Nat /\ Len(b) = 2 + Len(f)
  <2>1. Len(f) \in Nat
    BY <1>3, LenProperties
  <2>2. Len(b) = Len(a) + Len(f)
    BY <1>3, <1>4, ConcatProperties
  <2> QED
    BY <1>4, <2>1, <2>2
<1> HIDE DEF b
<1>7. c \in Seq(Bytes)
  BY <1>4, <1>5, ConcatProperties
<1>8. Len(c) >= 3
  <2>1. Len(c) = Len(b) + Len(z)
    BY <1>4, <1>5, ConcatProperties
  <2> QED
    BY <1>4, <1>6, <2>1
<1> HIDE DEF c
<1>9. Captured(c) \in Seq(Bytes) /\ Len(Captured(c)) >= 1
  <2> DEFINE m == IF Len(c) < ListingSize THEN Len(c) ELSE ListingSize
  <2>1. Len(c) \in Nat /\ ListingSize \in Nat \ {0}
    BY <1>7, LenProperties, ServerAssumption
  <2>2. m \in Nat /\ 1 <= m /\ m <= Len(c)
    BY <1>8, <2>1
  <2>3. SubSeq(c, 1, m) \in Seq(Bytes) /\ Len(SubSeq(c, 1, m)) = m
    <3> HIDE DEF m
    <3> QED
      BY <1>7, <2>1, <2>2, SubSeqProperties
  <2> QED
    BY <2>2, <2>3 DEF Captured
<1>10. Listing(files, found) = Captured(c)
  BY DEF a, b, c, f, z, Listing
<1> QED
  BY <1>9, <1>10

(* A listing is made ready (PrepareDirectoryResponse()).                     *)
LEMMA PreparesListing ==
  ASSUME Device, Trimmed, NEW c \in Channels, c # 1, PrepareDirectoryResponse(c),
         tcbmState = "IDLE", secondaryAddress' = c, expects' = None
  PROVE  /\ Device' /\ Within("DIR", None)' /\ UNCHANGED <<card, errorMessage>>
         /\ channels'[c].buffer = Listing(card, op.found) /\ channels'[c].sent = 0
<1> DEFINE x == [channels[c] EXCEPT !.buffer = Listing(card, op.found), !.sent = 0]
<1>1. channels[c] \in Channel /\ channels \in [Channels -> Channel]
        /\ errorMessage \in Errors /\ card \in [Names -> Seq(Data) \cup {None}]
        /\ ~channels[c].writing /\ (channels[c].open => c \in stale)
  BY DEF Device, DeviceTyped, Writers, Owned
<1>2. Listing(card, op.found) \in Seq(Data \cup Names \cup Tokens)
  BY <1>1, ListingIs DEF Bytes
<1>3. /\ x \in Channel /\ ~x.writing /\ (x.open => c \in stale)
      /\ x.buffer = Listing(card, op.found) /\ x.sent = 0
  BY <1>1, <1>2, Zenon DEF Channel
<1>4. channels' = [channels EXCEPT ![c] = x] /\ tcbmState' = "DIR"
        /\ UNCHANGED <<card, errorMessage>>
  BY <1>1 DEF PrepareDirectoryResponse
<1> HIDE DEF x
<1>5. Device'
  BY <1>1, <1>3, <1>4, OneChannel
<1> QED
  BY <1>1, <1>3, <1>4, <1>5 DEF Within

(* A file is opened for a read, or that is reported (PrepareLoadChannel()).  *)
LEMMA PreparesLoad ==
  ASSUME Device, Trimmed, NEW c \in Channels, c # 1, PrepareLoadChannel(c),
         NEW n \in Names, channels[c].command = <<n>>,
         tcbmState = "IDLE", secondaryAddress' = c, expects' = None
  PROVE  /\ Device' /\ Within("LOAD", None)' /\ UNCHANGED card
         /\ \/ channels'[c].open /\ channels'[c].data = card[n] /\ card[n] # None
            \/ ~channels'[c].open /\ errorMessage' = "62"
<1> DEFINE ch == Close(channels[c])
           y  == [ch EXCEPT !.open = TRUE, !.file = n, !.data = card[n]]
<1>1. /\ ch \in Channel /\ ~ch.open /\ ~ch.writing /\ channels \in [Channels -> Channel]
      /\ card' = card /\ card \in [Names -> Seq(Data) \cup {None}] /\ errorMessage \in Errors
  BY ClosedWell DEF PrepareLoadChannel, Device, DeviceTyped
<1>2. Head(ch.command) = n
  <2>1. ch.command = channels[c].command
    BY DEF Close, Device, DeviceTyped, Channel
  <2> QED
    BY <2>1
<1> HIDE DEF ch
<1>3. tcbmState' = "LOAD"
  BY DEF PrepareLoadChannel
<1>4. \/ /\ card[n] # None /\ channels' = [channels EXCEPT ![c] = y]
         /\ UNCHANGED errorMessage
      \/ channels' = [channels EXCEPT ![c] = ch] /\ errorMessage' = "62"
  BY <1>1, <1>2 DEF PrepareLoadChannel, ch
<1>5. CASE /\ card[n] # None /\ channels' = [channels EXCEPT ![c] = y]
           /\ UNCHANGED errorMessage
  <2>1. y \in Channel /\ ~y.writing /\ y.open /\ y.data = card[n]
    BY <1>1, <1>5, Zenon DEF Channel
  <2> HIDE DEF y
  <2>2. Device'
    BY <1>1, <1>3, <1>5, <2>1, OneChannel
  <2> QED
    BY <1>1, <1>3, <1>5, <2>1, <2>2 DEF Within
<1>6. CASE channels' = [channels EXCEPT ![c] = ch] /\ errorMessage' = "62"
  <2>1. Device'
    BY <1>1, <1>3, <1>6, OneChannel DEF Errors
  <2> QED
    BY <1>1, <1>3, <1>6, <2>1 DEF Within
<1> QED
  BY <1>4, <1>5, <1>6

(* A part of a name comes (AppendCommandByte()).                             *)
LEMMA AppendsByte ==
  ASSUME Device, Trimmed, NEW c \in Channels, NEW bytes, Naming(c, bytes),
         AppendCommandByte, NEW n \in Data \cup Names \cup {"$", "S"}, Byte = n
  PROVE  Device' /\ Naming(c, Append(bytes, n))' /\ UNCHANGED <<card, errorMessage>>
<1> DEFINE x == [channels[c] EXCEPT !.buffer = Append(@, n)]
<1>1. /\ channels[c] \in Channel /\ channels \in [Channels -> Channel]
      /\ ~channels[c].open /\ ~channels[c].writing /\ channels[c].buffer = bytes
      /\ channels[c].data = <<>> /\ secondaryAddress = c
      /\ errorMessage \in Errors /\ card \in [Names -> Seq(Data) \cup {None}]
  BY DEF Device, DeviceTyped, Writers, Naming
<1>2. Append(channels[c].buffer, n) \in Seq(Data \cup Names \cup Tokens)
  <2>1. n \in Data \cup Names \cup Tokens
    BY DEF Tokens
  <2>2. channels[c].buffer \in Seq(Data \cup Names \cup Tokens)
    BY <1>1 DEF Channel
  <2> QED
    BY <2>1, <2>2, AppendProperties
<1>3. x \in Channel /\ ~x.open /\ ~x.writing /\ x.data = <<>> /\ x.buffer = Append(bytes, n)
  BY <1>1, <1>2, Zenon DEF Channel
<1>4. /\ channels' = [channels EXCEPT ![c] = x]
      /\ UNCHANGED <<tcbmState, expects, secondaryAddress, errorMessage, card>>
  BY <1>1 DEF AppendCommandByte
<1> HIDE DEF x
<1>5. Device'
  BY <1>1, <1>3, <1>4, OneChannel DEF Naming, Within
<1> QED
  BY <1>1, <1>3, <1>4, <1>5 DEF Naming, Within

(* The name of a file is complete (FinaliseOpenState()).                     *)
LEMMA NamesFile ==
  ASSUME Device, Trimmed, NEW c \in Channels, c # 15, NEW n \in Names \cup {"$", "S"},
         Naming(c, <<n>>), FinaliseOpenState
  PROVE  /\ Device' /\ Idle' /\ UNCHANGED <<card, errorMessage>>
         /\ ~channels'[c].open /\ channels'[c].data = <<>> /\ channels'[c].command = <<n>>
<1> DEFINE x == [channels[c] EXCEPT !.buffer = <<>>, !.sent = 0, !.command = <<n>>]
<1>1. /\ channels[c] \in Channel /\ channels \in [Channels -> Channel]
      /\ ~channels[c].open /\ ~channels[c].writing /\ channels[c].buffer = <<n>>
      /\ channels[c].data = <<>> /\ secondaryAddress = c
      /\ errorMessage \in Errors /\ card \in [Names -> Seq(Data) \cup {None}]
  BY DEF Device, DeviceTyped, Writers, Naming
<1>2. <<n>> \in Seq(Names \cup {"$", "S"}) /\ <<>> \in Seq(Data \cup Names \cup Tokens)
  BY ShortSeq, EmptySeq, Zenon
<1>3. /\ x \in Channel /\ ~x.open /\ ~x.writing /\ x.data = <<>> /\ x.command = <<n>>
  BY <1>1, <1>2, Zenon DEF Channel
<1>4. /\ channels' = [channels EXCEPT ![c] = x] /\ tcbmState' = "IDLE" /\ expects' = None
      /\ UNCHANGED <<secondaryAddress, errorMessage, card>>
  BY <1>1 DEF FinaliseOpenState, Naming, Within
<1> HIDE DEF x
<1>5. Device'
  BY <1>1, <1>3, <1>4, OneChannel DEF Naming, Within
<1> QED
  BY <1>1, <1>3, <1>4, <1>5 DEF Idle, Within

(* A command is complete, and carried out (ProcessCommand()).                *)
LEMMA NamesCommand ==
  ASSUME Device, Trimmed, NEW n \in Names, Naming(15, <<"S", n>>), FinaliseOpenState
  PROVE  Device' /\ Idle'
<1> DEFINE x == [channels[15] EXCEPT !.buffer = <<>>, !.sent = 0, !.command = <<>>]
<1>1. /\ channels[15] \in Channel /\ channels \in [Channels -> Channel] /\ 15 \in Channels
      /\ ~channels[15].open /\ ~channels[15].writing /\ channels[15].buffer = <<"S", n>>
      /\ secondaryAddress = 15
      /\ errorMessage \in Errors /\ card \in [Names -> Seq(Data) \cup {None}]
  BY DEF Device, DeviceTyped, Writers, Naming, Channels
<1>2. <<>> \in Seq(Names \cup {"$", "S"}) /\ <<>> \in Seq(Data \cup Names \cup Tokens)
  BY EmptySeq
<1>3. x \in Channel /\ ~x.open /\ ~x.writing
  BY <1>1, <1>2, Zenon DEF Channel
<1>4. /\ channels' = [channels EXCEPT ![15] = x] /\ tcbmState' = "IDLE" /\ expects' = None
      /\ secondaryAddress' = secondaryAddress /\ errorMessage' = "01"
      /\ card' = [card EXCEPT ![n] = None]
  <2>1. /\ channels' = [channels EXCEPT ![15].buffer = <<>>, ![15].sent = 0,
                                        ![15].command = <<>>]
        /\ ProcessCommand(channels[15].buffer) /\ tcbmState' = "IDLE"
        /\ UNCHANGED <<expects, secondaryAddress>>
    BY <1>1, Zenon DEF FinaliseOpenState
  <2>2. channels' = [channels EXCEPT ![15] = x]
    BY <1>1, <2>1
  <2>3. errorMessage' = "01" /\ card' = [card EXCEPT ![<<"S", n>>[2]] = None]
    BY <1>1, <2>1, Zenon DEF ProcessCommand
  <2>4. <<"S", n>>[2] = n
    OBVIOUS
  <2>5. expects = None
    BY DEF Naming, Within
  <2> QED
    BY <2>1, <2>2, <2>3, <2>4, <2>5, Zenon
<1> HIDE DEF x
<1>5. errorMessage' \in Errors
  BY <1>4 DEF Errors
<1>6. card' \in [Names -> Seq(Data) \cup {None}]
  BY <1>1, <1>4
<1>7. tcbmState = "OPEN"
  BY DEF Naming, Within
<1>8. Device'
  BY <1>1, <1>3, <1>4, <1>5, <1>6, <1>7, OneChannel
<1> QED
  BY <1>4, <1>8 DEF Idle, Within

(* A byte of a file is sent, and the file closed with its last (LoadByte).   *)
LEMMA LoadsByte ==
  ASSUME Device, Trimmed, NEW c \in Channels, c # 1, secondaryAddress = c,
         Within("LOAD", None), LoadByte
  PROVE  LET ch   == channels[c]
             last == Len(ch.data) = 1
         IN /\ Device' /\ UNCHANGED <<card, errorMessage, secondaryAddress>>
            /\ ch.open /\ ch.data # <<>>
            /\ Reply(Head(ch.data), IF last THEN STATUS_EOI ELSE STATUS_OK)
            /\ last => Idle'
            /\ ~last => /\ Within("LOAD", None)' /\ channels'[c].open
                        /\ channels'[c].data = Tail(ch.data)
<1> DEFINE ch == channels[c]
           x  == [ch EXCEPT !.data = Tail(@)]
           y  == Cut(Close(ch))
<1>1. /\ ch \in Channel /\ ~ch.writing /\ channels \in [Channels -> Channel]
      /\ errorMessage \in Errors /\ card \in [Names -> Seq(Data) \cup {None}]
      /\ ch.open => c \in stale \/ c = secondaryAddress
  BY DEF Device, DeviceTyped, Writers
<1>2. y \in Channel /\ ~y.open /\ ~y.writing
  BY ClosedWell
<1>3. CardAfterClose(ch) = card
  BY ClosedWell
<1> HIDE DEF ch
<1>4. /\ ch.open /\ ch.data # <<>>
      /\ Reply(Head(ch.data), IF Len(ch.data) = 1 THEN STATUS_EOI ELSE STATUS_OK)
      /\ UNCHANGED <<secondaryAddress, errorMessage>>
  BY DEF LoadByte, ch
<1>5. CASE Len(ch.data) = 1
  <2>1. /\ channels' = [channels EXCEPT ![c] = y] /\ card' = card
        /\ tcbmState' = "IDLE" /\ expects' = None
    BY <1>3, <1>5 DEF LoadByte, ReleaseTransferChannel, Passive, ch
  <2> HIDE DEF y
  <2>2. Device'
    BY <1>1, <1>2, <1>4, <2>1, OneChannel
  <2> QED
    BY <1>4, <1>5, <2>1, <2>2 DEF ch, Idle, Within
<1>6. CASE Len(ch.data) # 1
  <2>1. Tail(ch.data) \in Seq(Data)
    BY <1>1, <1>4, HeadTailProperties DEF Channel
  <2>2. x \in Channel /\ x.open /\ ~x.writing /\ x.data = Tail(ch.data)
    BY <1>1, <1>4, <2>1, Zenon DEF Channel
  <2>3. /\ channels' = [channels EXCEPT ![c] = x] /\ card' = card
        /\ UNCHANGED <<tcbmState, expects>>
    BY <1>1, <1>6 DEF LoadByte, ch
  <2> HIDE DEF x
  <2>4. Device'
    BY <1>1, <1>4, <2>2, <2>3, OneChannel DEF Within
  <2> QED
    BY <1>1, <1>4, <1>6, <2>2, <2>3, <2>4 DEF ch, Within
<1> QED
  BY <1>5, <1>6

(* A read fails, and is over (LoadFails).                                    *)
LEMMA FailsLoad ==
  ASSUME Device, Trimmed, NEW c \in Channels, c # 1, secondaryAddress = c,
         Within("LOAD", None), LoadFails
  PROVE  /\ Device' /\ Idle' /\ UNCHANGED card
         /\ \/ ~channels[c].open /\ Reply("CR", STATUS_SEND) /\ UNCHANGED errorMessage
            \/ channels[c].open /\ channels[c].data = <<>> /\ Reply("CR", STATUS_EOI)
            \/ channels[c].open /\ Reply("CR", STATUS_SEND) /\ errorMessage' = "74"
<1> DEFINE x == Close(channels[c])
<1>1. /\ channels \in [Channels -> Channel] /\ ~channels[c].writing
      /\ errorMessage \in Errors /\ card \in [Names -> Seq(Data) \cup {None}]
  BY DEF Device, DeviceTyped, Writers
<1>2. x \in Channel /\ ~x.open /\ ~x.writing
  BY ClosedWell
<1>3. UNCHANGED <<card, secondaryAddress>> /\ tcbmState' = "IDLE" /\ expects' = None
  BY DEF LoadFails, Passive
<1>4. errorMessage' = errorMessage \/ errorMessage' = "74"
  BY DEF LoadFails
<1>5. errorMessage' \in Errors
  BY <1>1, <1>4 DEF Errors
<1>6. card' \in [Names -> Seq(Data) \cup {None}] /\ secondaryAddress' \in Channels
  BY <1>1, <1>3
<1>7. ASSUME ~channels[c].open, UNCHANGED channels
      PROVE  Device'
  <2>1. ~channels[secondaryAddress].open
    BY <1>7
  <2> QED
    BY <1>3, <1>5, <1>6, <1>7, <2>1, NoChannel
<1>8. ASSUME channels' = [channels EXCEPT ![c] = x]
      PROVE  Device'
  <2> HIDE DEF x
  <2> QED
    BY <1>2, <1>5, <1>6, <1>8, OneChannel
<1>9. /\ \/ ~channels[c].open /\ UNCHANGED channels
         \/ channels' = [channels EXCEPT ![c] = x]
      /\ \/ ~channels[c].open /\ Reply("CR", STATUS_SEND) /\ UNCHANGED errorMessage
         \/ channels[c].open /\ channels[c].data = <<>> /\ Reply("CR", STATUS_EOI)
         \/ channels[c].open /\ Reply("CR", STATUS_SEND) /\ errorMessage' = "74"
  BY DEF LoadFails
<1>10. Device'
  BY <1>7, <1>8, <1>9
<1> QED
  BY <1>3, <1>9, <1>10 DEF Idle, Within

(* A line of a listing is sent (DirectoryByte).                              *)
LEMMA ListsByte ==
  ASSUME Device, Trimmed, NEW c \in Channels, c # 1, secondaryAddress = c,
         Within("DIR", None), DirectoryByte
  PROVE  LET ch   == channels[c]
             last == ch.sent + 1 >= Len(ch.buffer)
         IN /\ Device' /\ UNCHANGED <<card, errorMessage, secondaryAddress>>
            /\ Reply(IF ch.sent < Len(ch.buffer) THEN ch.buffer[ch.sent + 1] ELSE "CR",
                     IF last THEN STATUS_EOI ELSE STATUS_OK)
            /\ last => Idle'
            /\ ~last => /\ Within("DIR", None)' /\ channels'[c].buffer = ch.buffer
                        /\ channels'[c].sent = ch.sent + 1
<1> DEFINE ch   == channels[c]
           last == ch.sent + 1 >= Len(ch.buffer)
           x    == [ch EXCEPT !.sent = @ + 1]
           y    == Cut(Close(ch))
<1>1. /\ ch \in Channel /\ ~ch.writing /\ channels \in [Channels -> Channel]
      /\ errorMessage \in Errors /\ card \in [Names -> Seq(Data) \cup {None}]
      /\ ch.open => c \in stale
  BY DEF Device, DeviceTyped, Writers, Owned, Within
<1>2. y \in Channel /\ ~y.open /\ ~y.writing
  BY ClosedWell
<1>3. CardAfterClose(ch) = card
  BY ClosedWell
<1>4. /\ Reply(IF ch.sent < Len(ch.buffer) THEN ch.buffer[ch.sent + 1] ELSE "CR",
               IF last THEN STATUS_EOI ELSE STATUS_OK)
      /\ UNCHANGED <<secondaryAddress, errorMessage>>
  BY DEF DirectoryByte
<1>5. IF last THEN Passive /\ ReleaseTransferChannel(c)
      ELSE /\ channels' = [channels EXCEPT ![c].sent = @ + 1]
           /\ UNCHANGED <<tcbmState, expects, card>>
  BY DEF DirectoryByte
<1> HIDE DEF last
<1>6. CASE last
  <2>1. /\ channels' = [channels EXCEPT ![c] = y] /\ card' = card
        /\ tcbmState' = "IDLE" /\ expects' = None
    BY <1>3, <1>5, <1>6 DEF ReleaseTransferChannel, Passive
  <2> HIDE DEF y, ch
  <2>2. Device'
    BY <1>1, <1>2, <1>4, <2>1, OneChannel DEF Within
  <2>3. Idle'
    BY <2>1 DEF Idle, Within
  <2> QED
    BY <1>4, <1>6, <2>1, <2>2, <2>3, Zenon DEF last, ch
<1>7. CASE ~last
  <2>0. ch.sent + 1 \in Nat
    BY <1>1 DEF Channel
  <2>1. x \in Channel /\ (x.open => c \in stale) /\ ~x.writing /\ x.sent = ch.sent + 1
          /\ x.buffer = ch.buffer
    <3> HIDE DEF ch
    <3> QED
      BY <1>1, <2>0, Zenon DEF Channel
  <2>2. /\ channels' = [channels EXCEPT ![c] = x] /\ card' = card
        /\ UNCHANGED <<tcbmState, expects>>
    BY <1>1, <1>5, <1>7
  <2> HIDE DEF x, ch
  <2>3. Device'
    BY <1>1, <1>4, <2>1, <2>2, OneChannel DEF Within
  <2>4. channels'[c] = x /\ Within("DIR", None)'
    BY <1>1, <2>2 DEF Within
  <2> QED
    BY <1>4, <1>7, <2>1, <2>2, <2>3, <2>4, Zenon DEF last, ch
<1> QED
  BY <1>6, <1>7

(* A read is cut short by a bus command (HandleTransferBusCommand).          *)
LEMMA CutsShort ==
  ASSUME Device, Trimmed, NEW c \in Channels, c # 1, secondaryAddress = c,
         tcbmState \in {"LOAD", "DIR"}, HandleTransferBusCommand
  PROVE  /\ Device' /\ UNCHANGED <<secondaryAddress, card, errorMessage>>
         /\ ~channels'[c].open
         /\ Byte \in {"LISTEN", "TALK"} => expects' = Byte /\ tcbmState' = tcbmState
         /\ Byte \notin {"LISTEN", "TALK"} => Idle'
<1> DEFINE x == Cut(Close(channels[c]))
<1>1. /\ channels \in [Channels -> Channel]
      /\ errorMessage \in Errors /\ card \in [Names -> Seq(Data) \cup {None}]
  BY DEF Device, DeviceTyped
<1>2. x \in Channel /\ ~x.open /\ ~x.writing
  BY ClosedWell
<1>3. /\ channels' = [channels EXCEPT ![c] = x]
      /\ UNCHANGED <<secondaryAddress, errorMessage>> /\ card' = card
  BY ClosedWell DEF HandleTransferBusCommand, ReleaseTransferChannel
<1>4. /\ Byte \in {"LISTEN", "TALK"} => expects' = Byte /\ tcbmState' = tcbmState
      /\ Byte \notin {"LISTEN", "TALK"} => tcbmState' = "IDLE" /\ expects' = None
  BY DEF HandleTransferBusCommand, Passive
<1> HIDE DEF x
<1>5. Device'
  BY <1>1, <1>2, <1>3, OneChannel
<1>6. ~channels'[c].open
  BY <1>1, <1>2, <1>3
<1> QED
  BY <1>3, <1>4, <1>5, <1>6 DEF Idle, Within

(* A byte of a file is taken (SaveByte).                                     *)
LEMMA SavesByte ==
  ASSUME Device, Trimmed, secondaryAddress = 1, Within("SAVE", None), SaveByte,
         channels[1].writing, NEW b \in Data, Byte = b
  PROVE  /\ Device' /\ Within("SAVE", None)'
         /\ UNCHANGED <<secondaryAddress, card, errorMessage>>
         /\ channels'[1].open /\ channels'[1].writing /\ channels'[1].file = channels[1].file
         /\ channels'[1].data \o channels'[1].buffer
              = Append(channels[1].data \o channels[1].buffer, b)
<1> DEFINE ch == channels[1]
           y  == [ch EXCEPT !.buffer = Append(@, b)]
           x  == IF Len(y.buffer) = BufferSize THEN Write(y) ELSE y
<1>1. /\ ch \in Channel /\ channels \in [Channels -> Channel] /\ 1 \in Channels
      /\ errorMessage \in Errors /\ card \in [Names -> Seq(Data) \cup {None}]
      /\ ch.file \in Names /\ ch.buffer \in Seq(Data) /\ ch.data \in Seq(Data)
  BY DEF Device, DeviceTyped, Writers, Channels, Channel
<1>2. /\ ch.open /\ channels' = [channels EXCEPT ![1] = x]
      /\ UNCHANGED <<tcbmState, expects, secondaryAddress, errorMessage, card>>
  BY DEF SaveByte
<1> HIDE DEF ch
<1>3. /\ y.buffer = Append(ch.buffer, b) /\ y.data = ch.data /\ y.open /\ y.file = ch.file
      /\ y.writing = ch.writing
  BY <1>1, <1>2, Zenon DEF Channel
<1>4. /\ Append(ch.buffer, b) \in Seq(Data) /\ ch.data \o Append(ch.buffer, b) \in Seq(Data)
      /\ ch.data \o Append(ch.buffer, b) = Append(ch.data \o ch.buffer, b)
  <2>1. Append(ch.buffer, b) \in Seq(Data)
    BY <1>1, AppendProperties
  <2>2. ch.data \o Append(ch.buffer, b) \in Seq(Data)
    BY <1>1, <2>1, ConcatProperties
  <2>3. ASSUME NEW p \in Seq(Data), NEW q \in Seq(Data)
        PROVE  p \o Append(q, b) = Append(p \o q, b)
    BY AppendLater
  <2>4. ch.data \o Append(ch.buffer, b) = Append(ch.data \o ch.buffer, b)
    BY <1>1, <2>3, Zenon
  <2> QED
    BY <2>1, <2>2, <2>4
<1>5. y \in Channel
  <2>1. Append(ch.buffer, b) \in Seq(Data \cup Names \cup Tokens)
    BY <1>4, SeqMonotonic
  <2> QED
    BY <1>1, <2>1, Zenon DEF Channel
<1> HIDE DEF y
<1>6. /\ x \in Channel /\ x.open /\ x.writing = y.writing /\ x.file = y.file
      /\ x.buffer \in Seq(Data) /\ x.data \o x.buffer = Append(ch.data \o ch.buffer, b)
  <2>1. CASE Len(y.buffer) = BufferSize
    <3>1. x = [y EXCEPT !.data = y.data \o y.buffer, !.buffer = <<>>]
      BY <1>5, <2>1 DEF Write, Channel
    <3>2. <<>> \in Seq(Data) /\ <<>> \in Seq(Data \cup Names \cup Tokens)
      BY EmptySeq
    <3>3. y.data \o y.buffer = Append(ch.data \o ch.buffer, b) /\ y.data \o y.buffer \in Seq(Data)
      BY <1>3, <1>4
    <3>4. [y EXCEPT !.data = y.data \o y.buffer, !.buffer = <<>>] \in Channel
      BY <1>5, <3>2, <3>3, Zenon DEF Channel
    <3>5. /\ x.data = y.data \o y.buffer /\ x.buffer = <<>> /\ x.open = y.open
          /\ x.writing = y.writing /\ x.file = y.file
      BY <1>5, <3>1, Zenon DEF Channel
    <3>6. x.data \o x.buffer = x.data
      BY <3>3, <3>5, ConcatEmptySeq
    <3> HIDE DEF x
    <3> QED
      BY <1>3, <3>1, <3>2, <3>3, <3>4, <3>5, <3>6, Zenon
  <2>2. CASE Len(y.buffer) # BufferSize
    <3>1. x = y
      BY <2>2
    <3> HIDE DEF x
    <3> QED
      BY <1>3, <1>4, <1>5, <3>1, Zenon
  <2> QED
    BY <2>1, <2>2
<1> HIDE DEF x
<1>7. Device'
  BY <1>1, <1>2, <1>3, <1>6, OneChannel DEF Within
<1>8. channels'[1] = x /\ Within("SAVE", None)'
  BY <1>1, <1>2 DEF Within
<1> QED
  BY <1>2, <1>3, <1>6, <1>7, <1>8 DEF ch

(* The file is closed on UNLISTEN, and then on the card (SaveCommand).       *)
LEMMA SavesLast ==
  ASSUME Device, Trimmed, secondaryAddress = 1, Within("SAVE", None), SaveCommand,
         Byte = "UNLISTEN"
  PROVE  /\ Device' /\ Idle' /\ errorMessage' = errorMessage /\ ~channels'[1].open
         /\ channels[1].open /\ channels[1].writing /\ card[channels[1].file] # None
              => card'[channels[1].file] = channels[1].data \o channels[1].buffer
<1> DEFINE x == Close(channels[1])
<1>1. /\ channels[1] \in Channel /\ channels \in [Channels -> Channel] /\ 1 \in Channels
      /\ errorMessage \in Errors /\ card \in [Names -> Seq(Data) \cup {None}]
  BY DEF Device, DeviceTyped, Channels
<1>2. /\ x \in Channel /\ ~x.open /\ ~x.writing
      /\ CardAfterClose(channels[1]) \in [Names -> Seq(Data) \cup {None}]
  BY <1>1, ClosedWell
<1>3. /\ channels' = [channels EXCEPT ![1] = x] /\ card' = CardAfterClose(channels[1])
      /\ tcbmState' = "IDLE" /\ expects' = None
      /\ UNCHANGED <<secondaryAddress, errorMessage>>
  BY DEF SaveCommand, Within
<1> HIDE DEF x
<1>4. Device'
  BY <1>1, <1>2, <1>3, OneChannel
<1>5. ASSUME channels[1].open, channels[1].writing, card[channels[1].file] # None
      PROVE  card'[channels[1].file] = channels[1].data \o channels[1].buffer
  <2>1. Write(channels[1]).data = channels[1].data \o channels[1].buffer
    BY <1>1 DEF Write, Channel
  <2>2. channels[1].file \in Names
    BY <1>1, <1>5 DEF Device, Writers
  <2>3. card' = [card EXCEPT ![channels[1].file] = Write(channels[1]).data]
    BY <1>3, <1>5 DEF CardAfterClose
  <2> QED
    BY <1>1, <2>1, <2>2, <2>3
<1> QED
  BY <1>1, <1>2, <1>3, <1>4, <1>5 DEF Idle, Within

(* The device starts afresh, whatever it was about (ResetStateMachine()).    *)
LEMMA StartsAfresh ==
  ASSUME Device, ResetStateMachine, UNCHANGED <<errorMessage, card>>,
         \/ /\ Trimmed
            /\ tcbmState \in {"LOAD", "SAVE"} /\ channels[secondaryAddress].open =>
                 secondaryAddress \in stale
         \/ stale' = {c \in Channels : channels[c].open}
  PROVE  /\ Device' /\ Idle' /\ \A c \in Channels : channels'[c].open = channels[c].open
<1>1. /\ channels \in [Channels -> Channel] /\ errorMessage \in Errors
      /\ card \in [Names -> Seq(Data) \cup {None}] /\ stale \subseteq Channels
  BY DEF Device, DeviceTyped
<1>2. <<>> \in Seq(Names \cup {"$", "S"}) /\ <<>> \in Seq(Data \cup Names \cup Tokens)
        /\ <<>> \in Seq(Data)
  BY EmptySeq
<1>3. ASSUME NEW c \in Channels
      PROVE  /\ channels'[c] \in Channel /\ channels'[c].open = channels[c].open
             /\ channels'[c].writing => /\ c = 1 /\ channels'[c].open
                                        /\ channels'[c].file \in Names
                                        /\ channels'[c].buffer \in Seq(Data)
  <2>1. CASE channels[c].writing
    <3>1. channels'[c] = Cut(channels[c]) /\ channels[c] \in Channel
      BY <1>1, <2>1 DEF ResetStateMachine
    <3>2. Cut(channels[c]) \in Channel
      BY ClosedWell
    <3>3. /\ channels'[c].open = channels[c].open /\ channels'[c].file = channels[c].file
          /\ channels'[c].buffer = channels[c].buffer
      BY <3>1, Zenon DEF Cut, Channel
    <3> QED
      BY <2>1, <3>1, <3>2, <3>3 DEF Device, Writers
  <2>2. CASE ~channels[c].writing
    <3>1. channels'[c] = [ClosedChannel EXCEPT !.open = channels[c].open]
            /\ channels[c] \in Channel
      BY <1>1, <2>2 DEF ResetStateMachine
    <3>2. channels[c].open \in BOOLEAN
      BY <3>1 DEF Channel
    <3>3. ClosedChannel \in Channel
      BY <1>2, Zenon DEF ClosedChannel, Channel
    <3>4. channels'[c] \in Channel
      BY <3>1, <3>2, <3>3, Zenon DEF Channel
    <3>5. channels'[c].open = channels[c].open /\ channels'[c].writing = FALSE
      BY <3>1 DEF ClosedChannel
    <3> QED
      BY <3>4, <3>5
  <2> QED
    BY <2>1, <2>2
<1>4. /\ secondaryAddress' = 0 /\ 0 \in Channels /\ tcbmState' = "IDLE" /\ expects' = None
      /\ DOMAIN channels' = Channels /\ channels' = [c \in Channels |-> channels'[c]]
  BY DEF ResetStateMachine, Channels
<1>5. stale' \subseteq Channels
  BY <1>1 DEF Trimmed
<1>6. DeviceTyped'
  BY <1>1, <1>3, <1>4, <1>5 DEF DeviceTyped
<1>7. Writers'
  BY <1>3 DEF Writers
<1>8. Owned'
  BY <1>1, <1>3 DEF Device, Owned, Trimmed
<1> QED
  BY <1>3, <1>4, <1>6, <1>7, <1>8 DEF Device, Idle, Within

-----------------------------------------------------------------------------
(* What the device does with the exchange at hand. *)

(* The host is at exchange e, the i-th of script s, which is no read.        *)
Offering(s, i, e) ==
  /\ s \in Seq(Steps) /\ At(s, i) /\ i # Len(s) + 1 /\ s[i] = e /\ e # Send

(* The exchange at hand is the one of the script.                            *)
LEMMA Offered ==
  ASSUME NEW s, NEW i, NEW e, Offering(s, i, e)
  PROVE  Head(todo) = e /\ Byte = e.byte /\ i + 1 \in 1 .. Len(s) + 1 /\ ~Done
  BY Position, Zenon DEF Offering, Byte

(* Once it is served the host is at the next one, and nothing else has       *)
(* changed for it.                                                           *)
LEMMA Advances ==
  ASSUME HostTyped, NEW s, NEW i, NEW e, Offering(s, i, e), Served
  PROVE  Moved(s, i + 1) /\ HostTyped'
<1>1. Moved(s, i + 1)
  BY ServedMoves, Zenon DEF Offering
<1> QED
  BY <1>1, MovedTyped

(* An idle device notes LISTEN and TALK, and discards the rest               *)
(* (HandleIdleCommand, DiscardIdleByte).                                     *)
LEMMA IdleServes ==
  ASSUME HostTyped, Device, Idle, Serve, NEW s, NEW i, NEW e, Offering(s, i, e)
  PROVE  /\ Moved(s, i + 1) /\ HostTyped' /\ Device'
         /\ UNCHANGED <<secondaryAddress, channels, errorMessage, card>>
         /\ \A b : e = Command(b) =>
              Within("IDLE", IF b \in {"LISTEN", "TALK"} THEN b ELSE None)'
         /\ \A n : e = Recv(n) => Idle'
<1>1. Head(todo) = e /\ Byte = e.byte
  BY Offered
<1>2. HandleIdleCommand \/ DiscardIdleByte \/ DropIdleSend
  BY ServerAssumption DEF Serve, Idle, Within, HandleListenSecondary, HandleTalkSecondary,
     AppendCommandByte, FinaliseOpenState, LoadByte, LoadFails, DirectoryByte,
     HandleTransferBusCommand, SaveByte, RejectByte, SaveCommand, DropSaveSecond, GiveUp,
     TimeOut
<1>3. e \in Steps /\ e # Send
  <2>1. i \in 1 .. Len(s) /\ s \in Seq(Steps)
    BY LenProperties DEF Offering, At
  <2> QED
    BY <2>1, ElementOfSeq DEF Offering
<1>4. e.code # CODE_SEND
  BY <1>3 DEF Steps, CODE_COMMAND, CODE_SECOND, CODE_RECV, CODE_SEND
<1>5. ~DropIdleSend
  BY <1>1, <1>4 DEF DropIdleSend, Offers
<1>6. /\ Served /\ UNCHANGED <<tcbmState, secondaryAddress, channels, errorMessage, card>>
  BY <1>2, <1>5 DEF HandleIdleCommand, DiscardIdleByte
<1>7. Trimmed
  BY DEF Serve, Trimmed
<1>8. Device'
  BY <1>6, <1>7, NoChannel DEF Device, DeviceTyped
<1>9. Moved(s, i + 1) /\ HostTyped'
  BY <1>6, Advances
<1>10. ASSUME NEW b, e = Command(b)
       PROVE  Within("IDLE", IF b \in {"LISTEN", "TALK"} THEN b ELSE None)'
  <2>1. e.code = CODE_COMMAND /\ e.byte = b
    BY <1>10, CodesAre
  <2>2. ~DiscardIdleByte
    BY <1>1, <2>1 DEF DiscardIdleByte, Offers, CODE_COMMAND, CODE_SECOND, CODE_RECV
  <2>3. expects' = IF b \in {"LISTEN", "TALK"} THEN b ELSE None
    BY <1>1, <1>2, <1>5, <2>1, <2>2 DEF HandleIdleCommand
  <2> QED
    BY <1>6, <2>3 DEF Within, Idle
<1>11. ASSUME NEW n, e = Recv(n) PROVE Idle'
  <2>1. e.code = CODE_RECV
    BY <1>11, CodesAre
  <2>2. ~HandleIdleCommand
    BY <1>1, <2>1 DEF HandleIdleCommand, Offers, CODE_COMMAND, CODE_RECV
  <2>3. expects' = expects
    BY <1>2, <1>5, <2>2 DEF DiscardIdleByte
  <2> QED
    BY <1>6, <2>3 DEF Within, Idle
<1> QED
  BY <1>6, <1>8, <1>9, <1>10, <1>11

(* An idle device leaves a read unanswered (DropIdleSend).                   *)
LEMMA IdleDrops ==
  ASSUME HostTyped, Device, Idle, Serve, Head(todo) = Send
  PROVE  /\ Idle' /\ Device' /\ owed = None /\ owed' = CODE_SEND /\ pause # "on"
         /\ UNCHANGED <<host, secondaryAddress, channels, errorMessage, card>>
<1>1. HandleIdleCommand \/ DiscardIdleByte \/ DropIdleSend
  BY ServerAssumption DEF Serve, Idle, Within, HandleListenSecondary, HandleTalkSecondary,
     AppendCommandByte, FinaliseOpenState, LoadByte, LoadFails, DirectoryByte,
     HandleTransferBusCommand, SaveByte, RejectByte, SaveCommand, DropSaveSecond, GiveUp,
     TimeOut
<1>2. Head(todo).code = CODE_SEND
  BY CodesAre
<1>3. DropIdleSend
  BY <1>1, <1>2 DEF HandleIdleCommand, DiscardIdleByte, Offers, CODE_COMMAND, CODE_SECOND,
     CODE_RECV, CODE_SEND
<1>4. /\ UNCHANGED <<tcbmState, expects, secondaryAddress, channels, errorMessage, card>>
      /\ owed' = CODE_SEND /\ UNCHANGED host /\ owed = None /\ pause # "on"
  BY <1>2, <1>3 DEF DropIdleSend, Dropped, Offers
<1>5. Trimmed
  BY DEF Serve, Trimmed
<1>6. Device'
  BY <1>4, <1>5, NoChannel DEF Device, DeviceTyped
<1> QED
  BY <1>4, <1>6 DEF Idle, Within

(* Nothing is served without an exchange by an idle device.                  *)
LEMMA IdleWaits ==
  ASSUME Idle, Serve
  PROVE  ~Done /\ pause # "on" /\ owed = None
  BY ServerAssumption DEF Serve, Idle, Within, HandleListenSecondary, HandleTalkSecondary,
     AppendCommandByte, FinaliseOpenState, LoadByte, LoadFails, DirectoryByte,
     HandleTransferBusCommand, SaveByte, RejectByte, SaveCommand, DropSaveSecond, GiveUp,
     TimeOut, HandleIdleCommand, DiscardIdleByte, DropIdleSend, Offers

(* A device that was called hears the secondary address.                     *)
LEMMA CalledHears ==
  ASSUME Serve, expects = "LISTEN", tcbmState \in {"IDLE", "LOAD", "DIR"}
  PROVE  HandleListenSecondary
  BY ServerAssumption DEF Serve, HandleIdleCommand, DiscardIdleByte, DropIdleSend,
     HandleTalkSecondary, AppendCommandByte, FinaliseOpenState, LoadByte, LoadFails,
     DirectoryByte, HandleTransferBusCommand, SaveByte, RejectByte, SaveCommand,
     DropSaveSecond, GiveUp, TimeOut

(* A device that is to talk hears the secondary address.                     *)
LEMMA TalkHears ==
  ASSUME Serve, Within("IDLE", "TALK")
  PROVE  HandleTalkSecondary
  BY ServerAssumption DEF Serve, Within, HandleIdleCommand, DiscardIdleByte, DropIdleSend,
     HandleListenSecondary, AppendCommandByte, FinaliseOpenState, LoadByte, LoadFails,
     DirectoryByte, HandleTransferBusCommand, SaveByte, RejectByte, SaveCommand,
     DropSaveSecond, GiveUp, TimeOut

(* The secondary address of OPEN, and of a PRINT# to the command channel.    *)
LEMMA CalledOpens ==
  ASSUME HostTyped, Device, Called, Serve, NEW s, NEW i, NEW e, Offering(s, i, e),
         NEW c \in Channels,
         e = Second("OPEN", c) \/ (c = 15 /\ e = Second("SECOND", 15))
  PROVE  /\ Moved(s, i + 1) /\ HostTyped' /\ Device' /\ Naming(c, <<>>)'
         /\ errorMessage' = errorMessage /\ (c # 1 => card' = card)
<1>1. HandleListenSecondary
  BY CalledHears DEF Called, Within
<1>2. Byte = e.byte
  BY Offered
<1>3. e.byte.channel = c /\ (e.byte.kind = "OPEN" \/ (e.byte.kind = "SECOND" /\ c = 15))
  BY CodesAre
<1>4. /\ secondaryAddress' = c /\ expects' = None /\ Served /\ EnterOpenState(c)
  <2>1. CASE Byte.kind = "OPEN"
    BY <1>1, <1>2, <1>3, <2>1 DEF HandleListenSecondary
  <2>2. CASE Byte.kind = "SECOND" /\ c = 15
    BY <1>1, <1>2, <1>3, <2>2 DEF HandleListenSecondary
  <2> QED
    BY <1>2, <1>3, <2>1, <2>2
<1>5. Trimmed /\ tcbmState = "IDLE"
  BY DEF Serve, Trimmed, Called, Within
<1>6. Moved(s, i + 1) /\ HostTyped'
  BY <1>4, Advances
<1> QED
  BY <1>4, <1>5, <1>6, EntersOpen

(* The secondary address of CLOSE.                                           *)
LEMMA CalledCloses ==
  ASSUME HostTyped, Device, Serve, NEW s, NEW i, NEW c \in Channels,
         Offering(s, i, Second("CLOSE", c)),
         expects = "LISTEN", tcbmState \in {"IDLE", "LOAD", "DIR"},
         tcbmState # "IDLE" => secondaryAddress = c
  PROVE  /\ Moved(s, i + 1) /\ HostTyped' /\ Device' /\ Idle' /\ ~channels'[c].open
         /\ errorMessage' = errorMessage /\ (c # 1 \/ ~channels[c].open => card' = card)
<1>1. HandleListenSecondary
  BY CalledHears
<1>2. Byte.channel = c /\ Byte.kind = "CLOSE"
  BY Offered, CodesAre
<1>3. /\ secondaryAddress' = c /\ expects' = None /\ Served /\ CloseFile(c)
  BY <1>1, <1>2 DEF HandleListenSecondary
<1>4. Trimmed
  BY DEF Serve, Trimmed
<1>5. Moved(s, i + 1) /\ HostTyped'
  BY <1>3, Advances
<1> QED
  BY <1>3, <1>4, <1>5, ClosesFile

(* The secondary address of SAVE.                                            *)
LEMMA CalledSaves ==
  ASSUME HostTyped, Device, Called, Serve, NEW s, NEW i,
         Offering(s, i, Second("SECOND", 1)), ~channels[1].open, channels[1].data = <<>>
  PROVE  /\ Moved(s, i + 1) /\ HostTyped' /\ Device' /\ Within("SAVE", None)'
         /\ secondaryAddress' = 1
         /\ \/ /\ channels'[1].open /\ channels'[1].writing
               /\ card'[channels'[1].file] # None
               /\ channels'[1].data = <<>> /\ channels'[1].buffer = <<>>
            \/ ~channels'[1].open /\ Failed'
<1>1. HandleListenSecondary
  BY CalledHears DEF Called, Within
<1>2. Byte.channel = 1 /\ Byte.kind = "SECOND"
  BY Offered, CodesAre
<1>3. /\ secondaryAddress' = 1 /\ expects' = None /\ Served /\ PrepareSaveChannel(1)
  BY <1>1, <1>2 DEF HandleListenSecondary
<1>4. Trimmed /\ tcbmState = "IDLE"
  BY DEF Serve, Trimmed, Called, Within
<1>5. Moved(s, i + 1) /\ HostTyped'
  BY <1>3, Advances
<1> QED
  BY <1>3, <1>4, <1>5, PreparesSave

(* The secondary address of DS$.                                             *)
LEMMA TalkAnswers ==
  ASSUME HostTyped, Device, Within("IDLE", "TALK"), Serve, NEW s, NEW i,
         Offering(s, i, Second("SECOND", 15))
  PROVE  /\ Moved(s, i + 1) /\ HostTyped' /\ Device' /\ Within("DIR", None)'
         /\ UNCHANGED <<card, errorMessage>> /\ secondaryAddress' = 15
         /\ channels'[15].buffer = <<errorMessage>> /\ channels'[15].sent = 0
<1>1. HandleTalkSecondary
  BY TalkHears
<1>2. Byte.channel = 15
  BY Offered, CodesAre
<1>3. /\ secondaryAddress' = 15 /\ expects' = None /\ Served /\ PrepareStatusResponse
  BY <1>1, <1>2 DEF HandleTalkSecondary
<1>4. Trimmed /\ tcbmState = "IDLE"
  BY DEF Serve, Trimmed, Within
<1>5. Moved(s, i + 1) /\ HostTyped'
  BY <1>3, Advances
<1> QED
  BY <1>3, <1>4, <1>5, PreparesStatus

(* The secondary address of a listing.                                       *)
LEMMA TalkLists ==
  ASSUME HostTyped, Device, Within("IDLE", "TALK"), Serve, NEW s, NEW i,
         NEW c \in {0, 2}, Offering(s, i, Second("SECOND", c)), channels[c].command = <<"$">>
  PROVE  /\ Moved(s, i + 1) /\ HostTyped' /\ Device' /\ Within("DIR", None)'
         /\ UNCHANGED <<card, errorMessage>> /\ secondaryAddress' = c
         /\ channels'[c].buffer = Listing(card, op.found) /\ channels'[c].sent = 0
<1>1. HandleTalkSecondary
  BY TalkHears
<1>2. Byte.channel = c /\ c \in Channels /\ c # 1 /\ c # 15
  BY Offered, CodesAre DEF Channels
<1>3. /\ secondaryAddress' = c /\ expects' = None /\ Served /\ PrepareDirectoryResponse(c)
  BY <1>1, <1>2 DEF HandleTalkSecondary
<1>4. Trimmed /\ tcbmState = "IDLE"
  BY DEF Serve, Trimmed, Within
<1>5. Moved(s, i + 1) /\ HostTyped'
  BY <1>3, Advances
<1> QED
  BY <1>2, <1>3, <1>4, <1>5, PreparesListing

(* The secondary address of a file that is read.                             *)
LEMMA TalkLoads ==
  ASSUME HostTyped, Device, Within("IDLE", "TALK"), Serve, NEW s, NEW i,
         NEW c \in {0, 2}, Offering(s, i, Second("SECOND", c)),
         NEW n \in Names, channels[c].command = <<n>>
  PROVE  /\ Moved(s, i + 1) /\ HostTyped' /\ Device' /\ Within("LOAD", None)'
         /\ card' = card /\ secondaryAddress' = c
         /\ \/ channels'[c].open /\ channels'[c].data = card[n] /\ card[n] # None
            \/ ~channels'[c].open /\ errorMessage' = "62"
<1>1. HandleTalkSecondary
  BY TalkHears
<1>2. Byte.channel = c /\ c \in Channels /\ c # 1 /\ c # 15
  BY Offered, CodesAre DEF Channels
<1>3. <<n>> # <<"$">> /\ <<n>> # <<>>
  <2>1. n # "$"
    BY ServerAssumption
  <2> QED
    BY <2>1
<1>4. /\ secondaryAddress' = c /\ expects' = None /\ Served /\ PrepareLoadChannel(c)
  BY <1>1, <1>2, <1>3 DEF HandleTalkSecondary
<1>5. Trimmed /\ tcbmState = "IDLE"
  BY DEF Serve, Trimmed, Within
<1>6. Moved(s, i + 1) /\ HostTyped'
  BY <1>4, Advances
<1> QED
  BY <1>2, <1>4, <1>5, <1>6, PreparesLoad

(* A device that is told a name takes bytes and UNLISTEN.                    *)
LEMMA NamingServes ==
  ASSUME Serve, Within("OPEN", None)
  PROVE  AppendCommandByte \/ FinaliseOpenState
  BY ServerAssumption
     DEF Serve, Within, HandleIdleCommand, DiscardIdleByte, DropIdleSend,
     HandleListenSecondary, HandleTalkSecondary, LoadByte, LoadFails, DirectoryByte,
     HandleTransferBusCommand, SaveByte, RejectByte, SaveCommand, DropSaveSecond, GiveUp,
     TimeOut

(* A part of a name.                                                         *)
LEMMA NamesPart ==
  ASSUME HostTyped, Device, Serve, NEW s, NEW i, NEW c \in Channels, NEW bytes,
         Naming(c, bytes), NEW n \in Names \cup {"$", "S"}, Offering(s, i, Recv(n))
  PROVE  /\ Moved(s, i + 1) /\ HostTyped' /\ Device' /\ Naming(c, Append(bytes, n))'
         /\ UNCHANGED <<card, errorMessage>>
<1>1. Head(todo).code = CODE_RECV /\ Byte = n
  BY Offered, CodesAre
<1>2. AppendCommandByte
  BY <1>1, NamingServes DEF Naming, FinaliseOpenState, Offers, CODE_RECV, CODE_COMMAND
<1>3. Trimmed
  BY DEF Serve, Trimmed
<1>4. Served
  BY <1>2 DEF AppendCommandByte
<1>5. Moved(s, i + 1) /\ HostTyped'
  BY <1>4, Advances
<1>6. n \in Data \cup Names \cup {"$", "S"}
  OBVIOUS
<1> QED
  BY <1>1, <1>2, <1>3, <1>5, <1>6, AppendsByte

(* UNLISTEN after a name.                                                    *)
LEMMA NamesAll ==
  ASSUME HostTyped, Device, Serve, NEW s, NEW i, NEW c, NEW bytes, Naming(c, bytes),
         Offering(s, i, Command("UNLISTEN"))
  PROVE  Moved(s, i + 1) /\ HostTyped' /\ Trimmed /\ FinaliseOpenState
<1>1. Head(todo).code = CODE_COMMAND
  BY Offered, CodesAre
<1>2. FinaliseOpenState
  BY <1>1, NamingServes DEF Naming, AppendCommandByte, Offers, CODE_RECV, CODE_COMMAND
<1>3. Served
  BY <1>2 DEF FinaliseOpenState
<1>4. Moved(s, i + 1) /\ HostTyped'
  BY <1>3, Advances
<1> QED
  BY <1>2, <1>4 DEF Serve, Trimmed

-----------------------------------------------------------------------------
(* From situation to situation. *)

(* Where the host is after an exchange that is no read.                      *)
LEMMA MovedTo ==
  ASSUME NEW o, op = o, NEW s, NEW i, Moved(s, i)
  PROVE  /\ op' = o /\ UNCHANGED <<got, told, stopped, want, owed>> /\ pause' = "none"
         /\ owed = None => Quiet'
         /\ Fresh => Fresh'
         /\ s = Script(o) => At(Script(op), i)'
         /\ s = AfterReads(o) => At(AfterReads(op), i)'
         /\ \A c : s = CloseScript(c) => At(CloseScript(c), i)'
         /\ \A kinds : KindIn(kinds) => KindIn(kinds)'
<1>1. op' = o /\ UNCHANGED <<got, told, stopped, want, owed>> /\ pause' = "none"
        /\ i \in 1 .. Len(s) + 1 /\ todo' = SubSeq(s, i, Len(s))
  BY DEF Moved
<1>2. (owed = None => Quiet') /\ (Fresh => Fresh')
  BY <1>1 DEF Quiet, Fresh
<1>3. /\ s = Script(o) => At(Script(op), i)'
      /\ s = AfterReads(o) => At(AfterReads(op), i)'
      /\ \A c : s = CloseScript(c) => At(CloseScript(c), i)'
  BY <1>1, Zenon DEF At
<1>4. \A kinds : KindIn(kinds) => KindIn(kinds)'
  BY <1>1 DEF KindIn
<1> QED
  BY <1>1, <1>2, <1>3, <1>4

(* After the last exchange of its script the host is done.                   *)
LEMMA MovedOff ==
  ASSUME NEW s \in Seq(Steps), NEW i, Moved(s, i), i = Len(s) + 1
  PROVE  Done'
<1>1. todo' = SubSeq(s, Len(s) + 1, Len(s))
  BY DEF Moved
<1>2. Len(s) \in Int /\ Len(s) + 1 \in Int /\ Len(s) < Len(s) + 1
  BY LenProperties
<1>3. SubSeq(s, Len(s) + 1, Len(s)) = <<>>
  BY <1>2, SubSeqEmpty, Zenon
<1> QED
  BY <1>1, <1>3 DEF Done

(* What a read asked now should give does not change while its file is named. *)
LEMMA WantKept ==
  ASSUME NEW o, op = o, op' = o, want' = want, want = WantOf(op),
         o.kind = "SAVE" \/ UNCHANGED <<card, errorMessage>>
  PROVE  want' = WantOf(op)'
<1>1. CASE o.kind = "SAVE"
  BY <1>1 DEF WantOf
<1>2. CASE UNCHANGED <<card, errorMessage>>
  BY <1>2 DEF WantOf
<1> QED
  BY <1>1, <1>2

(* What is common to the places where a file is named.                       *)
LEMMA OpeningKept ==
  ASSUME NEW o, op = o, Opening, NEW i, Moved(Script(o), i),
         o.kind = "SAVE" \/ UNCHANGED <<card, errorMessage>>
  PROVE  /\ KindIn({"LOAD", "DIRECTORY", "READ", "SAVE"})'
         /\ Fresh' /\ Quiet' /\ want' = WantOf(op)' /\ At(Script(op), i)' /\ op' = o
<1>1. KindIn({"LOAD", "DIRECTORY", "READ", "SAVE"}) /\ Fresh /\ Quiet /\ want = WantOf(op)
  BY DEF Opening
<1>2. owed = None
  BY <1>1 DEF Quiet
<1>3. /\ op' = o /\ want' = want /\ Quiet' /\ Fresh' /\ At(Script(op), i)'
      /\ KindIn({"LOAD", "DIRECTORY", "READ", "SAVE"})'
  BY <1>1, <1>2, MovedTo
<1>4. want' = WantOf(op)'
  BY <1>1, <1>3, WantKept
<1> QED
  BY <1>3, <1>4

(* How an operation that names a file begins.                                *)
LEMMA NamingSteps ==
  ASSUME NEW o \in Operations, o.kind \in {"LOAD", "DIRECTORY", "READ", "SAVE"}
  PROVE  LET s == Script(o)
             c == ChannelOf(o)
         IN /\ s \in Seq(Steps) /\ Len(s) \in Nat /\ Len(s) >= 7
            /\ c \in {0, 1, 2} /\ c \in Channels /\ (c = 1 <=> o.kind = "SAVE")
            /\ NameOf(o) \in Names \cup {"$", "S"}
            /\ s[1] = Command("LISTEN") /\ s[2] = Second("OPEN", c)
            /\ s[3] = Recv(NameOf(o)) /\ s[4] = Command("UNLISTEN")
            /\ s[5] = Command(IF o.kind = "SAVE" THEN "LISTEN" ELSE "TALK")
            /\ s[6] = Second("SECOND", c)
<1>1. /\ ChannelOf(o) \in {0, 1, 2} /\ ChannelOf(o) \in Channels
      /\ (ChannelOf(o) = 1 <=> o.kind = "SAVE")
  BY DEF ChannelOf, Channels
<1>2. NameOf(o) \in Names \cup {"$", "S"}
  BY DEF NameOf, Operations
<1>3. CASE o.kind = "SAVE"
  <2>1. ChannelOf(o) = 1 /\ NameOf(o) = o.name
    BY <1>3 DEF ChannelOf, NameOf
  <2>2. Len(o.data) \in Nat
    BY <1>3, SavedData
  <2> QED
    BY <1>1, <1>2, <1>3, <2>1, <2>2, SavingSteps
<1>4. CASE o.kind # "SAVE"
  <2>1. o.kind \in {"LOAD", "DIRECTORY", "READ"}
    BY <1>4
  <2>2. /\ Script(o) \in Seq(Steps) /\ Len(Script(o)) = IF o.kind = "LOAD" THEN 9 ELSE 7
        /\ Script(o)[1] = Command("LISTEN") /\ Script(o)[2] = Second("OPEN", ChannelOf(o))
        /\ Script(o)[3] = Recv(NameOf(o)) /\ Script(o)[4] = Command("UNLISTEN")
        /\ Script(o)[5] = Command("TALK") /\ Script(o)[6] = Second("SECOND", ChannelOf(o))
    BY <2>1, OpeningSteps, Zenon
  <2>3. Len(Script(o)) \in Nat /\ Len(Script(o)) >= 7
    BY <2>2
  <2> QED
    BY <1>1, <1>2, <1>4, <2>2, <2>3, Zenon
<1> QED
  BY <1>3, <1>4

(* Where a file is being named, the next exchange, and what it finds.        *)
LEMMA NamesOn ==
  ASSUME HostTyped, Device, Opening, Serve
  PROVE  \/ ServerInv'
         \/ /\ At(Script(op), 6)
            /\ Within("IDLE", IF op.kind = "SAVE" THEN "LISTEN" ELSE "TALK")
            /\ ~channels[ChannelOf(op)].open /\ channels[ChannelOf(op)].data = <<>>
            /\ ChannelOf(op) # 1 => channels[ChannelOf(op)].command = <<NameOf(op)>>
<1>1. PICK o : o = op
  OBVIOUS
<1> DEFINE s == Script(o)
           c == ChannelOf(o)
           n == NameOf(o)
           named == /\ ~channels[c].open /\ channels[c].data = <<>>
                    /\ c # 1 => channels[c].command = <<n>>
<1>2. o \in Operations /\ o.kind \in {"LOAD", "DIRECTORY", "READ", "SAVE"}
  BY <1>1 DEF Opening, KindIn
<1>3. /\ s \in Seq(Steps) /\ Len(s) \in Nat /\ Len(s) >= 7
      /\ c \in {0, 1, 2} /\ c \in Channels /\ (c = 1 <=> o.kind = "SAVE")
      /\ n \in Names \cup {"$", "S"}
      /\ s[1] = Command("LISTEN") /\ s[2] = Second("OPEN", c)
      /\ s[3] = Recv(n) /\ s[4] = Command("UNLISTEN")
      /\ s[5] = Command(IF o.kind = "SAVE" THEN "LISTEN" ELSE "TALK")
      /\ s[6] = Second("SECOND", c)
  BY <1>2, NamingSteps
<1>4. ASSUME NEW i \in 1 .. 6, At(s, i), NEW e, s[i] = e, e # Send
      PROVE  Offering(s, i, e)
  <2>1. i # Len(s) + 1
    BY <1>3
  <2> QED
    BY <1>3, <1>4, <2>1, Zenon DEF Offering
<1>5. /\ KindIn({"LOAD", "DIRECTORY", "READ", "SAVE"})
      /\ \/ At(s, 1) /\ Idle
         \/ At(s, 2) /\ Called
         \/ At(s, 3) /\ Naming(c, <<>>)
         \/ At(s, 4) /\ Naming(c, <<n>>)
         \/ At(s, 5) /\ Idle /\ named
         \/ At(s, 6) /\ Within("IDLE", IF o.kind = "SAVE" THEN "LISTEN" ELSE "TALK") /\ named
  BY <1>1, Zenon DEF Opening
<1>6. ASSUME NEW i, Moved(s, i), HostTyped', Device',
             o.kind = "SAVE" \/ UNCHANGED <<card, errorMessage>>,
             \/ i = 2 /\ Called'
             \/ i = 3 /\ Naming(c, <<>>)'
             \/ i = 4 /\ Naming(c, <<n>>)'
             \/ i = 5 /\ Idle' /\ named'
             \/ i = 6 /\ named'
                      /\ Within("IDLE", IF o.kind = "SAVE" THEN "LISTEN" ELSE "TALK")'
      PROVE  ServerInv'
  <2>1. /\ KindIn({"LOAD", "DIRECTORY", "READ", "SAVE"})'
        /\ Fresh' /\ Quiet' /\ want' = WantOf(op)' /\ At(Script(op), i)' /\ op' = o
    BY <1>1, <1>6, OpeningKept
  <2>2. \/ i = 2 /\ Called'
        \/ i = 3 /\ Naming(ChannelOf(op), <<>>)'
        \/ i = 4 /\ Naming(ChannelOf(op), <<NameOf(op)>>)'
        \/ i = 5 /\ Idle' /\ (LET d == ChannelOf(op) IN
                                /\ ~channels[d].open /\ channels[d].data = <<>>
                                /\ d # 1 => channels[d].command = <<NameOf(op)>>)'
        \/ i = 6 /\ (LET d == ChannelOf(op) IN
                                /\ ~channels[d].open /\ channels[d].data = <<>>
                                /\ d # 1 => channels[d].command = <<NameOf(op)>>)'
                 /\ Within("IDLE", IF op.kind = "SAVE" THEN "LISTEN" ELSE "TALK")'
    BY <1>6, <2>1, Zenon DEF Naming, Within
  <2>3. Opening'
    BY <2>1, <2>2, Zenon DEF Opening
  <2> QED
    BY <1>6, <2>3, Zenon DEF ServerInv, Situation
<1>7. CASE At(s, 1) /\ Idle
  <2>1. Offering(s, 1, Command("LISTEN"))
    BY <1>3, <1>4, <1>7, CodesAre
  <2>2. /\ Moved(s, 1 + 1) /\ HostTyped' /\ Device' /\ UNCHANGED <<card, errorMessage>>
        /\ Within("IDLE", IF "LISTEN" \in {"LISTEN", "TALK"} THEN "LISTEN" ELSE None)'
    BY <1>7, <2>1, IdleServes
  <2>3. Called' /\ 1 + 1 = 2
    BY <2>2 DEF Called, Within
  <2> QED
    BY <1>6, <2>2, <2>3
<1>8. CASE At(s, 2) /\ Called
  <2>1. Offering(s, 2, Second("OPEN", c))
    BY <1>3, <1>4, <1>8, CodesAre
  <2>2. /\ Moved(s, 2 + 1) /\ HostTyped' /\ Device' /\ Naming(c, <<>>)'
        /\ errorMessage' = errorMessage /\ (c # 1 => card' = card)
    BY <1>3, <1>8, <2>1, CalledOpens
  <2>3. 2 + 1 = 3 /\ (o.kind = "SAVE" \/ UNCHANGED <<card, errorMessage>>)
    BY <1>3, <2>2
  <2> QED
    BY <1>6, <2>2, <2>3
<1>9. CASE At(s, 3) /\ Naming(c, <<>>)
  <2>1. Offering(s, 3, Recv(n))
    BY <1>3, <1>4, <1>9, CodesAre
  <2>2. /\ Moved(s, 3 + 1) /\ HostTyped' /\ Device' /\ Naming(c, Append(<<>>, n))'
        /\ UNCHANGED <<card, errorMessage>>
    BY <1>3, <1>9, <2>1, NamesPart
  <2>3. 3 + 1 = 4 /\ Append(<<>>, n) = <<n>>
    OBVIOUS
  <2>4. Naming(c, <<n>>)'
    BY <2>2, <2>3 DEF Naming
  <2> QED
    BY <1>6, <2>2, <2>3, <2>4
<1>10. CASE At(s, 4) /\ Naming(c, <<n>>)
  <2>1. Offering(s, 4, Command("UNLISTEN"))
    BY <1>3, <1>4, <1>10, CodesAre
  <2>2. Moved(s, 4 + 1) /\ HostTyped' /\ Trimmed /\ FinaliseOpenState
    BY <1>10, <2>1, NamesAll
  <2>3. c # 15
    BY <1>3
  <2>4. /\ Device' /\ Idle' /\ UNCHANGED <<card, errorMessage>>
        /\ ~channels'[c].open /\ channels'[c].data = <<>> /\ channels'[c].command = <<n>>
    BY <1>3, <1>10, <2>2, <2>3, NamesFile
  <2>5. 4 + 1 = 5
    OBVIOUS
  <2> QED
    BY <1>6, <2>2, <2>4, <2>5
<1>11. CASE At(s, 5) /\ Idle /\ named
  <2>1. PICK b : b = IF o.kind = "SAVE" THEN "LISTEN" ELSE "TALK"
    OBVIOUS
  <2>2. Offering(s, 5, Command(b))
    BY <1>3, <1>4, <1>11, <2>1, CodesAre
  <2>3. /\ Moved(s, 5 + 1) /\ HostTyped' /\ Device' /\ UNCHANGED <<channels, card, errorMessage>>
        /\ Within("IDLE", IF b \in {"LISTEN", "TALK"} THEN b ELSE None)'
    BY <1>11, <2>2, IdleServes
  <2>4. Within("IDLE", b)' /\ 5 + 1 = 6
    BY <2>1, <2>3 DEF Within
  <2>5. Within("IDLE", IF o.kind = "SAVE" THEN "LISTEN" ELSE "TALK")'
    BY <2>1, <2>4 DEF Within
  <2> QED
    BY <1>6, <1>11, <2>3, <2>4, <2>5
<1>12. CASE At(s, 6) /\ Within("IDLE", IF o.kind = "SAVE" THEN "LISTEN" ELSE "TALK") /\ named
  BY <1>1, <1>12
<1> QED
  BY <1>5, <1>7, <1>8, <1>9, <1>10, <1>11, <1>12

(* The last place of Opening, as the lemmas below take it up.                *)
Named ==
  /\ Opening /\ At(Script(op), 6)
  /\ Within("IDLE", IF op.kind = "SAVE" THEN "LISTEN" ELSE "TALK")
  /\ ~channels[ChannelOf(op)].open /\ channels[ChannelOf(op)].data = <<>>
  /\ ChannelOf(op) # 1 => channels[ChannelOf(op)].command = <<NameOf(op)>>

(* SAVE: a file is made, or that is reported.                                *)
LEMMA SaveStarts ==
  ASSUME HostTyped, Device, Named, op.kind = "SAVE", Serve
  PROVE  ServerInv'
<1>1. PICK o : o = op
  OBVIOUS
<1>2. o \in Operations /\ o.kind = "SAVE"
  BY <1>1 DEF Named, Opening, KindIn
<1>3. ChannelOf(o) = 1
  BY <1>2 DEF ChannelOf
<1>4. /\ Script(o) \in Seq(Steps) /\ Script(o)[6] = Second("SECOND", 1)
      /\ Len(Script(o)) = Len(o.data) + 10 /\ Len(o.data) \in Nat /\ o.data \in Seq(Data)
  BY <1>2, SavingSteps, SavedData
<1>5. Offering(Script(o), 6, Second("SECOND", 1))
  <2>1. 6 # Len(Script(o)) + 1
    BY <1>4
  <2> QED
    BY <1>1, <1>4, <2>1, CodesAre DEF Offering, Named
<1>6. Called /\ ~channels[1].open /\ channels[1].data = <<>> /\ Fresh /\ Quiet
  BY <1>1, <1>2, <1>3 DEF Named, Called, Within, Opening
<1>7. /\ Moved(Script(o), 6 + 1) /\ HostTyped' /\ Device' /\ Within("SAVE", None)'
      /\ secondaryAddress' = 1
      /\ \/ /\ channels'[1].open /\ channels'[1].writing
            /\ card'[channels'[1].file] # None
            /\ channels'[1].data = <<>> /\ channels'[1].buffer = <<>>
         \/ ~channels'[1].open /\ Failed'
  BY <1>5, <1>6, CalledSaves
<1>8. /\ op' = o /\ Quiet' /\ Fresh' /\ At(Script(op), 6 + 1)' /\ KindIn({"SAVE"})'
  <2>1. KindIn({"SAVE"})
    BY <1>1, <1>2 DEF KindIn
  <2>2. owed = None
    BY <1>6 DEF Quiet
  <2> QED
    BY <1>1, <1>6, <1>7, <2>1, <2>2, MovedTo
<1>9. told' = {} /\ stopped' = FALSE
  BY <1>8 DEF Fresh
<1>10. At(Script(op), 7 + 0)' /\ 0 \in 0 .. Len(op'.data)
  <2>1. 6 + 1 = 7 + 0
    OBVIOUS
  <2> QED
    BY <1>4, <1>8, <2>1
<1>11. <<>> \o <<>> = SubSeq(op'.data, 1, 0)
  <2>1. SubSeq(o.data, 1, 0) = <<>>
    BY <1>4, SubSeqEmpty
  <2>2. <<>> \o <<>> = <<>>
    OBVIOUS
  <2> QED
    BY <1>8, <2>1, <2>2
<1>12. Kept(0)' \/ (~channels'[1].open /\ told' = {} /\ Failed')
  BY <1>7, <1>9, <1>11, Zenon DEF Kept
<1>13. Saving'
  BY <1>7, <1>8, <1>9, <1>10, <1>12, Zenon DEF Saving
<1> QED
  BY <1>7, <1>13, Zenon DEF ServerInv, Situation

(* Where the first read of a script is.                                      *)
LEMMA FirstRead ==
  ASSUME NEW o \in Operations, o.kind \in {"LOAD", "DIRECTORY", "READ", "DS"},
         op' = o, got' = <<>>, At(Script(o), IF o.kind = "DS" THEN 3 ELSE 7)'
  PROVE  ReadAt'
<1>1. CASE o.kind = "LOAD"
  <2>1. Len(Script(o)) = 9
    BY <1>1, OpeningSteps
  <2>2. Len(got') = 0 /\ Len(Script(o)) - 2 + Len(got') = 7
    BY <2>1
  <2>3. At(Script(op), Len(Script(op)) - 2 + Len(got))'
    BY <1>1, <2>2 DEF At
  <2> QED
    BY <1>1, <2>2, <2>3 DEF ReadAt
<1>2. CASE o.kind \in {"DIRECTORY", "READ"}
  <2>1. Len(Script(o)) = 7
    BY <1>2, OpeningSteps
  <2>2. At(Script(op), Len(Script(op)))'
    BY <1>2, <2>1 DEF At
  <2> QED
    BY <1>2, <2>2 DEF ReadAt
<1>3. CASE o.kind = "DS"
  <2>1. Len(Script(o)) = 3
    BY <1>3, AskingSteps
  <2>2. At(Script(op), Len(Script(op)))'
    BY <1>3, <2>1 DEF At
  <2> QED
    BY <1>3, <2>2 DEF ReadAt
<1> QED
  BY <1>1, <1>2, <1>3

(* The first read of a listing, or of the error message, is next.            *)
LEMMA ListingBegins ==
  ASSUME NEW o \in Operations, op' = o, o.kind \in {"LOAD", "DIRECTORY", "DS"}, Fresh', Quiet',
         At(Script(o), IF o.kind = "DS" THEN 3 ELSE 7)',
         Within("DIR", None)', NEW c, c = ChannelOf(o), secondaryAddress' = c,
         channels'[c].buffer = want', channels'[c].sent = 0,
         want' \in Seq(Bytes), Len(want') > 0
  PROVE  Listed'
<1>1. got' = <<>> /\ told' = {} /\ stopped' = FALSE /\ owed' = None /\ pause' = "none"
  BY DEF Fresh, Quiet
<1>2. ReadAt'
  BY <1>1, FirstRead
<1>3. SubSeq(want', 1, 0) = <<>> /\ Len(got') = 0
  BY <1>1, SubSeqEmpty
<1>4. KindIn({"LOAD", "DIRECTORY", "DS"})'
  BY DEF KindIn
<1> QED
  BY <1>1, <1>2, <1>3, <1>4 DEF Listed

(* A listing is asked for.                                                   *)
LEMMA ListStarts ==
  ASSUME HostTyped, Device, Named, NameOf(op) = "$", op.kind # "SAVE", Serve
  PROVE  ServerInv'
<1>1. PICK o : o = op
  OBVIOUS
<1>2. o \in Operations /\ o.kind \in {"LOAD", "DIRECTORY"} /\ ChannelOf(o) = 0
  <2>1. o \in Operations /\ o.kind \in {"LOAD", "DIRECTORY", "READ"} /\ NameOf(o) = "$"
    BY <1>1 DEF Named, Opening, KindIn
  <2>2. o.kind # "READ"
    BY <2>1, ServerAssumption DEF Operations, NameOf
  <2> QED
    BY <2>1, <2>2 DEF ChannelOf
<1>3. /\ Script(o) \in Seq(Steps) /\ Script(o)[6] = Second("SECOND", 0)
      /\ Len(Script(o)) # 5
  BY <1>2, NamingSteps
<1>4. Offering(Script(o), 6, Second("SECOND", 0))
  <2>1. 6 # Len(Script(o)) + 1
    BY <1>2, NamingSteps
  <2> QED
    BY <1>1, <1>3, <2>1, CodesAre DEF Offering, Named
<1>5. /\ Within("IDLE", "TALK") /\ channels[0].command = <<"$">>
      /\ Fresh /\ Quiet /\ want = WantOf(o)
  BY <1>1, <1>2 DEF Named, Opening, Within
<1>6. /\ Moved(Script(o), 6 + 1) /\ HostTyped' /\ Device' /\ Within("DIR", None)'
      /\ UNCHANGED <<card, errorMessage>> /\ secondaryAddress' = 0
      /\ channels'[0].buffer = Listing(card, op.found) /\ channels'[0].sent = 0
  BY <1>4, <1>5, TalkLists
<1>7. want = Listing(card, op.found)
  BY <1>1, <1>2, <1>5 DEF WantOf, NameOf, Named
<1>8. Listing(card, op.found) \in Seq(Bytes) /\ Len(Listing(card, op.found)) > 0
  <2>1. card \in [Names -> Seq(Data) \cup {None}]
    BY DEF Device, DeviceTyped
  <2>2. Listing(card, op.found) \in Seq(Bytes) /\ Len(Listing(card, op.found)) >= 1
    BY <2>1, ListingIs
  <2>3. Len(Listing(card, op.found)) \in Nat
    BY <2>2, LenProperties
  <2> QED
    BY <2>2, <2>3
<1>9. op' = o /\ want' = want /\ Quiet' /\ Fresh' /\ At(Script(op), 6 + 1)'
  <2>1. owed = None
    BY <1>5 DEF Quiet
  <2> QED
    BY <1>1, <1>5, <1>6, <2>1, MovedTo
<1>10. At(Script(o), 7)'
  <2>1. 6 + 1 = 7
    OBVIOUS
  <2> QED
    BY <1>9, <2>1 DEF At
<1>11. Listed'
  BY <1>2, <1>6, <1>7, <1>8, <1>9, <1>10, ListingBegins
<1> QED
  BY <1>6, <1>11, Zenon DEF ServerInv, Situation

(* A file is asked for.                                                      *)
LEMMA LoadStarts ==
  ASSUME HostTyped, Device, Named, NameOf(op) # "$", op.kind # "SAVE", Serve
  PROVE  ServerInv'
<1>1. PICK o : o = op
  OBVIOUS
<1>2. PICK c : c = ChannelOf(o)
  OBVIOUS
<1>3. PICK n : n = NameOf(o)
  OBVIOUS
<1>4. /\ o \in Operations /\ o.kind \in {"LOAD", "READ"} /\ c \in {0, 2} /\ c \in Channels
      /\ n \in Names /\ n # "$" /\ n = o.name
  <2>1. o \in Operations /\ o.kind \in {"LOAD", "DIRECTORY", "READ"} /\ NameOf(o) # "$"
    BY <1>1 DEF Named, Opening, KindIn
  <2> QED
    BY <1>2, <1>3, <2>1 DEF Operations, NameOf, ChannelOf, Channels
<1>5. Offering(Script(o), 6, Second("SECOND", c))
  <2>1. /\ Script(o) \in Seq(Steps) /\ Script(o)[6] = Second("SECOND", c)
        /\ 6 # Len(Script(o)) + 1
    BY <1>2, <1>4, NamingSteps
  <2> QED
    BY <1>1, <2>1, CodesAre DEF Offering, Named
<1>6. /\ Within("IDLE", "TALK") /\ channels[c].command = <<n>>
      /\ Fresh /\ Quiet /\ want = WantOf(o)
  BY <1>1, <1>2, <1>3, <1>4 DEF Named, Opening, Within
<1>7. /\ Moved(Script(o), 6 + 1) /\ HostTyped' /\ Device' /\ Within("LOAD", None)'
      /\ card' = card /\ secondaryAddress' = c
      /\ \/ channels'[c].open /\ channels'[c].data = card[n] /\ card[n] # None
         \/ ~channels'[c].open /\ errorMessage' = "62"
  BY <1>4, <1>5, <1>6, TalkLoads
<1>8. /\ op' = o /\ want' = want /\ Quiet' /\ Fresh' /\ At(Script(op), 6 + 1)'
  <2>1. owed = None
    BY <1>6 DEF Quiet
  <2> QED
    BY <1>1, <1>6, <1>7, <2>1, MovedTo
<1>9. /\ got' = <<>> /\ told' = {} /\ stopped' = FALSE /\ owed' = None /\ pause' = "none"
  BY <1>8 DEF Fresh, Quiet
<1>10. ReadAt'
  <2>1. 6 + 1 = 7
    OBVIOUS
  <2>2. At(Script(o), 7)'
    BY <1>8, <2>1 DEF At
  <2> QED
    BY <1>4, <1>8, <1>9, <2>2, FirstRead
<1>11. /\ KindIn({"LOAD", "READ"})' /\ NameOf(op)' \in Names /\ ChannelOf(op)' = c /\ Paused'
  <2>1. NameOf(op)' = n /\ ChannelOf(op)' = c
    BY <1>2, <1>3, <1>8
  <2> QED
    BY <1>4, <1>8, <1>9, <2>1 DEF KindIn, Paused
<1>12. CASE channels'[c].open /\ channels'[c].data = card[n] /\ card[n] # None
  <2>1. want' = IF o.kind = "READ" /\ card[n] = <<>> THEN <<"CR">> ELSE card[n]
    BY <1>4, <1>6, <1>8 DEF WantOf
  <2>2. card[n] \in Seq(Data)
    BY <1>4, <1>12 DEF Device, DeviceTyped
  <2>3. <<>> \o card[n] = card[n]
    BY <2>2, ConcatEmptySeq
  <2>4. IF channels'[c].data = <<>>
        THEN got' = <<>> /\ want' = (IF op'.kind = "READ" THEN <<"CR">> ELSE <<>>)
        ELSE got' \o channels'[c].data = want'
    BY <1>8, <1>9, <1>12, <2>1, <2>3
  <2>5. Loading'
    BY <1>7, <1>8, <1>9, <1>10, <1>11, <1>12, <2>4, Zenon DEF Loading
  <2> QED
    BY <1>7, <2>5, Zenon DEF ServerInv, Situation
<1>13. CASE ~channels'[c].open /\ errorMessage' = "62"
  <2>1. Missing'
    BY <1>7, <1>8, <1>9, <1>10, <1>11, <1>13, Zenon DEF Missing
  <2> QED
    BY <1>7, <2>1, Zenon DEF ServerInv, Situation
<1> QED
  BY <1>7, <1>12, <1>13

(* A file's operation, up to its TALK or its second LISTEN.                  *)
LEMMA OpeningServed ==
  ASSUME HostTyped, Device, Opening, Serve
  PROVE  ServerInv'
<1>1. ServerInv' \/ Named
  BY NamesOn DEF Named
<1> QED
  BY <1>1, SaveStarts, ListStarts, LoadStarts

(* DS$ is asked for.                                                         *)
LEMMA AskingServed ==
  ASSUME HostTyped, Device, Asking, Serve
  PROVE  ServerInv'
<1>1. PICK o : o = op
  OBVIOUS
<1>2. /\ o \in Operations /\ o.kind = "DS" /\ ChannelOf(o) = 15
      /\ Fresh /\ Quiet /\ want = <<errorMessage>> /\ owed = None
      /\ \/ At(Script(o), 1) /\ Idle
         \/ At(Script(o), 2) /\ Within("IDLE", "TALK")
  BY <1>1 DEF Asking, KindIn, ChannelOf, WantOf, Quiet
<1>3. /\ Script(o) \in Seq(Steps) /\ Len(Script(o)) = 3
      /\ Script(o)[1] = Command("TALK") /\ Script(o)[2] = Second("SECOND", 15)
  BY <1>2, AskingSteps
<1>4. KindIn({"DS"})
  BY <1>1, <1>2 DEF KindIn
<1>5. CASE At(Script(o), 1) /\ Idle
  <2>1. Offering(Script(o), 1, Command("TALK"))
    BY <1>3, <1>5, CodesAre DEF Offering
  <2>2. /\ Moved(Script(o), 1 + 1) /\ HostTyped' /\ Device' /\ UNCHANGED errorMessage
        /\ Within("IDLE", IF "TALK" \in {"LISTEN", "TALK"} THEN "TALK" ELSE None)'
    BY <1>5, <2>1, IdleServes
  <2>3. 1 + 1 = 2 /\ Within("IDLE", "TALK")'
    BY <2>2 DEF Within
  <2>4. /\ op' = o /\ want' = want /\ Quiet' /\ Fresh' /\ At(Script(op), 2)' /\ KindIn({"DS"})'
    BY <1>1, <1>2, <1>4, <2>2, <2>3, MovedTo
  <2>5. want' = WantOf(op)'
    BY <1>2, <2>2, <2>4 DEF WantOf
  <2>6. Asking'
    BY <2>3, <2>4, <2>5, Zenon DEF Asking
  <2> QED
    BY <2>2, <2>6, Zenon DEF ServerInv, Situation
<1>6. CASE At(Script(o), 2) /\ Within("IDLE", "TALK")
  <2>1. Offering(Script(o), 2, Second("SECOND", 15))
    BY <1>3, <1>6, CodesAre DEF Offering
  <2>2. /\ Moved(Script(o), 2 + 1) /\ HostTyped' /\ Device' /\ Within("DIR", None)'
        /\ secondaryAddress' = 15
        /\ channels'[15].buffer = <<errorMessage>> /\ channels'[15].sent = 0
    BY <1>6, <2>1, TalkAnswers
  <2>3. 2 + 1 = 3
    OBVIOUS
  <2>4. op' = o /\ want' = want /\ Quiet' /\ Fresh' /\ At(Script(op), 3)'
    BY <1>1, <1>2, <2>2, <2>3, MovedTo
  <2>5. want' \in Seq(Bytes) /\ Len(want') > 0
    <3>1. errorMessage \in Bytes
      BY DEF Device, DeviceTyped, Bytes, Tokens
    <3>2. <<errorMessage>> \in Seq(Bytes)
      BY <3>1, ShortSeq, Zenon
    <3>3. Len(<<errorMessage>>) > 0
      OBVIOUS
    <3> QED
      BY <1>2, <2>4, <3>2, <3>3
  <2>6. At(Script(o), 3)'
    BY <2>4 DEF At
  <2>7. Listed'
    BY <1>2, <2>2, <2>4, <2>5, <2>6, ListingBegins
  <2> QED
    BY <2>2, <2>7, Zenon DEF ServerInv, Situation
<1> QED
  BY <1>2, <1>5, <1>6

(* A command channel's operation ends well for Verdict.                      *)
LEMMA CommandsOver ==
  ASSUME NEW o \in Operations, o.kind \in {"OPEN15", "PRINT15"}, op' = o,
         Done', Idle', Quiet', HostTyped', Device'
  PROVE  ServerInv'
<1>1. Verdict'
  BY DEF Verdict
<1>2. Over'
  BY <1>1, Zenon DEF Over
<1> QED
  BY <1>2, Zenon DEF ServerInv, Situation

(* OPEN15: the command channel is opened and closed.                         *)
LEMMA Commanding15Served ==
  ASSUME HostTyped, Device, Commanding15, Serve
  PROVE  ServerInv'
<1>1. PICK o : o = op
  OBVIOUS
<1> DEFINE s == Script(o)
<1>2. /\ o \in Operations /\ o.kind = "OPEN15" /\ Fresh /\ Quiet /\ owed = None
      /\ KindIn({"OPEN15"})
      /\ \/ At(s, 1) /\ Idle
         \/ At(s, 2) /\ Called
         \/ At(s, 3) /\ Naming(15, <<>>)
         \/ At(s, 4) /\ Naming(15, <<"S">>)
         \/ At(s, 5) /\ Naming(15, <<"S", o.name>>)
         \/ At(s, 6) /\ Idle
         \/ At(s, 7) /\ Called
         \/ At(s, 8) /\ Idle
  BY <1>1 DEF Commanding15, KindIn, Quiet
<1>3. /\ s \in Seq(Steps) /\ Len(s) = 8
      /\ s[1] = Command("LISTEN") /\ s[2] = Second("OPEN", 15)
      /\ s[3] = Recv("S") /\ s[4] = Recv(o.name) /\ s[5] = Command("UNLISTEN")
      /\ s[6] = Command("LISTEN") /\ s[7] = Second("CLOSE", 15) /\ s[8] = Command("UNLISTEN")
  BY <1>2, CommandSteps
<1>4. o.name \in Names /\ 15 \in Channels
  BY <1>2 DEF Operations, Channels
<1> HIDE DEF s
<1>5. ASSUME NEW i \in 1 .. 8, At(s, i), NEW e, s[i] = e, e # Send
      PROVE  Offering(s, i, e)
  <2>1. i # Len(s) + 1
    BY <1>3
  <2> QED
    BY <1>3, <1>5, <2>1, Zenon DEF Offering
<1>6. ASSUME NEW i, Moved(s, i), HostTyped', Device',
             \/ i = 2 /\ Called'
             \/ i = 3 /\ Naming(15, <<>>)'
             \/ i = 4 /\ Naming(15, <<"S">>)'
             \/ i = 5 /\ Naming(15, <<"S", o.name>>)'
             \/ i = 6 /\ Idle'
             \/ i = 7 /\ Called'
             \/ i = 8 /\ Idle'
      PROVE  ServerInv'
  <2>1. op' = o /\ KindIn({"OPEN15"})' /\ Quiet' /\ Fresh' /\ At(Script(op), i)'
    BY <1>1, <1>2, <1>6, MovedTo DEF s
  <2>2. Naming(15, <<"S", o.name>>)' => Naming(15, <<"S", op.name>>)'
    BY <2>1 DEF Naming
  <2>3. Commanding15'
    BY <1>6, <2>1, <2>2, Zenon DEF Commanding15
  <2> QED
    BY <1>6, <2>3, Zenon DEF ServerInv, Situation
<1>7. 1 + 1 = 2 /\ 2 + 1 = 3 /\ 3 + 1 = 4 /\ 4 + 1 = 5 /\ 5 + 1 = 6 /\ 6 + 1 = 7 /\ 7 + 1 = 8
  OBVIOUS
<1>8. CASE (At(s, 1) \/ At(s, 6)) /\ Idle
  <2>1. PICK i \in {1, 6} : At(s, i)
    BY <1>8
  <2>2. Offering(s, i, Command("LISTEN"))
    BY <1>3, <1>5, <2>1, CodesAre
  <2>3. /\ Moved(s, i + 1) /\ HostTyped' /\ Device'
        /\ Within("IDLE", IF "LISTEN" \in {"LISTEN", "TALK"} THEN "LISTEN" ELSE None)'
    BY <1>8, <2>2, IdleServes
  <2>4. Called'
    BY <2>3 DEF Called, Within
  <2> QED
    BY <1>6, <1>7, <2>1, <2>3, <2>4
<1>9. CASE At(s, 2) /\ Called
  <2>1. Offering(s, 2, Second("OPEN", 15))
    BY <1>3, <1>5, <1>9, CodesAre
  <2>2. Moved(s, 2 + 1) /\ HostTyped' /\ Device' /\ Naming(15, <<>>)'
    BY <1>4, <1>9, <2>1, CalledOpens
  <2> QED
    BY <1>6, <1>7, <2>2
<1>10. CASE At(s, 3) /\ Naming(15, <<>>)
  <2>1. Offering(s, 3, Recv("S"))
    BY <1>3, <1>5, <1>10, CodesAre
  <2>2. Moved(s, 3 + 1) /\ HostTyped' /\ Device' /\ Naming(15, Append(<<>>, "S"))'
    BY <1>4, <1>10, <2>1, NamesPart
  <2>3. Append(<<>>, "S") = <<"S">>
    OBVIOUS
  <2>4. Naming(15, <<"S">>)'
    BY <2>2, <2>3 DEF Naming
  <2> QED
    BY <1>6, <1>7, <2>2, <2>4
<1>11. CASE At(s, 4) /\ Naming(15, <<"S">>)
  <2>1. Offering(s, 4, Recv(o.name))
    BY <1>3, <1>5, <1>11, CodesAre
  <2>2. Moved(s, 4 + 1) /\ HostTyped' /\ Device' /\ Naming(15, Append(<<"S">>, o.name))'
    BY <1>4, <1>11, <2>1, NamesPart
  <2>3. Append(<<"S">>, o.name) = <<"S", o.name>>
    BY TwoParts
  <2>4. Naming(15, <<"S", o.name>>)'
    BY <2>2, <2>3 DEF Naming
  <2> QED
    BY <1>6, <1>7, <2>2, <2>4
<1>12. CASE At(s, 5) /\ Naming(15, <<"S", o.name>>)
  <2>1. Offering(s, 5, Command("UNLISTEN"))
    BY <1>3, <1>5, <1>12, CodesAre
  <2>2. Moved(s, 5 + 1) /\ HostTyped' /\ Trimmed /\ FinaliseOpenState
    BY <1>12, <2>1, NamesAll
  <2>3. Device' /\ Idle'
    BY <1>4, <1>12, <2>2, NamesCommand
  <2> QED
    BY <1>6, <1>7, <2>2, <2>3
<1>13. CASE At(s, 7) /\ Called
  <2>1. Offering(s, 7, Second("CLOSE", 15))
    BY <1>3, <1>5, <1>13, CodesAre
  <2>2. Moved(s, 7 + 1) /\ HostTyped' /\ Device' /\ Idle'
    BY <1>4, <1>13, <2>1, CalledCloses DEF Called, Within
  <2> QED
    BY <1>6, <1>7, <2>2
<1>14. CASE At(s, 8) /\ Idle
  <2>1. Offering(s, 8, Command("UNLISTEN"))
    BY <1>3, <1>5, <1>14, CodesAre
  <2>2. /\ Moved(s, 8 + 1) /\ HostTyped' /\ Device'
        /\ Within("IDLE", IF "UNLISTEN" \in {"LISTEN", "TALK"} THEN "UNLISTEN" ELSE None)'
    BY <1>14, <2>1, IdleServes
  <2>3. Idle'
    BY <2>2 DEF Idle, Within
  <2>4. Done'
    BY <1>3, <2>2, MovedOff
  <2>5. op' = o /\ Quiet'
    BY <1>1, <1>2, <2>2, MovedTo
  <2> QED
    BY <1>2, <2>2, <2>3, <2>4, <2>5, CommandsOver
<1> QED
  BY <1>2, <1>8, <1>9, <1>10, <1>11, <1>12, <1>13, <1>14

(* PRINT15: a command is printed to the channel.                             *)
LEMMA Printing15Served ==
  ASSUME HostTyped, Device, Printing15, Serve
  PROVE  ServerInv'
<1>1. PICK o : o = op
  OBVIOUS
<1> DEFINE s == Script(o)
<1>2. /\ o \in Operations /\ o.kind = "PRINT15" /\ Fresh /\ Quiet /\ owed = None
      /\ KindIn({"PRINT15"})
      /\ \/ At(s, 1) /\ Idle
         \/ At(s, 2) /\ Called
         \/ At(s, 3) /\ Naming(15, <<>>)
         \/ At(s, 4) /\ Naming(15, <<"S">>)
         \/ At(s, 5) /\ Naming(15, <<"S", o.name>>)
  BY <1>1 DEF Printing15, KindIn, Quiet
<1>3. /\ s \in Seq(Steps) /\ Len(s) = 5
      /\ s[1] = Command("LISTEN") /\ s[2] = Second("SECOND", 15)
      /\ s[3] = Recv("S") /\ s[4] = Recv(o.name) /\ s[5] = Command("UNLISTEN")
  BY <1>2, CommandSteps
<1>4. o.name \in Names /\ 15 \in Channels
  BY <1>2 DEF Operations, Channels
<1> HIDE DEF s
<1>5. ASSUME NEW i \in 1 .. 5, At(s, i), NEW e, s[i] = e, e # Send
      PROVE  Offering(s, i, e)
  <2>1. i # Len(s) + 1
    BY <1>3
  <2> QED
    BY <1>3, <1>5, <2>1, Zenon DEF Offering
<1>6. ASSUME NEW i, Moved(s, i), HostTyped', Device',
             \/ i = 2 /\ Called'
             \/ i = 3 /\ Naming(15, <<>>)'
             \/ i = 4 /\ Naming(15, <<"S">>)'
             \/ i = 5 /\ Naming(15, <<"S", o.name>>)'
      PROVE  ServerInv'
  <2>1. op' = o /\ KindIn({"PRINT15"})' /\ Quiet' /\ Fresh' /\ At(Script(op), i)'
    BY <1>1, <1>2, <1>6, MovedTo DEF s
  <2>2. Naming(15, <<"S", o.name>>)' => Naming(15, <<"S", op.name>>)'
    BY <2>1 DEF Naming
  <2>3. Printing15'
    BY <1>6, <2>1, <2>2, Zenon DEF Printing15
  <2> QED
    BY <1>6, <2>3, Zenon DEF ServerInv, Situation
<1>7. 1 + 1 = 2 /\ 2 + 1 = 3 /\ 3 + 1 = 4 /\ 4 + 1 = 5
  OBVIOUS
<1>8. CASE At(s, 1) /\ Idle
  <2>1. Offering(s, 1, Command("LISTEN"))
    BY <1>3, <1>5, <1>8, CodesAre
  <2>2. /\ Moved(s, 1 + 1) /\ HostTyped' /\ Device'
        /\ Within("IDLE", IF "LISTEN" \in {"LISTEN", "TALK"} THEN "LISTEN" ELSE None)'
    BY <1>8, <2>1, IdleServes
  <2>3. Called'
    BY <2>2 DEF Called, Within
  <2> QED
    BY <1>6, <1>7, <2>2, <2>3
<1>9. CASE At(s, 2) /\ Called
  <2>1. Offering(s, 2, Second("SECOND", 15))
    BY <1>3, <1>5, <1>9, CodesAre
  <2>2. Moved(s, 2 + 1) /\ HostTyped' /\ Device' /\ Naming(15, <<>>)'
    BY <1>4, <1>9, <2>1, CalledOpens
  <2> QED
    BY <1>6, <1>7, <2>2
<1>10. CASE At(s, 3) /\ Naming(15, <<>>)
  <2>1. Offering(s, 3, Recv("S"))
    BY <1>3, <1>5, <1>10, CodesAre
  <2>2. Moved(s, 3 + 1) /\ HostTyped' /\ Device' /\ Naming(15, Append(<<>>, "S"))'
    BY <1>4, <1>10, <2>1, NamesPart
  <2>3. Append(<<>>, "S") = <<"S">>
    OBVIOUS
  <2>4. Naming(15, <<"S">>)'
    BY <2>2, <2>3 DEF Naming
  <2> QED
    BY <1>6, <1>7, <2>2, <2>4
<1>11. CASE At(s, 4) /\ Naming(15, <<"S">>)
  <2>1. Offering(s, 4, Recv(o.name))
    BY <1>3, <1>5, <1>11, CodesAre
  <2>2. Moved(s, 4 + 1) /\ HostTyped' /\ Device' /\ Naming(15, Append(<<"S">>, o.name))'
    BY <1>4, <1>11, <2>1, NamesPart
  <2>3. Append(<<"S">>, o.name) = <<"S", o.name>>
    BY TwoParts
  <2>4. Naming(15, <<"S", o.name>>)'
    BY <2>2, <2>3 DEF Naming
  <2> QED
    BY <1>6, <1>7, <2>2, <2>4
<1>12. CASE At(s, 5) /\ Naming(15, <<"S", o.name>>)
  <2>1. Offering(s, 5, Command("UNLISTEN"))
    BY <1>3, <1>5, <1>12, CodesAre
  <2>2. Moved(s, 5 + 1) /\ HostTyped' /\ Trimmed /\ FinaliseOpenState
    BY <1>12, <2>1, NamesAll
  <2>3. Device' /\ Idle'
    BY <1>4, <1>12, <2>2, NamesCommand
  <2>4. Done'
    BY <1>3, <2>2, MovedOff
  <2>5. op' = o /\ Quiet'
    BY <1>1, <1>2, <2>2, MovedTo
  <2> QED
    BY <1>2, <2>2, <2>3, <2>4, <2>5, CommandsOver
<1> QED
  BY <1>2, <1>8, <1>9, <1>10, <1>11, <1>12

-----------------------------------------------------------------------------
(* Reads. *)

(* LOAD's first two reads are the ones that are not repeated.                *)
Early == op.kind = "LOAD" /\ Len(got) < 2

(* What LOAD and the others take for an end.                                 *)
Ends == IF op.kind = "LOAD" THEN {STATUS_EOI} ELSE {STATUS_EOI, STATUS_SEND}

(* The host at a read.                                                       *)
LEMMA ReadPlace ==
  ASSUME HostTyped, KindIn({"LOAD", "DIRECTORY", "READ", "DS"}), ReadAt
  PROVE  /\ ~Done /\ Head(todo) = Send /\ Reading
         /\ Len(todo) = IF Early THEN 3 - Len(got) ELSE 1
         /\ Len(got) \in Nat /\ (Repeating <=> ~Early)
         /\ Early => Tail(todo) = SubSeq(Script(op), 8 + Len(got), 9) /\ Len(Script(op)) = 9
<1> DEFINE s == Script(op)
           n == Len(s)
<1>1. op \in Operations /\ op.kind \in {"LOAD", "DIRECTORY", "READ", "DS"}
  BY DEF KindIn
<1>2. /\ s \in Seq(Steps) /\ n \in {3, 7, 9} /\ (op.kind = "LOAD" => n = 9)
      /\ \A i \in 7 .. n : s[i] = Send
      /\ n = 3 => s[3] = Send
  <2>1. CASE op.kind = "DS"
    BY <1>1, <2>1, AskingSteps
  <2>2. CASE op.kind # "DS"
    <3>1. op.kind \in {"LOAD", "DIRECTORY", "READ"}
      BY <1>1, <2>2
    <3> QED
      BY <1>1, <3>1, OpeningSteps
  <2> QED
    BY <2>1, <2>2
<1>3. Len(got) \in Nat
  BY LenProperties DEF HostTyped
<1>4. CASE Early
  <2>0. n = 9 /\ n - 2 + Len(got) = 7 + Len(got)
    <3>1. n = 9
      BY <1>2, <1>4, Zenon DEF Early
    <3> HIDE DEF n
    <3> QED
      BY <1>3, <3>1
  <2>1. At(s, 7 + Len(got)) /\ n = 9
    <3>1. At(s, n - 2 + Len(got))
      BY <1>4, Zenon DEF ReadAt, Early
    <3> QED
      BY <2>0, <3>1 DEF At
  <2>2. 7 + Len(got) # n + 1 /\ 7 + Len(got) \in 7 .. n
    BY <1>3, <1>4, <2>1 DEF Early
  <2> HIDE DEF s
  <2>3. /\ ~Done /\ Head(todo) = s[7 + Len(got)]
        /\ Tail(todo) = SubSeq(s, 7 + Len(got) + 1, Len(s))
        /\ Len(todo) = Len(s) - (7 + Len(got)) + 1
    BY <1>2, <2>1, <2>2, Position
  <2>4. Len(s) = 9
    BY <2>1
  <2>5. Len(todo) = 3 - Len(got) /\ 7 + Len(got) + 1 = 8 + Len(got) /\ 3 - Len(got) # 1
    BY <1>3, <1>4, <2>3, <2>4 DEF Early
  <2>6. Head(todo) = Send
    BY <1>2, <2>2, <2>3
  <2> QED
    BY <1>3, <1>4, <2>3, <2>4, <2>5, <2>6 DEF Reading, Repeating, s
<1>5. CASE ~Early
  <2>1. At(s, n)
    BY <1>5, Zenon DEF ReadAt, Early
  <2>2. n # Len(s) + 1 /\ s[n] = Send
    <3>1. n # Len(s) + 1
      BY <1>2
    <3> HIDE DEF s, n
    <3>2. n \in {7, 9} => n \in 7 .. n
      OBVIOUS
    <3>3. s[n] = Send
      BY <1>2, <3>2, Zenon
    <3> QED
      BY <3>1, <3>3
  <2>3. ~Done /\ Head(todo) = s[n] /\ Len(todo) = Len(s) - n + 1
    BY <1>2, <2>1, <2>2, Position
  <2>4. Len(todo) = 1
    BY <1>2, <2>3 DEF s
  <2> QED
    BY <1>3, <1>5, <2>2, <2>3, <2>4 DEF Reading, Repeating
<1> QED
  BY <1>4, <1>5

(* A read is answered: the host gives up on the file, reads on or is done    *)
(* (AfterStatus(), Reply()).                                                 *)
LEMMA ReplyReads ==
  ASSUME HostTyped, KindIn({"LOAD", "DIRECTORY", "READ", "DS"}), ReadAt, NEW o, o = op,
         NEW b \in Bytes, NEW status \in {STATUS_OK, STATUS_SEND, STATUS_EOI}, Reply(b, status)
  PROVE  /\ HostTyped' /\ op' = o /\ UNCHANGED <<stopped, want, owed>> /\ pause' = "none"
         /\ got' = Append(got, b) /\ got' # <<>> /\ Len(got') = Len(got) + 1
         /\ told' = told \cup ({status} \ {STATUS_OK})
         /\ Early /\ ~(got = <<>> /\ status = STATUS_SEND) => ReadAt'
         /\ Early /\ got = <<>> /\ status = STATUS_SEND => Done'
         /\ ~Early /\ told' \cap Ends = {} => ReadAt'
         /\ ~Early /\ told' \cap Ends # {} => At(AfterReads(op), 1)'
<1>1. /\ Reading /\ Len(todo) = (IF Early THEN 3 - Len(got) ELSE 1) /\ Len(got) \in Nat
      /\ (Repeating <=> ~Early)
      /\ Early => Tail(todo) = SubSeq(Script(op), 8 + Len(got), 9) /\ Len(Script(op)) = 9
  BY ReadPlace
<1>2. /\ op' = o /\ UNCHANGED <<stopped, want, owed>> /\ pause' = "none"
      /\ got' = Append(got, b) /\ told' = told \cup ({status} \ {STATUS_OK})
      /\ todo' = AfterStatus(status)
  BY <1>1 DEF Reply
<1>3. got' \in Seq(Bytes) /\ got' # <<>> /\ Len(got') = Len(got) + 1
  <2>1. got \in Seq(Bytes)
    BY DEF HostTyped
  <2> QED
    BY <1>2, <2>1, AppendProperties
<1>4. HostTyped'
  BY <1>2, <1>3 DEF HostTyped, STATUS_OK, STATUS_SEND, STATUS_EOI, STATUS_RECV
<1>5. (got = <<>> <=> Len(got) = 0) /\ o \in Operations
  BY EmptySeq DEF HostTyped, KindIn
<1>6. ASSUME Early, ~(got = <<>> /\ status = STATUS_SEND)
      PROVE  ReadAt'
  <2>1. todo' = Tail(todo)
    <3>1. ~(Len(todo) = 3 /\ status = STATUS_SEND)
      BY <1>1, <1>5, <1>6
    <3> QED
      BY <1>1, <1>2, <1>6, <3>1, Zenon DEF AfterStatus
  <2>2. o.kind = "LOAD" /\ Len(got) \in {0, 1}
    <3>1. \A k \in Nat : k < 2 => k \in {0, 1}
      OBVIOUS
    <3> QED
      BY <1>1, <1>6, <3>1, Zenon DEF Early
  <2>3. todo' = SubSeq(Script(o), 7 + Len(got'), 9) /\ Len(Script(o)) = 9
    <3>1. 7 + Len(got') = 8 + Len(got)
      BY <1>1, <1>3
    <3> QED
      BY <1>1, <1>6, <2>1, <3>1
  <2>4. At(Script(op), 7 + Len(got))'
    <3>0. \A k \in {0, 1} : 7 + (k + 1) \in 1 .. 9 + 1
      OBVIOUS
    <3>1. 7 + Len(got') \in 1 .. 9 + 1
      BY <1>3, <2>2, <3>0, Zenon
    <3> QED
      BY <1>2, <2>3, <3>1, Zenon DEF At
  <2>5. CASE Len(got') < 2
    <3>1. Len(Script(op')) - 2 + Len(got') = 7 + Len(got')
      BY <1>1, <1>2, <1>3, <2>3
    <3> QED
      BY <1>2, <2>2, <2>4, <2>5, <3>1 DEF ReadAt
  <2>6. CASE ~(Len(got') < 2)
    <3>1. Len(got') = 2 /\ Len(Script(op')) = 7 + Len(got')
      BY <1>2, <1>3, <2>2, <2>3, <2>6
    <3> QED
      BY <2>4, <2>6, <3>1 DEF ReadAt
  <2> QED
    BY <2>5, <2>6
<1>7. ASSUME Early, got = <<>>, status = STATUS_SEND
      PROVE  Done'
  BY <1>1, <1>2, <1>5, <1>7 DEF AfterStatus, Done
<1>8. (told \cup {status}) \cap Ends # {} <=> told' \cap Ends # {}
  BY <1>2 DEF Ends, STATUS_OK, STATUS_SEND, STATUS_EOI
<1>9. ASSUME ~Early, told' \cap Ends = {}
      PROVE  ReadAt'
  <2>1. todo' = todo
    BY <1>1, <1>2, <1>8, <1>9 DEF AfterStatus, Ends
  <2>2. At(Script(o), Len(Script(o)))
    BY <1>9 DEF ReadAt, Early
  <2>3. At(Script(op), Len(Script(op)))'
    BY <1>2, <2>1, <2>2 DEF At
  <2>4. ~(op'.kind = "LOAD" /\ Len(got') < 2)
    BY <1>1, <1>2, <1>3, <1>9 DEF Early
  <2> QED
    BY <2>3, <2>4 DEF ReadAt
<1>10. ASSUME ~Early, told' \cap Ends # {}
       PROVE  At(AfterReads(op), 1)'
  <2>1. todo' = AfterReads(o)
    BY <1>1, <1>2, <1>8, <1>10 DEF AfterStatus, Ends
  <2>2. AfterReads(o) \in Seq(Steps)
    <3>1. o \in Operations /\ o.kind \in {"LOAD", "DIRECTORY", "READ", "DS"}
      BY DEF KindIn
    <3> QED
      BY <3>1, ClosingSteps
  <2>3. SubSeq(AfterReads(o), 1, Len(AfterReads(o))) = AfterReads(o)
         /\ Len(AfterReads(o)) \in Nat
    BY <2>2, SubSeqFull, LenProperties
  <2> QED
    BY <1>2, <2>1, <2>3 DEF At
<1> QED
  BY <1>2, <1>3, <1>4, <1>6, <1>7, <1>9, <1>10

(* A device that loads answers a read with a byte or a failure.              *)
LEMMA LoadServes ==
  ASSUME Serve, Within("LOAD", None), Head(todo) = Send
  PROVE  (LoadByte \/ LoadFails) /\ Trimmed
<1>1. Head(todo).code = CODE_SEND
  BY CodesAre
<1>2. LoadByte \/ LoadFails \/ HandleTransferBusCommand
  BY ServerAssumption
     DEF Serve, Within, HandleIdleCommand, DiscardIdleByte, DropIdleSend,
     HandleListenSecondary, HandleTalkSecondary, AppendCommandByte, FinaliseOpenState,
     DirectoryByte, SaveByte, RejectByte, SaveCommand, DropSaveSecond, GiveUp, TimeOut
<1>3. ~HandleTransferBusCommand
  BY <1>1 DEF HandleTransferBusCommand, Offers, CODE_SEND, CODE_COMMAND
<1> QED
  BY <1>2, <1>3 DEF Serve, Trimmed

(* A device that lists answers with a line, or gives up while it waits.      *)
LEMMA DirServes ==
  ASSUME Serve, Within("DIR", None), Head(todo) = Send, ~Done
  PROVE  (DirectoryByte \/ (GiveUp /\ pause = "on")) /\ Trimmed
<1>1. Head(todo).code = CODE_SEND
  BY CodesAre
<1>2. DirectoryByte \/ GiveUp \/ HandleTransferBusCommand
  BY ServerAssumption
     DEF Serve, Within, HandleIdleCommand, DiscardIdleByte, DropIdleSend,
     HandleListenSecondary, HandleTalkSecondary, AppendCommandByte, FinaliseOpenState,
     LoadByte, LoadFails, SaveByte, RejectByte, SaveCommand, DropSaveSecond, TimeOut
<1>3. ~HandleTransferBusCommand
  BY <1>1 DEF HandleTransferBusCommand, Offers, CODE_SEND, CODE_COMMAND
<1> QED
  BY <1>2, <1>3 DEF Serve, Trimmed, GiveUp

(* The operations that read.                                                 *)
ReadKinds == {"LOAD", "DIRECTORY", "READ", "DS"}

(* An end: all has been read, or a failure is told.  LOAD may go on reading. *)
LEMMA EndsRead ==
  ASSUME HostTyped, KindIn(ReadKinds), ReadAt, told = {}, owed = None, stopped = FALSE,
         NEW b \in Bytes, NEW status \in {STATUS_SEND, STATUS_EOI}, Reply(b, status),
         Device', Idle',
         status = STATUS_EOI => got' = want',
         status = STATUS_SEND => op.kind \in {"LOAD", "READ"} /\ Failed'
  PROVE  ServerInv'
<1>1. PICK o : o = op
  OBVIOUS
<1>2. o \in Operations /\ o.kind \in ReadKinds /\ Len(got) \in Nat
  BY <1>1, ReadPlace DEF KindIn, ReadKinds
<1>3. /\ HostTyped' /\ op' = o /\ UNCHANGED <<stopped, want, owed>> /\ pause' = "none"
      /\ got' = Append(got, b) /\ got' # <<>> /\ Len(got') = Len(got) + 1
      /\ told' = told \cup ({status} \ {STATUS_OK})
      /\ Early /\ ~(got = <<>> /\ status = STATUS_SEND) => ReadAt'
      /\ Early /\ got = <<>> /\ status = STATUS_SEND => Done'
      /\ ~Early /\ told' \cap Ends = {} => ReadAt'
      /\ ~Early /\ told' \cap Ends # {} => At(AfterReads(op), 1)'
  BY <1>1, ReplyReads DEF ReadKinds
<1>4. told' = {status} /\ stopped' = FALSE /\ owed' = None
  BY <1>3 DEF STATUS_OK, STATUS_SEND, STATUS_EOI
<1>5. Quiet'
  BY <1>3, <1>4 DEF Quiet
<1>6. Verdict'
  <2>1. CASE status = STATUS_EOI
    BY <1>2, <1>3, <1>4, <2>1 DEF Verdict, ReadKinds, STATUS_RECV, STATUS_SEND, STATUS_EOI
  <2>2. CASE status = STATUS_SEND
    BY <1>2, <1>3, <1>4, <2>2 DEF Verdict, ReadKinds, STATUS_RECV, STATUS_SEND, STATUS_EOI
  <2> QED
    BY <2>1, <2>2
<1>7. ASSUME Done' PROVE ServerInv'
  <2>1. Over'
    BY <1>5, <1>6, <1>7, Zenon DEF Over
  <2> QED
    BY <1>3, <2>1, Zenon DEF ServerInv, Situation
<1>8. ASSUME At(AfterReads(op), 1)' PROVE ServerInv'
  <2>1. KindIn({"LOAD", "READ", "DIRECTORY", "DS"})'
    BY <1>2, <1>3 DEF KindIn, ReadKinds
  <2>2. Closing'
    BY <1>5, <1>6, <1>8, <2>1, Zenon DEF Closing
  <2> QED
    BY <1>3, <2>2, Zenon DEF ServerInv, Situation
<1>9. ASSUME ReadAt', o.kind = "LOAD", status = STATUS_SEND \/ Len(got) < 2
      PROVE  ServerInv'
  <2>1. KindIn({"LOAD"})'
    BY <1>2, <1>3, <1>9 DEF KindIn
  <2>2. \/ told' = {STATUS_EOI} /\ Len(got') <= 2
        \/ told' = {STATUS_SEND} /\ Failed'
    <3>1. CASE status = STATUS_SEND
      BY <1>4, <3>1
    <3>2. CASE status # STATUS_SEND
      <4>1. \A k \in Nat : k < 2 => k + 1 <= 2
        OBVIOUS
      <4>2. Len(got') <= 2
        BY <1>2, <1>3, <1>9, <3>2, <4>1, Zenon
      <4> QED
        BY <1>4, <3>2, <4>2
    <3> QED
      BY <3>1, <3>2
  <2>3. ReadingOn'
    BY <1>3, <1>4, <1>9, <2>1, <2>2, Zenon DEF ReadingOn
  <2> QED
    BY <1>3, <2>3, Zenon DEF ServerInv, Situation
<1>10. CASE Early
  <2>1. o.kind = "LOAD" /\ Len(got) < 2
    BY <1>1, <1>10 DEF Early
  <2> QED
    BY <1>3, <1>7, <1>9, <1>10, <2>1
<1>11. CASE ~Early
  <2>1. CASE told' \cap Ends = {}
    <3>1. o.kind = "LOAD" /\ status = STATUS_SEND
      BY <1>1, <1>4, <2>1 DEF Ends
    <3> QED
      BY <1>3, <1>9, <1>11, <2>1, <3>1
  <2>2. CASE told' \cap Ends # {}
    BY <1>3, <1>8, <1>11, <2>2
  <2> QED
    BY <2>1, <2>2
<1> QED
  BY <1>10, <1>11

(* All has been read.                                                        *)
LEMMA EndsWell ==
  ASSUME HostTyped, KindIn(ReadKinds), ReadAt, told = {}, owed = None, stopped = FALSE,
         NEW b \in Bytes, Reply(b, STATUS_EOI), Device', Idle', got' = want'
  PROVE  ServerInv'
<1>1. STATUS_EOI \in {STATUS_SEND, STATUS_EOI} /\ STATUS_EOI # STATUS_SEND
  BY DEF STATUS_EOI, STATUS_SEND
<1> QED
  BY <1>1, EndsRead

(* A failure is told.                                                        *)
LEMMA EndsBadly ==
  ASSUME HostTyped, KindIn({"LOAD", "READ"}), ReadAt, told = {}, owed = None, stopped = FALSE,
         NEW b \in Bytes, Reply(b, STATUS_SEND), Device', Idle', Failed'
  PROVE  ServerInv'
<1>1. STATUS_SEND \in {STATUS_SEND, STATUS_EOI} /\ STATUS_EOI # STATUS_SEND
  BY DEF STATUS_EOI, STATUS_SEND
<1>2. KindIn(ReadKinds) /\ op.kind \in {"LOAD", "READ"}
  BY DEF KindIn, ReadKinds
<1> QED
  BY <1>1, <1>2, EndsRead

(* A byte that is no end: the host reads on.                                 *)
LEMMA ReadsOn ==
  ASSUME HostTyped, KindIn(ReadKinds), ReadAt, told = {},
         NEW b \in Bytes, Reply(b, STATUS_OK)
  PROVE  /\ HostTyped' /\ UNCHANGED <<op, told, stopped, want, owed>> /\ pause' = "none"
         /\ got' = Append(got, b) /\ Len(got') = Len(got) + 1 /\ ReadAt'
<1>1. PICK o : o = op
  OBVIOUS
<1>2. /\ HostTyped' /\ op' = o /\ UNCHANGED <<stopped, want, owed>> /\ pause' = "none"
      /\ got' = Append(got, b) /\ Len(got') = Len(got) + 1
      /\ told' = told \cup ({STATUS_OK} \ {STATUS_OK})
      /\ Early /\ ~(got = <<>> /\ STATUS_OK = STATUS_SEND) => ReadAt'
      /\ ~Early /\ told' \cap Ends = {} => ReadAt'
  BY <1>1, ReplyReads DEF ReadKinds
<1>3. told' = {} /\ STATUS_OK # STATUS_SEND
  BY <1>2 DEF STATUS_OK, STATUS_SEND
<1> QED
  BY <1>1, <1>2, <1>3

(* A file is read.                                                           *)
LEMMA LoadingServed ==
  ASSUME HostTyped, Device, Loading, Serve
  PROVE  ServerInv'
<1>1. PICK o : o = op
  OBVIOUS
<1>2. PICK c : c = ChannelOf(o)
  OBVIOUS
<1> DEFINE ch == channels[c]
<1>3. /\ o \in Operations /\ o.kind \in {"LOAD", "READ"} /\ NameOf(o) \in Names /\ ReadAt
      /\ Within("LOAD", None) /\ secondaryAddress = c /\ ch.open
      /\ told = {} /\ stopped = FALSE /\ owed = None
      /\ c \in Channels /\ c # 1
  BY <1>1, <1>2 DEF Loading, KindIn, ChannelOf, Channels
<1>4. IF ch.data = <<>>
      THEN got = <<>> /\ want = (IF o.kind = "READ" THEN <<"CR">> ELSE <<>>)
      ELSE got \o ch.data = want
  BY <1>1, <1>2 DEF Loading
<1>5. KindIn(ReadKinds) /\ KindIn({"LOAD", "DIRECTORY", "READ", "DS"})
  BY <1>1, <1>3 DEF KindIn, ReadKinds
<1>6. ~Done /\ Head(todo) = Send
  BY <1>3, <1>5, ReadPlace
<1>7. (LoadByte \/ LoadFails) /\ Trimmed
  BY <1>3, <1>6, LoadServes
<1>8. ch.data \in Seq(Data) /\ got \in Seq(Bytes) /\ Data \subseteq Bytes /\ "CR" \in Bytes
  BY <1>3 DEF Device, DeviceTyped, Channel, HostTyped, Bytes, Tokens
<1>9. CASE LoadByte
  <2>1. /\ Device' /\ UNCHANGED <<card, errorMessage, secondaryAddress>>
        /\ ch.data # <<>>
        /\ Reply(Head(ch.data), IF Len(ch.data) = 1 THEN STATUS_EOI ELSE STATUS_OK)
        /\ Len(ch.data) = 1 => Idle'
        /\ Len(ch.data) # 1 => /\ Within("LOAD", None)' /\ channels'[c].open
                               /\ channels'[c].data = Tail(ch.data)
    BY <1>3, <1>7, <1>9, LoadsByte
  <2>2. PICK b : b = Head(ch.data)
    OBVIOUS
  <2>3. b \in Bytes /\ ch.data \in Seq(Bytes)
    <3>1. b \in Data
      BY <1>8, <2>1, <2>2, HeadTailProperties
    <3> QED
      BY <1>8, <3>1, SeqMonotonic
  <2>4. /\ Append(got, b) \o Tail(ch.data) = want
        /\ Len(ch.data) = 1 => Append(got, b) = want
    <3>1. \A p, q \in Seq(Bytes) : q # <<>> =>
            /\ Append(p, Head(q)) \o Tail(q) = p \o q
            /\ Len(q) = 1 => Append(p, Head(q)) = p \o q
      BY OneOver
    <3>2. got \o ch.data = want
      BY <1>4, <2>1
    <3> QED
      BY <1>8, <2>1, <2>2, <2>3, <3>1, <3>2, Zenon
  <2>5. CASE Len(ch.data) = 1
    <3>1. Reply(b, STATUS_EOI) /\ Device' /\ Idle'
      BY <2>1, <2>2, <2>5, Zenon
    <3>2. got' = want'
      <4>1. got' = Append(got, b) /\ want' = want
        BY <1>6, <3>1 DEF Reply, Reading
      <4> QED
        BY <2>4, <2>5, <4>1
    <3> QED
      BY <1>3, <1>5, <2>3, <3>1, <3>2, EndsWell
  <2>6. CASE Len(ch.data) # 1
    <3>1. Reply(b, STATUS_OK)
      BY <2>1, <2>2, <2>6, Zenon
    <3>2. /\ HostTyped' /\ UNCHANGED <<op, told, stopped, want, owed>> /\ pause' = "none"
          /\ got' = Append(got, b) /\ ReadAt'
      BY <1>3, <1>5, <2>3, <3>1, ReadsOn
    <3>3. channels'[c].data # <<>>
      <4>1. Len(ch.data) # 0 /\ Len(ch.data) \in Nat
        BY <1>8, <2>1, EmptySeq, LenProperties
      <4>2. Len(Tail(ch.data)) = Len(ch.data) - 1
        BY <1>8, <2>1, HeadTailProperties
      <4>3. Len(Tail(ch.data)) # 0
        BY <2>6, <4>1, <4>2
      <4>4. Len(<<>>) = 0
        OBVIOUS
      <4> QED
        BY <2>1, <2>6, <4>3, <4>4
    <3>4. KindIn({"LOAD", "READ"})' /\ NameOf(op)' \in Names /\ ChannelOf(op)' = c
      BY <1>1, <1>2, <1>3, <3>2 DEF KindIn
    <3>5. Paused'
      BY <3>2 DEF Paused
    <3>6. got' \o channels'[c].data = want'
      BY <2>1, <2>4, <2>6, <3>2
    <3>7. secondaryAddress' = c /\ told' = {} /\ stopped' = FALSE /\ owed' = None
      BY <1>3, <2>1, <3>2
    <3>8. Loading'
      BY <2>1, <2>6, <3>2, <3>3, <3>4, <3>5, <3>6, <3>7, Zenon DEF Loading
    <3> QED
      BY <2>1, <3>2, <3>8, Zenon DEF ServerInv, Situation
  <2> QED
    BY <2>5, <2>6
<1>10. CASE LoadFails
  <2>1. /\ Device' /\ Idle' /\ UNCHANGED card
        /\ \/ ch.data = <<>> /\ Reply("CR", STATUS_EOI)
           \/ Reply("CR", STATUS_SEND) /\ errorMessage' = "74"
    BY <1>3, <1>7, <1>10, FailsLoad
  <2>2. CASE ch.data = <<>> /\ Reply("CR", STATUS_EOI) /\ o.kind = "READ"
    <3>1. got' = want'
      <4>1. got' = Append(got, "CR") /\ want' = want
        BY <1>6, <2>2 DEF Reply, Reading
      <4>2. Append(<<>>, "CR") = <<"CR">>
        OBVIOUS
      <4> QED
        BY <1>4, <2>2, <4>1, <4>2
    <3> QED
      BY <1>3, <1>5, <1>8, <2>1, <2>2, <3>1, EndsWell
  <2>3. CASE ch.data = <<>> /\ Reply("CR", STATUS_EOI) /\ o.kind = "LOAD"
    <3>1. got = <<>> /\ Early /\ Len(got) = 0
      BY <1>1, <1>4, <2>3 DEF Early
    <3>2. /\ HostTyped' /\ op' = o /\ UNCHANGED <<stopped, want, owed>> /\ pause' = "none"
          /\ got' # <<>> /\ Len(got') = Len(got) + 1
          /\ told' = told \cup ({STATUS_EOI} \ {STATUS_OK})
          /\ Early /\ ~(got = <<>> /\ STATUS_EOI = STATUS_SEND) => ReadAt'
      BY <1>1, <1>3, <1>5, <1>8, <2>3, ReplyReads
    <3>3. told' = {STATUS_EOI} /\ Len(got') <= 2 /\ ReadAt'
      BY <1>3, <3>1, <3>2 DEF STATUS_EOI, STATUS_SEND, STATUS_OK
    <3>4. KindIn({"LOAD"})' /\ stopped' = FALSE /\ owed' = None
      BY <1>3, <2>3, <3>2 DEF KindIn
    <3>5. ReadingOn'
      BY <2>1, <3>2, <3>3, <3>4, Zenon DEF ReadingOn
    <3> QED
      BY <2>1, <3>2, <3>5, Zenon DEF ServerInv, Situation
  <2>4. CASE Reply("CR", STATUS_SEND) /\ errorMessage' = "74"
    <3>1. Failed'
      BY <2>4 DEF Failed, Errors
    <3>2. KindIn({"LOAD", "READ"})
      BY <1>1, <1>3 DEF KindIn
    <3> QED
      BY <1>3, <1>8, <2>1, <2>4, <3>1, <3>2, EndsBadly
  <2> QED
    BY <1>3, <2>1, <2>2, <2>3, <2>4
<1> QED
  BY <1>7, <1>9, <1>10

(* There is no such file: the host is told so.                               *)
LEMMA MissingServed ==
  ASSUME HostTyped, Device, Missing, Serve
  PROVE  ServerInv'
<1>1. PICK c : c = ChannelOf(op)
  OBVIOUS
<1>2. /\ op \in Operations /\ op.kind \in {"LOAD", "READ"} /\ ReadAt
      /\ Within("LOAD", None) /\ secondaryAddress = c /\ ~channels[c].open
      /\ told = {} /\ stopped = FALSE /\ owed = None /\ errorMessage = "62"
      /\ c \in Channels /\ c # 1
  BY <1>1 DEF Missing, KindIn, ChannelOf, Channels
<1>3. KindIn({"LOAD", "READ"}) /\ KindIn({"LOAD", "DIRECTORY", "READ", "DS"})
  BY <1>2 DEF KindIn
<1>4. ~Done /\ Head(todo) = Send
  BY <1>2, <1>3, ReadPlace
<1>5. (LoadByte \/ LoadFails) /\ Trimmed
  BY <1>2, <1>4, LoadServes
<1>6. ~LoadByte
  BY <1>2 DEF LoadByte
<1>7. Device' /\ Idle' /\ Reply("CR", STATUS_SEND) /\ UNCHANGED errorMessage
  BY <1>2, <1>5, <1>6, FailsLoad
<1>8. Failed' /\ "CR" \in Bytes
  BY <1>2, <1>7 DEF Failed, Errors, Bytes, Tokens
<1> QED
  BY <1>2, <1>3, <1>7, <1>8, EndsBadly

(* LOAD reads on after an end: it is not answered.                           *)
LEMMA ReadingOnServed ==
  ASSUME HostTyped, Device, ReadingOn, Serve
  PROVE  ServerInv'
<1>1. KindIn({"LOAD", "DIRECTORY", "READ", "DS"})
  BY DEF ReadingOn, KindIn
<1>2. Head(todo) = Send /\ Idle
  BY <1>1, ReadPlace DEF ReadingOn
<1>3. /\ Idle' /\ Device' /\ owed' = CODE_SEND
      /\ UNCHANGED <<host, secondaryAddress, channels, errorMessage, card>>
  BY <1>2, IdleDrops
<1>4. UNCHANGED <<op, todo, pause, got, told, stopped, want>>
  BY <1>3 DEF host
<1>5. HostTyped'
  BY <1>4 DEF HostTyped
<1>6. ReadAt' /\ Failed' = Failed /\ KindIn({"LOAD"})' = KindIn({"LOAD"})
  BY <1>3, <1>4 DEF ReadAt, At, Failed, KindIn, ReadingOn
<1>7. ReadingOn'
  BY <1>3, <1>4, <1>6 DEF ReadingOn
<1> QED
  BY <1>3, <1>5, <1>7, Zenon DEF ServerInv, Situation

(* A listing that the device gave up is not answered either.                 *)
LEMMA GivenUpServed ==
  ASSUME HostTyped, Device, GivenUp, Serve
  PROVE  ServerInv'
<1>1. KindIn({"LOAD", "DIRECTORY", "READ", "DS"})
  BY DEF GivenUp, KindIn
<1>2. Head(todo) = Send /\ Idle
  BY <1>1, ReadPlace DEF GivenUp
<1>3. /\ Idle' /\ Device' /\ owed' = CODE_SEND /\ pause # "on"
      /\ UNCHANGED <<host, secondaryAddress, channels, errorMessage, card>>
  BY <1>2, IdleDrops
<1>4. UNCHANGED <<op, todo, pause, got, told, stopped, want>>
  BY <1>3 DEF host
<1>5. HostTyped'
  BY <1>4 DEF HostTyped
<1>6. ReadAt' /\ KindIn({"DIRECTORY"})' /\ pause' = "over"
  BY <1>3, <1>4 DEF ReadAt, At, KindIn, GivenUp
<1>7. GivenUp'
  BY <1>3, <1>4, <1>6 DEF GivenUp
<1> QED
  BY <1>3, <1>5, <1>7, Zenon DEF ServerInv, Situation

(* A listing, or the error message, is read.                                 *)
LEMMA ListedServed ==
  ASSUME HostTyped, Device, Listed, Serve
  PROVE  ServerInv'
<1>1. PICK o : o = op
  OBVIOUS
<1>2. PICK c : c = ChannelOf(o)
  OBVIOUS
<1>3. PICK k : k = channels[c].sent
  OBVIOUS
<1>4. /\ o \in Operations /\ o.kind \in {"LOAD", "DIRECTORY", "DS"} /\ ReadAt
      /\ Within("DIR", None) /\ secondaryAddress = c
      /\ channels[c].buffer = want /\ want \in Seq(Bytes)
      /\ k = Len(got) /\ k < Len(want) /\ got = SubSeq(want, 1, k)
      /\ told = {} /\ stopped = FALSE /\ owed = None
      /\ pause # "none" => o.kind = "DIRECTORY"
      /\ c \in Channels /\ c # 1
  BY <1>1, <1>2, <1>3 DEF Listed, KindIn, ChannelOf, Channels
<1>5. KindIn(ReadKinds) /\ KindIn({"LOAD", "DIRECTORY", "READ", "DS"})
  BY <1>1, <1>4 DEF KindIn, ReadKinds
<1>6. ~Done /\ Head(todo) = Send /\ k \in Nat /\ Reading
  BY <1>4, <1>5, ReadPlace
<1>7. (DirectoryByte \/ (GiveUp /\ pause = "on")) /\ Trimmed
  BY <1>4, <1>6, DirServes
<1>8. CASE DirectoryByte
  <2>1. PICK b : b = want[k + 1]
    OBVIOUS
  <2>2. Len(want) \in Nat /\ b \in Bytes
    <3>1. Len(want) \in Nat
      BY <1>4, LenProperties
    <3>2. k + 1 \in 1 .. Len(want)
      BY <1>4, <1>6, <3>1
    <3> QED
      BY <1>4, <2>1, <3>1, <3>2, ElementOfSeq
  <2>3. SubSeq(want, 1, k + 1) = Append(got, b)
    BY <1>4, <1>6, <2>1, OneMore
  <2>4. /\ Device' /\ UNCHANGED <<card, errorMessage, secondaryAddress>>
        /\ Reply(IF k < Len(want) THEN want[k + 1] ELSE "CR",
                 IF k + 1 >= Len(want) THEN STATUS_EOI ELSE STATUS_OK)
        /\ k + 1 >= Len(want) => Idle'
        /\ ~(k + 1 >= Len(want)) => /\ Within("DIR", None)' /\ channels'[c].buffer = want
                                    /\ channels'[c].sent = k + 1
    <3>1. /\ Device' /\ UNCHANGED <<card, errorMessage, secondaryAddress>>
          /\ Reply(IF channels[c].sent < Len(channels[c].buffer)
                   THEN channels[c].buffer[channels[c].sent + 1] ELSE "CR",
                   IF channels[c].sent + 1 >= Len(channels[c].buffer)
                   THEN STATUS_EOI ELSE STATUS_OK)
          /\ channels[c].sent + 1 >= Len(channels[c].buffer) => Idle'
          /\ ~(channels[c].sent + 1 >= Len(channels[c].buffer)) =>
               /\ Within("DIR", None)' /\ channels'[c].buffer = channels[c].buffer
               /\ channels'[c].sent = channels[c].sent + 1
      BY <1>4, <1>7, <1>8, ListsByte, Zenon
    <3> QED
      BY <1>3, <1>4, <3>1, Zenon
  <2>5. CASE k + 1 >= Len(want)
    <3>1. Reply(b, STATUS_EOI) /\ Idle'
      BY <1>4, <2>1, <2>4, <2>5, Zenon
    <3>2. k + 1 = Len(want)
      <4>1. \A m, n \in Nat : m < n /\ m + 1 >= n => m + 1 = n
        OBVIOUS
      <4> QED
        BY <1>4, <1>6, <2>2, <2>5, <4>1, Zenon
    <3>3. SubSeq(want, 1, k + 1) = want
      BY <1>4, <3>2, SubSeqFull
    <3>4. got' = Append(got, b) /\ want' = want
      BY <1>6, <3>1 DEF Reply
    <3>5. got' = want'
      BY <2>3, <3>3, <3>4
    <3> QED
      BY <1>4, <1>5, <2>2, <2>4, <3>1, <3>5, EndsWell
  <2>6. CASE ~(k + 1 >= Len(want))
    <3>1. Reply(b, STATUS_OK)
      BY <1>4, <2>1, <2>4, <2>6, Zenon
    <3>2. /\ HostTyped' /\ UNCHANGED <<op, told, stopped, want, owed>> /\ pause' = "none"
          /\ got' = Append(got, b) /\ Len(got') = Len(got) + 1 /\ ReadAt'
      BY <1>4, <1>5, <2>2, <3>1, ReadsOn
    <3>3. got' = SubSeq(want', 1, k + 1) /\ k + 1 = Len(got') /\ k + 1 < Len(want')
      <4>1. got' = SubSeq(want', 1, k + 1) /\ k + 1 = Len(got')
        BY <1>4, <2>3, <3>2, Zenon
      <4>2. k + 1 < Len(want)
        BY <1>6, <2>2, <2>6
      <4> QED
        BY <3>2, <4>1, <4>2
    <3>4. KindIn({"LOAD", "DIRECTORY", "DS"})' /\ ChannelOf(op)' = c
      BY <1>1, <1>2, <1>4, <3>2 DEF KindIn
    <3>5. /\ Within("DIR", None)' /\ secondaryAddress' = c /\ channels'[c].buffer = want'
          /\ channels'[c].sent = k + 1 /\ want' \in Seq(Bytes)
          /\ told' = {} /\ stopped' = FALSE /\ owed' = None
      BY <1>4, <2>4, <2>6, <3>2
    <3>6. Listed'
      BY <3>2, <3>3, <3>4, <3>5 DEF Listed
    <3> QED
      BY <2>4, <3>2, <3>6, Zenon DEF ServerInv, Situation
  <2> QED
    BY <2>5, <2>6
<1>9. CASE GiveUp /\ pause = "on"
  <2>1. /\ ResetStateMachine /\ UNCHANGED <<errorMessage, card>> /\ UNCHANGED host
        /\ owed' = owed
    BY <1>9 DEF GiveUp
  <2>2. tcbmState \notin {"LOAD", "SAVE"}
    BY <1>4 DEF Within
  <2>3. Device' /\ Idle'
    BY <1>7, <2>1, <2>2, StartsAfresh
  <2>4. UNCHANGED <<op, todo, pause, got, told, stopped, want>>
    BY <2>1 DEF host
  <2>5. HostTyped' /\ ReadAt'
    BY <1>4, <2>4 DEF HostTyped, ReadAt, At
  <2>6. KindIn({"DIRECTORY"})'
    BY <1>1, <1>4, <1>9, <2>4 DEF KindIn
  <2>7. GivenUp'
    BY <1>4, <1>9, <2>1, <2>3, <2>4, <2>5, <2>6, ServerAssumption DEF GivenUp, CODE_SEND
  <2> QED
    BY <2>3, <2>5, <2>7, Zenon DEF ServerInv, Situation
<1> QED
  BY <1>7, <1>8, <1>9

(* The host ends a read before its last byte (HandleTransferBusCommand).     *)
LEMMA CutOff ==
  ASSUME HostTyped, Device, Serve, tcbmState \in {"LOAD", "DIR"}, expects = None,
         pause = "none", NEW c \in Channels, c # 1, secondaryAddress = c,
         NEW s, NEW i, NEW b, Offering(s, i, Command(b))
  PROVE  /\ Moved(s, i + 1) /\ HostTyped' /\ Device'
         /\ UNCHANGED <<secondaryAddress, card, errorMessage>>
         /\ b \in {"LISTEN", "TALK"} => expects' = b /\ tcbmState' = tcbmState
         /\ b \notin {"LISTEN", "TALK"} => Idle'
<1>1. Head(todo) = Command(b) /\ Byte = b /\ ~Done
  BY Offered, CodesAre
<1>2. Head(todo).code = CODE_COMMAND
  BY <1>1, CodesAre
<1>3. HandleTransferBusCommand
  <2>1. ~Offers(CODE_SECOND) /\ ~Offers(CODE_SEND)
    BY <1>2 DEF Offers, CODE_COMMAND, CODE_SECOND, CODE_SEND
  <2>2. ~GiveUp /\ ~TimeOut
    BY <1>1 DEF GiveUp, TimeOut
  <2> QED
    BY <2>1, <2>2 DEF Serve, HandleIdleCommand, DiscardIdleByte, DropIdleSend,
       HandleListenSecondary, HandleTalkSecondary, AppendCommandByte, FinaliseOpenState,
       LoadByte, LoadFails, DirectoryByte, SaveByte, RejectByte, SaveCommand, DropSaveSecond
<1>4. Served
  BY <1>3 DEF HandleTransferBusCommand
<1>5. Trimmed
  BY DEF Serve, Trimmed
<1>6. Moved(s, i + 1) /\ HostTyped'
  BY <1>4, Advances
<1> QED
  BY <1>1, <1>3, <1>5, <1>6, CutsShort

(* What is said of an operation stays true while nothing it is about changes. *)
LEMMA VerdictKept ==
  ASSUME Verdict, UNCHANGED <<op, got, told, stopped, want, errorMessage, card>>
  PROVE  Verdict'
  BY DEF Verdict, Failed

(* Nothing is left to do, and the device is idle.                            *)
LEMMA EndsThere ==
  ASSUME HostTyped', Device', Idle', Quiet', Done', Verdict'
  PROVE  ServerInv'
<1>1. Over'
  BY Zenon DEF Over
<1> QED
  BY <1>1, Zenon DEF ServerInv, Situation

(* The end of a read: UNTALK, and CLOSE where there was an OPEN.             *)
LEMMA ClosingServed ==
  ASSUME HostTyped, Device, Closing, Serve
  PROVE  ServerInv'
<1>1. PICK o : o = op
  OBVIOUS
<1> DEFINE s == AfterReads(o)
           c == ChannelOf(o)
<1>2. /\ o \in Operations /\ o.kind \in {"LOAD", "READ", "DIRECTORY", "DS"} /\ Verdict
      /\ KindIn({"LOAD", "READ", "DIRECTORY", "DS"}) /\ owed = None /\ pause = "none"
      /\ \/ At(s, 1) /\ Idle
         \/ At(s, 1) /\ Within("DIR", None) /\ secondaryAddress = 0
              /\ o.kind = "DIRECTORY" /\ stopped = TRUE
         \/ o.kind # "DS" /\ At(s, 2) /\ Idle
         \/ o.kind # "DS" /\ At(s, 3) /\ Called
         \/ o.kind # "DS" /\ At(s, 4) /\ Idle
  BY <1>1 DEF Closing, KindIn, Quiet
<1>3. /\ s \in Seq(Steps) /\ Len(s) = (IF o.kind = "DS" THEN 1 ELSE 4)
      /\ s[1] = Command("UNTALK")
      /\ o.kind # "DS" => /\ s[2] = Command("LISTEN") /\ s[3] = Second("CLOSE", c)
                          /\ s[4] = Command("UNLISTEN")
  BY <1>2, ClosingSteps
<1>4. c \in Channels /\ c # 1
  BY <1>2 DEF ChannelOf, Channels
<1> HIDE DEF s, c
<1>5. ASSUME NEW i \in 1 .. 4, i = 1 \/ o.kind # "DS", At(s, i), NEW e, s[i] = e, e # Send
      PROVE  Offering(s, i, e)
  <2>1. i # Len(s) + 1
    BY <1>3, <1>5
  <2> QED
    BY <1>3, <1>5, <2>1, Zenon DEF Offering
<1>6. ASSUME NEW i, Moved(s, i), HostTyped', Device', UNCHANGED <<card, errorMessage>>
      PROVE  /\ Verdict' /\ Quiet' /\ KindIn({"LOAD", "READ", "DIRECTORY", "DS"})'
             /\ op' = o /\ At(AfterReads(op), i)'
  <2>1. /\ op' = o /\ UNCHANGED <<got, told, stopped, want>> /\ Quiet'
        /\ KindIn({"LOAD", "READ", "DIRECTORY", "DS"})' /\ At(AfterReads(op), i)'
    BY <1>1, <1>2, <1>6, MovedTo DEF s
  <2> QED
    BY <1>1, <1>2, <1>6, <2>1, VerdictKept
<1>7. ASSUME NEW i, Moved(s, i), HostTyped', Device', UNCHANGED <<card, errorMessage>>,
             o.kind # "DS",
             (i = 2 /\ Idle') \/ (i = 3 /\ Called') \/ (i = 4 /\ Idle')
      PROVE  ServerInv'
  <2>1. Closing'
    BY <1>6, <1>7, Zenon DEF Closing
  <2> QED
    BY <1>7, <2>1, Zenon DEF ServerInv, Situation
<1>8. ASSUME NEW i, Moved(s, i), HostTyped', Device', UNCHANGED <<card, errorMessage>>,
             Idle', i = Len(s) + 1
      PROVE  ServerInv'
  <2>1. Done'
    BY <1>3, <1>8, MovedOff
  <2> QED
    BY <1>6, <1>8, <2>1, EndsThere
<1>9. 1 + 1 = 2 /\ 2 + 1 = 3 /\ 3 + 1 = 4
  OBVIOUS
<1>10. CASE At(s, 1) /\ (Idle \/ (Within("DIR", None) /\ secondaryAddress = 0))
  <2>1. Offering(s, 1, Command("UNTALK"))
    BY <1>3, <1>5, <1>10, CodesAre
  <2>2. /\ Moved(s, 1 + 1) /\ HostTyped' /\ Device' /\ Idle'
        /\ UNCHANGED <<card, errorMessage>>
    <3>1. CASE Idle
      <4>1. /\ Moved(s, 1 + 1) /\ HostTyped' /\ Device' /\ UNCHANGED <<card, errorMessage>>
            /\ Within("IDLE", IF "UNTALK" \in {"LISTEN", "TALK"} THEN "UNTALK" ELSE None)'
        BY <2>1, <3>1, IdleServes
      <4> QED
        BY <4>1 DEF Idle, Within
    <3>2. CASE Within("DIR", None) /\ secondaryAddress = 0
      <4>1. 0 \in Channels /\ 0 # 1
        BY DEF Channels
      <4>2. /\ tcbmState \in {"LOAD", "DIR"} /\ expects = None
            /\ "UNTALK" \notin {"LISTEN", "TALK"}
        BY <3>2 DEF Within
      <4> QED
        BY <1>2, <2>1, <3>2, <4>1, <4>2, CutOff
    <3> QED
      BY <1>10, <3>1, <3>2
  <2>3. CASE o.kind = "DS"
    BY <1>3, <1>8, <2>2, <2>3
  <2>4. CASE o.kind # "DS"
    <3>1. Moved(s, 2)
      BY <1>9, <2>2
    <3> QED
      BY <1>7, <2>2, <2>4, <3>1, Zenon
  <2> QED
    BY <2>3, <2>4
<1>11. CASE o.kind # "DS" /\ At(s, 2) /\ Idle
  <2>1. Offering(s, 2, Command("LISTEN"))
    BY <1>3, <1>5, <1>11, CodesAre
  <2>2. /\ Moved(s, 2 + 1) /\ HostTyped' /\ Device' /\ UNCHANGED <<card, errorMessage>>
        /\ Within("IDLE", IF "LISTEN" \in {"LISTEN", "TALK"} THEN "LISTEN" ELSE None)'
    BY <1>11, <2>1, IdleServes
  <2>3. Called'
    BY <2>2 DEF Called, Within
  <2>4. Moved(s, 3)
    BY <1>9, <2>2
  <2> QED
    BY <1>7, <1>11, <2>2, <2>3, <2>4, Zenon
<1>12. CASE o.kind # "DS" /\ At(s, 3) /\ Called
  <2>1. Offering(s, 3, Second("CLOSE", c))
    BY <1>3, <1>5, <1>12, CodesAre
  <2>2. /\ Moved(s, 3 + 1) /\ HostTyped' /\ Device' /\ Idle' /\ UNCHANGED <<card, errorMessage>>
    BY <1>4, <1>12, <2>1, CalledCloses DEF Called, Within
  <2>3. Moved(s, 4)
    BY <1>9, <2>2
  <2> QED
    BY <1>7, <1>12, <2>2, <2>3
<1>13. CASE o.kind # "DS" /\ At(s, 4) /\ Idle
  <2>1. Offering(s, 4, Command("UNLISTEN"))
    BY <1>3, <1>5, <1>13, CodesAre
  <2>2. /\ Moved(s, 4 + 1) /\ HostTyped' /\ Device' /\ UNCHANGED <<card, errorMessage>>
        /\ Within("IDLE", IF "UNLISTEN" \in {"LISTEN", "TALK"} THEN "UNLISTEN" ELSE None)'
    BY <1>13, <2>1, IdleServes
  <2>3. Idle'
    BY <2>2 DEF Idle, Within
  <2> QED
    BY <1>3, <1>8, <1>13, <2>2, <2>3
<1> QED
  BY <1>2, <1>10, <1>11, <1>12, <1>13

(* A stopped LOAD: its CLOSE finds the device reading out still, or idle.    *)
LEMMA LoadStoppedServed ==
  ASSUME HostTyped, Device, LoadStopped, Serve
  PROVE  ServerInv'
<1>1. PICK o : o = op
  OBVIOUS
<1> DEFINE s == CloseScript(0)
<1>2. /\ KindIn({"LOAD"}) /\ stopped = TRUE /\ owed = None /\ pause = "none"
      /\ \/ At(s, 1) /\ Idle
         \/ At(s, 1) /\ tcbmState \in {"LOAD", "DIR"} /\ expects = None /\ secondaryAddress = 0
         \/ At(s, 2) /\ Called
         \/ At(s, 2) /\ tcbmState \in {"LOAD", "DIR"} /\ expects = "LISTEN"
              /\ secondaryAddress = 0
         \/ At(s, 3) /\ Idle
  BY <1>1 DEF LoadStopped, Quiet
<1>3. 0 \in Channels /\ 0 # 1
  BY DEF Channels
<1>4. /\ s \in Seq(Steps) /\ Len(s) = 3 /\ s[1] = Command("LISTEN")
      /\ s[2] = Second("CLOSE", 0) /\ s[3] = Command("UNLISTEN")
  BY <1>3, CloseSteps
<1> HIDE DEF s
<1>5. ASSUME NEW i \in 1 .. 3, At(s, i), NEW e, s[i] = e, e # Send
      PROVE  Offering(s, i, e)
  <2>1. i # Len(s) + 1
    BY <1>4
  <2> QED
    BY <1>4, <1>5, <2>1, Zenon DEF Offering
<1>6. ASSUME NEW i, Moved(s, i)
      PROVE  KindIn({"LOAD"})' /\ stopped' = TRUE /\ Quiet' /\ At(CloseScript(0), i)'
  BY <1>1, <1>2, <1>6, MovedTo DEF s
<1>7. ASSUME NEW i, Moved(s, i), HostTyped', Device',
             \/ i = 2 /\ Called'
             \/ i = 2 /\ tcbmState' \in {"LOAD", "DIR"} /\ expects' = "LISTEN"
                  /\ secondaryAddress' = 0
             \/ i = 3 /\ Idle'
      PROVE  ServerInv'
  <2>1. LoadStopped'
    BY <1>6, <1>7, Zenon DEF LoadStopped
  <2> QED
    BY <1>7, <2>1, Zenon DEF ServerInv, Situation
<1>8. 1 + 1 = 2 /\ 2 + 1 = 3 /\ 3 + 1 = 4
  OBVIOUS
<1>9. CASE At(s, 1) /\ Idle
  <2>1. Offering(s, 1, Command("LISTEN"))
    BY <1>4, <1>5, <1>9, CodesAre
  <2>2. /\ Moved(s, 1 + 1) /\ HostTyped' /\ Device'
        /\ Within("IDLE", IF "LISTEN" \in {"LISTEN", "TALK"} THEN "LISTEN" ELSE None)'
    BY <1>9, <2>1, IdleServes
  <2>3. Called'
    BY <2>2 DEF Called, Within
  <2>4. Moved(s, 2)
    BY <1>8, <2>2
  <2> QED
    BY <1>7, <2>2, <2>3, <2>4
<1>10. CASE /\ At(s, 1) /\ tcbmState \in {"LOAD", "DIR"} /\ expects = None
            /\ secondaryAddress = 0
  <2>1. Offering(s, 1, Command("LISTEN"))
    BY <1>4, <1>5, <1>10, CodesAre
  <2>2. /\ Moved(s, 1 + 1) /\ HostTyped' /\ Device' /\ UNCHANGED secondaryAddress
        /\ expects' = "LISTEN" /\ tcbmState' = tcbmState
    BY <1>2, <1>3, <1>10, <2>1, CutOff
  <2>3. Moved(s, 2)
    BY <1>8, <2>2
  <2> QED
    BY <1>7, <1>10, <2>2, <2>3
<1>11. CASE At(s, 2) /\ expects = "LISTEN" /\ tcbmState \in {"IDLE", "LOAD", "DIR"}
              /\ (tcbmState # "IDLE" => secondaryAddress = 0)
  <2>1. Offering(s, 2, Second("CLOSE", 0))
    BY <1>4, <1>5, <1>11, CodesAre
  <2>2. Moved(s, 2 + 1) /\ HostTyped' /\ Device' /\ Idle'
    BY <1>3, <1>11, <2>1, CalledCloses
  <2>3. Moved(s, 3)
    BY <1>8, <2>2
  <2> QED
    BY <1>7, <2>2, <2>3
<1>12. CASE At(s, 3) /\ Idle
  <2>1. Offering(s, 3, Command("UNLISTEN"))
    BY <1>4, <1>5, <1>12, CodesAre
  <2>2. /\ Moved(s, 3 + 1) /\ HostTyped' /\ Device'
        /\ Within("IDLE", IF "UNLISTEN" \in {"LISTEN", "TALK"} THEN "UNLISTEN" ELSE None)'
    BY <1>12, <2>1, IdleServes
  <2>3. Idle'
    BY <2>2 DEF Idle, Within
  <2>4. Done'
    BY <1>4, <2>2, MovedOff
  <2>5. Quiet' /\ Verdict'
    BY <1>6, <2>2 DEF Verdict
  <2> QED
    BY <2>2, <2>3, <2>4, <2>5, EndsThere
<1> QED
  BY <1>2, <1>9, <1>10, <1>11, <1>12 DEF Called, Within

(* While a file is written the device serves the byte at hand, or the        *)
(* command.                                                                  *)
LEMMA SaveServes ==
  ASSUME Serve, Within("SAVE", None), owed = None, pause = "none",
         NEW s, NEW i, NEW e, Offering(s, i, e)
  PROVE  /\ Trimmed
         /\ \A b : e = Command(b) => SaveCommand /\ Byte = b
         /\ \A b : e = Recv(b) => (SaveByte \/ RejectByte) /\ Byte = b
         /\ \A k, c : e = Second(k, c) => DropSaveSecond
<1>1. Head(todo) = e /\ Byte = e.byte /\ ~Done
  BY Offered
<1>2. SaveByte \/ RejectByte \/ SaveCommand \/ DropSaveSecond
  <2>1. ~GiveUp /\ ~TimeOut
    BY <1>1, ServerAssumption DEF GiveUp, TimeOut, CODE_SECOND
  <2> QED
    BY <2>1, ServerAssumption DEF Serve, Within, HandleIdleCommand, DiscardIdleByte, DropIdleSend,
       HandleListenSecondary, HandleTalkSecondary, AppendCommandByte, FinaliseOpenState,
       LoadByte, LoadFails, DirectoryByte, HandleTransferBusCommand
<1>3. ASSUME NEW b, e = Command(b) PROVE SaveCommand /\ Byte = b
  <2>1. e.code = CODE_COMMAND /\ e.byte = b
    BY <1>3, CodesAre
  <2> QED
    BY <1>1, <1>2, <2>1 DEF SaveByte, RejectByte, DropSaveSecond, Offers, CODE_COMMAND,
       CODE_SECOND, CODE_RECV
<1>4. ASSUME NEW b, e = Recv(b) PROVE (SaveByte \/ RejectByte) /\ Byte = b
  <2>1. e.code = CODE_RECV /\ e.byte = b
    BY <1>4, CodesAre
  <2> QED
    BY <1>1, <1>2, <2>1 DEF SaveCommand, DropSaveSecond, Offers, CODE_COMMAND,
       CODE_SECOND, CODE_RECV
<1>5. ASSUME NEW k, NEW c, e = Second(k, c) PROVE DropSaveSecond
  <2>1. e.code = CODE_SECOND
    BY <1>5, CodesAre
  <2> QED
    BY <1>1, <1>2, <2>1 DEF SaveByte, RejectByte, SaveCommand, Offers, CODE_COMMAND,
       CODE_SECOND, CODE_RECV
<1>6. Trimmed
  BY DEF Serve, Trimmed
<1> QED
  BY <1>3, <1>4, <1>5, <1>6

(* A byte for a file that could not be opened: the host is told              *)
(* (RejectByte).                                                             *)
LEMMA Rejects ==
  ASSUME HostTyped, Device, Trimmed, RejectByte, NEW s, NEW i, NEW b,
         Offering(s, i, Recv(b))
  PROVE  /\ todo' = SubSeq(s, i + 1, Len(s)) /\ i + 1 \in 1 .. Len(s) + 1 /\ HostTyped'
         /\ Device' /\ Idle' /\ told' = told \cup {STATUS_RECV} /\ pause' = "none"
         /\ UNCHANGED <<op, stopped, want, owed, got, channels, errorMessage, card>>
<1>1. Head(todo) = Recv(b) /\ i + 1 \in 1 .. Len(s) + 1
  BY Offered
<1>2. ~Reading
  BY <1>1, CodesAre DEF Reading
<1>3. /\ Reply(None, STATUS_RECV) /\ Passive /\ ~channels[secondaryAddress].open
      /\ UNCHANGED <<secondaryAddress, channels, errorMessage, card>>
  BY DEF RejectByte
<1>4. STATUS_RECV # STATUS_OK
  BY DEF STATUS_RECV, STATUS_OK
<1>5. todo' = Tail(todo)
  BY <1>2, <1>3 DEF Reply, AfterStatus, Repeating
<1>6. Tail(todo) = SubSeq(s, i + 1, Len(s))
  BY Position, Zenon DEF Offering
<1>7. /\ told' = told \cup {STATUS_RECV} /\ got' = got /\ pause' = "none"
      /\ UNCHANGED <<op, stopped, want, owed>>
  <2>1. {STATUS_RECV} \ {STATUS_OK} = {STATUS_RECV}
    BY <1>4
  <2> QED
    BY <1>2, <1>3, <2>1 DEF Reply
<1>8. HostTyped'
  BY <1>7 DEF HostTyped
<1>9. Device'
  BY <1>3, NoChannel DEF Device, DeviceTyped
<1>10. Idle'
  BY <1>3 DEF Passive, Idle, Within
<1> QED
  BY <1>1, <1>3, <1>5, <1>6, <1>7, <1>8, <1>9, <1>10

(* A file is written, byte by byte.                                          *)
LEMMA SavingServed ==
  ASSUME HostTyped, Device, Saving, Serve
  PROVE  ServerInv'
<1>1. PICK o : o = op
  OBVIOUS
<1> DEFINE s == Script(o)
           n == Len(o.data)
<1>2. /\ o \in Operations /\ o.kind = "SAVE" /\ stopped = FALSE /\ owed = None
      /\ pause = "none" /\ KindIn({"SAVE"})
  BY <1>1 DEF Saving, KindIn, Quiet
<1>3. /\ s \in Seq(Steps) /\ Len(s) = n + 10
      /\ \A i \in 1 .. n : s[6 + i] = Recv(o.data[i])
      /\ s[7 + n] = Command("UNLISTEN")
  BY <1>2, SavingSteps
<1>4. o.data \in Seq(Data) /\ n \in Nat /\ n >= 3
  BY <1>2, SavedData
<1>5. PICK k \in 0 .. n :
        /\ At(s, 7 + k)
        /\ \/ Within("SAVE", None) /\ secondaryAddress = 1 /\ Kept(k)
           \/ Within("SAVE", None) /\ secondaryAddress = 1 /\ k = 0
                /\ ~channels[1].open /\ told = {} /\ Failed
           \/ Idle /\ ~channels[1].open /\ told = {STATUS_RECV} /\ Failed
  BY <1>1 DEF Saving
<1> HIDE DEF s, n
<1>6. k < n => Offering(s, 7 + k, Recv(o.data[k + 1])) /\ o.data[k + 1] \in Data
  <2> SUFFICES ASSUME k < n PROVE Offering(s, 7 + k, Recv(o.data[k + 1])) /\ o.data[k + 1] \in Data
    OBVIOUS
  <2>1. k + 1 \in 1 .. n /\ 6 + (k + 1) = 7 + k /\ 7 + k # Len(s) + 1
    BY <1>3, <1>4
  <2>2. s[7 + k] = Recv(o.data[k + 1])
    BY <1>3, <2>1
  <2>3. o.data[k + 1] \in Data
    BY <1>4, <2>1, ElementOfSeq DEF n
  <2> QED
    BY <1>3, <1>5, <2>1, <2>2, <2>3, CodesAre, Zenon DEF Offering
<1>7. k = n => Offering(s, 7 + n, Command("UNLISTEN"))
  <2>1. 7 + n # Len(s) + 1
    BY <1>3, <1>4
  <2> QED
    BY <1>3, <1>5, <2>1, CodesAre, Zenon DEF Offering
<1>8. ASSUME NEW j \in 0 .. n, At(s, 7 + j)', op' = o, HostTyped', Device', stopped' = FALSE,
             Quiet',
             \/ Within("SAVE", None)' /\ secondaryAddress' = 1 /\ Kept(j)'
             \/ Idle' /\ ~channels'[1].open /\ told' = {STATUS_RECV} /\ Failed'
      PROVE  ServerInv'
  <2>1. KindIn({"SAVE"})'
    BY <1>2, <1>8 DEF KindIn
  <2>2. At(Script(op), 7 + j)' /\ j \in 0 .. Len(op'.data)
    BY <1>8 DEF s, n
  <2>3. Saving'
    BY <1>8, <2>1, <2>2 DEF Saving
  <2> QED
    BY <1>8, <2>3, Zenon DEF ServerInv, Situation
<1>9. ASSUME NEW i, Moved(s, i), HostTyped'
      PROVE  /\ op' = o /\ UNCHANGED <<got, told, stopped, want, owed>> /\ Quiet' /\ At(s, i)'
             /\ stopped' = FALSE
  <2>1. At(s, i)'
    BY <1>9 DEF Moved, At
  <2> QED
    BY <1>1, <1>2, <1>9, <2>1, MovedTo DEF s
<1>10. ASSUME Moved(s, 7 + n + 1), HostTyped', Device', Idle', ~channels'[1].open, Verdict'
       PROVE  ServerInv'
  <2>1. 7 + n + 1 = 8 + n
    BY <1>4
  <2>2. At(s, 8 + n)' /\ op' = o /\ stopped' = FALSE /\ Quiet'
    BY <1>9, <1>10, <2>1
  <2>3. KindIn({"SAVE"})' /\ At(Script(op), 8 + Len(op.data))'
    BY <1>2, <2>2 DEF KindIn, s, n
  <2>4. Saved'
    BY <1>10, <2>2, <2>3 DEF Saved
  <2> QED
    BY <1>10, <2>4, Zenon DEF ServerInv, Situation
<1>11. k < n => k + 1 \in 0 .. n /\ 7 + k + 1 = 7 + (k + 1)
  BY <1>4
<1>12. CASE Within("SAVE", None) /\ secondaryAddress = 1 /\ Kept(k) /\ k < n
  <2>1. (SaveByte \/ RejectByte) /\ Trimmed /\ Byte = o.data[k + 1]
    BY <1>2, <1>6, <1>12, SaveServes
  <2>2. channels[1].open /\ channels[1].writing /\ card[channels[1].file] # None /\ told = {}
        /\ channels[1].data \o channels[1].buffer = SubSeq(o.data, 1, k)
    BY <1>1, <1>12 DEF Kept
  <2>3. SaveByte
    BY <1>12, <2>1, <2>2 DEF RejectByte
  <2>4. Served
    BY <2>3 DEF SaveByte
  <2>5. Moved(s, 7 + k + 1) /\ HostTyped'
    BY <1>6, <1>12, <2>4, Advances
  <2>6. /\ Device' /\ Within("SAVE", None)'
        /\ UNCHANGED <<secondaryAddress, card, errorMessage>>
        /\ channels'[1].open /\ channels'[1].writing /\ channels'[1].file = channels[1].file
        /\ channels'[1].data \o channels'[1].buffer
             = Append(channels[1].data \o channels[1].buffer, o.data[k + 1])
    BY <1>6, <1>12, <2>1, <2>2, <2>3, SavesByte
  <2>7. SubSeq(o.data, 1, k + 1) = Append(SubSeq(o.data, 1, k), o.data[k + 1])
    BY <1>4, <1>12, OneMore DEF n
  <2>8. /\ op' = o /\ told' = told /\ Quiet' /\ At(s, 7 + k + 1)' /\ stopped' = FALSE
    BY <1>9, <2>5
  <2>9. channels'[1].data \o channels'[1].buffer = SubSeq(op'.data, 1, k + 1)
    BY <2>2, <2>6, <2>7, <2>8, Zenon
  <2>10. Kept(k + 1)'
    BY <2>2, <2>6, <2>8, <2>9 DEF Kept
  <2> QED
    BY <1>8, <1>11, <1>12, <2>5, <2>6, <2>8, <2>10
<1>13. CASE Within("SAVE", None) /\ secondaryAddress = 1 /\ Kept(k) /\ k = n
  <2>1. SaveCommand /\ Trimmed /\ Byte = "UNLISTEN"
    BY <1>2, <1>7, <1>13, SaveServes
  <2>2. channels[1].open /\ channels[1].writing /\ card[channels[1].file] # None
        /\ channels[1].data \o channels[1].buffer = SubSeq(o.data, 1, n)
    BY <1>1, <1>13 DEF Kept
  <2>3. Served
    BY <2>1 DEF SaveCommand
  <2>4. Moved(s, 7 + n + 1) /\ HostTyped'
    BY <1>7, <1>13, <2>3, Advances
  <2>5. /\ Device' /\ Idle' /\ errorMessage' = errorMessage /\ ~channels'[1].open
        /\ card'[channels[1].file] = channels[1].data \o channels[1].buffer
    BY <1>13, <2>1, <2>2, SavesLast
  <2>6. SubSeq(o.data, 1, n) = o.data
    BY <1>4, SubSeqFull DEF n
  <2>7. channels[1].file \in Names
    BY <2>2 DEF Device, Writers, Channels
  <2>8. op' = o /\ told' = told /\ stopped' = FALSE
    BY <1>9, <2>4
  <2>9. told = {}
    BY <1>13 DEF Kept
  <2>10. Verdict'
    <3>1. \E m \in Names : card'[m] = op'.data
      BY <2>2, <2>5, <2>6, <2>7, <2>8
    <3> QED
      BY <1>2, <2>8, <2>9, <3>1 DEF Verdict
  <2> QED
    BY <1>10, <2>4, <2>5, <2>10
<1>14. CASE Within("SAVE", None) /\ secondaryAddress = 1 /\ k = 0
            /\ ~channels[1].open /\ told = {} /\ Failed
  <2>1. k < n
    BY <1>4, <1>14
  <2>2. (SaveByte \/ RejectByte) /\ Trimmed
    BY <1>2, <1>6, <1>14, <2>1, SaveServes
  <2>3. RejectByte
    BY <1>14, <2>2 DEF SaveByte
  <2>4. /\ todo' = SubSeq(s, 7 + k + 1, Len(s)) /\ 7 + k + 1 \in 1 .. Len(s) + 1 /\ HostTyped'
        /\ Device' /\ Idle' /\ told' = told \cup {STATUS_RECV} /\ pause' = "none"
        /\ UNCHANGED <<op, stopped, want, owed, got, channels, errorMessage, card>>
    BY <1>6, <2>1, <2>2, <2>3, Rejects
  <2>5. At(s, 7 + (k + 1))'
    BY <1>11, <2>1, <2>4 DEF At
  <2>6. Quiet' /\ op' = o /\ stopped' = FALSE /\ Failed' /\ told' = {STATUS_RECV}
        /\ ~channels'[1].open
    BY <1>1, <1>2, <1>14, <2>4 DEF Quiet, Failed
  <2> QED
    BY <1>8, <1>11, <2>1, <2>4, <2>5, <2>6
<1>15. CASE Idle /\ ~channels[1].open /\ told = {STATUS_RECV} /\ Failed /\ k < n
  <2>1. /\ Moved(s, 7 + k + 1) /\ HostTyped' /\ Device' /\ Idle'
        /\ UNCHANGED <<channels, errorMessage>>
    BY <1>6, <1>15, IdleServes
  <2>2. op' = o /\ told' = told /\ Quiet' /\ At(s, 7 + k + 1)' /\ stopped' = FALSE
    BY <1>9, <2>1
  <2>3. Failed'
    BY <1>15, <2>1 DEF Failed
  <2> QED
    BY <1>8, <1>11, <1>15, <2>1, <2>2, <2>3
<1>16. CASE Idle /\ ~channels[1].open /\ told = {STATUS_RECV} /\ Failed /\ k = n
  <2>1. /\ Moved(s, 7 + n + 1) /\ HostTyped' /\ Device' /\ UNCHANGED <<channels, errorMessage>>
        /\ Within("IDLE", IF "UNLISTEN" \in {"LISTEN", "TALK"} THEN "UNLISTEN" ELSE None)'
    BY <1>7, <1>16, IdleServes
  <2>2. Idle'
    BY <2>1 DEF Idle, Within
  <2>3. op' = o /\ told' = told
    BY <1>9, <2>1
  <2>4. Verdict'
    BY <1>2, <1>16, <2>1, <2>3 DEF Verdict, Failed
  <2> QED
    BY <1>10, <1>16, <2>1, <2>2, <2>4
<1> QED
  BY <1>4, <1>5, <1>12, <1>13, <1>14, <1>15, <1>16

(* A file was written, or was not taken: SAVE closes its channel.            *)
LEMMA SavedServed ==
  ASSUME HostTyped, Device, Saved, Serve
  PROVE  ServerInv'
<1>1. PICK o : o = op
  OBVIOUS
<1> DEFINE s == Script(o)
           n == Len(o.data)
<1>2. /\ o \in Operations /\ o.kind = "SAVE" /\ stopped = FALSE /\ owed = None
      /\ pause = "none" /\ KindIn({"SAVE"}) /\ Verdict /\ ~channels[1].open
      /\ \/ At(s, 8 + n) /\ Idle
         \/ At(s, 9 + n) /\ Called
         \/ At(s, 10 + n) /\ Idle
  BY <1>1 DEF Saved, KindIn, Quiet
<1>3. /\ s \in Seq(Steps) /\ Len(s) = n + 10
      /\ s[8 + n] = Command("LISTEN") /\ s[9 + n] = Second("CLOSE", 1)
      /\ s[10 + n] = Command("UNLISTEN")
  BY <1>2, SavingSteps
<1>4. n \in Nat /\ 1 \in Channels
  BY <1>2, SavedData DEF Channels
<1> HIDE DEF s, n
<1>5. ASSUME NEW i \in 8 + n .. 10 + n, At(s, i), NEW e, s[i] = e, e # Send
      PROVE  Offering(s, i, e)
  <2>1. i # Len(s) + 1
    BY <1>3, <1>4
  <2> QED
    BY <1>3, <1>5, <2>1, Zenon DEF Offering
<1>6. 8 + n + 1 = 9 + n /\ 9 + n + 1 = 10 + n /\ 10 + n + 1 = Len(s) + 1
  BY <1>3, <1>4
<1>7. 8 + n \in 8 + n .. 10 + n /\ 9 + n \in 8 + n .. 10 + n /\ 10 + n \in 8 + n .. 10 + n
  BY <1>4
<1>8. ASSUME NEW i, Moved(s, i), UNCHANGED <<card, errorMessage>>
      PROVE  /\ Verdict' /\ Quiet' /\ KindIn({"SAVE"})' /\ stopped' = FALSE
             /\ op' = o /\ At(Script(op), i)'
  <2>1. /\ op' = o /\ UNCHANGED <<got, told, stopped, want>> /\ Quiet'
        /\ KindIn({"SAVE"})' /\ At(Script(op), i)'
    BY <1>1, <1>2, <1>8, MovedTo DEF s
  <2> QED
    BY <1>1, <1>2, <1>8, <2>1, VerdictKept
<1>9. ASSUME NEW i, Moved(s, i), HostTyped', Device', UNCHANGED <<card, errorMessage>>,
             ~channels'[1].open,
             (i = 9 + n /\ Called') \/ (i = 10 + n /\ Idle')
      PROVE  ServerInv'
  <2>1. /\ Verdict' /\ Quiet' /\ KindIn({"SAVE"})' /\ stopped' = FALSE
        /\ op' = o /\ At(Script(op), i)'
    BY <1>8, <1>9
  <2>2. n = Len(op'.data)
    BY <2>1 DEF n
  <2>3. Saved'
    BY <1>9, <2>1, <2>2, Zenon DEF Saved
  <2> QED
    BY <1>9, <2>3, Zenon DEF ServerInv, Situation
<1>10. CASE At(s, 8 + n) /\ Idle
  <2>1. Offering(s, 8 + n, Command("LISTEN"))
    BY <1>3, <1>5, <1>7, <1>10, CodesAre
  <2>2. /\ Moved(s, 8 + n + 1) /\ HostTyped' /\ Device'
        /\ UNCHANGED <<channels, card, errorMessage>>
        /\ Within("IDLE", IF "LISTEN" \in {"LISTEN", "TALK"} THEN "LISTEN" ELSE None)'
    BY <1>10, <2>1, IdleServes
  <2>3. Called' /\ ~channels'[1].open
    BY <1>2, <2>2 DEF Called, Within
  <2>4. Moved(s, 9 + n)
    BY <1>6, <2>2
  <2> QED
    BY <1>9, <2>2, <2>3, <2>4
<1>11. CASE At(s, 9 + n) /\ Called
  <2>1. Offering(s, 9 + n, Second("CLOSE", 1))
    BY <1>3, <1>5, <1>7, <1>11, CodesAre
  <2>2. /\ Moved(s, 9 + n + 1) /\ HostTyped' /\ Device' /\ Idle' /\ ~channels'[1].open
        /\ UNCHANGED <<card, errorMessage>>
    BY <1>2, <1>4, <1>11, <2>1, CalledCloses DEF Called, Within
  <2>3. Moved(s, 10 + n)
    BY <1>6, <2>2
  <2> QED
    BY <1>9, <2>2, <2>3
<1>12. CASE At(s, 10 + n) /\ Idle
  <2>1. Offering(s, 10 + n, Command("UNLISTEN"))
    BY <1>3, <1>5, <1>7, <1>12, CodesAre
  <2>2. /\ Moved(s, 10 + n + 1) /\ HostTyped' /\ Device' /\ UNCHANGED <<card, errorMessage>>
        /\ Within("IDLE", IF "UNLISTEN" \in {"LISTEN", "TALK"} THEN "UNLISTEN" ELSE None)'
    BY <1>12, <2>1, IdleServes
  <2>3. Idle'
    BY <2>2 DEF Idle, Within
  <2>4. Done'
    BY <1>3, <1>6, <2>2, MovedOff
  <2>5. Quiet' /\ Verdict'
    BY <1>8, <2>2
  <2> QED
    BY <2>2, <2>3, <2>4, <2>5, EndsThere
<1> QED
  BY <1>2, <1>10, <1>11, <1>12

(* A stopped SAVE: what LISTEN and CLOSE are to a device that waits for      *)
(* bytes (SaveCommand, DropSaveSecond, TimeOut).                             *)
LEMMA SaveStoppedServed ==
  ASSUME HostTyped, Device, SaveStopped, Serve
  PROVE  ServerInv'
<1>1. PICK o : o = op
  OBVIOUS
<1> DEFINE s == CloseScript(1)
<1>2. /\ KindIn({"SAVE"}) /\ stopped = TRUE /\ pause = "none"
      /\ channels[1].open => 1 \in stale
      /\ \/ At(s, 1) /\ Idle /\ owed = None
         \/ At(s, 1) /\ Within("SAVE", None) /\ secondaryAddress = 1 /\ owed = None
         \/ At(s, 2) /\ Called /\ owed = None
         \/ At(s, 2) /\ Within("SAVE", None) /\ secondaryAddress = 1
              /\ owed \in {None, CODE_SECOND}
         \/ At(s, 3) /\ Idle /\ owed = None
  BY <1>1 DEF SaveStopped
<1>3. 1 \in Channels
  BY DEF Channels
<1>4. /\ s \in Seq(Steps) /\ Len(s) = 3 /\ s[1] = Command("LISTEN")
      /\ s[2] = Second("CLOSE", 1) /\ s[3] = Command("UNLISTEN")
  BY <1>3, CloseSteps
<1> HIDE DEF s
<1>5. ASSUME NEW i \in 1 .. 3, At(s, i), NEW e, s[i] = e, e # Send
      PROVE  Offering(s, i, e)
  <2>1. i # Len(s) + 1
    BY <1>4
  <2> QED
    BY <1>4, <1>5, <2>1, Zenon DEF Offering
<1>6. Trimmed
  BY DEF Serve, Trimmed
<1>7. ASSUME NEW i, At(s, i)', HostTyped', Device', UNCHANGED <<op, stopped>>, pause' = "none",
             channels'[1].open => channels[1].open,
             \/ i = 2 /\ Called' /\ owed' = None
             \/ i = 2 /\ Within("SAVE", None)' /\ secondaryAddress' = 1
                  /\ owed' \in {None, CODE_SECOND}
             \/ i = 3 /\ Idle' /\ owed' = None
      PROVE  ServerInv'
  <2>1. channels'[1].open => 1 \in stale'
    BY <1>2, <1>6, <1>7 DEF Trimmed
  <2>2. KindIn({"SAVE"})' /\ stopped' = TRUE
    BY <1>2, <1>7 DEF KindIn
  <2>3. At(CloseScript(1), i)'
    BY <1>7 DEF s
  <2>4. SaveStopped'
    BY <1>7, <2>1, <2>2, <2>3, Zenon DEF SaveStopped
  <2> QED
    BY <1>7, <2>4, Zenon DEF ServerInv, Situation
<1>8. ASSUME NEW i, Moved(s, i)
      PROVE  /\ At(s, i)' /\ UNCHANGED <<op, stopped, owed>> /\ pause' = "none"
  BY <1>8 DEF Moved, At
<1>9. 1 + 1 = 2 /\ 2 + 1 = 3 /\ 3 + 1 = 4
  OBVIOUS
<1>10. CASE At(s, 1) /\ Idle /\ owed = None
  <2>1. Offering(s, 1, Command("LISTEN"))
    BY <1>4, <1>5, <1>10, CodesAre
  <2>2. /\ Moved(s, 1 + 1) /\ HostTyped' /\ Device' /\ UNCHANGED channels
        /\ Within("IDLE", IF "LISTEN" \in {"LISTEN", "TALK"} THEN "LISTEN" ELSE None)'
    BY <1>10, <2>1, IdleServes
  <2>3. Called'
    BY <2>2 DEF Called, Within
  <2>4. At(s, 2)' /\ UNCHANGED <<op, stopped, owed>> /\ pause' = "none"
    BY <1>8, <1>9, <2>2
  <2> QED
    BY <1>7, <1>10, <2>2, <2>3, <2>4
<1>11. CASE At(s, 1) /\ Within("SAVE", None) /\ secondaryAddress = 1 /\ owed = None
  <2>1. Offering(s, 1, Command("LISTEN"))
    BY <1>4, <1>5, <1>11, CodesAre
  <2>2. SaveCommand /\ Byte = "LISTEN"
    BY <1>2, <1>11, <2>1, SaveServes
  <2>3. /\ Served
        /\ UNCHANGED <<tcbmState, expects, secondaryAddress, channels, card, errorMessage>>
    BY <2>2 DEF SaveCommand
  <2>4. Moved(s, 1 + 1) /\ HostTyped'
    BY <2>1, <2>3, Advances
  <2>5. Device'
    BY <1>6, <2>3, NoChannel DEF Device, DeviceTyped
  <2>6. Within("SAVE", None)' /\ secondaryAddress' = 1
    BY <1>11, <2>3 DEF Within
  <2>7. At(s, 2)' /\ UNCHANGED <<op, stopped, owed>> /\ pause' = "none"
    BY <1>8, <1>9, <2>4
  <2> QED
    BY <1>7, <1>11, <2>3, <2>4, <2>5, <2>6, <2>7
<1>12. CASE At(s, 2) /\ Called /\ owed = None
  <2>1. Offering(s, 2, Second("CLOSE", 1))
    BY <1>4, <1>5, <1>12, CodesAre
  <2>2. Moved(s, 2 + 1) /\ HostTyped' /\ Device' /\ Idle' /\ ~channels'[1].open
    BY <1>3, <1>12, <2>1, CalledCloses DEF Called, Within
  <2>3. At(s, 3)' /\ UNCHANGED <<op, stopped, owed>> /\ pause' = "none"
    BY <1>8, <1>9, <2>2
  <2> QED
    BY <1>7, <1>12, <2>2, <2>3
<1>13. CASE At(s, 2) /\ Within("SAVE", None) /\ secondaryAddress = 1 /\ owed = None
  <2>1. Offering(s, 2, Second("CLOSE", 1))
    BY <1>4, <1>5, <1>13, CodesAre
  <2>2. DropSaveSecond
    BY <1>2, <1>13, <2>1, SaveServes
  <2>3. Head(todo).code = CODE_SECOND
    BY <2>1, Offered, CodesAre
  <2>4. /\ UNCHANGED <<tcbmState, expects, secondaryAddress, channels, errorMessage, card>>
        /\ UNCHANGED <<op, todo, pause, got, told, stopped, want>> /\ owed' = CODE_SECOND
    BY <2>2, <2>3 DEF DropSaveSecond, Dropped, host
  <2>5. Device'
    BY <1>6, <2>4, NoChannel DEF Device, DeviceTyped
  <2>6. HostTyped' /\ At(s, 2)'
    BY <1>13, <2>4 DEF HostTyped, At
  <2>7. Within("SAVE", None)' /\ secondaryAddress' = 1
    BY <1>13, <2>4 DEF Within
  <2> QED
    BY <1>2, <1>7, <2>4, <2>5, <2>6, <2>7
<1>14. CASE At(s, 2) /\ Within("SAVE", None) /\ secondaryAddress = 1 /\ owed = CODE_SECOND
  <2>1. TimeOut
    <3>1. CODE_SECOND # None
      BY ServerAssumption DEF CODE_SECOND
    <3>2. ~GiveUp /\ \A code : ~Offers(code)
      BY <1>14, <3>1 DEF GiveUp, Offers
    <3> QED
      BY <3>2 DEF Serve, HandleIdleCommand, DiscardIdleByte, DropIdleSend,
         HandleListenSecondary, HandleTalkSecondary, AppendCommandByte, FinaliseOpenState,
         LoadByte, LoadFails, DirectoryByte, HandleTransferBusCommand, SaveByte, RejectByte,
         SaveCommand, DropSaveSecond
  <2>2. /\ ResetStateMachine /\ todo' = Tail(todo) /\ owed' = None
        /\ UNCHANGED <<op, pause, got, told, stopped, want>> /\ UNCHANGED <<errorMessage, card>>
    BY <2>1 DEF TimeOut
  <2>3. Device' /\ Idle' /\ channels'[1].open = channels[1].open
    BY <1>2, <1>3, <1>6, <1>14, <2>2, StartsAfresh
  <2>4. HostTyped'
    BY <2>2 DEF HostTyped
  <2>5. Tail(todo) = SubSeq(s, 2 + 1, Len(s))
    <3>1. 2 # Len(s) + 1
      BY <1>4
    <3> QED
      BY <1>4, <1>14, <3>1, Position, Zenon
  <2>6. At(s, 3)'
    BY <1>4, <2>2, <2>5 DEF At
  <2> QED
    BY <1>2, <1>7, <2>2, <2>3, <2>4, <2>6
<1>15. CASE At(s, 3) /\ Idle /\ owed = None
  <2>1. Offering(s, 3, Command("UNLISTEN"))
    BY <1>4, <1>5, <1>15, CodesAre
  <2>2. /\ Moved(s, 3 + 1) /\ HostTyped' /\ Device'
        /\ Within("IDLE", IF "UNLISTEN" \in {"LISTEN", "TALK"} THEN "UNLISTEN" ELSE None)'
    BY <1>15, <2>1, IdleServes
  <2>3. Idle'
    BY <2>2 DEF Idle, Within
  <2>4. Done'
    BY <1>4, <2>2, MovedOff
  <2>5. Quiet' /\ Verdict'
    BY <1>2, <1>8, <1>15, <2>2 DEF Quiet, Verdict
  <2> QED
    BY <2>2, <2>3, <2>4, <2>5, EndsThere
<1> QED
  BY <1>2, <1>10, <1>11, <1>12, <1>13, <1>14, <1>15

-----------------------------------------------------------------------------
(* Where the host is, in each situation. *)

(* A host at an exchange that is no read.                                    *)
LEMMA Busy ==
  ASSUME NEW s \in Seq(Steps), NEW i \in 1 .. Len(s), At(s, i), s[i] # Send
  PROVE  ~Done /\ Head(todo) # Send /\ Len(todo) = Len(s) - i + 1
<1>1. Len(s) \in Nat /\ i # Len(s) + 1
  BY LenProperties
<1> QED
  BY <1>1, Position

(* It is, while a file is named, ...                                         *)
LEMMA OpeningBusy ==
  ASSUME Opening
  PROVE  ~Done /\ Head(todo) # Send /\ (op.kind = "SAVE" => Len(todo) > Len(op.data) + 1)
<1>1. PICK o : o = op
  OBVIOUS
<1> DEFINE s == Script(o)
<1>2. PICK i \in 1 .. 6 : At(s, i)
  BY <1>1 DEF Opening
<1>3. o \in Operations /\ o.kind \in {"LOAD", "DIRECTORY", "READ", "SAVE"}
  BY <1>1 DEF Opening, KindIn
<1>4. /\ s \in Seq(Steps) /\ Len(s) \in Nat /\ Len(s) >= 7
      /\ s[1] = Command("LISTEN") /\ s[2] = Second("OPEN", ChannelOf(o))
      /\ s[3] = Recv(NameOf(o)) /\ s[4] = Command("UNLISTEN")
      /\ s[5] = Command(IF o.kind = "SAVE" THEN "LISTEN" ELSE "TALK")
      /\ s[6] = Second("SECOND", ChannelOf(o))
  BY <1>3, NamingSteps
<1>5. o.kind = "SAVE" => Len(s) = Len(o.data) + 10 /\ Len(o.data) \in Nat
  BY <1>3, SavingSteps, SavedData
<1> HIDE DEF s
<1>6. i \in 1 .. Len(s)
  BY <1>4
<1>7. s[i] # Send
  <2>1. i = 1 \/ i = 2 \/ i = 3 \/ i = 4 \/ i = 5 \/ i = 6
    OBVIOUS
  <2> QED
    BY <1>4, <2>1, CodesAre
<1>8. ~Done /\ Head(todo) # Send /\ Len(todo) = Len(s) - i + 1
  BY <1>2, <1>4, <1>6, <1>7, Busy
<1> QED
  BY <1>1, <1>5, <1>8

(* ... for the command channel, ...                                          *)
LEMMA CommandingBusy ==
  ASSUME Commanding15 \/ Printing15
  PROVE  ~Done /\ Head(todo) # Send /\ op.kind \in {"OPEN15", "PRINT15"}
<1>1. PICK o : o = op
  OBVIOUS
<1> DEFINE s == Script(o)
<1>2. o \in Operations /\ o.kind \in {"OPEN15", "PRINT15"}
  BY <1>1 DEF Commanding15, Printing15, KindIn
<1>3. /\ s \in Seq(Steps) /\ Len(s) = (IF o.kind = "OPEN15" THEN 8 ELSE 5)
      /\ s[1] = Command("LISTEN")
      /\ s[2] = Second(IF o.kind = "OPEN15" THEN "OPEN" ELSE "SECOND", 15)
      /\ s[3] = Recv("S") /\ s[4] = Recv(o.name) /\ s[5] = Command("UNLISTEN")
      /\ o.kind = "OPEN15" => /\ s[6] = Command("LISTEN") /\ s[7] = Second("CLOSE", 15)
                              /\ s[8] = Command("UNLISTEN")
  BY <1>2, CommandSteps
<1>4. PICK i \in 1 .. 8 : At(s, i) /\ (i <= 5 \/ o.kind = "OPEN15")
  BY <1>1 DEF Commanding15, Printing15, KindIn
<1> HIDE DEF s
<1>5. i \in 1 .. Len(s)
  BY <1>2, <1>3, <1>4
<1>6. s[i] # Send
  <2>1. i = 1 \/ i = 2 \/ i = 3 \/ i = 4 \/ i = 5 \/ i = 6 \/ i = 7 \/ i = 8
    OBVIOUS
  <2>2. i \in {6, 7, 8} => o.kind = "OPEN15"
    BY <1>4
  <2> QED
    BY <1>3, <2>1, <2>2, CodesAre
<1> QED
  BY <1>1, <1>2, <1>3, <1>4, <1>5, <1>6, Busy

(* ... before DS$ is read, ...                                               *)
LEMMA AskingBusy ==
  ASSUME Asking
  PROVE  ~Done /\ Head(todo) # Send
<1>1. PICK o : o = op
  OBVIOUS
<1> DEFINE s == Script(o)
<1>2. o \in Operations /\ o.kind = "DS"
  BY <1>1 DEF Asking, KindIn
<1>3. s \in Seq(Steps) /\ Len(s) = 3 /\ s[1] = Command("TALK") /\ s[2] = Second("SECOND", 15)
  BY <1>2, AskingSteps
<1>4. PICK i \in 1 .. 2 : At(s, i)
  BY <1>1 DEF Asking
<1> HIDE DEF s
<1>5. i \in 1 .. Len(s) /\ s[i] # Send
  <2>1. i = 1 \/ i = 2
    OBVIOUS
  <2> QED
    BY <1>3, <2>1, CodesAre
<1> QED
  BY <1>3, <1>4, <1>5, Busy

(* ... when it is done with a read, ...                                      *)
LEMMA ClosingBusy ==
  ASSUME Closing
  PROVE  ~Done /\ Head(todo) # Send
<1>1. PICK o : o = op
  OBVIOUS
<1> DEFINE s == AfterReads(o)
<1>2. o \in Operations /\ o.kind \in {"LOAD", "DIRECTORY", "READ", "DS"}
  BY <1>1 DEF Closing, KindIn
<1>3. /\ s \in Seq(Steps) /\ Len(s) = (IF o.kind = "DS" THEN 1 ELSE 4)
      /\ s[1] = Command("UNTALK")
      /\ o.kind # "DS" => /\ s[2] = Command("LISTEN") /\ s[3] = Second("CLOSE", ChannelOf(o))
                          /\ s[4] = Command("UNLISTEN")
  BY <1>2, ClosingSteps
<1>4. PICK i \in 1 .. 4 : At(s, i) /\ (i = 1 \/ o.kind # "DS")
  BY <1>1 DEF Closing
<1> HIDE DEF s
<1>5. i \in 1 .. Len(s) /\ s[i] # Send
  <2>1. i = 1 \/ i = 2 \/ i = 3 \/ i = 4
    OBVIOUS
  <2> QED
    BY <1>3, <1>4, <2>1, CodesAre
<1> QED
  BY <1>3, <1>4, <1>5, Busy

(* ... or was stopped, ...                                                   *)
LEMMA StoppedBusy ==
  ASSUME LoadStopped \/ SaveStopped
  PROVE  ~Done /\ Head(todo) # Send /\ Len(todo) <= 3
<1>1. 0 \in Channels /\ 1 \in Channels
  BY DEF Channels
<1>2. PICK c \in {0, 1}, i \in 1 .. 3 : At(CloseScript(c), i)
  BY DEF LoadStopped, SaveStopped
<1> DEFINE s == CloseScript(c)
<1>3. /\ s \in Seq(Steps) /\ Len(s) = 3 /\ s[1] = Command("LISTEN")
      /\ s[2] = Second("CLOSE", c) /\ s[3] = Command("UNLISTEN")
  BY <1>1, CloseSteps
<1> HIDE DEF s
<1>4. i \in 1 .. Len(s) /\ s[i] # Send
  <2>1. i = 1 \/ i = 2 \/ i = 3
    OBVIOUS
  <2> QED
    BY <1>3, <2>1, CodesAre
<1>5. At(s, i)
  BY <1>2 DEF s
<1>6. ~Done /\ Head(todo) # Send /\ Len(todo) = Len(s) - i + 1
  BY <1>3, <1>4, <1>5, Busy
<1> QED
  BY <1>3, <1>6

(* ... and while a file is written and closed.                               *)
LEMMA SavingBusy ==
  ASSUME Saving \/ Saved
  PROVE  ~Done /\ Head(todo) # Send /\ (Saved => Len(todo) <= 3)
<1>1. PICK o : o = op
  OBVIOUS
<1> DEFINE s == Script(o)
           n == Len(o.data)
<1>2. o \in Operations /\ o.kind = "SAVE"
  BY <1>1 DEF Saving, Saved, KindIn
<1>3. /\ s \in Seq(Steps) /\ Len(s) = n + 10
      /\ \A i \in 1 .. n : s[6 + i] = Recv(o.data[i])
      /\ s[7 + n] = Command("UNLISTEN") /\ s[8 + n] = Command("LISTEN")
      /\ s[9 + n] = Second("CLOSE", 1) /\ s[10 + n] = Command("UNLISTEN")
  BY <1>2, SavingSteps
<1>4. n \in Nat
  BY <1>2, SavedData
<1>5. \E k \in 0 .. n + 3 : At(s, 7 + k) /\ (Saved => k > n)
  <2>1. CASE Saved
    <3>1. At(s, 8 + n) \/ At(s, 9 + n) \/ At(s, 10 + n)
      BY <1>1, <2>1 DEF Saved
    <3>2. /\ 8 + n = 7 + (n + 1) /\ 9 + n = 7 + (n + 2) /\ 10 + n = 7 + (n + 3)
          /\ n + 1 \in 0 .. n + 3 /\ n + 2 \in 0 .. n + 3 /\ n + 3 \in 0 .. n + 3
          /\ n + 1 > n /\ n + 2 > n /\ n + 3 > n
      BY <1>4
    <3> HIDE DEF s, n
    <3> QED
      BY <3>1, <3>2
  <2>2. CASE Saving /\ ~Saved
    <3>1. \E k \in 0 .. n : At(s, 7 + k)
      BY <1>1, <2>2 DEF Saving
    <3> HIDE DEF s, n
    <3> QED
      BY <1>4, <2>2, <3>1
  <2> QED
    BY <2>1, <2>2
<1> HIDE DEF s, n
<1>6. PICK k \in 0 .. n + 3 : At(s, 7 + k) /\ (Saved => k > n)
  BY <1>5
<1>7. 7 + k \in 1 .. Len(s) /\ (k > n => Len(s) - (7 + k) + 1 <= 3)
  BY <1>3, <1>4
<1>8. s[7 + k] # Send
  <2>1. CASE k < n
    <3>1. k + 1 \in 1 .. n /\ 7 + k = 6 + (k + 1)
      BY <1>4, <2>1
    <3> QED
      BY <1>3, <3>1, CodesAre
  <2>2. CASE k >= n
    <3>1. 7 + k = 7 + n \/ 7 + k = 8 + n \/ 7 + k = 9 + n \/ 7 + k = 10 + n
      BY <1>4, <2>2
    <3> QED
      BY <1>3, <3>1, CodesAre
  <2> QED
    BY <1>4, <2>1, <2>2
<1>9. ~Done /\ Head(todo) # Send /\ Len(todo) = Len(s) - (7 + k) + 1
  BY <1>3, <1>6, <1>7, <1>8, Busy
<1> QED
  BY <1>6, <1>7, <1>9

(* The situations a read is at hand in.                                      *)
LEMMA ReadingSituations ==
  ASSUME Loading \/ Missing \/ ReadingOn \/ Listed \/ GivenUp
  PROVE  KindIn(ReadKinds) /\ ReadAt
  BY DEF Loading, Missing, ReadingOn, Listed, GivenUp, KindIn, ReadKinds

(* Nothing is left to do between two operations only.                        *)
LEMMA DoneIsOver ==
  ASSUME HostTyped, Situation
  PROVE  /\ Done => Over
         /\ Reading => Loading \/ Missing \/ ReadingOn \/ Listed \/ GivenUp
<1>1. Loading \/ Missing \/ ReadingOn \/ Listed \/ GivenUp => ~Done
  BY ReadingSituations, ReadPlace DEF ReadKinds
<1>2. Over => ~Reading
  BY DEF Over, Reading
<1>3. \/ Opening \/ Commanding15 \/ Printing15 \/ Asking \/ Closing \/ LoadStopped
      \/ Saving \/ Saved \/ SaveStopped
      => ~Done /\ Head(todo) # Send
  BY OpeningBusy, CommandingBusy, AskingBusy, ClosingBusy, StoppedBusy, SavingBusy
<1> QED
  BY <1>1, <1>2, <1>3 DEF Situation, Reading

(* Every exchange that is served, and every wait that ends, keeps to the     *)
(* situations.                                                               *)
LEMMA ServeKeeps ==
  ASSUME ServerInv, Serve
  PROVE  ServerInv'
<1>1. HostTyped /\ Device /\ Situation
  BY DEF ServerInv
<1>2. ~Over
  BY IdleWaits DEF Over
<1> QED
  BY <1>1, <1>2, OpeningServed, Commanding15Served, Printing15Served, AskingServed,
     LoadingServed, MissingServed, ReadingOnServed, ListedServed, GivenUpServed, ClosingServed,
     LoadStoppedServed, SavingServed, SavedServed, SaveStoppedServed DEF Situation

-----------------------------------------------------------------------------
(* The host's and its user's own steps. *)

(* Their steps leave the device as it was.                                   *)
LEMMA DeviceLeft ==
  ASSUME Device, UNCHANGED <<server, card>>,
         stale' = stale \/ stale' = stale \cup {1}
  PROVE  Device'
<1>1. UNCHANGED <<tcbmState, expects, secondaryAddress, channels, errorMessage, owed, card>>
  BY DEF server
<1>2. stale' \subseteq Channels /\ stale \subseteq stale'
  BY DEF Device, DeviceTyped, Channels
<1>3. DeviceTyped'
  BY <1>1, <1>2 DEF Device, DeviceTyped
<1>4. Writers'
  BY <1>1 DEF Device, Writers
<1>5. Owned'
  BY <1>1, <1>2 DEF Device, Owned
<1> QED
  BY <1>3, <1>4, <1>5 DEF Device

(* What a read should give is bytes, or nothing (the wish of Begin).         *)
LEMMA WishTyped ==
  ASSUME Device, NEW o \in Operations
  PROVE  WantOf(o) \in Seq(Bytes) \cup {None}
<1>1. card \in [Names -> Seq(Data) \cup {None}] /\ errorMessage \in Errors
  BY DEF Device, DeviceTyped
<1>2. Listing(card, o.found) \in Seq(Bytes)
  BY <1>1, ListingIs
<1>3. errorMessage \in Bytes /\ "CR" \in Bytes /\ Data \subseteq Bytes
  BY <1>1 DEF Bytes, Tokens
<1>4. <<errorMessage>> \in Seq(Bytes) /\ <<"CR">> \in Seq(Bytes)
  BY <1>3
<1>5. Seq(Data) \subseteq Seq(Bytes)
  BY <1>3
<1>6. \A n \in Names : card[n] \in Seq(Bytes) \cup {None}
  BY <1>1, <1>5
<1>7. CASE o.kind = "DS"
  BY <1>4, <1>7 DEF WantOf
<1>8. CASE o.kind = "DIRECTORY"
  BY <1>2, <1>8 DEF WantOf
<1>9. CASE o.kind = "LOAD"
  <2>1. o.name = "$" \/ o.name \in Names
    BY <1>9 DEF Operations
  <2> QED
    BY <1>2, <1>6, <1>9, <2>1 DEF WantOf
<1>10. CASE o.kind = "READ"
  <2>1. o.name \in Names
    BY <1>10 DEF Operations
  <2> QED
    BY <1>4, <1>6, <1>10, <2>1 DEF WantOf
<1>11. CASE o.kind \notin {"DS", "DIRECTORY", "LOAD", "READ"}
  BY <1>11 DEF WantOf
<1> QED
  BY <1>7, <1>8, <1>9, <1>10, <1>11

(* An operation begins.                                                      *)
LEMMA BeginKeeps ==
  ASSUME ServerInv, NEW o \in Operations, Begin(o)
  PROVE  ServerInv'
<1>1. HostTyped /\ Device /\ Situation
  BY DEF ServerInv
<1>2. /\ Done /\ op' = o /\ todo' = Script(o) /\ pause' = "none"
      /\ got' = <<>> /\ told' = {} /\ stopped' = FALSE
      /\ UNCHANGED <<server, card, stale>> /\ want' = WantOf(o)
  BY DEF Begin, WantOf
<1>3. Idle /\ owed = None
  BY <1>1, <1>2, DoneIsOver DEF Over, Quiet
<1>4. /\ UNCHANGED <<tcbmState, expects, secondaryAddress, channels, errorMessage, owed>>
      /\ card' = card /\ stale' = stale
  BY <1>2 DEF server
<1>5. Device'
  BY <1>1, <1>2, <1>4, DeviceLeft
<1>6. HostTyped'
  <2>1. want' \in Seq(Bytes) \cup {None}
    BY <1>1, <1>2, WishTyped
  <2>2. got' \in Seq(Bytes)
    BY <1>2
  <2> QED
    BY <1>2, <2>1, <2>2 DEF HostTyped
<1>7. Idle' /\ Quiet' /\ Fresh'
  BY <1>2, <1>3, <1>4 DEF Idle, Within, Quiet, Fresh
<1>8. want' = WantOf(op)'
  BY <1>2, <1>4 DEF WantOf
<1>9. o.kind \in {"LOAD", "DIRECTORY", "READ", "SAVE", "DS", "OPEN15", "PRINT15"}
  BY DEF Operations
<1>10. Script(o) \in Seq(Steps)
  <2>1. CASE o.kind \in {"LOAD", "DIRECTORY", "READ", "SAVE"}
    BY <2>1, NamingSteps
  <2>2. CASE o.kind = "DS"
    BY <2>2, AskingSteps
  <2>3. CASE o.kind \in {"OPEN15", "PRINT15"}
    BY <2>3, CommandSteps
  <2> QED
    BY <1>9, <2>1, <2>2, <2>3
<1>11. At(Script(op), 1)'
  <2>1. Len(Script(o)) \in Nat /\ SubSeq(Script(o), 1, Len(Script(o))) = Script(o)
    BY <1>10, SubSeqFull, LenProperties
  <2>2. 1 \in 1 .. Len(Script(o)) + 1
    BY <2>1
  <2> QED
    BY <1>2, <2>1, <2>2 DEF At
<1>12. \A kinds : o.kind \in kinds => KindIn(kinds)'
  BY <1>2 DEF KindIn
<1>13. CASE o.kind \in {"LOAD", "DIRECTORY", "READ", "SAVE"}
  <2>1. Opening'
    BY <1>7, <1>8, <1>11, <1>12, <1>13, Zenon DEF Opening
  <2> QED
    BY <1>5, <1>6, <2>1, Zenon DEF ServerInv, Situation
<1>14. CASE o.kind = "DS"
  <2>1. KindIn({"DS"})'
    BY <1>12, <1>14
  <2>2. Asking'
    BY <1>7, <1>8, <1>11, <2>1, Zenon DEF Asking
  <2> QED
    BY <1>5, <1>6, <2>2, Zenon DEF ServerInv, Situation
<1>15. CASE o.kind = "OPEN15"
  <2>1. KindIn({"OPEN15"})'
    BY <1>12, <1>15
  <2>2. Commanding15'
    BY <1>7, <1>11, <2>1, Zenon DEF Commanding15
  <2> QED
    BY <1>5, <1>6, <2>2, Zenon DEF ServerInv, Situation
<1>16. CASE o.kind = "PRINT15"
  <2>1. KindIn({"PRINT15"})'
    BY <1>12, <1>16
  <2>2. Printing15'
    BY <1>7, <1>11, <2>1, Zenon DEF Printing15
  <2> QED
    BY <1>5, <1>6, <2>2, Zenon DEF ServerInv, Situation
<1> QED
  BY <1>9, <1>13, <1>14, <1>15, <1>16

(* STOP during a LOAD, ...                                                   *)
LEMMA StopsLoad ==
  ASSUME ServerInv, Repeating, op.kind = "LOAD", owed = None, todo' = CloseScript(0),
         stopped' = TRUE, pause' = "none", stale' = stale,
         UNCHANGED <<op, got, told, want, server, card>>
  PROVE  ServerInv'
<1>1. HostTyped /\ Device /\ Situation
  BY DEF ServerInv
<1>2. Loading \/ Missing \/ ReadingOn \/ Listed \/ GivenUp
  BY <1>1, DoneIsOver DEF Repeating
<1>3. op \in Operations /\ ChannelOf(op) = 0
  BY <1>2, ReadingSituations DEF KindIn, ChannelOf
<1>4. UNCHANGED <<tcbmState, expects, secondaryAddress, channels, errorMessage, owed>>
  BY DEF server
<1>5. Device'
  BY <1>1, DeviceLeft
<1>6. HostTyped'
  BY <1>1 DEF HostTyped
<1>7. KindIn({"LOAD"})' /\ stopped' = TRUE /\ Quiet'
  BY <1>3, <1>4 DEF KindIn, Quiet
<1>8. At(CloseScript(0), 1)'
  <2>1. CloseScript(0) \in Seq(Steps) /\ Len(CloseScript(0)) = 3
    BY CloseSteps DEF Channels
  <2>2. SubSeq(CloseScript(0), 1, Len(CloseScript(0))) = CloseScript(0)
    BY <2>1, SubSeqFull
  <2>3. 1 \in 1 .. Len(CloseScript(0)) + 1
    BY <2>1
  <2> QED
    BY <2>2, <2>3 DEF At
<1>9. Idle \/ (tcbmState \in {"LOAD", "DIR"} /\ expects = None /\ secondaryAddress = 0)
  BY <1>2, <1>3 DEF Loading, Missing, ReadingOn, Listed, GivenUp, Within
<1>10. \/ Idle'
       \/ tcbmState' \in {"LOAD", "DIR"} /\ expects' = None /\ secondaryAddress' = 0
  BY <1>4, <1>9 DEF Idle, Within
<1>11. LoadStopped'
  BY <1>7, <1>8, <1>10, Zenon DEF LoadStopped
<1> QED
  BY <1>5, <1>6, <1>11, Zenon DEF ServerInv, Situation

(* ... during a listing, ...                                                 *)
LEMMA StopsListing ==
  ASSUME ServerInv, Repeating, op.kind = "DIRECTORY", owed = None, todo' = AfterReads(op),
         stopped' = TRUE, pause' = "none", stale' = stale,
         UNCHANGED <<op, got, told, want, server, card>>
  PROVE  ServerInv'
<1>1. HostTyped /\ Device /\ Situation
  BY DEF ServerInv
<1>2. Loading \/ Missing \/ ReadingOn \/ Listed \/ GivenUp
  BY <1>1, DoneIsOver DEF Repeating
<1>3. op \in Operations /\ ChannelOf(op) = 0
  BY <1>2, ReadingSituations DEF KindIn, ChannelOf
<1>4. Listed \/ GivenUp
  BY <1>2 DEF Loading, Missing, ReadingOn, KindIn
<1>5. UNCHANGED <<tcbmState, expects, secondaryAddress, channels, errorMessage, owed>>
  BY DEF server
<1>6. Device'
  BY <1>1, DeviceLeft
<1>7. HostTyped'
  BY <1>1 DEF HostTyped
<1>8. KindIn({"LOAD", "READ", "DIRECTORY", "DS"})' /\ stopped' = TRUE /\ Quiet'
      /\ op'.kind = "DIRECTORY"
  BY <1>3, <1>5 DEF KindIn, Quiet
<1>9. Verdict'
  BY <1>8 DEF Verdict
<1>10. At(AfterReads(op), 1)'
  <2>1. AfterReads(op) \in Seq(Steps) /\ Len(AfterReads(op)) = 4
    BY <1>3, ClosingSteps
  <2>2. SubSeq(AfterReads(op), 1, Len(AfterReads(op))) = AfterReads(op)
    BY <2>1, SubSeqFull
  <2>3. 1 \in 1 .. Len(AfterReads(op)) + 1
    BY <2>1
  <2>4. AfterReads(op)' = AfterReads(op)
    BY DEF AfterReads
  <2> QED
    BY <2>2, <2>3, <2>4 DEF At
<1>11. Idle \/ (Within("DIR", None) /\ secondaryAddress = 0)
  BY <1>3, <1>4 DEF Listed, GivenUp
<1>12. Idle' \/ (Within("DIR", None)' /\ secondaryAddress' = 0)
  BY <1>5, <1>11 DEF Idle, Within
<1>13. Closing'
  BY <1>8, <1>9, <1>10, <1>12, Zenon DEF Closing
<1> QED
  BY <1>6, <1>7, <1>13, Zenon DEF ServerInv, Situation

(* ... and during a SAVE, between its bytes.                                 *)
LEMMA StopsSave ==
  ASSUME ServerInv, op # None, op.kind = "SAVE", Len(todo) \in 4 .. Len(op.data) + 1,
         owed = None, todo' = CloseScript(1), stopped' = TRUE, pause' = "none",
         stale' = stale \cup {1}, UNCHANGED <<op, got, told, want, server, card>>
  PROVE  ServerInv'
<1>1. HostTyped /\ Device /\ Situation
  BY DEF ServerInv
<1>2. op \in Operations /\ Len(op.data) \in Nat
  BY <1>1, SavedData DEF HostTyped
<1>3. Len(todo) > 3 /\ ~(Len(todo) > Len(op.data) + 1)
  BY <1>2
<1>4. ~Over
  <2>1. ASSUME Done PROVE FALSE
    <3>1. Len(todo) = 0
      BY <2>1 DEF Done
    <3> QED
      BY <1>3, <3>1
  <2> QED
    BY <2>1 DEF Over
<1>5. ~Opening /\ ~Commanding15 /\ ~Printing15
  BY <1>3, OpeningBusy, CommandingBusy
<1>6. ~LoadStopped /\ ~SaveStopped /\ ~Saved
  <2>1. Len(todo) <= 3 => FALSE
    BY <1>2, <1>3
  <2> QED
    BY <2>1, StoppedBusy, SavingBusy, Zenon
<1>7. ~Asking /\ ~Loading /\ ~Missing /\ ~ReadingOn /\ ~Listed /\ ~GivenUp /\ ~Closing
  BY DEF Asking, Loading, Missing, ReadingOn, Listed, GivenUp, Closing, KindIn
<1>8. Saving
  BY <1>1, <1>4, <1>5, <1>6, <1>7 DEF Situation
<1>9. UNCHANGED <<tcbmState, expects, secondaryAddress, channels, errorMessage, owed>>
  BY DEF server
<1>10. Device'
  BY <1>1, DeviceLeft
<1>11. HostTyped'
  BY <1>1 DEF HostTyped
<1>12. KindIn({"SAVE"})' /\ stopped' = TRUE /\ owed' = None /\ 1 \in stale'
  BY <1>2, <1>9 DEF KindIn
<1>13. At(CloseScript(1), 1)'
  <2>1. CloseScript(1) \in Seq(Steps) /\ Len(CloseScript(1)) = 3
    BY CloseSteps DEF Channels
  <2>2. SubSeq(CloseScript(1), 1, Len(CloseScript(1))) = CloseScript(1)
    BY <2>1, SubSeqFull
  <2>3. 1 \in 1 .. Len(CloseScript(1)) + 1
    BY <2>1
  <2> QED
    BY <2>2, <2>3 DEF At
<1>14. Idle \/ (Within("SAVE", None) /\ secondaryAddress = 1)
  BY <1>8 DEF Saving
<1>15. Idle' \/ (Within("SAVE", None)' /\ secondaryAddress' = 1)
  BY <1>9, <1>14 DEF Idle, Within
<1>16. SaveStopped'
  BY <1>12, <1>13, <1>15, Zenon DEF SaveStopped
<1> QED
  BY <1>10, <1>11, <1>16, Zenon DEF ServerInv, Situation

(* STOP is pressed.                                                          *)
LEMMA StopKeeps ==
  ASSUME ServerInv, Stop
  PROVE  ServerInv'
<1>1. /\ owed = None /\ stopped' = TRUE /\ pause' = "none"
      /\ stale' = (IF op.kind = "SAVE" THEN stale \cup {1} ELSE stale)
      /\ UNCHANGED <<op, got, told, want, server, card>>
  BY DEF Stop
<1>2. CASE Repeating /\ op.kind = "LOAD" /\ todo' = CloseScript(0)
  BY <1>1, <1>2, StopsLoad
<1>3. CASE Repeating /\ op.kind = "DIRECTORY" /\ todo' = AfterReads(op)
  BY <1>1, <1>3, StopsListing
<1>4. CASE /\ op # None /\ op.kind = "SAVE" /\ Len(todo) \in 4 .. Len(op.data) + 1
           /\ todo' = CloseScript(1)
  BY <1>1, <1>4, StopsSave
<1> QED
  BY <1>2, <1>3, <1>4 DEF Stop

(* What a pause leaves alone in a situation.                                 *)
LEMMA PauseLeaves ==
  ASSUME ServerInv, pause' \in {"on", "over"},
         UNCHANGED <<op, todo, got, told, stopped, want, server, card, stale>>
  PROVE  /\ HostTyped' /\ Device' /\ (ReadAt => ReadAt') /\ op' = op
         /\ \A kinds : KindIn(kinds) => KindIn(kinds)'
         /\ UNCHANGED <<tcbmState, expects, secondaryAddress, channels, errorMessage, owed>>
<1>1. HostTyped /\ Device
  BY DEF ServerInv
<1>2. UNCHANGED <<tcbmState, expects, secondaryAddress, channels, errorMessage, owed>>
  BY DEF server
<1>3. HostTyped'
  BY <1>1 DEF HostTyped
<1>4. Device'
  BY <1>1, DeviceLeft
<1>5. ReadAt => ReadAt'
  BY DEF ReadAt, At
<1>6. ASSUME NEW kinds, KindIn(kinds) PROVE KindIn(kinds)'
  BY <1>6 DEF KindIn
<1> QED
  BY <1>2, <1>3, <1>4, <1>5, <1>6

(* A program, or the user, holds a read; and lets go.                        *)
LEMMA PauseKeeps ==
  ASSUME ServerInv, Pause \/ Resume
  PROVE  ServerInv'
<1>1. HostTyped /\ Situation
  BY DEF ServerInv
<1>2. /\ pause' \in {"on", "over"} /\ (owed = CODE_SEND => pause' = "over")
      /\ UNCHANGED <<op, todo, got, told, stopped, want, server, card, stale>>
      /\ \/ pause = "on"
         \/ pause = "none" /\ op.kind \in {"DIRECTORY", "READ"} /\ Reading
  BY ServerAssumption DEF Pause, Resume, Repeating, CODE_SEND
<1>3. /\ HostTyped' /\ Device' /\ (ReadAt => ReadAt') /\ op' = op
      /\ \A kinds : KindIn(kinds) => KindIn(kinds)'
      /\ UNCHANGED <<tcbmState, expects, secondaryAddress, channels, errorMessage, owed>>
  BY <1>2, PauseLeaves
<1>4. Loading \/ Missing \/ Listed \/ GivenUp
  <2>1. CASE pause = "on"
    BY <1>1, <2>1 DEF Situation, Over, Opening, Commanding15, Printing15, Asking, ReadingOn,
       Closing, LoadStopped, Saving, Saved, SaveStopped, Quiet
  <2>2. CASE op.kind \in {"DIRECTORY", "READ"} /\ Reading
    BY <1>1, <2>2, DoneIsOver DEF ReadingOn, KindIn
  <2> QED
    BY <1>2, <2>1, <2>2
<1>5. CASE Loading
  <2>1. Paused'
    BY <1>2, <1>3, <1>5 DEF Loading, Paused
  <2>2. Loading'
    BY <1>2, <1>3, <1>5, <2>1 DEF Loading, Within
  <2> QED
    BY <1>3, <2>2, Zenon DEF ServerInv, Situation
<1>6. CASE Missing
  <2>1. Paused'
    BY <1>2, <1>3, <1>6 DEF Missing, Paused
  <2>2. Missing'
    BY <1>2, <1>3, <1>6, <2>1 DEF Missing, Within
  <2> QED
    BY <1>3, <2>2, Zenon DEF ServerInv, Situation
<1>7. CASE Listed
  <2>1. op.kind = "DIRECTORY"
    BY <1>2, <1>7 DEF Listed, KindIn
  <2>2. Listed'
    BY <1>2, <1>3, <1>7, <2>1 DEF Listed, Within
  <2> QED
    BY <1>3, <2>2, Zenon DEF ServerInv, Situation
<1>8. CASE GivenUp
  <2>1. GivenUp'
    BY <1>2, <1>3, <1>8 DEF GivenUp, Idle, Within
  <2> QED
    BY <1>3, <2>1, Zenon DEF ServerInv, Situation
<1> QED
  BY <1>4, <1>5, <1>6, <1>7, <1>8

(* A host without an operation.                                              *)
LEMMA Nothing ==
  ASSUME op' = None, todo' = <<>>, pause' = "none", got' = <<>>, told' = {}, stopped' = FALSE,
         want' = None, Device', Idle', owed' = None
  PROVE  ServerInv'
<1>1. HostTyped'
  <2>1. got' \in Seq(Bytes)
    OBVIOUS
  <2> QED
    BY <2>1 DEF HostTyped
<1>2. Verdict' /\ Quiet' /\ Done'
  BY DEF Verdict, Quiet, Done
<1> QED
  BY <1>1, <1>2, EndsThere

(* The host is reset (SimulateIECUpdate()).                                  *)
LEMMA ResetKeeps ==
  ASSUME ServerInv, PressReset
  PROVE  ServerInv'
<1>1. /\ op' = None /\ todo' = <<>> /\ pause' = "none" /\ got' = <<>> /\ told' = {}
      /\ stopped' = FALSE /\ want' = None /\ ResetStateMachine /\ owed' = None
      /\ stale' = {c \in Channels : channels[c].open} /\ UNCHANGED <<errorMessage, card>>
  BY DEF PressReset
<1>2. Device' /\ Idle'
  BY <1>1, StartsAfresh DEF ServerInv
<1> QED
  BY <1>1, <1>2, Nothing

(* Nobody does anything, and nothing is open, at the start.                  *)
LEMMA StartsOver ==
  ASSUME Init
  PROVE  ServerInv
<1> USE DEF Init
<1>1. HostTyped
  <2>1. got \in Seq(Bytes)
    OBVIOUS
  <2> QED
    BY <2>1 DEF HostTyped
<1>2. ClosedChannel \in Channel
  <2>1. /\ <<>> \in Seq(Names \cup {"$", "S"}) /\ <<>> \in Seq(Data \cup Names \cup Tokens)
        /\ <<>> \in Seq(Data)
    OBVIOUS
  <2> QED
    BY <2>1, Zenon DEF ClosedChannel, Channel
<1>3. \A c \in Channels : ~channels[c].open /\ ~channels[c].writing
  BY DEF ClosedChannel
<1>4. DeviceTyped
  <2>1. channels \in [Channels -> Channel]
    BY <1>2
  <2>2. card \in [Names -> Seq(Data) \cup {None}]
    <3>1. Contents \cup {None} \subseteq Seq(Data) \cup {None}
      BY ServerAssumption
    <3> QED
      BY <3>1
  <2>3. secondaryAddress \in Channels /\ errorMessage \in Errors /\ stale \subseteq Channels
    BY DEF Channels, Errors
  <2> QED
    BY <2>1, <2>2, <2>3 DEF DeviceTyped
<1>5. Device
  BY <1>3, <1>4 DEF Device, Writers, Owned
<1>6. Over
  BY DEF Over, Done, Idle, Within, Quiet, Verdict
<1> QED
  BY <1>1, <1>5, <1>6 DEF ServerInv, Situation

(* Nothing happens.                                                          *)
LEMMA StaysSo ==
  ASSUME ServerInv, UNCHANGED vars
  PROVE  ServerInv'
<1>1. UNCHANGED <<op, todo, pause, got, told, stopped, want, tcbmState, expects,
                  secondaryAddress, channels, errorMessage, owed, card, stale>>
  BY DEF vars, host, server
<1>2. HostTyped' /\ Device'
  BY <1>1 DEF ServerInv, HostTyped, Device, DeviceTyped, Writers, Owned
<1>3. Over' = Over
  BY <1>1 DEF Over, Done, Idle, Within, Quiet, Verdict, Failed
<1>4. Opening' = Opening
  BY <1>1 DEF Opening, At, Within, Idle, Called, Naming, Quiet, Fresh, KindIn, WantOf
<1>5. Commanding15' = Commanding15 /\ Printing15' = Printing15 /\ Asking' = Asking
  BY <1>1 DEF Commanding15, Printing15, Asking, At, Within, Idle, Called, Naming, Quiet, Fresh,
     KindIn, WantOf
<1>6. Loading' = Loading /\ Missing' = Missing /\ ReadingOn' = ReadingOn
  BY <1>1 DEF Loading, Missing, ReadingOn, ReadAt, At, Within, Idle, KindIn, Paused, Failed
<1>7. Listed' = Listed /\ GivenUp' = GivenUp
  BY <1>1 DEF Listed, GivenUp, ReadAt, At, Within, Idle, KindIn
<1>8. Closing' = Closing /\ LoadStopped' = LoadStopped
  BY <1>1 DEF Closing, LoadStopped, At, Within, Idle, Called, KindIn, Quiet, Verdict, Failed
<1>9. Saving' = Saving /\ Saved' = Saved
  BY <1>1 DEF Saving, Saved, Kept, At, Within, Idle, Called, KindIn, Quiet, Verdict, Failed
<1>10. SaveStopped' = SaveStopped
  BY <1>1 DEF SaveStopped, At, Within, Idle, Called, KindIn
<1> QED
  BY <1>2, <1>3, <1>4, <1>5, <1>6, <1>7, <1>8, <1>9, <1>10, Zenon DEF ServerInv, Situation

-----------------------------------------------------------------------------
(* The situations are all there are: wherever the host is in its script, the *)
(* device is in a state that fits it.                                        *)
THEOREM SituationsHold == Spec => []ServerInv
<1>1. ServerInv /\ [Next]_vars => ServerInv'
  BY ServeKeeps, BeginKeeps, StopKeeps, PauseKeeps, ResetKeeps, StaysSo DEF Next
<1> QED
  BY <1>1, StartsOver, PTL DEF Spec

(* What the situations say of an operation that is over.                     *)
LEMMA OverSays ==
  ASSUME ServerInv, Done
  PROVE  Idle /\ owed = None /\ Verdict /\ op \in Operations \cup {None}
  BY DoneIsOver DEF ServerInv, Over, Quiet, HostTyped

(* A read that ends with EOI has brought all of what was asked for, however  *)
(* the file was named, and whatever was done, stopped or reset before.       *)
THEOREM ReadsAreWhole == Spec => []ReadsWhole
<1>1. ServerInv => ReadsWhole
  BY OverSays DEF ReadsWhole, Finished, Verdict
<1> QED
  BY <1>1, SituationsHold, PTL

(* A SAVE that was told nothing bad of has left its bytes on the card.       *)
THEOREM SavesAreWhole == Spec => []SavedWhole
<1>1. ServerInv => SavedWhole
  BY OverSays DEF SavedWhole, Finished, Verdict
<1> QED
  BY <1>1, SituationsHold, PTL

(* The error message tells of every failure the host was told of.            *)
THEOREM FailuresAreTold == Spec => []FailureTold
<1>1. ServerInv => FailureTold
  BY OverSays DEF FailureTold, Finished, Verdict, Failed
<1> QED
  BY <1>1, SituationsHold, PTL

(* When the host is done, the device waits for the next LISTEN or TALK, and  *)
(* owes it nothing.                                                          *)
THEOREM DeviceInStep == Spec => []InStep
<1>1. ServerInv => InStep
  BY OverSays DEF InStep, Idle, Within
<1> QED
  BY <1>1, SituationsHold, PTL

(* No file is left open, but one whose user was cut off.                     *)
THEOREM FilesAreClosed == Spec => []FilesClosed
<1>1. ServerInv => FilesClosed
  <2> SUFFICES ASSUME ServerInv, Done, NEW c \in Channels, channels[c].open PROVE c \in stale
    BY DEF FilesClosed
  <2>1. tcbmState = "IDLE"
    BY OverSays DEF Idle, Within
  <2> QED
    BY <2>1 DEF ServerInv, Device, Owned
<1> QED
  BY <1>1, SituationsHold, PTL

(* A read is left unanswered only after the end of it, an error, or a long   *)
(* pause.                                                                    *)
THEOREM ReadsAreAnswered == Spec => []ReadsAnswered
<1>1. ServerInv => ReadsAnswered
  <2> SUFFICES ASSUME Situation, owed = CODE_SEND PROVE told # {} \/ pause = "over"
    BY DEF ServerInv, ReadsAnswered
  <2>1. CODE_SEND # None /\ CODE_SEND # CODE_SECOND
    BY ServerAssumption DEF CODE_SEND, CODE_SECOND
  <2>2. ReadingOn \/ GivenUp
    BY <2>1 DEF Situation, Over, Opening, Commanding15, Printing15, Asking, Loading, Missing,
       Listed, Closing, LoadStopped, Saving, Saved, SaveStopped, Quiet
  <2>3. ReadingOn => told # {}
    BY DEF ReadingOn
  <2>4. GivenUp => pause = "over"
    BY DEF GivenUp
  <2> QED
    BY <2>2, <2>3, <2>4
<1> QED
  BY <1>1, SituationsHold, PTL

(* What is left of a script is exchanges.                                    *)
LEMMA RestTyped ==
  ASSUME NEW s \in Seq(Steps), NEW i, At(s, i)
  PROVE  todo \in Seq(Steps)
<1>1. \A j \in i .. Len(s) : s[j] \in Steps
  <2>1. i \in Nat /\ i >= 1 /\ Len(s) \in Nat
    BY LenProperties DEF At
  <2> QED
    BY <2>1, ElementOfSeq
<1>2. i \in Int /\ Len(s) \in Int
  BY LenProperties DEF At
<1> QED
  BY <1>1, <1>2, SubSeqProperties DEF At

(* In every situation the host is in a script.                               *)
LEMMA InScript ==
  ASSUME HostTyped, Situation
  PROVE  todo \in Seq(Steps)
<1>1. ASSUME KindIn({"LOAD", "DIRECTORY", "READ", "SAVE", "DS", "OPEN15", "PRINT15"})
      PROVE  Script(op) \in Seq(Steps)
  <2>1. CASE op.kind \in {"LOAD", "DIRECTORY", "READ", "SAVE"}
    BY <1>1, <2>1, NamingSteps DEF KindIn
  <2>2. CASE op.kind = "DS"
    BY <1>1, <2>2, AskingSteps DEF KindIn
  <2>3. CASE op.kind \in {"OPEN15", "PRINT15"}
    BY <1>1, <2>3, CommandSteps DEF KindIn
  <2> QED
    BY <1>1, <2>1, <2>2, <2>3 DEF KindIn
<1>2. CASE Over
  BY <1>2 DEF Over, Done
<1>3. CASE Opening \/ Commanding15 \/ Printing15 \/ Asking \/ Saving \/ Saved
  <2>1. \E i : At(Script(op), i)
    BY <1>3 DEF Opening, Commanding15, Printing15, Asking, Saving, Saved
  <2>2. KindIn({"LOAD", "DIRECTORY", "READ", "SAVE", "DS", "OPEN15", "PRINT15"})
    BY <1>3 DEF Opening, Commanding15, Printing15, Asking, Saving, Saved, KindIn
  <2> QED
    BY <1>1, <2>1, <2>2, RestTyped
<1>4. CASE Loading \/ Missing \/ ReadingOn \/ Listed \/ GivenUp
  <2>1. KindIn(ReadKinds) /\ ReadAt
    BY <1>4, ReadingSituations
  <2>2. \E i : At(Script(op), i)
    BY <2>1 DEF ReadAt
  <2>3. KindIn({"LOAD", "DIRECTORY", "READ", "SAVE", "DS", "OPEN15", "PRINT15"})
    BY <2>1 DEF KindIn, ReadKinds
  <2> QED
    BY <1>1, <2>2, <2>3, RestTyped
<1>5. CASE Closing
  <2>1. \E i : At(AfterReads(op), i)
    BY <1>5 DEF Closing
  <2>2. AfterReads(op) \in Seq(Steps)
    BY <1>5, ClosingSteps DEF Closing, KindIn
  <2> QED
    BY <2>1, <2>2, RestTyped
<1>6. CASE LoadStopped \/ SaveStopped
  <2>1. \E c \in {0, 1} : \E i : At(CloseScript(c), i)
    BY <1>6 DEF LoadStopped, SaveStopped
  <2>2. \A c \in {0, 1} : CloseScript(c) \in Seq(Steps)
    BY CloseSteps DEF Channels
  <2> QED
    BY <2>1, <2>2, RestTyped
<1> QED
  BY <1>2, <1>3, <1>4, <1>5, <1>6 DEF Situation

(* What both sides hold is of its type (the fields of the bus server, and    *)
(* the exchanges still to come).                                             *)
THEOREM ServerTyped == Spec => []TypeOK
<1>1. ServerInv => TypeOK
  <2> SUFFICES ASSUME ServerInv PROVE TypeOK
    OBVIOUS
  <2>1. HostTyped /\ DeviceTyped /\ Situation
    BY DEF ServerInv, Device
  <2>2. \A i \in DOMAIN todo : IsStep(todo[i])
    <3>1. \A i \in DOMAIN todo : todo[i] \in Steps
      BY <2>1, InScript
    <3>2. ASSUME NEW e \in Steps PROVE IsStep(e)
      <4>1. \/ /\ e.code = CODE_COMMAND
               /\ e.byte \in {"LISTEN", "UNLISTEN", "TALK", "UNTALK"}
            \/ /\ e.code = CODE_SECOND
               /\ e.byte \in [kind : {"OPEN", "CLOSE", "SECOND"}, channel : Channels]
            \/ e.code = CODE_RECV /\ e.byte \in Data \cup Names \cup {"$", "S"}
            \/ e.code = CODE_SEND /\ e.byte = None
        BY DEF Steps, Send
      <4>2. /\ CODE_COMMAND # CODE_SECOND /\ CODE_COMMAND # CODE_RECV
            /\ CODE_COMMAND # CODE_SEND /\ CODE_SECOND # CODE_RECV
            /\ CODE_SECOND # CODE_SEND /\ CODE_RECV # CODE_SEND
        BY DEF CODE_COMMAND, CODE_SECOND, CODE_RECV, CODE_SEND
      <4>3. CASE e.code = CODE_COMMAND
        BY <4>1, <4>2, <4>3 DEF IsStep
      <4>4. CASE e.code = CODE_SECOND
        BY <4>1, <4>2, <4>4 DEF IsStep
      <4>5. CASE e.code = CODE_RECV
        BY <4>1, <4>2, <4>5 DEF IsStep
      <4>6. CASE e.code = CODE_SEND
        BY <4>1, <4>2, <4>6 DEF IsStep
      <4> QED
        BY <4>1, <4>3, <4>4, <4>5, <4>6
    <3> QED
      BY <3>1, <3>2
  <2>3. /\ tcbmState \in {"IDLE", "OPEN", "LOAD", "SAVE", "DIR"}
        /\ expects \in {"LISTEN", "TALK", None}
    <3>1. \/ Over \/ Opening \/ Commanding15 \/ Printing15 \/ Asking
          \/ Loading \/ Missing \/ ReadingOn \/ Listed \/ GivenUp
          => \E t \in {"IDLE", "OPEN", "LOAD", "SAVE", "DIR"}, e \in {"LISTEN", "TALK", None} :
               Within(t, e)
      BY DEF Over, Opening, Commanding15, Printing15, Asking, Loading, Missing, ReadingOn,
         Listed, GivenUp, Idle, Called, Naming
    <3>2. \/ Closing \/ LoadStopped \/ Saving \/ Saved \/ SaveStopped
          => \E t \in {"IDLE", "OPEN", "LOAD", "SAVE", "DIR"}, e \in {"LISTEN", "TALK", None} :
               Within(t, e)
      BY DEF Closing, LoadStopped, Saving, Saved, SaveStopped, Idle, Called, Within
    <3> QED
      BY <2>1, <3>1, <3>2 DEF Situation, Within
  <2>4. owed \in {None, CODE_SECOND, CODE_SEND}
    BY <2>1 DEF Situation, Over, Opening, Commanding15, Printing15, Asking, Loading, Missing,
       ReadingOn, Listed, GivenUp, Closing, LoadStopped, Saving, Saved, SaveStopped, Quiet
  <2> QED
    BY <2>1, <2>2, <2>3, <2>4 DEF TypeOK, HostTyped, DeviceTyped
<1> QED
  BY <1>1, SituationsHold, PTL
===============================================================================
