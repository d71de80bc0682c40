------------------------------ MODULE TapePlayer ------------------------------
(***************************************************************************)
(* The cassette player (src/src/tape_player.cpp).                          *)
(*                                                                         *)
(* Core 2 runs CoreLoop() and turns the array of half-wave timings into    *)
(* levels of the READ line.  Other cores (the controllers) load, eject,    *)
(* play, stop, seek and record; they keep core 2 away from the array with  *)
(* PausePlayback()/ResumePlayback().  While recording, a GPIO interrupt    *)
(* on core 0 appends half-waves to the same array.                         *)
(*                                                                         *)
(* Time is counted in ticks, the tape is a sequence of half-wave durations *)
(* (<<>> is the freed buffer), and the WRITE level, the audio time         *)
(* counters and the file format are abstracted.  Half-waves with an even   *)
(* index are played with READ high.  WFE and SEV are modelled by core 2's  *)
(* event register; nothing orders a store before the SEV that announces    *)
(* it, so the event may come first.  Each action is what one core does     *)
(* between two accesses to state that another core can change in between.  *)
(***************************************************************************)
EXTENDS Naturals, Sequences, FiniteSets

CONSTANTS
  Controllers,    (* cores that call the public operations                 *)
  Issues,         (* Issues[c]: the operations core c calls                *)
  IrqCore,        (* the core that takes the GPIO interrupt (core 0)       *)
  Tapes,          (* what a TAP file can decode to                         *)
  Autoplay,       (* values option TapeAutoplay takes                      *)
  AlwaysOn,       (* values option TapeMotorAlwaysOn takes                 *)
  HalfWaves,      (* durations a recorded half-wave can have               *)
  MaxHalfWaves,   (* TAPE_MAX_HALFWAVES                                    *)
  HeaderPulses,   (* half-waves before motor-off can end a recording (8)   *)
  SevOvertakes,   (* a SEV can reach core 2 before the store it announces  *)
  Torn,           (* a TAP file that a failed write left incomplete        *)
  Core2, NoCore   (* the owners of the array that are not a controller     *)

Operations == {"play", "stop", "eject", "load", "seek", "record", "tick", "motor"}

ASSUME TapeAssumption ==
  /\ Issues \in [Controllers -> SUBSET Operations]
  /\ Tapes \subseteq Seq(Nat \ {0})
  /\ \A t \in Tapes : Len(t) <= MaxHalfWaves
  /\ Autoplay \subseteq BOOLEAN
  /\ AlwaysOn \subseteq BOOLEAN /\ AlwaysOn # {}
  /\ HalfWaves \subseteq Nat \ {0} /\ 1 \in HalfWaves
  /\ MaxHalfWaves \in Nat \ {0}
  /\ HeaderPulses \in Nat \ {0}
  /\ SevOvertakes \in BOOLEAN
  /\ Torn \notin Seq(Nat)
  /\ Core2 \notin Controllers /\ NoCore \notin Controllers \union {Core2}

VARIABLES
  editing,        (* editingPulses                                         *)
  active,         (* corePulseActive                                       *)
  pulses,         (* pulseTimings[0 .. pulseCount-1]                       *)
  capacity,       (* pulseCapacity                                         *)
  index,          (* currentPulseIndex                                     *)
  offset,         (* currentPulseOffsetUs, in ticks                        *)
  atEnd, loaded, playing, recording, unsaved,
  alwaysOn,       (* motorAlwaysOn                                         *)
  motorActive,
  motorPin,       (* the MOTOR input: TRUE when the computer runs the motor *)
  rec,            (* recordMotor, recordSawMotor, recordMotorOffPending,   *)
                  (* recordDecodeStartPulse                                *)
  armed,          (* the GPIO interrupt is connected                       *)
  irq,            (* the interrupt handler's program counter               *)
  file,           (* what the TAP file on the card decodes to              *)
  pc2, wait2,     (* CoreLoop()'s program counter and local variables      *)
  event2,         (* core 2's event register                               *)
  early,          (* controllers whose next SEV has overtaken its store    *)
  missed,         (* history: the last SEV had overtaken its store         *)
  pc, cmd, ok,    (* per controller: program counter, operation, result of Stop() *)
  level, pin,     (* readLineState and the READ output, TRUE is high       *)
  heard,          (* history: ticks the current half-wave has been output  *)
                  (* at its level                                          *)
  forced,         (* history: since the last seek or load, Stop() raised   *)
                  (* READ in a low half-wave, or the tape was recorded on  *)
  late            (* history: the interrupt wrote after the recording ended *)

tape  == <<pulses, capacity, index, offset, atEnd>>
modes == <<loaded, playing, recording, unsaved>>
motor == <<alwaysOn, motorActive, motorPin>>
irqs  == <<rec, armed, late>>
core2 == <<active, pc2, wait2>>
ctl   == <<pc, cmd, ok>>
sevs  == <<event2, early, missed>>
output == <<level, pin, heard, forced>>
vars  == <<editing, active, pulses, capacity, index, offset, atEnd, loaded, playing,
           recording, unsaved, alwaysOn, motorActive, motorPin, rec, armed, irq, file,
           pc2, wait2, event2, early, missed, pc, cmd, ok, level, pin, heard, forced, late>>

Count      == Len(pulses)
PulseAt(i) == IF i < Count THEN pulses[i + 1] ELSE 0
MotorNow   == alwaysOn \/ motorPin
High(i)    == i % 2 = 0

(* Pi1551Wake(), called by c after the store it announces.                 *)
Wake(c) ==
  /\ event2' = (event2 \/ c \notin early)
  /\ early' = early \ {c} /\ missed' = (c \in early)

(* pulseTimings[i] = d, with pulseCount = max(pulseCount, i + 1). *)
Written(p, i, d) == IF i < Len(p) THEN [p EXCEPT ![i + 1] = d] ELSE Append(p, d)

NoWait  == [from |-> 0, left |-> 0, spent |-> 0, broken |-> FALSE]
NoRec   == [motor |-> FALSE, saw |-> FALSE, offPending |-> FALSE, start |-> 0]

-----------------------------------------------------------------------------
(* Core 2: CoreLoop(). *)

At2(l)  == pc2 = l
Go2(l)  == pc2' = l
Stays   == UNCHANGED <<editing, capacity, pulses, modes, motor, irqs, irq, file, ctl>>

(* Mutant: corePulseActive is not cleared at the top of the loop. *)
LoopTopStillActive ==
  /\ At2("top") /\ Go2("look")
  /\ Stays /\ UNCHANGED <<active, index, offset, atEnd, wait2, sevs, output>>

LoopTop ==
  /\ At2("top") /\ Go2("look")
  /\ active' = FALSE
  /\ Stays /\ UNCHANGED <<index, offset, atEnd, wait2, sevs, output>>

LookForEditor ==
  /\ At2("look") /\ Go2(IF editing THEN "wfe" ELSE "claim")
  /\ Stays /\ UNCHANGED <<active, index, offset, atEnd, wait2, sevs, output>>

Claim ==
  /\ At2("claim") /\ Go2("recheck")
  /\ active' = TRUE
  /\ Stays /\ UNCHANGED <<index, offset, atEnd, wait2, sevs, output>>

(* Mutant: editingPulses is not read again after corePulseActive was set. *)
NoRecheck ==
  /\ At2("recheck") /\ Go2("gate")
  /\ Stays /\ UNCHANGED <<active, index, offset, atEnd, wait2, sevs, output>>

Recheck ==
  /\ At2("recheck") /\ Go2(IF editing THEN "top" ELSE "gate")
  /\ Stays /\ UNCHANGED <<active, index, offset, atEnd, wait2, sevs, output>>

(* WFE: returns once an event was sent, and consumes it. *)
WaitForEvent ==
  /\ At2("wfe") /\ event2 /\ Go2("top")
  /\ event2' = FALSE
  /\ Stays /\ UNCHANGED <<active, index, offset, atEnd, wait2, early, missed, output>>

Idle2 == recording \/ ~loaded \/ ~playing \/ Count = 0 \/ ~motorActive \/ atEnd

(* Nothing to play, or the tape has just ended: release the array and sleep. *)
GoIdle ==
  /\ At2("gate") /\ Go2("wfe")
  /\ \/ Idle2 /\ UNCHANGED <<atEnd, level, pin>>
     \/ ~Idle2 /\ index >= Count /\ atEnd' = TRUE /\ level' = TRUE /\ pin' = TRUE
  /\ active' = FALSE
  /\ Stays /\ UNCHANGED <<index, offset, wait2, sevs, heard, forced>>

FindPulse ==
  /\ At2("gate") /\ ~Idle2 /\ index < Count /\ Go2("fetch")
  /\ Stays /\ UNCHANGED <<active, index, offset, atEnd, wait2, sevs, output>>

(* Take over the offset left by a seek or a stop, clipped below the duration. *)
FetchPulse ==
  /\ At2("fetch") /\ Go2("play")
  /\ LET duration == PulseAt(index)
         from == IF offset < duration THEN offset
                 ELSE IF duration > 0 THEN duration - 1 ELSE 0
     IN wait2' = [from |-> from, spent |-> 0, broken |-> FALSE,
                  left |-> IF duration > from THEN duration - from ELSE 1]
  /\ offset' = 0
  /\ Stays /\ UNCHANGED <<active, index, atEnd, sevs, output>>

Abort2 == editing \/ ~loaded \/ ~playing \/ ~motorActive \/ atEnd

(* One tick of the busy-wait; it is heard if READ has the half-wave's level. *)
HoldLevel ==
  /\ At2("play") /\ wait2.left > 0 /\ ~Abort2
  /\ wait2' = [wait2 EXCEPT !.left = @ - 1, !.spent = @ + 1]
  /\ heard' = IF (pin <=> High(index)) /\ heard < PulseAt(index) THEN heard + 1 ELSE heard
  /\ Stays /\ UNCHANGED <<active, pc2, index, offset, atEnd, sevs, level, pin, forced>>

(* The half-wave is over, or a flag breaks the wait (kept in broken, a history). *)
LeaveWait ==
  /\ At2("play") /\ (wait2.left = 0 \/ Abort2) /\ Go2("check")
  /\ wait2' = [wait2 EXCEPT !.broken = ~(wait2.left = 0)]
  /\ Stays /\ UNCHANGED <<active, index, offset, atEnd, sevs, output>>

(* Mutant: the tick in which the stop is noticed counts as output. *)
CheckCountsOneMore ==
  /\ At2("check")
  /\ wait2' = IF editing \/ Abort2 THEN NoWait ELSE wait2
  /\ \/ editing /\ Go2("top") /\ UNCHANGED offset
     \/ ~editing /\ Abort2 /\ Go2("top") /\ offset' = wait2.from + wait2.spent + 1
     \/ ~Abort2 /\ Go2("toggle") /\ UNCHANGED offset
  /\ Stays /\ UNCHANGED <<active, index, atEnd, sevs, output>>

(* if (editingPulses) continue; then a stop keeps the elapsed part. *)
CheckAfterWait ==
  /\ At2("check")
  /\ wait2' = IF editing \/ Abort2 THEN NoWait ELSE wait2
  /\ \/ editing /\ Go2("top") /\ UNCHANGED offset
     \/ ~editing /\ Abort2 /\ Go2("top") /\ offset' = wait2.from + wait2.spent
     \/ ~Abort2 /\ Go2("toggle") /\ UNCHANGED offset
  /\ Stays /\ UNCHANGED <<active, index, atEnd, sevs, output>>

(* Invert readLineState. *)
Toggle ==
  /\ At2("toggle") /\ Go2("drive")
  /\ level' = ~level
  /\ Stays /\ UNCHANGED <<active, index, offset, atEnd, wait2, sevs, pin, heard, forced>>

(* Drive READ, and step to the next half-wave. *)
Drive ==
  /\ At2("drive") /\ Go2("top")
  /\ pin' = level
  /\ offset' = 0 /\ index' = index + 1
  /\ wait2' = NoWait /\ heard' = 0
  /\ Stays /\ UNCHANGED <<active, atEnd, sevs, level, forced>>

CoreLoop ==
  \/ LoopTop \/ LookForEditor \/ Claim \/ Recheck \/ WaitForEvent
  \/ GoIdle \/ FindPulse \/ FetchPulse \/ HoldLevel \/ LeaveWait
  \/ CheckAfterWait \/ Toggle \/ Drive

-----------------------------------------------------------------------------
(* The GPIO interrupt: RecordGPIOIRQ() and RecordSample(). *)

(* The handler saw recording set; it has not touched the tape yet. *)
IrqEnter ==
  /\ armed /\ irq = "idle" /\ recording
  /\ irq' = "sample"
  /\ UNCHANGED <<editing, tape, modes, motor, rec, armed, late, file, core2, sevs, ctl, output>>

(* d is the time since the previous edge, 0 when it is not to be recorded. *)
AddHalfWave(d) ==
  IF d > 0 /\ index < capacity
  THEN /\ pulses' = Written(pulses, index, d)
       /\ index' = index + 1
       /\ unsaved' = TRUE
  ELSE UNCHANGED <<pulses, index, unsaved>>

(* The motor is off: close the half-wave it stopped in. *)
SampleMotorOff(d) ==
  /\ AddHalfWave(IF rec.motor THEN d ELSE 0)
  /\ rec' = [rec EXCEPT !.motor = FALSE,
               !.offPending = @ \/ (rec.saw /\ index' >= rec.start + HeaderPulses)]
  /\ UNCHANGED atEnd

(* The motor has just started: only note the time and the WRITE level. *)
SampleMotorOn ==
  /\ ~rec.motor
  /\ rec' = [rec EXCEPT !.motor = TRUE, !.saw = TRUE, !.offPending = FALSE]
  /\ UNCHANGED <<pulses, index, unsaved, atEnd>>

SampleNoEdge ==
  /\ rec.motor
  /\ rec' = [rec EXCEPT !.offPending = FALSE]
  /\ UNCHANGED <<pulses, index, unsaved, atEnd>>

SampleEdge(d) ==
  /\ rec.motor
  /\ AddHalfWave(d)
  /\ atEnd' = (atEnd \/ index' = capacity)
  /\ rec' = [rec EXCEPT !.offPending = FALSE]

RecordSample(motorOn) ==
  \/ ~motorOn /\ \E d \in HalfWaves \union {0} : SampleMotorOff(d)
  \/ motorOn /\ (SampleMotorOn \/ SampleNoEdge)
  \/ motorOn /\ \E d \in HalfWaves \union {0} : SampleEdge(d)

IrqSample ==
  /\ irq = "sample"
  /\ RecordSample(MotorNow)
  /\ irq' = "idle"
  /\ late' = (late \/ ~recording)
  /\ UNCHANGED <<editing, capacity, offset, loaded, playing, recording, motor, armed, file,
                 core2, sevs, ctl, output>>

-----------------------------------------------------------------------------
(* The controllers.  A controller on the interrupt's core waits for the handler. *)

Runs(c)         == c # IrqCore \/ irq = "idle"
At(c, l)        == Runs(c) /\ pc[c] = l
Goto(c, l)      == pc' = [pc EXCEPT ![c] = l]
Finish(c)       == /\ Goto(c, "idle")
                   /\ cmd' = [cmd EXCEPT ![c] = "stop"] /\ ok' = [ok EXCEPT ![c] = TRUE]
Return(c, r)    == ok' = [ok EXCEPT ![c] = r]
Rest            == UNCHANGED <<irq, late, core2, motorPin>>

(* An operation that starts with a call of Stop(), or with PausePlayback(). *)
Enter(c, op, l) ==
  /\ Goto(c, l) /\ cmd' = [cmd EXCEPT ![c] = op]
  /\ Rest
  /\ UNCHANGED <<editing, tape, modes, alwaysOn, motorActive, rec, armed, file, sevs, ok, output>>

CallPlay(c) ==
  /\ At(c, "idle") /\ "play" \in Issues[c]
  /\ loaded /\ ~recording
  /\ Enter(c, "play", "press")

(* Mutant: PLAY does not wake core 2. *)
PressAsleep(c) ==
  /\ At(c, "press") /\ Finish(c)
  /\ playing' = TRUE
  /\ Rest
  /\ UNCHANGED <<editing, tape, loaded, recording, unsaved, alwaysOn, motorActive, rec, armed,
                 file, sevs, output>>

(* Play() past its test. *)
Press(c) ==
  /\ At(c, "press") /\ Finish(c)
  /\ playing' = TRUE /\ Wake(c)
  /\ Rest
  /\ UNCHANGED <<editing, tape, loaded, recording, unsaved, alwaysOn, motorActive, rec, armed,
                 file, output>>

CallStop(c) == At(c, "idle") /\ "stop" \in Issues[c] /\ Enter(c, "stop", "stop")

(* SeekCounter(), which Rewind() and Reset() call, and SeekOffset(). *)
CallSeek(c) == At(c, "idle") /\ "seek" \in Issues[c] /\ loaded /\ Enter(c, "seek", "stop")

CallEjectOrLoad(c) ==
  \E op \in {"eject", "load"} \intersect Issues[c] :
    /\ At(c, "idle")
    /\ Enter(c, op, IF recording \/ unsaved THEN "stop" ELSE "pause")

CallRecord(c) ==
  /\ At(c, "idle") /\ "record" \in Issues[c]
  /\ loaded /\ ~recording /\ ~unsaved
  /\ Enter(c, "record", "pause")

CallTick(c) == At(c, "idle") /\ "tick" \in Issues[c] /\ Enter(c, "tick", "tick")

(* SetMotorAlwaysOn(): re-arming samples the pins once; Tick10ms() follows. *)
CallSetMotor(c) ==
  /\ At(c, "idle") /\ "motor" \in Issues[c]
  /\ alwaysOn' \in AlwaysOn
  /\ IF recording THEN RecordSample(alwaysOn' \/ motorPin)
     ELSE UNCHANGED <<pulses, index, unsaved, atEnd, rec>>
  /\ Goto(c, "tick") /\ cmd' = [cmd EXCEPT ![c] = "tick"]
  /\ Rest
  /\ UNCHANGED <<editing, capacity, offset, loaded, playing, recording, motorActive, armed,
                 file, sevs, ok, output>>

(* Tick10ms(): follow the motor; 500 ms after it stopped, end the recording. *)
Tick10ms(c) ==
  /\ At(c, "tick")
  /\ motorActive' = MotorNow
  /\ IF alwaysOn \/ motorActive' # motorActive \/ c \in early THEN Wake(c) ELSE UNCHANGED sevs
  /\ \/ Finish(c)
     \/ /\ recording /\ ~MotorNow /\ rec.offPending
        /\ Goto(c, "stop") /\ UNCHANGED <<cmd, ok>>
  /\ Rest
  /\ UNCHANGED <<editing, tape, modes, alwaysOn, rec, armed, file, output>>

(* Pi1551Wake() is a bare SEV: it may be seen before the store in front of it,   *)
(* which the controller's next step then makes visible.  The announcements of a  *)
(* pause or a stop are left out: core 2 asleep does what they ask for already.   *)
EarlySev(c) ==
  /\ SevOvertakes /\ c \notin early /\ Runs(c)
  /\ \/ pc[c] \in {"press", "resume", "stopResume"}
     \/ pc[c] = "tick" /\ (alwaysOn \/ MotorNow # motorActive)
  /\ event2' = TRUE /\ early' = early \union {c}
  /\ Rest
  /\ UNCHANGED <<editing, tape, modes, alwaysOn, motorActive, rec, armed, file, missed, ctl, output>>

-----------------------------------------------------------------------------
(* Stop(), which returns at "stopped". *)

(* SaveTap(): a failed write may leave the file incomplete. *)
SaveTap(saved) ==
  IF saved THEN file' = pulses ELSE file' \in {file, Torn}

StopNothing(c) ==
  /\ At(c, "stop") /\ ~loaded
  /\ Return(c, FALSE) /\ Goto(c, "stopped")
  /\ Rest
  /\ UNCHANGED <<editing, tape, modes, alwaysOn, motorActive, rec, armed, file, sevs, cmd, output>>

(* unsaved && !recording: only the save is retried. *)
StopRetriesSave(c) ==
  /\ At(c, "stop") /\ loaded /\ unsaved /\ ~recording
  /\ \E saved \in BOOLEAN : SaveTap(saved) /\ Return(c, saved)
  /\ Goto(c, "retried")
  /\ Rest
  /\ UNCHANGED <<editing, tape, modes, alwaysOn, motorActive, rec, armed, sevs, cmd, output>>

StopRetried(c) ==
  /\ At(c, "retried") /\ Goto(c, "stopped")
  /\ unsaved' = ~ok[c]
  /\ Rest
  /\ UNCHANGED <<editing, tape, loaded, playing, recording, alwaysOn, motorActive, rec, armed,
                 file, sevs, cmd, ok, output>>

StopPlayback(c) ==
  /\ At(c, "stop") /\ loaded /\ ~unsaved /\ ~recording
  /\ playing' = FALSE
  /\ Return(c, TRUE) /\ Goto(c, "raise")
  /\ Rest
  /\ UNCHANGED <<editing, tape, loaded, recording, unsaved, alwaysOn, motorActive, rec, armed,
                 file, sevs, cmd, output>>

(* readLineState = true, whatever half-wave the tape stopped in. *)
RaiseLevel(c) ==
  /\ At(c, "raise") /\ Goto(c, "raisePin")
  /\ level' = TRUE /\ forced' = (forced \/ ~level)
  /\ Rest
  /\ UNCHANGED <<editing, tape, modes, alwaysOn, motorActive, rec, armed, file, sevs, cmd, ok,
                 pin, heard>>

(* READ goes high. *)
RaisePin(c) ==
  /\ At(c, "raisePin") /\ Goto(c, "stopped")
  /\ pin' = TRUE /\ forced' = (forced \/ ~pin)
  /\ Wake(c)
  /\ Rest
  /\ UNCHANGED <<editing, tape, modes, alwaysOn, motorActive, rec, armed, file, cmd, ok,
                 level, heard>>

(* DisarmRecordIRQ(); PausePlayback() up to its spin. *)
StopRecording(c) ==
  /\ At(c, "stop") /\ loaded /\ recording
  /\ armed' = FALSE
  /\ editing' = TRUE /\ Wake(c)
  /\ Goto(c, "stopSpin")
  /\ Rest
  /\ UNCHANGED <<tape, modes, alwaysOn, motorActive, rec, file, cmd, ok, output>>

StopSpin(c) ==
  /\ At(c, "stopSpin") /\ ~active
  /\ Goto(c, "stopEdit")
  /\ Rest
  /\ UNCHANGED <<editing, tape, modes, alwaysOn, motorActive, rec, armed, file, sevs, cmd, ok, output>>

(* A slot of the array; one that nobody wrote to is taken as 0. *)
Slot(p, k) == IF k \in DOMAIN p THEN p[k] ELSE 0

(* p with a short half-wave inserted at each of the positions in A, which are   *)
(* positions in the result.                                                     *)
Spread(p, A) ==
  [k \in 1 .. Len(p) + Cardinality(A) |->
     IF k - 1 \in A THEN 1 ELSE Slot(p, k - Cardinality({a \in A : a < k}))]

(* Mutant: only the first header's insertion is tested against pulseCapacity. *)
RealignedUnbounded(p, end) ==
  LET suffix  == Len(p) > end
      Room(A) == /\ A \subseteq rec.start .. end + Cardinality(A) - 2
                 /\ Len(p) + (IF suffix THEN 2 ELSE 1) <= capacity
      All(A)  == IF suffix /\ Cardinality(A) % 2 = 1 THEN A \union {end + Cardinality(A)} ELSE A
  IN {<<p, end>>} \union
     {<<Spread(p, All(A)), end + Cardinality(All(A))>> :
        A \in {B \in SUBSET {i \in rec.start .. capacity : ~High(i)} : Room(B)}}

(* The tapes FinalizeRecordIndex() can leave when p was recorded up to end: a   *)
(* short half-wave goes before each header at an odd position, as long as the   *)
(* buffer has room, and one more keeps the old rest of the tape in phase.       *)
(* Which positions hold a header depends on what was recorded: any may.         *)
Realigned(p, end) ==
  LET suffix  == Len(p) > end
      Room(A) == /\ A \subseteq rec.start .. end + Cardinality(A) - 2
                 /\ Len(p) + Cardinality(A) + (IF suffix THEN 1 ELSE 0) <= capacity
      All(A)  == IF suffix /\ Cardinality(A) % 2 = 1 THEN A \union {end + Cardinality(A)} ELSE A
  IN {<<p, end>>} \union
     {<<Spread(p, All(A)), end + Cardinality(All(A))>> :
        A \in {B \in SUBSET {i \in rec.start .. capacity : ~High(i)} : Room(B)}}

(* pulseCount = max(pulseCount, n). *)
GrownTo(p, n) == [i \in 1 .. (IF Len(p) < n THEN n ELSE Len(p)) |-> Slot(p, i)]

(* Close the last half-wave, realign, close an odd pair. *)
StopEdit(c) ==
  /\ At(c, "stopEdit") /\ Goto(c, "stopSave")
  /\ recording' = FALSE
  /\ \E d \in IF rec.motor /\ index < capacity THEN HalfWaves \union {0} ELSE {0} :
       LET end  == IF d > 0 THEN index + 1 ELSE index
           p    == GrownTo(IF d > 0 THEN Written(pulses, index, d) ELSE pulses, end)
           dirty == unsaved \/ d > 0
       IN \E r \in IF dirty THEN Realigned(p, end) ELSE {<<p, end>>} :
            /\ pulses' = IF dirty /\ Len(r[1]) % 2 = 1 /\ Len(r[1]) < capacity
                         THEN Append(r[1], 1) ELSE r[1]
            /\ index' = r[2]
            /\ unsaved' = dirty
  /\ offset' = 0
  /\ atEnd' = (index' = Len(pulses'))
  /\ heard' = 0 /\ forced' = TRUE
  /\ Rest
  /\ UNCHANGED <<editing, capacity, loaded, playing, alwaysOn, motorActive, rec, armed, file,
                 sevs, cmd, ok, level, pin>>

(* saved = !unsaved || SaveTap(). *)
StopSave(c) ==
  /\ At(c, "stopSave") /\ Goto(c, "stopResume")
  /\ \/ ~unsaved /\ Return(c, TRUE) /\ UNCHANGED file
     \/ unsaved /\ \E saved \in BOOLEAN : SaveTap(saved) /\ Return(c, saved)
  /\ Rest
  /\ UNCHANGED <<editing, tape, modes, alwaysOn, motorActive, rec, armed, sevs, cmd, output>>

(* Mutant: a failed save is forgotten. *)
StopResumeClean(c) ==
  /\ At(c, "stopResume") /\ Goto(c, "stopRelease")
  /\ unsaved' = FALSE
  /\ editing' = FALSE /\ Wake(c)
  /\ Rest
  /\ UNCHANGED <<tape, loaded, playing, recording, alwaysOn, motorActive, rec, armed, file, cmd, ok, output>>

(* unsaved = !saved; ResumePlayback(). *)
StopResume(c) ==
  /\ At(c, "stopResume") /\ Goto(c, "stopRelease")
  /\ unsaved' = ~ok[c]
  /\ editing' = FALSE /\ Wake(c)
  /\ Rest
  /\ UNCHANGED <<tape, loaded, playing, recording, alwaysOn, motorActive, rec, armed, file, cmd, ok, output>>

StopRelease(c) ==
  /\ At(c, "stopRelease") /\ Goto(c, "raise")
  /\ playing' = FALSE
  /\ Rest
  /\ UNCHANGED <<editing, tape, loaded, recording, unsaved, alwaysOn, motorActive, rec, armed,
                 file, sevs, cmd, ok, output>>

(* What the caller of Stop() does with its result. *)
AfterStop(c) ==
  /\ At(c, "stopped")
  /\ IF ok[c] /\ cmd[c] \notin {"stop", "tick"}
     THEN Goto(c, "pause") /\ UNCHANGED <<cmd, ok>>
     ELSE Finish(c)
  /\ Rest
  /\ UNCHANGED <<editing, tape, modes, alwaysOn, motorActive, rec, armed, file, sevs, output>>

Stop(c) ==
  \/ StopNothing(c) \/ StopRetriesSave(c) \/ StopRetried(c) \/ StopPlayback(c) \/ StopRecording(c)
  \/ StopSpin(c) \/ StopEdit(c) \/ StopSave(c) \/ StopResume(c) \/ StopRelease(c)
  \/ RaiseLevel(c) \/ RaisePin(c) \/ AfterStop(c)

-----------------------------------------------------------------------------
(* The edits made between PausePlayback() and ResumePlayback(). *)

Pause(c) ==
  /\ At(c, "pause") /\ Goto(c, "spin")
  /\ editing' = TRUE /\ Wake(c)
  /\ Rest
  /\ UNCHANGED <<tape, modes, alwaysOn, motorActive, rec, armed, file, cmd, ok, output>>

(* Mutant: PausePlayback() does not wait for corePulseActive. *)
NoSpin(c) ==
  /\ At(c, "spin") /\ Goto(c, "edit")
  /\ Rest
  /\ UNCHANGED <<editing, tape, modes, alwaysOn, motorActive, rec, armed, file, sevs, cmd, ok, output>>

Spin(c) ==
  /\ At(c, "spin") /\ ~active /\ Goto(c, "edit")
  /\ Rest
  /\ UNCHANGED <<editing, tape, modes, alwaysOn, motorActive, rec, armed, file, sevs, cmd, ok, output>>

Resume(c) ==
  /\ At(c, "resume") /\ Finish(c)
  /\ editing' = FALSE /\ Wake(c)
  /\ Rest
  /\ UNCHANGED <<tape, modes, alwaysOn, motorActive, rec, armed, file, output>>

Edit(c, op) == At(c, "edit") /\ cmd[c] = op /\ Goto(c, "resume") /\ Rest /\ UNCHANGED <<editing, cmd, ok>>

EjectEdit(c) ==
  /\ Edit(c, "eject")
  /\ loaded' = FALSE /\ playing' = FALSE /\ atEnd' = FALSE
  /\ pulses' = <<>> /\ capacity' = 0
  /\ index' = 0 /\ offset' = 0
  /\ level' = TRUE /\ pin' = TRUE /\ heard' = 0 /\ forced' = FALSE
  /\ UNCHANGED <<recording, unsaved, alwaysOn, motorActive, rec, armed, file, sevs>>

(* LoadTap(): the old tape goes first; then the file parses, or does not. *)
LoadEdit(c) ==
  /\ Edit(c, "load")
  /\ recording' = FALSE /\ unsaved' = FALSE /\ atEnd' = FALSE
  /\ index' = 0 /\ offset' = 0 /\ heard' = 0
  /\ motorActive' = MotorNow /\ Wake(c)
  /\ \/ /\ \E t \in Tapes : pulses' = t /\ file' = t /\ capacity' = Len(t)
        /\ loaded' = TRUE
        /\ playing' \in Autoplay
        /\ level' = TRUE /\ pin' = TRUE /\ forced' = FALSE
     \/ /\ pulses' = <<>> /\ capacity' = 0
        /\ loaded' = FALSE /\ playing' = FALSE
        /\ UNCHANGED <<file, level, pin, forced>>
  /\ UNCHANGED <<alwaysOn, rec, armed>>

(* SeekCounter() and SeekOffset(): a half-wave, an offset into it and its level. *)
SeekEdit(c) ==
  /\ Edit(c, "seek")
  /\ \E i \in 0 .. Count :
       /\ index' = i
       /\ offset' \in IF i < Count THEN 0 .. PulseAt(i) - 1 ELSE {0}
       /\ atEnd' = (i = Count)
  /\ level' = High(index') /\ pin' = High(index')
  /\ heard' = offset' /\ forced' = FALSE
  /\ UNCHANGED <<pulses, capacity, modes, alwaysOn, motorActive, rec, armed, file, sevs>>

(* Record() gives up when the tape is full or realloc() fails. *)
RecordRefused(c) ==
  /\ Edit(c, "record")
  /\ index >= MaxHalfWaves \/ capacity < MaxHalfWaves
  /\ UNCHANGED <<tape, modes, alwaysOn, motorActive, rec, armed, file, sevs, output>>

(* The part of the half-wave before the position stays on the tape. *)
RecordEdit(c) ==
  /\ Edit(c, "record")
  /\ index < MaxHalfWaves
  /\ capacity' = IF capacity < MaxHalfWaves THEN MaxHalfWaves ELSE capacity
  /\ IF offset > 0 /\ index < Count
     THEN /\ pulses' = [pulses EXCEPT ![index + 1] = offset]
          /\ index' = index + 1 /\ offset' = 0
          /\ unsaved' = TRUE
     ELSE UNCHANGED <<pulses, index, offset, unsaved>>
  /\ rec' = [motor |-> MotorNow, saw |-> MotorNow, offPending |-> FALSE, start |-> index']
  /\ recording' = TRUE /\ playing' = TRUE /\ atEnd' = FALSE
  /\ armed' = TRUE
  /\ pin' = TRUE /\ heard' = 0 /\ forced' = TRUE
  /\ UNCHANGED <<loaded, alwaysOn, motorActive, file, sevs, level>>

Paused(c) ==
  \/ Pause(c) \/ Spin(c) \/ Resume(c)
  \/ EjectEdit(c) \/ LoadEdit(c) \/ SeekEdit(c) \/ RecordRefused(c) \/ RecordEdit(c)

Call(c) ==
  \/ CallPlay(c) \/ CallStop(c) \/ CallSeek(c) \/ CallEjectOrLoad(c) \/ CallRecord(c)
  \/ CallTick(c) \/ CallSetMotor(c)

Controller(c) ==
  Call(c) \/ Press(c) \/ Tick10ms(c) \/ EarlySev(c) \/ Stop(c) \/ Paused(c)

-----------------------------------------------------------------------------
(* The computer starts or stops the motor. *)
MotorLine ==
  /\ motorPin' = ~motorPin
  /\ UNCHANGED <<editing, tape, modes, alwaysOn, motorActive, irqs, irq, file, core2, sevs,
                 ctl, output>>

(* After InitializeGPIO() on core 2, before the first operation. *)
Init ==
  /\ editing = FALSE /\ active = FALSE
  /\ pulses = <<>> /\ capacity = 0 /\ index = 0 /\ offset = 0 /\ atEnd = FALSE
  /\ loaded = FALSE /\ playing = FALSE /\ recording = FALSE /\ unsaved = FALSE
  /\ alwaysOn \in AlwaysOn /\ motorActive = alwaysOn /\ motorPin = FALSE
  /\ rec = NoRec /\ armed = FALSE /\ irq = "idle"
  /\ file = Torn
  /\ pc2 = "top" /\ wait2 = NoWait
  /\ event2 = FALSE /\ early = {} /\ missed = FALSE
  /\ pc = [c \in Controllers |-> "idle"]
  /\ cmd = [c \in Controllers |-> "stop"]
  /\ ok = [c \in Controllers |-> TRUE]
  /\ level = TRUE /\ pin = TRUE
  /\ heard = 0 /\ forced = FALSE /\ late = FALSE

Next ==
  \/ CoreLoop
  \/ IrqEnter \/ IrqSample
  \/ \E c \in Controllers : Controller(c)
  \/ MotorLine

Spec == Init /\ [][Next]_vars

(* Every core keeps executing, and the main loop calls Tick10ms() again and again; *)
(* the other calls, the edges and the motor are up to the user.                    *)
Fairness ==
  /\ WF_vars(CoreLoop)
  /\ WF_vars(IrqSample)
  /\ \A c \in Controllers : /\ WF_vars(Press(c) \/ Tick10ms(c) \/ Stop(c) \/ Paused(c))
                            /\ SF_vars(CallTick(c))

FairSpec == Spec /\ Fairness

-----------------------------------------------------------------------------
Section2 == {"gate", "fetch", "play", "check", "toggle", "drive"}
Labels2  == {"top", "look", "claim", "recheck", "wfe"} \union Section2

StopEditing  == {"stopEdit", "stopSave", "stopResume"}
OpEditing    == {"edit", "resume"}
Editing      == StopEditing \union OpEditing
Labels       == {"idle", "press", "tick", "stop", "retried", "stopSpin", "stopRelease", "raise",
                 "raisePin", "stopped", "pause", "spin"} \union Editing

FlagsOK ==
  /\ editing \in BOOLEAN /\ active \in BOOLEAN /\ armed \in BOOLEAN
  /\ atEnd \in BOOLEAN /\ loaded \in BOOLEAN /\ playing \in BOOLEAN
  /\ recording \in BOOLEAN /\ unsaved \in BOOLEAN /\ late \in BOOLEAN
  /\ alwaysOn \in BOOLEAN /\ motorActive \in BOOLEAN /\ motorPin \in BOOLEAN

TapeOK ==
  /\ pulses \in Seq(Nat) /\ capacity \in Nat /\ index \in Nat /\ offset \in Nat
  /\ heard \in Nat /\ file \in Seq(Nat) \union {Torn}

RecOK   == rec \in [motor : BOOLEAN, saw : BOOLEAN, offPending : BOOLEAN, start : Nat]
Core2OK == /\ pc2 \in Labels2 /\ irq \in {"idle", "sample"}
           /\ wait2 \in [from : Nat, left : Nat, spent : Nat, broken : BOOLEAN]
CtlOK   == /\ pc \in [Controllers -> Labels] /\ cmd \in [Controllers -> Operations]
           /\ ok \in [Controllers -> BOOLEAN]
EventsOK == event2 \in BOOLEAN /\ missed \in BOOLEAN /\ early \subseteq Controllers
OutputOK == level \in BOOLEAN /\ pin \in BOOLEAN /\ forced \in BOOLEAN

TypeOK == FlagsOK /\ TapeOK /\ RecOK /\ Core2OK /\ CtlOK /\ EventsOK /\ OutputOK

(* While a controller is between the end of PausePlayback()'s spin and       *)
(* ResumePlayback(), core 2 is not using the array of half-waves.            *)
PulsesExclusive == \A c \in Controllers : pc[c] \in Editing => pc2 \notin Section2

(* Core 2 never indexes pulseTimings outside the tape, whatever was ejected, *)
(* loaded or recorded since it looked.                                       *)
FetchWithinTape == pc2 = "fetch" => late \/ index < Count

(* A recording never leaves the allocated buffer (pulseCapacity).            *)
WithinBuffer == late \/ (index <= Count /\ Count <= capacity)

(* A half-wave is never cut short: when core 2 inverts READ, READ had the    *)
(* half-wave's level (high for an even index) for the whole duration, over   *)
(* however many stops, motor stops and seeks.  The exceptions are a wait     *)
(* broken by a flag that is set again before the next line reads it, and the *)
(* levels from a Stop() in a low half-wave, which raises READ, or from a     *)
(* recording on, until the next seek, load or eject sets READ again.         *)
WholeHalfWave == pc2 = "toggle" => late \/ forced \/ wait2.broken \/ heard >= PulseAt(index)

(* Unless something is flagged as unsaved, the file holds the tape that is   *)
(* in memory.                                                                *)
SavedTapeOnCard ==
  loaded /\ ~recording /\ ~unsaved => file = pulses

SavedUnlessLate == late \/ SavedTapeOnCard

(* PausePlayback() always gets the array: its spin ends.                     *)
PauseEnds ==
  \A c \in Controllers : pc[c] \in {"spin", "stopSpin"} ~> pc[c] \notin {"spin", "stopSpin"}

(* No wake-up is lost for good: a tape left with PLAY pressed and the motor  *)
(* on reaches its end, even if a SEV overtakes the store it announces when   *)
(* the motor is always on and each Tick10ms() sends another one.  The one    *)
(* exception is such a SEV with the motor driven by the computer.            *)
Playable == loaded /\ playing /\ ~recording /\ motorActive /\ pulses # <<>> /\ ~editing
TapeRunsOut == []<>(~Playable \/ atEnd \/ (missed /\ ~alwaysOn))

(* The abstract ownership of the array that the handshake implements.        *)
Owner ==
  IF \E c \in Controllers : pc[c] \in Editing
  THEN CHOOSE c \in Controllers : pc[c] \in Editing
  ELSE IF pc2 \in Section2 THEN Core2 ELSE NoCore

Ownership == INSTANCE PulseOwner WITH Cores <- Controllers, Player <- Core2,
                                      Nobody <- NoCore, owner <- Owner
OwnershipSpec == Ownership!Spec
===============================================================================
