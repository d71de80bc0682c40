--------------------------- MODULE TapePlayerProofs ---------------------------
(***************************************************************************)
(* Proofs about TapePlayer, for every number of half-waves, every tape and *)
(* every duration.                                                         *)
(***************************************************************************)
EXTENDS TapePlayer, SequenceTheorems, FiniteSetTheorems, TLAPS

-----------------------------------------------------------------------------
(* The array stays an array whatever a recording does to it. *)

(* Overwriting or appending one half-wave.                                   *)
LEMMA WrittenSeq ==
  ASSUME NEW p \in Seq(Nat), NEW i \in Nat, NEW d \in Nat
  PROVE  Written(p, i, d) \in Seq(Nat)
<1>1. CASE i < Len(p)
  <2>1. i + 1 \in 1 .. Len(p)
    BY <1>1, LenProperties
  <2> QED  BY <2>1, <1>1, ExceptSeq DEF Written
<1>2. CASE ~(i < Len(p))
  BY <1>2 DEF Written
<1> QED  BY <1>1, <1>2

(* A slot holds a duration.                                                  *)
LEMMA SlotNat ==
  ASSUME NEW p \in Seq(Nat), NEW k
  PROVE  Slot(p, k) \in Nat
<1>1. CASE k \in DOMAIN p
  <2>1. DOMAIN p = 1 .. Len(p)
    BY LenProperties
  <2> QED  BY <1>1, <2>1, ElementOfSeq DEF Slot
<1>2. CASE k \notin DOMAIN p
  BY <1>2 DEF Slot
<1> QED  BY <1>1, <1>2

(* Inserting short half-waves makes the tape longer by as many.              *)
LEMMA SpreadSeq ==
  ASSUME NEW p \in Seq(Nat), NEW A, Cardinality(A) \in Nat
  PROVE  Spread(p, A) \in Seq(Nat) /\ Len(Spread(p, A)) = Len(p) + Cardinality(A)
<1> DEFINE n == Len(p) + Cardinality(A)
           e(k) == IF k - 1 \in A THEN 1 ELSE Slot(p, k - Cardinality({a \in A : a < k}))
<1>1. n \in Nat
  BY LenProperties
<1>2. \A k \in 1 .. n : e(k) \in Nat
  BY SlotNat
<1>3. Spread(p, A) = [k \in 1 .. n |-> e(k)]
  BY DEF Spread
<1> HIDE DEF n, e
<1>4. Spread(p, A) \in Seq(Nat) /\ Len(Spread(p, A)) = n
  BY <1>1, <1>2, <1>3
<1> QED  BY <1>4 DEF n

(* Whatever FinalizeRecordIndex() leaves is a tape, a position in it, and no  *)
(* longer than the buffer or than it was, however many headers are realigned. *)
LEMMA RealignedTape ==
  ASSUME NEW p \in Seq(Nat), NEW end \in Nat, end <= Len(p),
         capacity \in Nat, rec.start \in Nat,
         NEW r \in Realigned(p, end)
  PROVE  /\ r[1] \in Seq(Nat) /\ r[2] \in Nat
         /\ r[2] <= Len(r[1])
         /\ Len(r[1]) <= capacity \/ Len(r[1]) = Len(p)
<1>1. Len(p) \in Nat
  BY LenProperties
<1>2. CASE r = <<p, end>>
  BY <1>1, <1>2
<1>3. CASE r # <<p, end>>
  <2> DEFINE suffix == Len(p) > end
             All(A) == IF suffix /\ Cardinality(A) % 2 = 1 THEN A \union {end + Cardinality(A)} ELSE A
  <2>1. PICK A \in SUBSET {i \in rec.start .. capacity : ~High(i)} :
          /\ Len(p) + Cardinality(A) + (IF suffix THEN 1 ELSE 0) <= capacity
          /\ r = <<Spread(p, All(A)), end + Cardinality(All(A))>>
    BY <1>3 DEF Realigned
  <2>2. IsFiniteSet(A) /\ Cardinality(A) \in Nat
    <3>1. IsFiniteSet(rec.start .. capacity)
      BY FS_Interval
    <3> QED  BY <2>1, <3>1, FS_Subset, FS_CardinalityType
  <2>3. /\ Cardinality(All(A)) \in Nat
        /\ Cardinality(All(A)) <= Cardinality(A) + (IF suffix THEN 1 ELSE 0)
    <3>1. CASE suffix /\ Cardinality(A) % 2 = 1
      <4> DEFINE x == end + Cardinality(A)
      <4>1. /\ Cardinality(A \union {x}) \in Nat
            /\ Cardinality(A \union {x}) = Cardinality(A) \/ Cardinality(A \union {x}) = Cardinality(A) + 1
        <5> HIDE DEF x
        <5>1. Cardinality(A \union {x}) = IF x \in A THEN Cardinality(A) ELSE Cardinality(A) + 1
          BY <2>2, FS_AddElement, Zenon
        <5> QED  BY <2>2, <5>1
      <4>2. All(A) = A \union {x}
        BY <3>1
      <4> HIDE DEF All, x
      <4> QED  BY <2>2, <3>1, <4>1, <4>2
    <3>2. CASE ~(suffix /\ Cardinality(A) % 2 = 1)
      <4>1. All(A) = A
        BY <3>2
      <4> HIDE DEF All
      <4> QED  BY <2>2, <4>1
    <3> QED  BY <3>1, <3>2
  <2> HIDE DEF All
  <2>4. Spread(p, All(A)) \in Seq(Nat) /\ Len(Spread(p, All(A))) = Len(p) + Cardinality(All(A))
    BY <2>3, SpreadSeq
  <2>5. r[1] = Spread(p, All(A)) /\ r[2] = end + Cardinality(All(A))
    BY <2>1
  <2> HIDE DEF suffix
  <2> QED  BY <1>1, <2>1, <2>2, <2>3, <2>4, <2>5
<1> QED  BY <1>2, <1>3

(* Raising pulseCount.                                                       *)
LEMMA GrownTape ==
  ASSUME NEW p \in Seq(Nat), NEW n \in Nat
  PROVE  GrownTo(p, n) \in Seq(Nat) /\ n <= Len(GrownTo(p, n))
<1> DEFINE m == IF Len(p) < n THEN n ELSE Len(p)
           e(i) == Slot(p, i)
<1>1. Len(p) \in Nat /\ m \in Nat /\ n <= m
  BY LenProperties
<1>2. \A i \in 1 .. m : e(i) \in Nat
  BY SlotNat
<1>3. GrownTo(p, n) = [i \in 1 .. m |-> e(i)]
  BY DEF GrownTo
<1> HIDE DEF m, e
<1> QED  BY <1>1, <1>2, <1>3

-----------------------------------------------------------------------------
(* Types. *)

(* All but the events and the READ line, which have lemmas of their own.     *)
MainOK == FlagsOK /\ TapeOK /\ RecOK /\ Core2OK /\ CtlOK

(* Core 2's steps, whose flags are set apart from its numbers.               *)
LEMMA CoreLoopFlags == FlagsOK /\ CoreLoop => FlagsOK'
<1> SUFFICES ASSUME FlagsOK, CoreLoop PROVE FlagsOK'
  OBVIOUS
<1> USE DEF FlagsOK, Stays, modes, motor, irqs
<1>1. CASE LoopTop       BY <1>1, ZenonT(60) DEF LoopTop
<1>2. CASE LookForEditor BY <1>2, ZenonT(60) DEF LookForEditor
<1>3. CASE Claim         BY <1>3, ZenonT(60) DEF Claim
<1>4. CASE Recheck       BY <1>4, ZenonT(60) DEF Recheck
<1>5. CASE WaitForEvent  BY <1>5, ZenonT(60) DEF WaitForEvent
<1>6. CASE GoIdle        BY <1>6, ZenonT(60) DEF GoIdle
<1>7. CASE FindPulse     BY <1>7, ZenonT(60) DEF FindPulse
<1>8. CASE FetchPulse BY <1>8 DEF FetchPulse
<1>9. CASE HoldLevel BY <1>9 DEF HoldLevel
<1>10. CASE LeaveWait BY <1>10 DEF LeaveWait
<1>11. CASE CheckAfterWait BY <1>11, ZenonT(60) DEF CheckAfterWait
<1>12. CASE Toggle       BY <1>12, ZenonT(60) DEF Toggle
<1>13. CASE Drive        BY <1>13, ZenonT(60) DEF Drive
<1> QED  BY <1>1, <1>2, <1>3, <1>4, <1>5, <1>6, <1>7, <1>8, <1>9, <1>10, <1>11, <1>12, <1>13 DEF CoreLoop

(* Core 2's steps on positions, program counters and the tape.               *)
LEMMA CoreLoopNumbers ==
  TapeOK /\ RecOK /\ Core2OK /\ CtlOK /\ CoreLoop => TapeOK' /\ RecOK' /\ Core2OK' /\ CtlOK'
<1> SUFFICES ASSUME TapeOK, RecOK, Core2OK, CtlOK, CoreLoop
             PROVE  TapeOK' /\ RecOK' /\ Core2OK' /\ CtlOK'
  OBVIOUS
<1>0. RecOK' /\ CtlOK'
  BY DEF RecOK, CtlOK, CoreLoop, Stays, irqs, ctl, LoopTop, LookForEditor, Claim, Recheck,
         WaitForEvent, GoIdle, FindPulse, FetchPulse, HoldLevel, LeaveWait, CheckAfterWait, Toggle, Drive
<1> USE DEF TapeOK, Core2OK, Labels2, Section2, At2, Go2, Stays, output
<1>1. CASE LoopTop       BY <1>0, <1>1 DEF LoopTop
<1>2. CASE LookForEditor BY <1>0, <1>2 DEF LookForEditor
<1>3. CASE Claim         BY <1>0, <1>3 DEF Claim
<1>4. CASE Recheck       BY <1>0, <1>4 DEF Recheck
<1>5. CASE WaitForEvent  BY <1>0, <1>5 DEF WaitForEvent
<1>6. CASE GoIdle        BY <1>0, <1>6 DEF GoIdle
<1>7. CASE FindPulse     BY <1>0, <1>7 DEF FindPulse
<1>8. CASE FetchPulse
  <2>1. PulseAt(index) \in Nat
    BY ElementOfSeq, LenProperties DEF PulseAt, Count
  <2> HIDE DEF PulseAt
  <2> QED  BY <1>0, <1>8, <2>1 DEF FetchPulse
<1>9. CASE HoldLevel
  <2>0. wait2.left - 1 \in Nat /\ wait2.spent + 1 \in Nat
    BY <1>9 DEF HoldLevel
  <2>1. wait2' \in [from : Nat, left : Nat, spent : Nat, broken : BOOLEAN]
    BY <1>9, <2>0, ZenonT(60) DEF HoldLevel
  <2>2. heard' \in Nat
    BY <1>9 DEF HoldLevel
  <2> QED  BY <1>0, <1>9, <2>1, <2>2 DEF HoldLevel
<1>10. CASE LeaveWait
  <2>1. wait2' \in [from : Nat, left : Nat, spent : Nat, broken : BOOLEAN]
    BY <1>10, ZenonT(60) DEF LeaveWait
  <2> QED  BY <1>0, <1>10, <2>1 DEF LeaveWait
<1>11. CASE CheckAfterWait
  BY <1>0, <1>11 DEF CheckAfterWait, NoWait
<1>12. CASE Toggle       BY <1>0, <1>12 DEF Toggle
<1>13. CASE Drive        BY <1>0, <1>13 DEF Drive, NoWait
<1> QED  BY <1>1, <1>2, <1>3, <1>4, <1>5, <1>6, <1>7, <1>8, <1>9, <1>10, <1>11, <1>12, <1>13 DEF CoreLoop

(* One sample of the interrupt.                                              *)
LEMMA RecordSampleTypes ==
  ASSUME TapeOK, RecOK, FlagsOK, NEW on, RecordSample(on)
  PROVE  /\ pulses' \in Seq(Nat) /\ index' \in Nat /\ RecOK'
         /\ unsaved' \in BOOLEAN /\ atEnd' \in BOOLEAN
<1>1. ASSUME NEW d \in Nat, AddHalfWave(d)
      PROVE  /\ pulses' \in Seq(Nat) /\ index' \in Nat
             /\ unsaved' \in BOOLEAN
  <2>1. pulses \in Seq(Nat) /\ index \in Nat /\ Written(pulses, index, d) \in Seq(Nat)
    BY WrittenSeq DEF TapeOK
  <2>2. pulses' \in Seq(Nat) /\ index' \in Nat
    BY <1>1, <2>1 DEF AddHalfWave
  <2>3. unsaved' \in BOOLEAN
    BY <1>1, ZenonT(60) DEF AddHalfWave, FlagsOK
  <2> QED  BY <2>2, <2>3
<1>2. HalfWaves \union {0} \subseteq Nat
  BY TapeAssumption
<1>3. ASSUME NEW d \in HalfWaves \union {0}, SampleMotorOff(d)
      PROVE  /\ pulses' \in Seq(Nat) /\ index' \in Nat /\ RecOK'
             /\ unsaved' \in BOOLEAN /\ atEnd' \in BOOLEAN
  <2>1. pulses' \in Seq(Nat) /\ index' \in Nat /\ unsaved' \in BOOLEAN
    BY <1>1, <1>2, <1>3 DEF SampleMotorOff
  <2>2. (rec.offPending \/ (rec.saw /\ index' >= rec.start + HeaderPulses)) \in BOOLEAN
    BY ZenonT(60)
  <2>3. RecOK'
    BY <1>3, <2>2, ZenonT(60) DEF SampleMotorOff, RecOK
  <2> QED  BY <1>3, <2>1, <2>3 DEF SampleMotorOff, FlagsOK
<1>4. CASE SampleMotorOn \/ SampleNoEdge
  BY <1>4 DEF SampleMotorOn, SampleNoEdge, RecOK, TapeOK, FlagsOK
<1>5. ASSUME NEW d \in HalfWaves \union {0}, SampleEdge(d)
      PROVE  /\ pulses' \in Seq(Nat) /\ index' \in Nat /\ RecOK'
             /\ unsaved' \in BOOLEAN /\ atEnd' \in BOOLEAN
  <2>1. pulses' \in Seq(Nat) /\ index' \in Nat /\ unsaved' \in BOOLEAN
    BY <1>1, <1>2, <1>5 DEF SampleEdge
  <2>2. RecOK'
    BY <1>5 DEF SampleEdge, RecOK
  <2>3. atEnd' \in BOOLEAN
    BY <1>5, ZenonT(60) DEF SampleEdge
  <2> QED  BY <2>1, <2>2, <2>3
<1> QED  BY <1>3, <1>4, <1>5 DEF RecordSample

(* Entering an operation only moves the program counter.                     *)
LEMMA EnterTypes ==
  ASSUME TypeOK, NEW c \in Controllers, NEW op \in Operations, NEW l \in Labels, Enter(c, op, l)
  PROVE  MainOK'
<1>1. FlagsOK'
  BY ZenonT(60) DEF Enter, FlagsOK, Rest, modes, motor, core2, tape, output, TypeOK
<1>2. TapeOK' /\ RecOK' /\ Core2OK'
  BY DEF Enter, TapeOK, RecOK, Core2OK, Rest, modes, core2, tape, output, TypeOK
<1>3. CtlOK'
  BY DEF Enter, CtlOK, Goto, TypeOK
<1> QED  BY <1>1, <1>2, <1>3 DEF MainOK

(* The calls.                                                                *)
LEMMA CallTypes ==
  ASSUME TypeOK, NEW c \in Controllers, Call(c)
  PROVE  MainOK'
<1> USE DEF TypeOK, MainOK, Rest, modes, motor, core2, tape, ctl, output
<1> USE DEF Labels, Editing, StopEditing, OpEditing, Operations
<1>1. CASE CallPlay(c)
  BY <1>1, EnterTypes DEF CallPlay
<1>2. CASE CallStop(c)
  BY <1>2, EnterTypes DEF CallStop
<1>3. CASE CallSeek(c)
  BY <1>3, EnterTypes DEF CallSeek
<1>4. CASE CallEjectOrLoad(c)
  <2>1. PICK op \in {"eject", "load"} : Enter(c, op, IF recording \/ unsaved THEN "stop" ELSE "pause")
    BY <1>4 DEF CallEjectOrLoad
  <2>2. CASE recording \/ unsaved
    BY <2>1, <2>2, EnterTypes
  <2>3. CASE ~(recording \/ unsaved)
    BY <2>1, <2>3, EnterTypes
  <2> QED  BY <2>2, <2>3
<1>5. CASE CallRecord(c)
  BY <1>5, EnterTypes DEF CallRecord
<1>6. CASE CallTick(c)
  BY <1>6, EnterTypes DEF CallTick
<1>7. CASE CallSetMotor(c)
  <2> DEFINE on == alwaysOn' \/ motorPin
  <2>1. /\ pulses' \in Seq(Nat) /\ index' \in Nat /\ RecOK'
        /\ unsaved' \in BOOLEAN /\ atEnd' \in BOOLEAN
    <3>1. CASE recording
      <4>1. RecordSample(on)
        BY <1>7, <3>1 DEF CallSetMotor
      <4> QED  BY <4>1, RecordSampleTypes
    <3>2. CASE ~recording
      BY <1>7, <3>2, ZenonT(60) DEF CallSetMotor, TapeOK, RecOK, FlagsOK
    <3> QED  BY <3>1, <3>2
  <2>2. alwaysOn' \in BOOLEAN
    BY <1>7, TapeAssumption DEF CallSetMotor
  <2>3. FlagsOK'
    BY <1>7, <2>1, <2>2, ZenonT(60) DEF CallSetMotor, FlagsOK
  <2>4. TapeOK' /\ Core2OK'
    BY <1>7, <2>1 DEF CallSetMotor, TapeOK, Core2OK
  <2>5. CtlOK'
    BY <1>7 DEF CallSetMotor, CtlOK, Goto
  <2> QED  BY <2>1, <2>3, <2>4, <2>5
<1> QED  BY <1>1, <1>2, <1>3, <1>4, <1>5, <1>6, <1>7 DEF Call

(* The store of Play(), and a SEV that overtakes its store.                  *)
LEMMA WakeTypes ==
  ASSUME TypeOK, NEW c \in Controllers, Press(c) \/ EarlySev(c)
  PROVE  MainOK'
<1> USE DEF TypeOK, MainOK, Rest, modes, motor, core2, tape, ctl
<1>1. CASE Press(c)
  <2>1. FlagsOK'
    BY <1>1, ZenonT(60) DEF Press, FlagsOK
  <2>2. TapeOK' /\ RecOK' /\ Core2OK'
    BY <1>1 DEF Press, TapeOK, RecOK, Core2OK, output
  <2>3. CtlOK'
    BY <1>1 DEF Press, CtlOK, Goto, Finish, Labels, Operations
  <2> QED  BY <2>1, <2>2, <2>3
<1>2. CASE EarlySev(c)
  <2>1. FlagsOK'
    BY <1>2, ZenonT(60) DEF EarlySev, FlagsOK
  <2>2. TapeOK' /\ RecOK' /\ Core2OK'
    BY <1>2 DEF EarlySev, TapeOK, RecOK, Core2OK, output
  <2>3. CtlOK'
    BY <1>2 DEF EarlySev, CtlOK
  <2> QED  BY <2>1, <2>2, <2>3
<1> QED  BY <1>1, <1>2

(* Tick10ms().                                                               *)
LEMMA TickTypes ==
  ASSUME TypeOK, NEW c \in Controllers, Tick10ms(c)
  PROVE  MainOK'
<1> USE DEF TypeOK, MainOK, Rest, modes, core2, tape, output
<1>1. FlagsOK'
  <2>1. MotorNow \in BOOLEAN
    BY ZenonT(60) DEF MotorNow
  <2> QED  BY <2>1, ZenonT(60) DEF Tick10ms, FlagsOK
<1>2. TapeOK' /\ RecOK' /\ Core2OK'
  BY DEF Tick10ms, TapeOK, RecOK, Core2OK
<1>3. CtlOK'
  BY DEF Tick10ms, CtlOK, Goto, Finish, Labels, Operations
<1> QED  BY <1>1, <1>2, <1>3

(* Stop().                                                                   *)
LEMMA StopTypes ==
  ASSUME TypeOK, NEW c \in Controllers, Stop(c)
  PROVE  MainOK'
<1> USE DEF TypeOK, MainOK, Rest, modes, motor, core2, tape, ctl, output
<1> USE DEF Labels, Editing, StopEditing, OpEditing, Operations
<1>1. CASE StopNothing(c)
  <2>1. FlagsOK'
    BY <1>1, ZenonT(60) DEF StopNothing, FlagsOK
  <2>2. TapeOK' /\ RecOK' /\ Core2OK'
    BY <1>1 DEF StopNothing, TapeOK, RecOK, Core2OK
  <2>3. CtlOK'
    BY <1>1 DEF StopNothing, CtlOK, Goto, Finish, Return
  <2> QED  BY <2>1, <2>2, <2>3
<1>2. CASE StopRetriesSave(c)
  <2>1. FlagsOK'
    BY <1>2, ZenonT(60) DEF StopRetriesSave, FlagsOK
  <2>2. TapeOK' /\ RecOK' /\ Core2OK'
    BY <1>2 DEF StopRetriesSave, SaveTap, TapeOK, RecOK, Core2OK
  <2>3. CtlOK'
    BY <1>2 DEF StopRetriesSave, CtlOK, Goto, Finish, Return
  <2> QED  BY <2>1, <2>2, <2>3
<1>3. CASE StopRetried(c)
  <2>1. FlagsOK'
    BY <1>3, ZenonT(60) DEF StopRetried, FlagsOK
  <2>2. TapeOK' /\ RecOK' /\ Core2OK'
    BY <1>3 DEF StopRetried, TapeOK, RecOK, Core2OK
  <2>3. CtlOK'
    BY <1>3 DEF StopRetried, CtlOK, Goto, Finish, Return
  <2> QED  BY <2>1, <2>2, <2>3
<1>4. CASE StopPlayback(c)
  <2>1. FlagsOK'
    BY <1>4, ZenonT(60) DEF StopPlayback, FlagsOK
  <2>2. TapeOK' /\ RecOK' /\ Core2OK'
    BY <1>4 DEF StopPlayback, TapeOK, RecOK, Core2OK
  <2>3. CtlOK'
    BY <1>4 DEF StopPlayback, CtlOK, Goto, Finish, Return
  <2> QED  BY <2>1, <2>2, <2>3
<1>5. CASE StopRecording(c)
  <2>1. FlagsOK'
    BY <1>5, ZenonT(60) DEF StopRecording, FlagsOK
  <2>2. TapeOK' /\ RecOK' /\ Core2OK'
    BY <1>5 DEF StopRecording, TapeOK, RecOK, Core2OK
  <2>3. CtlOK'
    BY <1>5 DEF StopRecording, CtlOK, Goto, Finish, Return
  <2> QED  BY <2>1, <2>2, <2>3
<1>6. CASE StopSpin(c)
  <2>1. FlagsOK'
    BY <1>6, ZenonT(60) DEF StopSpin, FlagsOK
  <2>2. TapeOK' /\ RecOK' /\ Core2OK'
    BY <1>6 DEF StopSpin, TapeOK, RecOK, Core2OK
  <2>3. CtlOK'
    BY <1>6 DEF StopSpin, CtlOK, Goto, Finish, Return
  <2> QED  BY <2>1, <2>2, <2>3
<1>7. CASE StopEdit(c)
  <2>1. PICK d \in HalfWaves \union {0} :
          LET end  == IF d > 0 THEN index + 1 ELSE index
              p    == GrownTo(IF d > 0 THEN Written(pulses, index, d) ELSE pulses, end)
              dirty == unsaved \/ d > 0
          IN \E r \in IF dirty THEN Realigned(p, end) ELSE {<<p, end>>} :
               /\ pulses' = IF dirty /\ Len(r[1]) % 2 = 1 /\ Len(r[1]) < capacity
                            THEN Append(r[1], 1) ELSE r[1]
               /\ index' = r[2]
               /\ unsaved' = dirty
    BY <1>7, ZenonT(60) DEF StopEdit
  <2> DEFINE end  == IF d > 0 THEN index + 1 ELSE index
             q    == IF d > 0 THEN Written(pulses, index, d) ELSE pulses
             p    == GrownTo(q, end)
             dirty == unsaved \/ d > 0
  <2>2. d \in Nat /\ end \in Nat /\ q \in Seq(Nat)
    <3>1. d \in Nat /\ index \in Nat /\ pulses \in Seq(Nat)
      BY TapeAssumption DEF TapeOK
    <3>2. Written(pulses, index, d) \in Seq(Nat)
      BY <3>1, WrittenSeq
    <3> QED  BY <3>1, <3>2
  <2>3. p \in Seq(Nat) /\ end <= Len(p)
    <3> HIDE DEF q, end
    <3> QED  BY <2>2, GrownTape
  <2>4. PICK r \in IF dirty THEN Realigned(p, end) ELSE {<<p, end>>} :
               /\ pulses' = IF dirty /\ Len(r[1]) % 2 = 1 /\ Len(r[1]) < capacity
                            THEN Append(r[1], 1) ELSE r[1]
               /\ index' = r[2]
               /\ unsaved' = dirty
    BY <2>1, ZenonT(60)
  <2>5. unsaved' \in BOOLEAN
    BY <2>4, ZenonT(60)
  <2> HIDE DEF end, p, dirty
  <2>6. r[1] \in Seq(Nat) /\ r[2] \in Nat
    <3>1. CASE dirty
      <4>1. r \in Realigned(p, end)
        BY <2>4, <3>1
      <4>2. capacity \in Nat /\ rec.start \in Nat
        BY DEF TapeOK, RecOK
      <4> QED  BY <2>2, <2>3, <4>1, <4>2, RealignedTape
    <3>2. CASE ~dirty
      BY <2>2, <2>3, <2>4, <3>2
    <3> QED  BY <3>1, <3>2
  <2>7. pulses' \in Seq(Nat) /\ index' \in Nat
    BY <2>4, <2>6
  <2>8. atEnd' \in BOOLEAN
    BY <1>7, ZenonT(60) DEF StopEdit
  <2>9. FlagsOK'
    BY <1>7, <2>5, <2>8, ZenonT(60) DEF StopEdit, FlagsOK
  <2>10. TapeOK' /\ RecOK' /\ Core2OK'
    BY <1>7, <2>7 DEF StopEdit, TapeOK, RecOK, Core2OK
  <2>11. CtlOK'
    BY <1>7 DEF StopEdit, CtlOK, Goto
  <2> QED  BY <2>9, <2>10, <2>11
<1>8. CASE StopSave(c)
  <2>1. FlagsOK'
    BY <1>8, ZenonT(60) DEF StopSave, FlagsOK
  <2>2. TapeOK' /\ RecOK' /\ Core2OK'
    BY <1>8 DEF StopSave, SaveTap, TapeOK, RecOK, Core2OK
  <2>3. CtlOK'
    BY <1>8 DEF StopSave, CtlOK, Goto, Finish, Return
  <2> QED  BY <2>1, <2>2, <2>3
<1>9. CASE StopResume(c)
  <2>1. FlagsOK'
    BY <1>9, ZenonT(60) DEF StopResume, FlagsOK
  <2>2. TapeOK' /\ RecOK' /\ Core2OK'
    BY <1>9 DEF StopResume, TapeOK, RecOK, Core2OK
  <2>3. CtlOK'
    BY <1>9 DEF StopResume, CtlOK, Goto, Finish, Return
  <2> QED  BY <2>1, <2>2, <2>3
<1>10. CASE StopRelease(c)
  <2>1. FlagsOK'
    BY <1>10, ZenonT(60) DEF StopRelease, FlagsOK
  <2>2. TapeOK' /\ RecOK' /\ Core2OK'
    BY <1>10 DEF StopRelease, TapeOK, RecOK, Core2OK
  <2>3. CtlOK'
    BY <1>10 DEF StopRelease, CtlOK, Goto, Finish, Return
  <2> QED  BY <2>1, <2>2, <2>3
<1>12. CASE RaiseLevel(c)
  <2>1. FlagsOK'
    BY <1>12, ZenonT(60) DEF RaiseLevel, FlagsOK
  <2>2. TapeOK' /\ RecOK' /\ Core2OK'
    BY <1>12 DEF RaiseLevel, TapeOK, RecOK, Core2OK
  <2>3. CtlOK'
    BY <1>12 DEF RaiseLevel, CtlOK, Goto
  <2> QED  BY <2>1, <2>2, <2>3
<1>13. CASE RaisePin(c)
  <2>1. FlagsOK'
    BY <1>13, ZenonT(60) DEF RaisePin, FlagsOK
  <2>2. TapeOK' /\ RecOK' /\ Core2OK'
    BY <1>13 DEF RaisePin, TapeOK, RecOK, Core2OK
  <2>3. CtlOK'
    BY <1>13 DEF RaisePin, CtlOK, Goto
  <2> QED  BY <2>1, <2>2, <2>3
<1>11. CASE AfterStop(c)
  <2>1. FlagsOK'
    BY <1>11, ZenonT(60) DEF AfterStop, FlagsOK
  <2>2. TapeOK' /\ RecOK' /\ Core2OK'
    BY <1>11 DEF AfterStop, TapeOK, RecOK, Core2OK
  <2>3. CtlOK'
    BY <1>11 DEF AfterStop, CtlOK, Goto, Finish, Return
  <2> QED  BY <2>1, <2>2, <2>3
<1> QED  BY <1>1, <1>2, <1>3, <1>4, <1>5, <1>6, <1>7, <1>8, <1>9, <1>10, <1>11, <1>12, <1>13 DEF Stop

(* The edits.                                                                *)
LEMMA PausedTypes ==
  ASSUME TypeOK, NEW c \in Controllers, Paused(c)
  PROVE  MainOK'
<1> USE DEF TypeOK, MainOK, Rest, modes, motor, core2, tape, ctl, output
<1> USE DEF Labels, Editing, StopEditing, OpEditing, Operations
<1>1. CASE Pause(c)
  <2>1. FlagsOK'
    BY <1>1, ZenonT(60) DEF Pause, FlagsOK
  <2>2. TapeOK' /\ RecOK' /\ Core2OK'
    BY <1>1 DEF Pause, TapeOK, RecOK, Core2OK
  <2>3. CtlOK'
    BY <1>1 DEF Pause, CtlOK, Goto, Finish, Return
  <2> QED  BY <2>1, <2>2, <2>3
<1>2. CASE Spin(c)
  <2>1. FlagsOK'
    BY <1>2, ZenonT(60) DEF Spin, FlagsOK
  <2>2. TapeOK' /\ RecOK' /\ Core2OK'
    BY <1>2 DEF Spin, TapeOK, RecOK, Core2OK
  <2>3. CtlOK'
    BY <1>2 DEF Spin, CtlOK, Goto, Finish, Return
  <2> QED  BY <2>1, <2>2, <2>3
<1>3. CASE Resume(c)
  <2>1. FlagsOK'
    BY <1>3, ZenonT(60) DEF Resume, FlagsOK
  <2>2. TapeOK' /\ RecOK' /\ Core2OK'
    BY <1>3 DEF Resume, TapeOK, RecOK, Core2OK
  <2>3. CtlOK'
    BY <1>3 DEF Resume, CtlOK, Goto, Finish, Return
  <2> QED  BY <2>1, <2>2, <2>3
<1>4. CASE EjectEdit(c)
  <2>1. FlagsOK'
    BY <1>4, ZenonT(60) DEF EjectEdit, Edit, FlagsOK
  <2>2. TapeOK' /\ RecOK' /\ Core2OK'
    BY <1>4 DEF EjectEdit, Edit, TapeOK, RecOK, Core2OK
  <2>3. CtlOK'
    BY <1>4 DEF EjectEdit, Edit, CtlOK, Goto
  <2> QED  BY <2>1, <2>2, <2>3
<1>5. CASE LoadEdit(c)
  <2>1. FlagsOK'
    <3>1. MotorNow \in BOOLEAN
      BY ZenonT(60) DEF MotorNow
    <3>2. playing' \in BOOLEAN
      BY <1>5, TapeAssumption, ZenonT(60) DEF LoadEdit
    <3> QED  BY <1>5, <3>1, <3>2, ZenonT(60) DEF LoadEdit, Edit, FlagsOK
  <2>2. TapeOK' /\ RecOK' /\ Core2OK'
    <3>1. \A t \in Tapes : t \in Seq(Nat) /\ Len(t) \in Nat
      BY TapeAssumption, SeqMonotonic, LenProperties
    <3>2. /\ pulses' \in Seq(Nat) /\ capacity' \in Nat
          /\ file' \in Seq(Nat) \union {Torn}
      <4>1. CASE \E t \in Tapes : pulses' = t /\ file' = t /\ capacity' = Len(t)
        BY <3>1, <4>1
      <4>2. CASE pulses' = <<>> /\ capacity' = 0 /\ UNCHANGED file
        BY <4>2 DEF TapeOK
      <4> QED  BY <1>5, <4>1, <4>2 DEF LoadEdit
    <3>3. index' = 0 /\ offset' = 0 /\ heard' = 0 /\ UNCHANGED <<rec, irq, core2>>
      BY <1>5, ZenonT(60) DEF LoadEdit, Edit
    <3> QED  BY <3>2, <3>3 DEF TapeOK, RecOK, Core2OK
  <2>3. CtlOK'
    <3>1. UNCHANGED <<cmd, ok>> /\ pc' = [pc EXCEPT ![c] = "resume"]
      BY <1>5, ZenonT(60) DEF LoadEdit, Edit, Goto
    <3> QED  BY <3>1 DEF CtlOK, Labels, Editing, OpEditing
  <2> QED  BY <2>1, <2>2, <2>3
<1>6. CASE SeekEdit(c)
  <2>1. FlagsOK'
    <3>1. atEnd' \in BOOLEAN
      BY <1>6, ZenonT(60) DEF SeekEdit
    <3> QED  BY <1>6, <3>1, ZenonT(60) DEF SeekEdit, Edit, FlagsOK
  <2>2. TapeOK' /\ RecOK' /\ Core2OK'
    <3>1. Count \in Nat
      BY LenProperties DEF Count, TapeOK
    <3>2. index' \in Nat /\ offset' \in Nat
      <4>1. PICK i \in 0 .. Count : index' = i /\ offset' \in IF i < Count THEN 0 .. PulseAt(i) - 1 ELSE {0}
        BY <1>6 DEF SeekEdit
      <4> QED  BY <3>1, <4>1
    <3> QED  BY <1>6, <3>2 DEF SeekEdit, Edit, TapeOK, RecOK, Core2OK
  <2>3. CtlOK'
    BY <1>6 DEF SeekEdit, Edit, CtlOK, Goto
  <2> QED  BY <2>1, <2>2, <2>3
<1>7. CASE RecordRefused(c)
  <2>1. FlagsOK'
    BY <1>7 DEF RecordRefused, Edit, FlagsOK
  <2>2. TapeOK' /\ RecOK' /\ Core2OK'
    BY <1>7 DEF RecordRefused, Edit, TapeOK, RecOK, Core2OK
  <2>3. CtlOK'
    BY <1>7 DEF RecordRefused, Edit, CtlOK, Goto
  <2> QED  BY <2>1, <2>2, <2>3
<1>8. CASE RecordEdit(c)
  <2>1. FlagsOK'
    BY <1>8, ZenonT(60) DEF RecordEdit, Edit, FlagsOK
  <2>2. TapeOK' /\ RecOK' /\ Core2OK'
    <3>1. capacity' \in Nat
      BY <1>8, TapeAssumption DEF RecordEdit, TapeOK
    <3>2. pulses' \in Seq(Nat) /\ index' \in Nat /\ offset' \in Nat
      <4>1. CASE offset > 0 /\ index < Count
        <5>1. index + 1 \in 1 .. Len(pulses) /\ offset \in Nat /\ pulses \in Seq(Nat)
          BY <4>1, LenProperties DEF Count, TapeOK
        <5>2. [pulses EXCEPT ![index + 1] = offset] \in Seq(Nat)
          BY <5>1, ExceptSeq
        <5>3. /\ pulses' = [pulses EXCEPT ![index + 1] = offset]
              /\ index' = index + 1 /\ offset' = 0
          BY <1>8, <4>1 DEF RecordEdit
        <5> QED  BY <5>2, <5>3 DEF TapeOK
      <4>2. CASE ~(offset > 0 /\ index < Count)
        BY <1>8, <4>2 DEF RecordEdit, TapeOK
      <4> QED  BY <4>1, <4>2
    <3>3. RecOK'
      <4>1. MotorNow \in BOOLEAN
        BY ZenonT(60) DEF MotorNow
      <4> QED  BY <1>8, <3>2, <4>1, ZenonT(60) DEF RecordEdit, RecOK
    <3>4. UNCHANGED <<file, irq, core2>> /\ heard' = 0
      BY <1>8 DEF RecordEdit, Edit
    <3> QED  BY <3>1, <3>2, <3>3, <3>4 DEF TapeOK, Core2OK
  <2>3. CtlOK'
    BY <1>8 DEF RecordEdit, Edit, CtlOK, Goto
  <2> QED  BY <2>1, <2>2, <2>3
<1> QED  BY <1>1, <1>2, <1>3, <1>4, <1>5, <1>6, <1>7, <1>8 DEF Paused

(* The interrupt and the motor line.                                         *)
LEMMA IrqTypes == TypeOK /\ (IrqEnter \/ IrqSample \/ MotorLine) => MainOK'
<1> SUFFICES ASSUME TypeOK, IrqEnter \/ IrqSample \/ MotorLine PROVE MainOK'
  OBVIOUS
<1> USE DEF TypeOK, MainOK, tape, modes, motor, irqs, core2, ctl, output
<1>1. CASE IrqEnter
  BY <1>1 DEF IrqEnter, FlagsOK, TapeOK, RecOK, Core2OK, CtlOK
<1>2. CASE IrqSample
  <2>1. /\ pulses' \in Seq(Nat) /\ index' \in Nat /\ RecOK'
        /\ unsaved' \in BOOLEAN /\ atEnd' \in BOOLEAN
    BY <1>2, RecordSampleTypes DEF IrqSample
  <2>2. FlagsOK'
    BY <1>2, <2>1, ZenonT(60) DEF IrqSample, FlagsOK
  <2>3. TapeOK' /\ Core2OK' /\ CtlOK'
    BY <1>2, <2>1 DEF IrqSample, TapeOK, Core2OK, CtlOK
  <2> QED  BY <2>1, <2>2, <2>3
<1>3. CASE MotorLine
  <2>1. FlagsOK'
    <3>1. motorPin' \in BOOLEAN
      BY <1>3, ZenonT(60) DEF MotorLine
    <3> QED  BY <1>3, <3>1 DEF MotorLine, FlagsOK
  <2>2. TapeOK' /\ RecOK' /\ Core2OK' /\ CtlOK'
    BY <1>3 DEF MotorLine, TapeOK, RecOK, Core2OK, CtlOK
  <2> QED  BY <2>1, <2>2
<1> QED  BY <1>1, <1>2, <1>3

(* The events: each step sends one, early or in time, consumes one or does neither. *)
LEMMA EventsTypes == EventsOK /\ [Next]_vars => EventsOK'
<1> SUFFICES ASSUME EventsOK, [Next]_vars PROVE EventsOK'
  OBVIOUS
<1>1. ASSUME UNCHANGED sevs PROVE EventsOK'
  BY <1>1 DEF EventsOK, sevs
<1>2. ASSUME NEW c \in Controllers, Wake(c) PROVE EventsOK'
  <2>1. early' \subseteq Controllers
    BY <1>2 DEF EventsOK, Wake
  <2>2. event2' \in BOOLEAN /\ missed' \in BOOLEAN
    <3>1. CASE c \in early
      BY <1>2, <3>1, SMT DEF EventsOK, Wake
    <3>2. CASE c \notin early
      BY <1>2, <3>2, SMT DEF EventsOK, Wake
    <3> QED  BY <3>1, <3>2
  <2> QED  BY <2>1, <2>2 DEF EventsOK
<1>3. CASE CoreLoop
  <2>1. CASE WaitForEvent
    BY <2>1 DEF WaitForEvent, EventsOK
  <2>2. CASE ~WaitForEvent
    BY <1>1, <1>3, <2>2 DEF CoreLoop, LoopTop, LookForEditor, Claim, Recheck, GoIdle, FindPulse,
                            FetchPulse, HoldLevel, LeaveWait, CheckAfterWait, Toggle, Drive
  <2> QED  BY <2>1, <2>2
<1>4. CASE IrqEnter \/ IrqSample \/ MotorLine \/ UNCHANGED vars
  BY <1>1, <1>4 DEF IrqEnter, IrqSample, MotorLine, vars, sevs
<1>5. ASSUME NEW c \in Controllers, Controller(c) PROVE EventsOK'
  <2>1. CASE Call(c)
    BY <1>1, <2>1 DEF Call, CallPlay, CallStop, CallSeek, CallEjectOrLoad, CallRecord, CallTick,
                      CallSetMotor, Enter
  <2>2. CASE Press(c) \/ Tick10ms(c)
    BY <1>1, <1>2, <2>2 DEF Press, Tick10ms
  <2>3. CASE EarlySev(c)
    BY <2>3 DEF EarlySev, EventsOK
  <2>4. CASE Stop(c)
    BY <1>1, <1>2, <2>4 DEF Stop, StopNothing, StopRetriesSave, StopRetried, StopPlayback,
            StopRecording, StopSpin, StopEdit, StopSave, StopResume, StopRelease, RaiseLevel, RaisePin,
            AfterStop
  <2>5. CASE Paused(c)
    BY <1>1, <1>2, <2>5 DEF Paused, Pause, Spin, Resume, EjectEdit, LoadEdit, SeekEdit,
            RecordRefused, RecordEdit
  <2> QED  BY <1>5, <2>1, <2>2, <2>3, <2>4, <2>5 DEF Controller
<1> QED  BY <1>3, <1>4, <1>5 DEF Next

(* The READ line: most steps leave it alone.                                  *)
LEMMA OutputTypes == OutputOK /\ [Next]_vars => OutputOK'
<1> SUFFICES ASSUME OutputOK, [Next]_vars PROVE OutputOK'
  OBVIOUS
<1>1. ASSUME UNCHANGED <<level, pin, forced>> PROVE OutputOK'
  BY <1>1 DEF OutputOK
<1>2. CASE CoreLoop
  <2>1. CASE GoIdle \/ Toggle \/ Drive
    BY <2>1, ZenonT(60) DEF GoIdle, Toggle, Drive, OutputOK
  <2>2. CASE ~(GoIdle \/ Toggle \/ Drive)
    BY <1>1, <1>2, <2>2 DEF CoreLoop, output, LoopTop, LookForEditor, Claim, Recheck, WaitForEvent,
                            FindPulse, FetchPulse, HoldLevel, LeaveWait, CheckAfterWait
  <2> QED  BY <2>1, <2>2
<1>3. CASE IrqEnter \/ IrqSample \/ MotorLine \/ UNCHANGED vars
  BY <1>1, <1>3 DEF IrqEnter, IrqSample, MotorLine, vars, output
<1>4. ASSUME NEW c \in Controllers, Controller(c) PROVE OutputOK'
  <2>1. CASE Call(c) \/ Press(c) \/ Tick10ms(c) \/ EarlySev(c)
    BY <1>1, <2>1 DEF Call, CallPlay, CallStop, CallSeek, CallEjectOrLoad, CallRecord, CallTick,
                      CallSetMotor, Enter, Press, Tick10ms, EarlySev, output
  <2>2. CASE RaiseLevel(c) \/ RaisePin(c) \/ StopEdit(c)
    BY <2>2, ZenonT(60) DEF RaiseLevel, RaisePin, StopEdit, OutputOK
  <2>3. CASE Stop(c) /\ ~(RaiseLevel(c) \/ RaisePin(c) \/ StopEdit(c))
    BY <1>1, <2>3 DEF Stop, StopNothing, StopRetriesSave, StopRetried, StopPlayback,
            StopRecording, StopSpin, StopSave, StopResume, StopRelease, AfterStop, output
  <2>4. CASE Pause(c) \/ Spin(c) \/ Resume(c) \/ RecordRefused(c)
    BY <1>1, <2>4 DEF Pause, Spin, Resume, RecordRefused, output
  <2>5. CASE EjectEdit(c) \/ RecordEdit(c)
    BY <2>5 DEF EjectEdit, RecordEdit, OutputOK
  <2>6. CASE LoadEdit(c)
    BY <2>6, ZenonT(60) DEF LoadEdit, OutputOK
  <2>7. CASE SeekEdit(c)
    <3>1. High(index') \in BOOLEAN
      BY DEF High
    <3>2. level' = High(index') /\ pin' = High(index') /\ forced' = FALSE
      BY <2>7 DEF SeekEdit
    <3> QED  BY <3>1, <3>2 DEF OutputOK
  <2> QED  BY <1>4, <2>1, <2>2, <2>3, <2>4, <2>5, <2>6, <2>7 DEF Controller, Paused
<1> QED  BY <1>2, <1>3, <1>4 DEF Next

(* Every variable keeps its type: the array stays an array, positions and    *)
(* offsets stay natural, every core is at one of its program points.         *)
THEOREM TypeCorrect == Spec => []TypeOK
<1>1. Init => TypeOK
  <2> SUFFICES ASSUME Init PROVE TypeOK
    OBVIOUS
  <2>1. FlagsOK
    BY TapeAssumption, ZenonT(60) DEF Init, FlagsOK
  <2>2. TapeOK /\ RecOK /\ Core2OK /\ CtlOK
    BY EmptySeq DEF Init, TapeOK, RecOK, Core2OK, CtlOK, NoRec, NoWait, Labels2, Labels, Operations
  <2>3. EventsOK /\ OutputOK
    BY DEF Init, EventsOK, OutputOK
  <2> QED  BY <2>1, <2>2, <2>3 DEF TypeOK
<1>2. TypeOK /\ [Next]_vars => TypeOK'
  <2> SUFFICES ASSUME TypeOK, [Next]_vars PROVE TypeOK'
    OBVIOUS
  <2>0. MainOK'
    <3>1. CASE CoreLoop
      BY <3>1, CoreLoopFlags, CoreLoopNumbers DEF TypeOK, MainOK
    <3>2. CASE IrqEnter \/ IrqSample \/ MotorLine
      BY <3>2, IrqTypes
    <3>3. ASSUME NEW c \in Controllers, Controller(c) PROVE MainOK'
      BY <3>3, CallTypes, WakeTypes, TickTypes, StopTypes, PausedTypes DEF Controller
    <3>4. CASE UNCHANGED vars
      BY <3>4 DEF vars, MainOK, TypeOK, FlagsOK, TapeOK, RecOK, Core2OK, CtlOK
    <3> QED  BY <3>1, <3>2, <3>3, <3>4 DEF Next
  <2> QED  BY <2>0, EventsTypes, OutputTypes DEF TypeOK, MainOK
<1> QED  BY <1>1, <1>2, PTL DEF Spec

-----------------------------------------------------------------------------
(* Mutual exclusion on the array, for one controlling core.  editingPulses    *)
(* is a flag and not a count, so two editors at once would undo each other.   *)
OneEditor == \A c, d \in Controllers : c = d

(* The flag covers every editor from the store that precedes its spin;        *)
(* corePulseActive covers core 2 from the store that precedes its re-check.   *)
EditorFlag == \A c \in Controllers :
                pc[c] \in Editing \union {"spin", "stopSpin"} => editing
PlayerFlag == pc2 \in Section2 \union {"recheck"} => active

Handshake == TypeOK /\ EditorFlag /\ PlayerFlag /\ PulsesExclusive

(* Core 2's steps: it enters only after it saw no editor.                     *)
LEMMA HandshakeCore2 ==
  ASSUME Handshake, CoreLoop
  PROVE  EditorFlag' /\ PlayerFlag' /\ PulsesExclusive'
<1> USE DEF Handshake, EditorFlag, PlayerFlag, PulsesExclusive, Section2, Editing, StopEditing,
            OpEditing, At2, Go2, Stays, ctl
<1>1. CASE LoopTop
  BY <1>1 DEF LoopTop
<1>2. CASE LookForEditor
  BY <1>2 DEF LookForEditor
<1>3. CASE Claim
  BY <1>3 DEF Claim
<1>4. CASE Recheck
  BY <1>4 DEF Recheck
<1>5. CASE WaitForEvent
  BY <1>5 DEF WaitForEvent
<1>6. CASE GoIdle
  BY <1>6 DEF GoIdle
<1>7. CASE FindPulse
  BY <1>7 DEF FindPulse
<1>8. CASE FetchPulse
  BY <1>8 DEF FetchPulse
<1>9. CASE HoldLevel
  BY <1>9 DEF HoldLevel
<1>10. CASE LeaveWait
  BY <1>10 DEF LeaveWait
<1>11. CASE CheckAfterWait
  BY <1>11 DEF CheckAfterWait
<1>12. CASE Toggle
  BY <1>12 DEF Toggle
<1>13. CASE Drive
  BY <1>13 DEF Drive
<1> QED  BY <1>1, <1>2, <1>3, <1>4, <1>5, <1>6, <1>7, <1>8, <1>9, <1>10, <1>11, <1>12, <1>13 DEF CoreLoop

(* No controller touches core 2's state.                                      *)
LEMMA ControllerKeepsCore2 ==
  ASSUME NEW c \in Controllers, Controller(c)
  PROVE  UNCHANGED <<pc2, active, wait2>>
<1>1. CASE Call(c) \/ Press(c) \/ Tick10ms(c) \/ EarlySev(c)
  BY <1>1 DEF Rest, core2, Enter, Call, Press, Tick10ms, EarlySev, CallPlay, CallStop, CallSeek, CallEjectOrLoad,
              CallRecord, CallTick, CallSetMotor
<1>2. CASE Stop(c)
  BY <1>2 DEF Rest, core2, Stop, StopNothing, StopRetriesSave, StopRetried, StopPlayback,
              StopRecording, StopSpin, StopEdit, StopSave, StopResume, StopRelease, RaiseLevel, RaisePin, AfterStop
<1>3. CASE Paused(c)
  BY <1>3 DEF Rest, core2, Edit, Paused, Pause, Spin, Resume, EjectEdit, LoadEdit, SeekEdit,
              RecordRefused, RecordEdit
<1> QED  BY <1>1, <1>2, <1>3 DEF Controller

(* The controller's steps: it edits only after it saw core 2 outside.         *)
LEMMA HandshakeController ==
  ASSUME Handshake, OneEditor, NEW c \in Controllers,
         Controller(c)
  PROVE  EditorFlag' /\ PlayerFlag' /\ PulsesExclusive'
<1>1. pc \in [Controllers -> Labels] /\ \A d \in Controllers : d = c
  BY DEF Handshake, TypeOK, CtlOK, OneEditor
<1> SUFFICES /\ UNCHANGED <<pc2, active>>
             /\ pc'[c] \in Editing \union {"spin", "stopSpin"} => editing'
             /\ pc'[c] \in Editing => pc2 \notin Section2
  BY <1>1 DEF Handshake, EditorFlag, PlayerFlag, PulsesExclusive
<1> USE <1>1 DEF Handshake, EditorFlag, PlayerFlag, PulsesExclusive, Editing, StopEditing, OpEditing,
            At, Goto, Finish, Rest, core2, ctl
<1>2. CASE CallPlay(c)
  BY <1>2 DEF CallPlay, Enter
<1>29. CASE Press(c)
  BY <1>29 DEF Press
<1>30. CASE EarlySev(c)
  BY <1>30 DEF EarlySev
<1>31. CASE RaiseLevel(c)
  BY <1>31 DEF RaiseLevel
<1>32. CASE RaisePin(c)
  BY <1>32 DEF RaisePin
<1>3. CASE CallStop(c)
  BY <1>3 DEF CallStop, Enter
<1>4. CASE CallSeek(c)
  BY <1>4 DEF CallSeek, Enter
<1>5. CASE CallEjectOrLoad(c)
  BY <1>5 DEF CallEjectOrLoad, Enter
<1>6. CASE CallRecord(c)
  BY <1>6 DEF CallRecord, Enter
<1>7. CASE CallTick(c)
  BY <1>7 DEF CallTick, Enter
<1>8. CASE CallSetMotor(c)
  BY <1>8 DEF CallSetMotor
<1>9. CASE Tick10ms(c)
  BY <1>9 DEF Tick10ms
<1>10. CASE StopNothing(c)
  BY <1>10 DEF StopNothing
<1>11. CASE StopRetriesSave(c)
  BY <1>11 DEF StopRetriesSave
<1>12. CASE StopRetried(c)
  BY <1>12 DEF StopRetried
<1>13. CASE StopPlayback(c)
  BY <1>13 DEF StopPlayback
<1>14. CASE StopRecording(c)
  BY <1>14 DEF StopRecording
<1>15. CASE StopSpin(c)
  BY <1>15 DEF StopSpin, Section2
<1>16. CASE StopEdit(c)
  BY <1>16 DEF StopEdit
<1>17. CASE StopSave(c)
  BY <1>17 DEF StopSave
<1>18. CASE StopResume(c)
  BY <1>18 DEF StopResume
<1>19. CASE StopRelease(c)
  BY <1>19 DEF StopRelease
<1>20. CASE AfterStop(c)
  BY <1>20 DEF AfterStop
<1>21. CASE Pause(c)
  BY <1>21 DEF Pause
<1>22. CASE Spin(c)
  BY <1>22 DEF Spin, Section2
<1>23. CASE Resume(c)
  BY <1>23 DEF Resume
<1>24. CASE EjectEdit(c)
  BY <1>24 DEF EjectEdit, Edit
<1>25. CASE LoadEdit(c)
  BY <1>25 DEF LoadEdit, Edit
<1>26. CASE SeekEdit(c)
  BY <1>26 DEF SeekEdit, Edit
<1>27. CASE RecordRefused(c)
  BY <1>27 DEF RecordRefused, Edit
<1>28. CASE RecordEdit(c)
  BY <1>28 DEF RecordEdit, Edit
<1> QED  BY <1>2, <1>3, <1>4, <1>5, <1>6, <1>7, <1>8, <1>9, <1>10, <1>11, <1>12, <1>13, <1>14, <1>15, <1>16, <1>17, <1>18, <1>19, <1>20, <1>21, <1>22, <1>23, <1>24, <1>25, <1>26, <1>27, <1>28, <1>29, <1>30, <1>31, <1>32
            DEF Controller, Call, Stop, Paused

(* The handshake is inductive.                                                *)
THEOREM HandshakeHolds == OneEditor => (Spec => []Handshake)
<1> SUFFICES ASSUME OneEditor PROVE Spec => []Handshake
  OBVIOUS
<1>1. Init => EditorFlag /\ PlayerFlag /\ PulsesExclusive
  BY DEF Init, EditorFlag, PlayerFlag, PulsesExclusive, Editing, StopEditing, OpEditing, Section2
<1>2. TypeOK' /\ Handshake /\ [Next]_vars => Handshake'
  <2> SUFFICES ASSUME TypeOK', Handshake, [Next]_vars
               PROVE  EditorFlag' /\ PlayerFlag' /\ PulsesExclusive'
    BY DEF Handshake
  <2>1. CASE CoreLoop
    BY <2>1, HandshakeCore2
  <2>2. ASSUME NEW c \in Controllers, Controller(c)
        PROVE  EditorFlag' /\ PlayerFlag' /\ PulsesExclusive'
    BY <2>2, HandshakeController
  <2>3. CASE IrqEnter \/ IrqSample \/ MotorLine \/ UNCHANGED vars
    <3>1. UNCHANGED <<pc, pc2, editing, active>>
      BY <2>3 DEF IrqEnter, IrqSample, MotorLine, vars, core2, ctl
    <3> QED  BY <3>1 DEF Handshake, EditorFlag, PlayerFlag, PulsesExclusive
  <2> QED  BY <2>1, <2>2, <2>3 DEF Next
<1> QED  BY <1>1, <1>2, TypeCorrect, PTL DEF Spec, Handshake

(* PausePlayback() and CoreLoop() never own the array at the same time.       *)
THEOREM ExclusivePulses == OneEditor => (Spec => []PulsesExclusive)
BY HandshakeHolds, PTL DEF Handshake

-----------------------------------------------------------------------------
(* TapePlayer implements PulseOwner. *)

(* The owner is an editor, core 2 or nobody.                                 *)
LEMMA OwnerCases ==
  ASSUME OneEditor
  PROVE  /\ \A c \in Controllers : pc[c] \in Editing => Owner = c
         /\ (\A c \in Controllers : pc[c] \notin Editing)
               => Owner = IF pc2 \in Section2 THEN Core2 ELSE NoCore
<1>1. ASSUME NEW c \in Controllers, pc[c] \in Editing PROVE Owner = c
  BY <1>1, ZenonT(60) DEF Owner, OneEditor
<1>2. ASSUME \A c \in Controllers : pc[c] \notin Editing
      PROVE  Owner = IF pc2 \in Section2 THEN Core2 ELSE NoCore
  BY <1>2, ZenonT(60) DEF Owner
<1> QED  BY <1>1, <1>2

(* The same after a step.                                                     *)
LEMMA OwnerCasesNext ==
  ASSUME OneEditor
  PROVE  /\ \A c \in Controllers : pc'[c] \in Editing => Owner' = c
         /\ (\A c \in Controllers : pc'[c] \notin Editing)
               => Owner' = IF pc2' \in Section2 THEN Core2 ELSE NoCore
<1>1. ASSUME NEW c \in Controllers, pc'[c] \in Editing PROVE Owner' = c
  BY <1>1, ZenonT(60) DEF Owner, OneEditor
<1>2. ASSUME \A c \in Controllers : pc'[c] \notin Editing
      PROVE  Owner' = IF pc2' \in Section2 THEN Core2 ELSE NoCore
  BY <1>2, ZenonT(60) DEF Owner
<1> QED  BY <1>1, <1>2

(* Every change of hands of the array goes through nobody: core 2 gives it up *)
(* before a controller edits it, and gets it back only after the editor.      *)
THEOREM Implements == OneEditor => (Spec => OwnershipSpec)
<1> SUFFICES ASSUME OneEditor PROVE Spec => OwnershipSpec
  OBVIOUS
<1> DEFINE NoEditor == \A c \in Controllers : pc[c] \notin Editing
<1>1. Init => Ownership!Init
  <2> SUFFICES ASSUME Init PROVE Owner = NoCore
    BY DEF Ownership!Init
  <2>1. NoEditor /\ pc2 \notin Section2
    BY DEF Init, Editing, StopEditing, OpEditing, Section2
  <2> QED  BY <2>1, OwnerCases
<1>2. PulsesExclusive /\ PulsesExclusive' /\ [Next]_vars => [Ownership!Next]_Owner
  <2> SUFFICES ASSUME PulsesExclusive, PulsesExclusive', [Next]_vars
               PROVE  Ownership!Next \/ Owner' = Owner
    OBVIOUS
  <2>1. ASSUME NEW o \in Controllers \union {Core2}, Owner = NoCore, Owner' = o
        PROVE  Ownership!Next
    BY <2>1, ZenonT(60) DEF Ownership!Next, Ownership!Acquire
  <2>2. ASSUME Owner \in Controllers \union {Core2}, Owner' = NoCore
        PROVE  Ownership!Next
    BY <2>2, TapeAssumption DEF Ownership!Next, Ownership!Release
  <2>3. CASE UNCHANGED pc
    <3>1. CASE NoEditor
      <4>1. Owner = (IF pc2 \in Section2 THEN Core2 ELSE NoCore)
        BY <3>1, OwnerCases
      <4>2. Owner' = (IF pc2' \in Section2 THEN Core2 ELSE NoCore)
        BY <2>3, <3>1, OwnerCasesNext
      <4> QED  BY <4>1, <4>2, <2>1, <2>2
    <3>2. CASE ~NoEditor
      BY <2>3, <3>2, OwnerCases, OwnerCasesNext
    <3> QED  BY <3>1, <3>2
  <2>4. CASE UNCHANGED pc2 /\ ~UNCHANGED pc
    <3>1. CASE pc2 \in Section2
      <4>1. NoEditor /\ NoEditor'
        BY <2>4, <3>1 DEF PulsesExclusive
      <4> QED  BY <2>4, <4>1, OwnerCases, OwnerCasesNext
    <3>2. CASE pc2 \notin Section2
      <4>1. Owner = NoCore \/ Owner \in Controllers
        BY <3>2, OwnerCases
      <4>2. Owner' = NoCore \/ Owner' \in Controllers
        BY <2>4, <3>2, OwnerCasesNext
      <4>3. Owner \in Controllers /\ Owner' \in Controllers => Owner' = Owner
        BY DEF OneEditor
      <4> QED  BY <4>1, <4>2, <4>3, <2>1, <2>2
    <3> QED  BY <3>1, <3>2
  <2>5. UNCHANGED pc \/ UNCHANGED pc2
    <3>1. CASE CoreLoop
      BY <3>1 DEF CoreLoop, Stays, ctl, LoopTop, LookForEditor, Claim, Recheck, WaitForEvent,
                  GoIdle, FindPulse, FetchPulse, HoldLevel, LeaveWait, CheckAfterWait, Toggle, Drive
    <3>2. CASE IrqEnter \/ IrqSample \/ MotorLine \/ UNCHANGED vars
      BY <3>2 DEF IrqEnter, IrqSample, MotorLine, vars, ctl
    <3>3. ASSUME NEW c \in Controllers, Controller(c)
          PROVE  UNCHANGED pc2
      BY <3>3, ControllerKeepsCore2
    <3> QED  BY <3>1, <3>2, <3>3 DEF Next
  <2> QED  BY <2>3, <2>4, <2>5
<1> QED  BY <1>1, <1>2, ExclusivePulses, PTL DEF Spec, OwnershipSpec, Ownership!Spec

-----------------------------------------------------------------------------
(* Core 2 reads only half-waves that are on the tape. *)

(* From the moment core 2 has found a half-wave until it steps past it, the   *)
(* tape does not shrink under it: editors are excluded by the handshake, and  *)
(* the interrupt writes only while recording, when core 2 is not playing.     *)
Reading == pc2 \in {"fetch", "play", "check", "toggle", "drive"} => late \/ (~recording /\ index < Count)

(* Core 2 looks at recording and the position before it fetches.              *)
LEMMA ReadingCore2 ==
  ASSUME Reading, CoreLoop
  PROVE  Reading'
<1> USE DEF Reading, At2, Go2, Stays, modes, irqs, Count
<1>1. CASE LoopTop
  BY <1>1 DEF LoopTop
<1>2. CASE LookForEditor
  BY <1>2 DEF LookForEditor
<1>3. CASE Claim
  BY <1>3 DEF Claim
<1>4. CASE Recheck
  BY <1>4 DEF Recheck
<1>5. CASE WaitForEvent
  BY <1>5 DEF WaitForEvent
<1>6. CASE GoIdle
  BY <1>6 DEF GoIdle
<1>7. CASE FindPulse
  BY <1>7 DEF FindPulse, Idle2
<1>8. CASE FetchPulse
  BY <1>8 DEF FetchPulse
<1>9. CASE HoldLevel
  BY <1>9 DEF HoldLevel
<1>10. CASE LeaveWait
  BY <1>10 DEF LeaveWait
<1>11. CASE CheckAfterWait
  BY <1>11 DEF CheckAfterWait
<1>12. CASE Toggle
  BY <1>12 DEF Toggle
<1>13. CASE Drive
  BY <1>13 DEF Drive
<1> QED  BY <1>1, <1>2, <1>3, <1>4, <1>5, <1>6, <1>7, <1>8, <1>9, <1>10, <1>11, <1>12, <1>13 DEF CoreLoop

(* A controller changes them only while core 2 is outside.                    *)
LEMMA ReadingController ==
  ASSUME Handshake, OneEditor, Reading, NEW c \in Controllers,
         Controller(c)
  PROVE  Reading'
<1> USE DEF Reading, Count, Rest
<1>1. UNCHANGED pc2
  BY ControllerKeepsCore2
<1>2. CASE pc[c] \in Editing
  BY <1>1, <1>2 DEF Handshake, PulsesExclusive, Section2
<1>3. CASE pc[c] \notin Editing
  <2> USE <1>1, <1>3 DEF At, Editing, StopEditing, OpEditing, modes, tape
  <2>1. CASE Call(c)
    <3>1. CASE CallSetMotor(c)
      BY <3>1 DEF CallSetMotor
    <3>2. CASE ~CallSetMotor(c)
      BY <2>1, <3>2 DEF Call, CallPlay, CallStop, CallSeek, CallEjectOrLoad, CallRecord, CallTick, Enter
    <3> QED  BY <3>1, <3>2
  <2>2. CASE Press(c) \/ Tick10ms(c) \/ EarlySev(c)
    BY <2>2 DEF Press, Tick10ms, EarlySev
  <2>3. CASE Stop(c)
    BY <2>3 DEF Stop, StopNothing, StopRetriesSave, StopRetried, StopPlayback, StopRecording, StopSpin,
                StopEdit, StopSave, StopResume, StopRelease, RaiseLevel, RaisePin, AfterStop
  <2>4. CASE Paused(c)
    BY <2>4 DEF Paused, Pause, Spin, Resume, EjectEdit, LoadEdit, SeekEdit, RecordRefused, RecordEdit, Edit
  <2> QED  BY <2>1, <2>2, <2>3, <2>4 DEF Controller
<1> QED  BY <1>2, <1>3

(* From the fetch to the toggle nothing records and the position stays inside *)
(* the tape, until an interrupt comes late.                                   *)
THEOREM ReadingHolds == OneEditor => (Spec => []Reading)
<1> SUFFICES ASSUME OneEditor PROVE Spec => []Reading
  OBVIOUS
<1>1. Init => Reading
  BY DEF Init, Reading
<1>2. Handshake /\ Reading /\ [Next]_vars => Reading'
  <2> SUFFICES ASSUME Handshake, Reading, [Next]_vars PROVE Reading'
    OBVIOUS
  <2>1. CASE CoreLoop
    BY <2>1, ReadingCore2
  <2>2. ASSUME NEW c \in Controllers, Controller(c) PROVE Reading'
    BY <2>2, ReadingController
  <2>3. CASE IrqSample
    BY <2>3 DEF IrqSample, Reading, core2
  <2>4. CASE IrqEnter \/ MotorLine \/ UNCHANGED vars
    BY <2>4 DEF IrqEnter, MotorLine, vars, core2, tape, modes, irqs, Reading, Count
  <2> QED  BY <2>1, <2>2, <2>3, <2>4 DEF Next
<1> QED  BY <1>1, <1>2, HandshakeHolds, PTL DEF Spec

(* pulseTimings[currentPulseIndex] is read only inside the tape.              *)
THEOREM FetchesWithinTape == OneEditor => (Spec => []FetchWithinTape)
<1>1. Reading => FetchWithinTape
  BY DEF Reading, FetchWithinTape
<1> QED  BY <1>1, ReadingHolds, PTL

-----------------------------------------------------------------------------
(* A recording stays inside the allocated buffer. *)

(* Writing at or below the end keeps the array or makes it one longer.       *)
LEMMA WrittenLen ==
  ASSUME NEW p \in Seq(Nat), NEW i \in Nat, NEW d \in Nat, i <= Len(p)
  PROVE  Len(Written(p, i, d)) = IF i < Len(p) THEN Len(p) ELSE i + 1
<1>0. Len(p) \in Nat
  BY LenProperties
<1>1. CASE i < Len(p)
  <2>1. i + 1 \in 1 .. Len(p)
    BY <1>0, <1>1
  <2> QED  BY <2>1, <1>1, ExceptSeq DEF Written
<1>2. CASE i = Len(p)
  BY <1>0, <1>2 DEF Written
<1> QED  BY <1>0, <1>1, <1>2

(* Raising pulseCount to n makes the array the longer of the two.             *)
LEMMA GrownLen ==
  ASSUME NEW p \in Seq(Nat), NEW n \in Nat, n <= Len(p)
  PROVE  Len(GrownTo(p, n)) = Len(p)
<1> DEFINE m == IF Len(p) < n THEN n ELSE Len(p)
           e(i) == Slot(p, i)
<1>1. Len(p) \in Nat /\ m = Len(p)
  BY LenProperties
<1>2. GrownTo(p, n) = [i \in 1 .. m |-> e(i)]
  BY DEF GrownTo
<1> HIDE DEF m, e
<1> QED  BY <1>1, <1>2

Fits == index <= Count /\ Count <= capacity

(* pulseCapacity is tested before a half-wave is written.                     *)
LEMMA HalfWaveFits ==
  ASSUME TapeOK, Fits, NEW d \in Nat, AddHalfWave(d), capacity' = capacity
  PROVE  Fits'
<1>1. Len(pulses) \in Nat /\ index \in Nat /\ capacity \in Nat /\ pulses \in Seq(Nat)
  BY LenProperties DEF TapeOK
<1>2. CASE d > 0 /\ index < capacity
  <2>1. pulses' = Written(pulses, index, d) /\ index' = index + 1
    BY <1>2 DEF AddHalfWave
  <2>2. Len(pulses') = IF index < Len(pulses) THEN Len(pulses) ELSE index + 1
    BY <1>1, <2>1, WrittenLen DEF Fits, Count
  <2> QED  BY <1>1, <1>2, <2>1, <2>2 DEF Fits, Count
<1>3. CASE ~(d > 0 /\ index < capacity)
  BY <1>3 DEF AddHalfWave, Fits, Count
<1> QED  BY <1>2, <1>3

(* A whole sample of the interrupt.                                           *)
LEMMA SampleFits ==
  ASSUME TapeOK, Fits, NEW on, RecordSample(on), capacity' = capacity
  PROVE  Fits'
<1>1. HalfWaves \union {0} \subseteq Nat
  BY TapeAssumption
<1>2. CASE \E d \in HalfWaves \union {0} : SampleMotorOff(d)
  BY <1>1, <1>2, HalfWaveFits DEF SampleMotorOff
<1>3. CASE SampleMotorOn \/ SampleNoEdge
  BY <1>3 DEF SampleMotorOn, SampleNoEdge, Fits, Count
<1>4. CASE \E d \in HalfWaves \union {0} : SampleEdge(d)
  BY <1>1, <1>4, HalfWaveFits DEF SampleEdge
<1> QED  BY <1>2, <1>3, <1>4 DEF RecordSample

(* Closing the recording: the last half-wave, the header, the odd pair.       *)
LEMMA StopEditFits ==
  ASSUME TypeOK, Fits, NEW c \in Controllers, StopEdit(c)
  PROVE  Fits'
<1>1. PICK d \in IF rec.motor /\ index < capacity THEN HalfWaves \union {0} ELSE {0} :
        LET end  == IF d > 0 THEN index + 1 ELSE index
            p    == GrownTo(IF d > 0 THEN Written(pulses, index, d) ELSE pulses, end)
            dirty == unsaved \/ d > 0
        IN \E r \in IF dirty THEN Realigned(p, end) ELSE {<<p, end>>} :
             /\ pulses' = IF dirty /\ Len(r[1]) % 2 = 1 /\ Len(r[1]) < capacity
                          THEN Append(r[1], 1) ELSE r[1]
             /\ index' = r[2]
  BY ZenonT(60) DEF StopEdit
<1> DEFINE end  == IF d > 0 THEN index + 1 ELSE index
           q    == IF d > 0 THEN Written(pulses, index, d) ELSE pulses
           p    == GrownTo(q, end)
           dirty == unsaved \/ d > 0
<1>2. PICK r \in IF dirty THEN Realigned(p, end) ELSE {<<p, end>>} :
        /\ pulses' = IF dirty /\ Len(r[1]) % 2 = 1 /\ Len(r[1]) < capacity
                     THEN Append(r[1], 1) ELSE r[1]
        /\ index' = r[2]
  BY <1>1, ZenonT(60)
<1>3. /\ index \in Nat /\ pulses \in Seq(Nat) /\ capacity \in Nat /\ rec.start \in Nat
      /\ Len(pulses) \in Nat /\ index <= Len(pulses) /\ Len(pulses) <= capacity
  BY LenProperties DEF TypeOK, TapeOK, RecOK, Fits, Count
<1>4. d \in Nat /\ (d > 0 => index < capacity)
  BY <1>1, TapeAssumption
<1>5. end \in Nat /\ q \in Seq(Nat) /\ end <= Len(q) /\ Len(q) <= capacity
  <2>1. CASE d > 0
    <3>1. /\ Written(pulses, index, d) \in Seq(Nat)
          /\ Len(Written(pulses, index, d)) = IF index < Len(pulses) THEN Len(pulses) ELSE index + 1
      BY <1>3, <1>4, WrittenSeq, WrittenLen
    <3> QED  BY <1>3, <1>4, <2>1, <3>1
  <2>2. CASE ~(d > 0)
    BY <1>3, <2>2
  <2> QED  BY <2>1, <2>2
<1>6. p \in Seq(Nat) /\ end <= Len(p) /\ Len(p) <= capacity
  <2> HIDE DEF q, end
  <2> QED  BY <1>5, GrownTape, GrownLen
<1> HIDE DEF end, p, dirty
<1>7. r[1] \in Seq(Nat) /\ r[2] \in Nat /\ r[2] <= Len(r[1]) /\ Len(r[1]) <= capacity
  <2>1. CASE dirty
    <3>1. r \in Realigned(p, end)
      BY <1>2, <2>1
    <3> QED  BY <1>3, <1>5, <1>6, <3>1, RealignedTape
  <2>2. CASE ~dirty
    BY <1>2, <1>5, <1>6, <2>2
  <2> QED  BY <2>1, <2>2
<1>8. Len(r[1]) \in Nat
  BY <1>7, LenProperties
<1>9. capacity' = capacity
  BY DEF StopEdit
<1>10. CASE dirty /\ Len(r[1]) % 2 = 1 /\ Len(r[1]) < capacity
  <2>1. pulses' = Append(r[1], 1) /\ Len(Append(r[1], 1)) = Len(r[1]) + 1
    BY <1>2, <1>7, <1>10
  <2> QED  BY <1>2, <1>3, <1>7, <1>8, <1>9, <1>10, <2>1 DEF Fits, Count
<1>11. CASE ~(dirty /\ Len(r[1]) % 2 = 1 /\ Len(r[1]) < capacity)
  BY <1>2, <1>7, <1>9, <1>11 DEF Fits, Count
<1> QED  BY <1>10, <1>11

(* A late interrupt is remembered.                                            *)
LEMMA LateStays == late /\ [Next]_vars => late'
<1> SUFFICES ASSUME late, [Next]_vars PROVE late'
  OBVIOUS
<1>1. CASE CoreLoop
  BY <1>1 DEF CoreLoop, Stays, irqs, LoopTop, LookForEditor, Claim, Recheck, WaitForEvent, GoIdle,
              FindPulse, FetchPulse, HoldLevel, LeaveWait, CheckAfterWait, Toggle, Drive
<1>2. CASE IrqEnter \/ IrqSample \/ MotorLine \/ UNCHANGED vars
  BY <1>2 DEF IrqEnter, IrqSample, MotorLine, vars, irqs
<1>3. ASSUME NEW c \in Controllers, Call(c) \/ Press(c) \/ Tick10ms(c) \/ EarlySev(c) PROVE late'
  BY <1>3 DEF Rest, Enter, Call, Press, Tick10ms, EarlySev, CallPlay, CallStop, CallSeek, CallEjectOrLoad,
              CallRecord, CallTick, CallSetMotor
<1>4. ASSUME NEW c \in Controllers, Stop(c) PROVE late'
  BY <1>4 DEF Rest, Stop, StopNothing, StopRetriesSave, StopRetried, StopPlayback,
              StopRecording, StopSpin, StopEdit, StopSave, StopResume, StopRelease, RaiseLevel, RaisePin, AfterStop
<1>5. ASSUME NEW c \in Controllers, Paused(c) PROVE late'
  BY <1>5 DEF Rest, Edit, Paused, Pause, Spin, Resume, EjectEdit, LoadEdit, SeekEdit,
              RecordRefused, RecordEdit
<1> QED  BY <1>1, <1>2, <1>3, <1>4, <1>5 DEF Next, Controller

(* The calls and the other edits.                                             *)
LEMMA ControllerFits ==
  ASSUME TypeOK, Fits, NEW c \in Controllers,
         Controller(c)
  PROVE  Fits'
<1>0. Len(pulses) \in Nat /\ index \in Nat /\ capacity \in Nat /\ pulses \in Seq(Nat)
  BY LenProperties DEF TypeOK, TapeOK
<1> USE DEF tape
<1>1. CASE CallSetMotor(c)
  <2>1. CASE recording
    <3>1. RecordSample(alwaysOn' \/ motorPin) /\ capacity' = capacity
      BY <1>1, <2>1 DEF CallSetMotor
    <3> QED  BY <3>1, SampleFits DEF TypeOK
  <2>2. CASE ~recording
    BY <1>1, <2>2 DEF CallSetMotor, Fits, Count
  <2> QED  BY <2>1, <2>2
<1>2. CASE Call(c) /\ ~CallSetMotor(c)
  BY <1>2 DEF Call, CallPlay, CallStop, CallSeek, CallEjectOrLoad, CallRecord, CallTick, Enter, Fits, Count
<1>3. CASE Press(c) \/ Tick10ms(c) \/ EarlySev(c)
  BY <1>3 DEF Press, Tick10ms, EarlySev, Fits, Count
<1>4. CASE StopEdit(c)
  BY <1>4, StopEditFits
<1>5. CASE Stop(c) /\ ~StopEdit(c)
  BY <1>5 DEF Stop, StopNothing, StopRetriesSave, StopRetried, StopPlayback, StopRecording, StopSpin,
              StopSave, StopResume, StopRelease, RaiseLevel, RaisePin, AfterStop, Fits, Count
<1>6. CASE Pause(c) \/ Spin(c) \/ Resume(c) \/ RecordRefused(c)
  BY <1>6 DEF Pause, Spin, Resume, RecordRefused, Edit, Fits, Count
<1>7. CASE EjectEdit(c)
  <2>1. index' = 0 /\ pulses' = <<>> /\ capacity' = 0
    BY <1>7 DEF EjectEdit
  <2> QED  BY <2>1, EmptySeq DEF Fits, Count
<1>8. CASE LoadEdit(c)
  <2>1. index' = 0
    BY <1>8 DEF LoadEdit
  <2>2. Len(pulses') \in Nat /\ capacity' = Len(pulses')
    <3>1. CASE \E t \in Tapes : pulses' = t /\ capacity' = Len(t)
      BY <3>1, TapeAssumption, SeqMonotonic, LenProperties
    <3>2. CASE pulses' = <<>> /\ capacity' = 0
      BY <3>2, EmptySeq
    <3> QED  BY <1>8, <3>1, <3>2 DEF LoadEdit
  <2> QED  BY <2>1, <2>2 DEF Fits, Count
<1>9. CASE SeekEdit(c)
  <2>1. index' \in 0 .. Len(pulses) /\ UNCHANGED <<pulses, capacity>>
    BY <1>9 DEF SeekEdit, Count
  <2> QED  BY <1>0, <2>1 DEF Fits, Count
<1>10. CASE RecordEdit(c)
  <2>1. capacity' \in Nat /\ capacity' >= capacity
    BY <1>0, <1>10, TapeAssumption DEF RecordEdit
  <2>2. CASE offset > 0 /\ index < Count
    <3>1. index + 1 \in 1 .. Len(pulses) /\ offset \in Nat
      BY <1>0, <2>2 DEF Count, TypeOK, TapeOK
    <3>2. Len([pulses EXCEPT ![index + 1] = offset]) = Len(pulses)
      BY <1>0, <3>1, ExceptSeq
    <3>3. pulses' = [pulses EXCEPT ![index + 1] = offset] /\ index' = index + 1
      BY <1>10, <2>2 DEF RecordEdit
    <3> QED  BY <1>0, <2>1, <3>1, <3>2, <3>3 DEF Fits, Count
  <2>3. CASE ~(offset > 0 /\ index < Count)
    <3>1. UNCHANGED <<pulses, index>>
      BY <1>10, <2>3 DEF RecordEdit
    <3> QED  BY <1>0, <2>1, <3>1 DEF Fits, Count
  <2> QED  BY <2>2, <2>3
<1> QED  BY <1>1, <1>2, <1>3, <1>4, <1>5, <1>6, <1>7, <1>8, <1>9, <1>10 DEF Controller, Stop, Paused

(* The position never leaves the tape and the tape never outgrows the buffer, *)
(* however many headers are realigned, unless the interrupt wrote after the   *)
(* recording had ended.                                                       *)
THEOREM StaysWithinBuffer == OneEditor => (Spec => []WithinBuffer)
<1> SUFFICES ASSUME OneEditor PROVE Spec => []WithinBuffer
  OBVIOUS
<1>1. Init => WithinBuffer
  BY EmptySeq DEF Init, WithinBuffer, Count
<1>2. TypeOK /\ Reading /\ WithinBuffer /\ [Next]_vars => WithinBuffer'
  <2> SUFFICES ASSUME TypeOK, Reading, Fits, ~late, [Next]_vars PROVE late' \/ Fits'
    <3>1. late /\ [Next]_vars => late'
      BY LateStays
    <3> QED  BY <3>1 DEF WithinBuffer, Fits
  <2>1. CASE CoreLoop
    <3>1. CASE Drive
      <4>1. index' = index + 1 /\ UNCHANGED <<pulses, capacity>> /\ index < Count
        BY <3>1 DEF Drive, Stays, Reading, At2
      <4>2. index \in Nat /\ Len(pulses) \in Nat
        BY LenProperties DEF TypeOK, TapeOK
      <4> QED  BY <4>1, <4>2 DEF Fits, Count
    <3>2. CASE ~Drive
      BY <2>1, <3>2 DEF CoreLoop, Stays, LoopTop, LookForEditor, Claim, Recheck, WaitForEvent, GoIdle,
                        FindPulse, FetchPulse, HoldLevel, LeaveWait, CheckAfterWait, Toggle, Fits, Count
    <3> QED  BY <3>1, <3>2
  <2>2. ASSUME NEW c \in Controllers, Controller(c) PROVE Fits'
    BY <2>2, ControllerFits
  <2>3. CASE IrqSample
    BY <2>3, SampleFits DEF IrqSample, TypeOK
  <2>4. CASE IrqEnter \/ MotorLine \/ UNCHANGED vars
    BY <2>4 DEF IrqEnter, MotorLine, vars, tape, Fits, Count
  <2> QED  BY <2>1, <2>2, <2>3, <2>4 DEF Next
<1> QED  BY <1>1, <1>2, TypeCorrect, ReadingHolds, PTL DEF Spec

-----------------------------------------------------------------------------
(* Half-waves are never cut short. *)

(* A recording is over before a controller edits or reports success: what     *)
(* follows PausePlayback() never meets the interrupt of a live recording.     *)
AfterRecording == {"stopSave", "stopResume", "stopRelease", "raise", "raisePin", "retried",
                   "pause", "spin", "edit"}
RecordingEnded ==
  \A c \in Controllers :
    /\ pc[c] \in AfterRecording => ~recording
    /\ pc[c] = "stopped" /\ ok[c] => ~recording

(* The controller's steps, by what they do to the recording.                  *)
LEMMA ControllerEndsRecording ==
  ASSUME TypeOK, RecordingEnded, OneEditor, NEW c \in Controllers,
         Controller(c)
  PROVE  RecordingEnded'
<1>1. /\ pc \in [Controllers -> Labels] /\ ok \in [Controllers -> BOOLEAN]
      /\ \A d \in Controllers : d = c
  BY DEF TypeOK, CtlOK, OneEditor
<1> SUFFICES /\ pc'[c] \in AfterRecording => ~recording'
             /\ pc'[c] = "stopped" /\ ok'[c] => ~recording'
  BY <1>1 DEF RecordingEnded
<1> USE <1>1 DEF RecordingEnded, AfterRecording, At, Goto, Finish, Return, Rest, ctl, modes
<1>2. CASE Call(c)
  <2>1. CASE CallSetMotor(c)
    BY <2>1 DEF CallSetMotor
  <2>2. CASE CallPlay(c) \/ CallStop(c) \/ CallSeek(c) \/ CallRecord(c) \/ CallTick(c)
    BY <2>2 DEF CallPlay, CallStop, CallSeek, CallRecord, CallTick, Enter
  <2>3. CASE CallEjectOrLoad(c)
    BY <2>3 DEF CallEjectOrLoad, Enter
  <2> QED  BY <1>2, <2>1, <2>2, <2>3 DEF Call
<1>3. CASE Press(c) \/ Tick10ms(c) \/ EarlySev(c)
  <2>1. CASE Press(c)
    BY <2>1 DEF Press
  <2>2. CASE Tick10ms(c)
    BY <2>2 DEF Tick10ms
  <2>3. CASE EarlySev(c)
    BY <2>3 DEF EarlySev
  <2> QED  BY <1>3, <2>1, <2>2, <2>3
<1>4. CASE Stop(c)
  <2>1. CASE StopNothing(c) \/ StopRetriesSave(c) \/ StopRetried(c) \/ StopPlayback(c)
    <3>1. CASE StopNothing(c)
      BY <3>1 DEF StopNothing
    <3>2. CASE StopRetriesSave(c)
      BY <3>2 DEF StopRetriesSave
    <3>3. CASE StopRetried(c)
      BY <3>3 DEF StopRetried
    <3>4. CASE StopPlayback(c)
      BY <3>4 DEF StopPlayback
    <3> QED  BY <2>1, <3>1, <3>2, <3>3, <3>4
  <2>2. CASE StopRecording(c) \/ StopSpin(c)
    BY <2>2 DEF StopRecording, StopSpin
  <2>3. CASE StopEdit(c)
    BY <2>3 DEF StopEdit
  <2>4. CASE StopSave(c) \/ StopResume(c) \/ StopRelease(c)
    BY <2>4 DEF StopSave, StopResume, StopRelease
  <2>5. CASE RaiseLevel(c) \/ RaisePin(c)
    BY <2>5 DEF RaiseLevel, RaisePin
  <2>6. CASE AfterStop(c)
    BY <2>6 DEF AfterStop
  <2> QED  BY <1>4, <2>1, <2>2, <2>3, <2>4, <2>5, <2>6 DEF Stop
<1>5. CASE Paused(c)
  <2>1. CASE Pause(c) \/ Spin(c) \/ Resume(c)
    BY <2>1 DEF Pause, Spin, Resume
  <2>2. CASE EjectEdit(c) \/ LoadEdit(c) \/ SeekEdit(c) \/ RecordRefused(c) \/ RecordEdit(c)
    <3>1. pc'[c] = "resume"
      BY <2>2 DEF EjectEdit, LoadEdit, SeekEdit, RecordRefused, RecordEdit, Edit
    <3> QED  BY <3>1
  <2> QED  BY <1>5, <2>1, <2>2 DEF Paused
<1> QED  BY <1>2, <1>3, <1>4, <1>5 DEF Controller

(* Nobody edits while a recording is still on.                                *)
LEMMA RecordingEnds == OneEditor => (Spec => []RecordingEnded)
<1> SUFFICES ASSUME OneEditor PROVE Spec => []RecordingEnded
  OBVIOUS
<1>1. Init => RecordingEnded
  BY DEF Init, RecordingEnded
<1>2. TypeOK /\ RecordingEnded /\ [Next]_vars => RecordingEnded'
  <2> SUFFICES ASSUME TypeOK, RecordingEnded, [Next]_vars PROVE RecordingEnded'
    OBVIOUS
  <2>1. CASE CoreLoop
    BY <2>1 DEF RecordingEnded, CoreLoop, Stays, modes, ctl, LoopTop, LookForEditor, Claim, Recheck,
                WaitForEvent, GoIdle, FindPulse, FetchPulse, HoldLevel, LeaveWait, CheckAfterWait, Toggle, Drive
  <2>2. ASSUME NEW c \in Controllers, Controller(c)
        PROVE  RecordingEnded'
    BY <2>2, ControllerEndsRecording
  <2>3. CASE IrqEnter \/ IrqSample \/ MotorLine \/ UNCHANGED vars
    BY <2>3 DEF RecordingEnded, IrqEnter, IrqSample, MotorLine, vars, modes, ctl
  <2> QED  BY <2>1, <2>2, <2>3 DEF Next
<1> QED  BY <1>1, <1>2, TypeCorrect, PTL DEF Spec

(* READ is at the level of the current half-wave, and readLineState with it,  *)
(* except between the two stores of a toggle and at the end of the tape.      *)
InPhase ==
  loaded /\ ~atEnd => /\ pin <=> High(index)
                      /\ level <=> IF pc2 = "drive" THEN ~High(index) ELSE High(index)

(* What was heard of the current half-wave covers the offset that a fetch     *)
(* will skip.                                                                *)
Heard == heard >= offset \/ heard >= PulseAt(index)

(* During a wait the offset is spent, and what was skipped, output and is     *)
(* still to be output make up the half-wave.                                  *)
Waited ==
  /\ pc2 \in {"play", "check", "toggle"} =>
       /\ offset = 0
       /\ heard >= wait2.from + wait2.spent \/ heard >= PulseAt(index)
       /\ wait2.from + wait2.spent + wait2.left >= PulseAt(index)
  /\ pc2 \in {"check", "toggle"} => wait2.broken \/ wait2.left = 0

Playback == ~recording /\ Heard /\ Waited /\ InPhase
Progress == late \/ forced \/ Playback

(* Half-waves alternate.                                                      *)
LEMMA HighNext == ASSUME NEW i \in Nat PROVE High(i + 1) <=> ~High(i)
BY DEF High

(* A duration is a natural number, 0 past the end of the tape.                *)
LEMMA PulseAtNat ==
  ASSUME TapeOK
  PROVE  PulseAt(index) \in Nat
<1>1. Len(pulses) \in Nat /\ index \in Nat
  BY LenProperties DEF TapeOK
<1>2. CASE index < Len(pulses)
  <2>1. index + 1 \in 1 .. Len(pulses)
    BY <1>1, <1>2
  <2> QED  BY <1>2, <2>1, ElementOfSeq DEF PulseAt, Count, TapeOK
<1>3. CASE ~(index < Len(pulses))
  BY <1>3 DEF PulseAt, Count
<1> QED  BY <1>2, <1>3

(* Core 2's steps on READ: it inverts readLineState, and drives READ and      *)
(* steps to the next half-wave.                                               *)
LEMMA PhaseCore2 ==
  ASSUME TypeOK, InPhase, CoreLoop
  PROVE  InPhase'
<1>1. index \in Nat /\ level \in BOOLEAN /\ pin \in BOOLEAN
  BY DEF TypeOK, TapeOK, OutputOK
<1> USE DEF At2, Go2, Stays, modes, output
<1>2. ASSUME pc2 # "drive", pc2' # "drive", UNCHANGED <<loaded, atEnd, index, pin, level>>
      PROVE  InPhase'
  BY <1>2 DEF InPhase
<1>3. CASE LoopTop \/ LookForEditor \/ Claim \/ Recheck \/ WaitForEvent
  BY <1>2, <1>3 DEF LoopTop, LookForEditor, Claim, Recheck, WaitForEvent
<1>4. CASE GoIdle
  BY <1>2, <1>4, ZenonT(60) DEF GoIdle, InPhase
<1>5. CASE FindPulse \/ FetchPulse \/ HoldLevel \/ LeaveWait \/ CheckAfterWait
  BY <1>2, <1>5 DEF FindPulse, FetchPulse, HoldLevel, LeaveWait, CheckAfterWait
<1>6. CASE Toggle
  <2>1. /\ pc2 = "toggle" /\ pc2' = "drive" /\ level' = ~level
        /\ UNCHANGED <<loaded, atEnd, index, pin>>
    BY <1>6 DEF Toggle
  <2>2. High(index)' <=> High(index)
    BY <2>1 DEF High
  <2> QED  BY <2>1, <2>2, ZenonT(60) DEF InPhase
<1>7. CASE Drive
  <2>1. /\ pc2 = "drive" /\ pc2' = "top" /\ pin' = level /\ index' = index + 1
        /\ UNCHANGED <<loaded, atEnd, level>>
    BY <1>7 DEF Drive
  <2>2. High(index') <=> ~High(index)
    BY <1>1, <2>1, HighNext
  <2> QED  BY <2>1, <2>2 DEF InPhase
<1> QED  BY <1>3, <1>4, <1>5, <1>6, <1>7 DEF CoreLoop

(* Core 2's steps on what was heard.                                          *)
LEMMA ProgressCore2 ==
  ASSUME TypeOK, Reading, Playback, ~late, CoreLoop
  PROVE  Playback'
<1>1. /\ offset \in Nat /\ heard \in Nat /\ index \in Nat /\ Len(pulses) \in Nat
      /\ wait2 \in [from : Nat, left : Nat, spent : Nat, broken : BOOLEAN]
  BY LenProperties DEF TypeOK, TapeOK, Core2OK
<1>2. PulseAt(index) \in Nat
  BY PulseAtNat DEF TypeOK
<1>3. UNCHANGED <<pulses, recording>>
  BY DEF CoreLoop, Stays, modes, LoopTop, LookForEditor, Claim, Recheck, WaitForEvent, GoIdle,
         FindPulse, FetchPulse, HoldLevel, LeaveWait, CheckAfterWait, Toggle, Drive
<1> SUFFICES Heard' /\ Waited'
  BY <1>3, PhaseCore2 DEF Playback
<1> USE DEF At2, Go2, Playback, output
<1>4. ASSUME UNCHANGED <<offset, index, heard>>,
             pc2' \notin {"play", "check", "toggle"}
      PROVE  Heard' /\ Waited'
  BY <1>3, <1>4 DEF Heard, Waited, PulseAt, Count
<1>5. CASE LoopTop \/ LookForEditor \/ Claim \/ Recheck \/ WaitForEvent \/ GoIdle \/ FindPulse \/ Toggle
  BY <1>4, <1>5 DEF LoopTop, LookForEditor, Claim, Recheck, WaitForEvent, GoIdle, FindPulse, Toggle
<1>6. CASE FetchPulse
  <2> DEFINE duration == PulseAt(index)
             start == IF offset < duration THEN offset ELSE IF duration > 0 THEN duration - 1 ELSE 0
  <2>1. /\ pc2' = "play" /\ offset' = 0 /\ UNCHANGED <<index, heard>>
        /\ wait2' = [from |-> start, spent |-> 0, broken |-> FALSE,
                     left |-> IF duration > start THEN duration - start ELSE 1]
    BY <1>6 DEF FetchPulse
  <2>2. PulseAt(index)' = duration
    BY <1>3, <2>1 DEF PulseAt, Count
  <2>3. start \in Nat /\ (heard >= start \/ heard >= duration)
    BY <1>1, <1>2 DEF Heard
  <2>4. start + 0 + (IF duration > start THEN duration - start ELSE 1) >= duration
    BY <1>2, <2>3
  <2> HIDE DEF duration, start
  <2> QED  BY <1>1, <2>1, <2>2, <2>3, <2>4 DEF Heard, Waited
<1>7. CASE HoldLevel
  <2>1. /\ pc2 = "play" /\ wait2.left > 0 /\ UNCHANGED <<pc2, index, offset>>
        /\ wait2' = [wait2 EXCEPT !.left = @ - 1, !.spent = @ + 1]
        /\ heard' = IF heard < PulseAt(index) THEN heard + 1 ELSE heard
    <3>1. pin <=> High(index)
      BY <1>7 DEF HoldLevel, Abort2, InPhase
    <3> QED  BY <1>7, <3>1 DEF HoldLevel
  <2>2. PulseAt(index)' = PulseAt(index)
    BY <1>3, <2>1 DEF PulseAt, Count
  <2>3. wait2'.from = wait2.from /\ wait2'.left = wait2.left - 1 /\ wait2'.spent = wait2.spent + 1
    BY <1>1, <2>1
  <2>4. CASE heard < PulseAt(index)
    BY <1>1, <1>2, <1>3, <2>1, <2>2, <2>3, <2>4 DEF Heard, Waited
  <2>5. CASE ~(heard < PulseAt(index))
    BY <1>1, <1>2, <1>3, <2>1, <2>2, <2>3, <2>5 DEF Heard, Waited
  <2> QED  BY <2>4, <2>5
<1>8. CASE LeaveWait
  <2>1. /\ pc2 = "play" /\ pc2' = "check" /\ UNCHANGED <<index, offset, heard>>
        /\ wait2' = [wait2 EXCEPT !.broken = ~(wait2.left = 0)]
    BY <1>8 DEF LeaveWait
  <2>2. PulseAt(index)' = PulseAt(index)
    BY <1>3, <2>1 DEF PulseAt, Count
  <2>3. /\ wait2'.from = wait2.from /\ wait2'.left = wait2.left /\ wait2'.spent = wait2.spent
        /\ wait2'.broken \/ wait2.left = 0
    BY <1>1, <2>1
  <2> QED  BY <1>3, <2>1, <2>2, <2>3 DEF Heard, Waited, Count
<1>9. CASE CheckAfterWait
  <2>1. pc2 = "check" /\ UNCHANGED <<index, heard>>
    BY <1>9 DEF CheckAfterWait
  <2>2. PulseAt(index)' = PulseAt(index) /\ ~recording'
    BY <1>3, <2>1 DEF PulseAt, Count, Reading
  <2>3. CASE pc2' = "top"
    <3>1. offset' = offset \/ offset' = wait2.from + wait2.spent
      BY <1>9, <2>3 DEF CheckAfterWait
    <3> QED  BY <2>1, <2>2, <2>3, <3>1 DEF Heard, Waited
  <2>4. CASE pc2' = "toggle"
    <3>1. UNCHANGED <<offset, wait2>>
      BY <1>9, <2>4 DEF CheckAfterWait, Abort2
    <3> QED  BY <2>1, <2>2, <2>4, <3>1 DEF Heard, Waited
  <2> QED  BY <1>9, <2>3, <2>4 DEF CheckAfterWait
<1>10. CASE Drive
  BY <1>10 DEF Drive, Heard, Waited
<1> QED  BY <1>5, <1>6, <1>7, <1>8, <1>9, <1>10 DEF CoreLoop

(* The controllers: an editor leaves the tape at the start of what it will    *)
(* play, or at the offset a seek takes as heard, with READ at its level; a    *)
(* recording, or a stop in a low half-wave, is remembered in forced.          *)
LEMMA ProgressController ==
  ASSUME Handshake, OneEditor, RecordingEnded, Progress, ~late,
         NEW c \in Controllers, Controller(c)
  PROVE  Progress'
<1>1. TypeOK /\ forced \in BOOLEAN
  BY DEF Handshake, TypeOK, OutputOK
<1>2. UNCHANGED <<pc2, wait2>>
  BY ControllerKeepsCore2
<1>3. ASSUME UNCHANGED <<pulses, index, offset, atEnd, recording, loaded, level, pin, heard, forced>>
      PROVE  Progress'
  BY <1>2, <1>3 DEF Progress, Playback, Heard, Waited, InPhase, High, PulseAt, Count
<1>4. ASSUME pc[c] \in Editing PROVE Waited' /\ pc2' # "drive"
  BY <1>2, <1>4 DEF Handshake, PulsesExclusive, Section2, Waited
<1> USE DEF tape, modes, output, At
<1>5. CASE Call(c)
  <2>1. CASE CallSetMotor(c) /\ recording
    BY <2>1 DEF CallSetMotor, Progress, Playback
  <2>2. CASE CallSetMotor(c) /\ ~recording
    BY <1>3, <2>2 DEF CallSetMotor
  <2>3. CASE ~CallSetMotor(c)
    BY <1>3, <1>5, <2>3 DEF Call, CallPlay, CallStop, CallSeek, CallEjectOrLoad, CallRecord, CallTick, Enter
  <2> QED  BY <2>1, <2>2, <2>3
<1>6. CASE Press(c) \/ Tick10ms(c) \/ EarlySev(c)
  BY <1>3, <1>6 DEF Press, Tick10ms, EarlySev
<1>7. CASE Stop(c)
  <2>1. CASE StopEdit(c)
    BY <2>1 DEF StopEdit, Progress
  <2>2. CASE RaiseLevel(c)
    <3>1. CASE level = TRUE
      BY <1>1, <1>3, <2>2, <3>1 DEF RaiseLevel
    <3>2. CASE level # TRUE
      <4>1. forced'
        BY <1>1, <2>2, <3>2 DEF RaiseLevel, TypeOK, OutputOK
      <4> QED  BY <4>1 DEF Progress
    <3> QED  BY <3>1, <3>2
  <2>3. CASE RaisePin(c)
    <3>1. CASE pin = TRUE
      BY <1>1, <1>3, <2>3, <3>1 DEF RaisePin
    <3>2. CASE pin # TRUE
      <4>1. forced'
        BY <1>1, <2>3, <3>2 DEF RaisePin, TypeOK, OutputOK
      <4> QED  BY <4>1 DEF Progress
    <3> QED  BY <3>1, <3>2
  <2>4. CASE Stop(c) /\ ~StopEdit(c) /\ ~RaiseLevel(c) /\ ~RaisePin(c)
    BY <1>3, <2>4 DEF Stop, StopNothing, StopRetriesSave, StopRetried, StopPlayback,
                      StopRecording, StopSpin, StopSave, StopResume, StopRelease, AfterStop
  <2> QED  BY <1>7, <2>1, <2>2, <2>3, <2>4
<1>8. CASE Pause(c) \/ Spin(c) \/ Resume(c) \/ RecordRefused(c)
  BY <1>3, <1>8 DEF Pause, Spin, Resume, RecordRefused, Edit
<1>9. CASE RecordEdit(c)
  BY <1>9 DEF RecordEdit, Progress
<1>10. CASE EjectEdit(c) \/ LoadEdit(c) \/ SeekEdit(c)
  <2>1. pc[c] = "edit" /\ pc[c] \in Editing
    BY <1>10 DEF EjectEdit, LoadEdit, SeekEdit, Edit, Editing, OpEditing
  <2>2. ~recording /\ Waited' /\ pc2' # "drive"
    BY <1>4, <2>1 DEF RecordingEnded, AfterRecording
  <2>3. CASE EjectEdit(c)
    BY <2>2, <2>3 DEF EjectEdit, Heard, InPhase, Playback, Progress
  <2>4. CASE LoadEdit(c)
    <3>1. recording' = FALSE /\ index' = 0 /\ offset' = 0 /\ heard' = 0
      BY <2>4 DEF LoadEdit
    <3>2. ~loaded' \/ (level' = TRUE /\ pin' = TRUE)
      BY <2>4, ZenonT(60) DEF LoadEdit
    <3>3. High(index)'
      BY <3>1 DEF High
    <3> QED  BY <2>2, <3>1, <3>2, <3>3 DEF Heard, InPhase, Playback, Progress
  <2>5. CASE SeekEdit(c)
    <3>1. heard' = offset' /\ UNCHANGED recording /\ level' = High(index') /\ pin' = High(index')
      BY <2>5 DEF SeekEdit
    <3>2. offset' \in Nat
      BY <1>1, <2>5, PausedTypes DEF Paused, MainOK, TapeOK
    <3> QED  BY <2>2, <3>1, <3>2 DEF Heard, InPhase, Playback, Progress
  <2> QED  BY <1>10, <2>3, <2>4, <2>5
<1> QED  BY <1>5, <1>6, <1>7, <1>8, <1>9, <1>10 DEF Controller, Paused

(* No half-wave is cut short or output at the wrong level, whatever stops in  *)
(* high half-waves, motor stops and seeks come in between.                    *)
THEOREM HalfWavesWhole == OneEditor => (Spec => []WholeHalfWave)
<1> SUFFICES ASSUME OneEditor PROVE Spec => []WholeHalfWave
  OBVIOUS
<1>1. Init => Progress
  BY DEF Init, Progress, Playback, Heard, Waited, InPhase, High
<1>2. Handshake /\ Reading /\ RecordingEnded /\ Progress /\ [Next]_vars => Progress'
  <2> SUFFICES ASSUME Handshake, Reading, RecordingEnded, Progress, ~late, [Next]_vars
               PROVE  Progress'
    BY LateStays DEF Progress
  <2>1. TypeOK
    BY DEF Handshake
  <2>2. CASE CoreLoop
    <3>1. forced' = forced
      BY <2>2 DEF CoreLoop, output, LoopTop, LookForEditor, Claim, Recheck, WaitForEvent, GoIdle,
                  FindPulse, FetchPulse, HoldLevel, LeaveWait, CheckAfterWait, Toggle, Drive
    <3> QED  BY <2>1, <2>2, <3>1, ProgressCore2 DEF Progress
  <2>3. ASSUME NEW c \in Controllers, Controller(c) PROVE Progress'
    BY <2>3, ProgressController
  <2>4. CASE IrqSample
    BY <2>4, ZenonT(60) DEF IrqSample, output, Progress, Playback
  <2>5. CASE IrqEnter \/ MotorLine \/ UNCHANGED vars
    BY <2>5 DEF IrqEnter, MotorLine, vars, core2, tape, modes, irqs, output, Progress, Playback,
                Heard, Waited, InPhase, High, PulseAt, Count
  <2> QED  BY <2>2, <2>3, <2>4, <2>5 DEF Next
<1>3. TypeOK /\ Progress => WholeHalfWave
  <2> SUFFICES ASSUME TypeOK, Heard, Waited, pc2 = "toggle", ~wait2.broken
               PROVE  heard >= PulseAt(index)
    BY DEF Progress, Playback, WholeHalfWave
  <2>1. PulseAt(index) \in Nat
    BY PulseAtNat DEF TypeOK
  <2>2. heard \in Nat /\ wait2 \in [from : Nat, left : Nat, spent : Nat, broken : BOOLEAN]
    BY DEF TypeOK, TapeOK, Core2OK
  <2>3. wait2.left = 0
    BY DEF Waited
  <2> QED  BY <2>1, <2>2, <2>3 DEF Waited
<1> QED  BY <1>1, <1>2, <1>3, TypeCorrect, HandshakeHolds, ReadingHolds, RecordingEnds, PTL DEF Spec

-----------------------------------------------------------------------------
(* A tape that is not flagged as unsaved is on the card. *)

(* Between SaveTap() and the store of its result, a success means the file.   *)
Saved ==
  /\ loaded /\ ~unsaved => file = pulses
  /\ \A c \in Controllers : pc[c] \in {"retried", "stopResume"} /\ ok[c] /\ loaded => file = pulses

(* A half-wave that is recorded flags the tape.                               *)
LEMMA SampleFlags ==
  ASSUME NEW on, RecordSample(on)
  PROVE  (pulses' = pulses /\ unsaved' = unsaved) \/ unsaved'
BY DEF RecordSample, SampleMotorOff, SampleMotorOn, SampleNoEdge, SampleEdge, AddHalfWave

(* A recording that added nothing leaves the array as it was.                 *)
LEMMA StopEditFlags ==
  ASSUME TypeOK, Fits, NEW c \in Controllers, StopEdit(c)
  PROVE  unsaved' \/ (pulses' = pulses /\ ~unsaved)
<1>1. Len(pulses) \in Nat /\ index \in Nat /\ pulses \in Seq(Nat) /\ index <= Len(pulses)
  BY LenProperties DEF TypeOK, TapeOK, Fits, Count
<1>2. PICK d \in IF rec.motor /\ index < capacity THEN HalfWaves \union {0} ELSE {0} :
        LET end  == IF d > 0 THEN index + 1 ELSE index
            p    == GrownTo(IF d > 0 THEN Written(pulses, index, d) ELSE pulses, end)
            dirty == unsaved \/ d > 0
        IN \E r \in IF dirty THEN Realigned(p, end) ELSE {<<p, end>>} :
             /\ pulses' = IF dirty /\ Len(r[1]) % 2 = 1 /\ Len(r[1]) < capacity
                          THEN Append(r[1], 1) ELSE r[1]
             /\ unsaved' = dirty
  BY ZenonT(60) DEF StopEdit
<1>3. CASE unsaved \/ d > 0
  BY <1>2, <1>3
<1>4. CASE ~(unsaved \/ d > 0)
  <2>1. pulses' = GrownTo(pulses, index)
    BY <1>2, <1>4
  <2>2. GrownTo(pulses, index) = [i \in 1 .. Len(pulses) |-> pulses[i]]
    BY <1>1, LenProperties DEF GrownTo, Slot
  <2>3. pulses = [i \in 1 .. Len(pulses) |-> pulses[i]]
    BY <1>1
  <2> QED  BY <1>4, <2>1, <2>2, <2>3
<1> QED  BY <1>3, <1>4

(* The controllers' steps.                                                    *)
LEMMA SavedController ==
  ASSUME TypeOK, OneEditor, Fits, Saved, NEW c \in Controllers,
         Controller(c)
  PROVE  Saved'
<1>1. /\ pc \in [Controllers -> Labels] /\ ok \in [Controllers -> BOOLEAN]
      /\ \A d \in Controllers : d = c
  BY DEF TypeOK, CtlOK, OneEditor
<1> SUFFICES /\ loaded' /\ ~unsaved' => file' = pulses'
             /\ pc'[c] \in {"retried", "stopResume"} /\ ok'[c] /\ loaded' => file' = pulses'
  BY <1>1 DEF Saved
<1> USE <1>1 DEF Saved, At, Goto, Finish, Return, Rest, ctl, modes, tape
<1>2. CASE Call(c)
  <2>1. CASE CallSetMotor(c)
    <3>1. pc'[c] = "tick" /\ UNCHANGED <<loaded, file>>
      BY <2>1 DEF CallSetMotor
    <3>2. (pulses' = pulses /\ unsaved' = unsaved) \/ unsaved'
      BY <2>1, SampleFlags DEF CallSetMotor
    <3> QED  BY <3>1, <3>2
  <2>2. CASE CallPlay(c) \/ CallStop(c) \/ CallSeek(c) \/ CallRecord(c) \/ CallTick(c)
    BY <2>2 DEF CallPlay, CallStop, CallSeek, CallRecord, CallTick, Enter
  <2>3. CASE CallEjectOrLoad(c)
    BY <2>3 DEF CallEjectOrLoad, Enter
  <2> QED  BY <1>2, <2>1, <2>2, <2>3 DEF Call
<1>3. CASE Press(c) \/ Tick10ms(c) \/ EarlySev(c)
  BY <1>3 DEF Press, Tick10ms, EarlySev
<1>4. CASE Stop(c)
  <2>1. CASE StopNothing(c) \/ StopPlayback(c) \/ StopRecording(c) \/ StopSpin(c) \/ StopRelease(c)
    BY <2>1 DEF StopNothing, StopPlayback, StopRecording, StopSpin, StopRelease
  <2>2. CASE StopRetriesSave(c)
    BY <2>2 DEF StopRetriesSave, SaveTap
  <2>3. CASE StopRetried(c)
    BY <2>3 DEF StopRetried
  <2>4. CASE StopEdit(c)
    <3>1. pc'[c] = "stopSave" /\ UNCHANGED <<loaded, file>>
      BY <2>4 DEF StopEdit
    <3>2. unsaved' \/ (pulses' = pulses /\ ~unsaved)
      BY <2>4, StopEditFlags
    <3> QED  BY <3>1, <3>2
  <2>5. CASE StopSave(c)
    BY <2>5 DEF StopSave, SaveTap
  <2>6. CASE StopResume(c)
    BY <2>6 DEF StopResume
  <2>7. CASE AfterStop(c)
    BY <2>7 DEF AfterStop
  <2>8. CASE RaiseLevel(c) \/ RaisePin(c)
    BY <2>8 DEF RaiseLevel, RaisePin
  <2> QED  BY <1>4, <2>1, <2>2, <2>3, <2>4, <2>5, <2>6, <2>7, <2>8 DEF Stop
<1>5. CASE Paused(c)
  <2>1. CASE Pause(c) \/ Spin(c) \/ Resume(c)
    BY <2>1 DEF Pause, Spin, Resume
  <2>2. CASE EjectEdit(c) \/ LoadEdit(c) \/ SeekEdit(c) \/ RecordRefused(c) \/ RecordEdit(c)
    <3>1. pc'[c] = "resume"
      BY <2>2 DEF EjectEdit, LoadEdit, SeekEdit, RecordRefused, RecordEdit, Edit
    <3>2. loaded' /\ ~unsaved' => file' = pulses'
      BY <2>2 DEF EjectEdit, LoadEdit, SeekEdit, RecordRefused, RecordEdit
    <3> QED  BY <3>1, <3>2
  <2> QED  BY <1>5, <2>1, <2>2 DEF Paused
<1> QED  BY <1>2, <1>3, <1>4, <1>5 DEF Controller

(* Failed writes, retried saves and recordings that add nothing included, a   *)
(* tape that is not flagged as unsaved is in the file.                        *)
THEOREM SavedOnCard == OneEditor => (Spec => []SavedUnlessLate)
<1> SUFFICES ASSUME OneEditor PROVE Spec => []SavedUnlessLate
  OBVIOUS
<1>1. Init => Saved
  BY DEF Init, Saved
<1>2. TypeOK /\ WithinBuffer /\ RecordingEnded /\ (late \/ Saved) /\ [Next]_vars => (late \/ Saved)'
  <2> SUFFICES ASSUME TypeOK, Fits, RecordingEnded, Saved, ~late, [Next]_vars
               PROVE  late' \/ Saved'
    BY LateStays DEF WithinBuffer, Fits
  <2>1. CASE CoreLoop
    BY <2>1 DEF Saved, CoreLoop, Stays, modes, ctl, LoopTop, LookForEditor, Claim, Recheck,
                WaitForEvent, GoIdle, FindPulse, FetchPulse, HoldLevel, LeaveWait, CheckAfterWait, Toggle, Drive
  <2>2. ASSUME NEW c \in Controllers, Controller(c) PROVE Saved'
    BY <2>2, SavedController
  <2>3. CASE IrqSample /\ recording
    <3>1. UNCHANGED <<pc, ok, loaded, file>>
      BY <2>3 DEF IrqSample, ctl
    <3>2. (pulses' = pulses /\ unsaved' = unsaved) \/ unsaved'
      BY <2>3, SampleFlags DEF IrqSample
    <3>3. \A c \in Controllers : pc[c] \notin {"retried", "stopResume"}
      BY <2>3 DEF RecordingEnded, AfterRecording
    <3> QED  BY <3>1, <3>2, <3>3 DEF Saved
  <2>4. CASE IrqSample /\ ~recording
    BY <2>4 DEF IrqSample
  <2>5. CASE IrqEnter \/ MotorLine \/ UNCHANGED vars
    BY <2>5 DEF IrqEnter, MotorLine, vars, tape, modes, ctl, Saved
  <2> QED  BY <2>1, <2>2, <2>3, <2>4, <2>5 DEF Next
<1>3. late \/ Saved => SavedUnlessLate
  BY DEF Saved, SavedUnlessLate, SavedTapeOnCard
<1> QED  BY <1>1, <1>2, <1>3, TypeCorrect, StaysWithinBuffer, RecordingEnds, PTL DEF Spec
===============================================================================
