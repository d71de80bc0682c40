--------------------------- MODULE UiSnapshotProofs ---------------------------
(***************************************************************************)
(* The drive state of the display is an atomic register, for any fields    *)
(* and any number of publications. The invariant relates the sequence      *)
(* number to what the fields hold, and a read that will not be repeated to *)
(* the fields it has copied.                                               *)
(***************************************************************************)
EXTENDS UiSnapshot, TLAPS

Values == [Fields -> Nat]

SnapshotTypes ==
  /\ sequence \in Nat /\ snapshot \in Values /\ unwritten \subseteq Fields
  /\ reading \in BOOLEAN /\ before \in Nat /\ uncopied \subseteq Fields
  /\ copy \in Values /\ result \in Values

(* A field that the publication under way need not write any more is its.  *)
Written ==
  /\ ~Odd(sequence) => unwritten = {}
  /\ \A f \in Fields \ unwritten : snapshot[f] = Publication(sequence)

(* As long as a read may succeed, what it has copied is one publication.   *)
Copied ==
  /\ before <= sequence
  /\ reading /\ ~Torn => \A f \in Fields \ uncopied : copy[f] = Publication(sequence)

SnapshotInvariant == SnapshotTypes /\ Written /\ Copied

LEMMA Parity ==
  ASSUME NEW n \in Nat
  PROVE  /\ Publication(n) \in Nat /\ n \div 2 \in Nat
         /\ ~Odd(n) => Odd(n + 1) /\ Publication(n) = n \div 2 /\ (n + 1) \div 2 = n \div 2
         /\ Odd(n) => /\ ~Odd(n + 1) /\ Publication(n + 1) = Publication(n)
                      /\ (n + 1) \div 2 = (n \div 2) + 1
BY SMT DEF Odd, Publication

LEMMA SnapshotInit == Init => SnapshotInvariant
<1> SUFFICES ASSUME Init PROVE SnapshotInvariant
  OBVIOUS
<1>1. SnapshotTypes
  BY DEF Init, SnapshotTypes, Values
<1>2. Publication(sequence) = 0
  BY SMT DEF Init, Publication
<1>3. Written
  BY <1>2 DEF Init, Written
<1>4. Copied
  BY DEF Init, Copied
<1> QED  BY <1>1, <1>3, <1>4 DEF SnapshotInvariant

LEMMA SnapshotStep == SnapshotInvariant /\ [Next]_vars => SnapshotInvariant'
<1> SUFFICES ASSUME SnapshotInvariant, [Next]_vars PROVE SnapshotInvariant'
  OBVIOUS
<1> USE DEF SnapshotInvariant, SnapshotTypes, Written, Copied, Values
<1>1. CASE StartPublishing
  <2>1. Odd(sequence') /\ before # sequence'
    BY <1>1, Parity DEF StartPublishing
  <2> QED  BY <1>1, <2>1 DEF StartPublishing, Torn, reader
<1>2. CASE WriteField
  <2>1. PICK f \in unwritten :
          /\ snapshot' = [snapshot EXCEPT ![f] = Publication(sequence)]
          /\ unwritten' = unwritten \ {f}
    BY <1>2 DEF WriteField
  <2>2. Publication(sequence) \in Nat /\ UNCHANGED <<sequence, reader>>
    BY <1>2, Parity DEF WriteField
  <2> QED  BY <2>1, <2>2 DEF Torn, reader, Publication
<1>3. CASE FinishPublishing
  <2>1. before # sequence' /\ Publication(sequence') = Publication(sequence)
    BY <1>3, Parity DEF FinishPublishing
  <2> QED  BY <1>3, <2>1 DEF FinishPublishing, Torn, reader
<1>4. CASE StartReading
  BY <1>4 DEF StartReading, Torn, publisher, Publication
<1>5. CASE CopyField
  <2>1. PICK f \in uncopied :
          copy' = [copy EXCEPT ![f] = snapshot[f]] /\ uncopied' = uncopied \ {f}
    BY <1>5 DEF CopyField
  <2>2. ~Torn => snapshot[f] = Publication(sequence)
    BY DEF Torn
  <2> QED  BY <1>5, <2>1, <2>2 DEF CopyField, Torn, publisher, Publication
<1>6. CASE ReadAgain
  BY <1>6 DEF ReadAgain, Torn, publisher, Publication
<1>7. CASE FinishReading
  BY <1>7 DEF FinishReading, Torn, publisher, Publication
<1>8. CASE UNCHANGED vars
  BY <1>8 DEF vars, Torn, Publication, Odd
<1> QED  BY <1>1, <1>2, <1>3, <1>4, <1>5, <1>6, <1>7, <1>8 DEF Next

(* What a reader may return with, and what it will have copied by then     *)
(* (ReadPi1551UiSnapshot(), main.cpp:536-614).                             *)
THEOREM ReadsWhole == Spec => []SnapshotInvariant
BY SnapshotInit, SnapshotStep, PTL DEF Spec

LEMMA PublishesOrReads ==
  SnapshotInvariant /\ [Next]_vars => [Register!Next]_<<sequence \div 2, result>>
<1> SUFFICES ASSUME SnapshotInvariant, [Next]_vars
             PROVE  Register!Next \/ UNCHANGED <<sequence \div 2, result>>
  OBVIOUS
<1> USE DEF SnapshotInvariant, SnapshotTypes
<1>1. CASE StartPublishing
  BY <1>1, Parity DEF StartPublishing, reader
<1>2. CASE FinishPublishing
  <2>1. Register!Publish
    BY <1>2, Parity DEF FinishPublishing, reader, Register!Publish
  <2> QED  BY <2>1 DEF Register!Next
<1>3. CASE FinishReading
  <2>1. \A f \in Fields : copy[f] = sequence \div 2
    BY <1>3, Parity DEF FinishReading, Copied, Torn
  <2>2. Register!Read
    BY <1>3, <2>1 DEF FinishReading, publisher, Values, Register!Read
  <2> QED  BY <2>2 DEF Register!Next
<1>4. CASE WriteField
  BY <1>4 DEF WriteField, reader
<1>5. CASE StartReading \/ CopyField \/ ReadAgain
  BY <1>5 DEF StartReading, CopyField, ReadAgain, publisher
<1>6. CASE UNCHANGED vars
  BY <1>6 DEF vars
<1> QED  BY <1>1, <1>2, <1>3, <1>4, <1>5, <1>6 DEF Next

(* A read without a lock gives all fields of the last publication, whatever *)
(* is published meanwhile (main.cpp:536-614).                              *)
THEOREM IsRegister == Spec => RegisterSpec
<1>1. Init => Register!Init
  BY DEF Init, Register!Init
<1>2. Spec => Register!Init /\ [][Register!Next]_<<sequence \div 2, result>>
  BY <1>1, ReadsWhole, PublishesOrReads, PTL DEF Spec
<1> QED  BY <1>2 DEF RegisterSpec, Register!Spec
===============================================================================
