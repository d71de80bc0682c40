------------------------------ MODULE UiSnapshot ------------------------------
(* The drive state that core 1 publishes for the display while a 1551 is     *)
(* emulated, main.cpp:536-614. There is no lock: the publisher makes a       *)
(* sequence number odd, writes the fields in an order the compiler and the   *)
(* cores choose, and makes it even; a reader copies the fields and starts    *)
(* again when the number was odd or has changed. A field holds the number of *)
(* the publication that wrote it. The registers of the 6502 are only written *)
(* while DisplayPC is on; Fields are those of one setting of it.             *)
(* Bound: MaxPublications publications, so the sequence never wraps here (32 *)
(* bits in the code, where a read would have to last two years to be fooled).*)
EXTENDS Naturals

CONSTANTS Fields,            \* the fields of g_pi1551UiSnapshot
          MaxPublications    \* how often core 1 publishes
ASSUME SnapshotAssumption == Fields # {} /\ MaxPublications \in Nat

VARIABLES sequence,    \* g_pi1551UiSnapshotSequence
          snapshot,    \* [Fields -> Nat], g_pi1551UiSnapshot
          unwritten,   \* fields the publication under way has still to write
          reading,     \* the reader is inside the loop of ReadPi1551UiSnapshot
          before,      \* sequenceBefore
          uncopied,    \* fields the reader has still to copy
          copy,        \* [Fields -> Nat], the caller's snapshot
          result       \* [Fields -> Nat], what the last call returned with
publisher == <<sequence, snapshot, unwritten>>
reader == <<reading, before, uncopied, copy, result>>
vars == <<sequence, snapshot, unwritten, reading, before, uncopied, copy, result>>

Init == /\ sequence = 0
        /\ snapshot = [f \in Fields |-> 0]
        /\ unwritten = {}
        /\ reading = FALSE
        /\ before = 0
        /\ uncopied = {}
        /\ copy = [f \in Fields |-> 0]
        /\ result = [f \in Fields |-> 0]

Odd(n) == n % 2 = 1
(* The publication that a sequence number belongs to, complete or under way. *)
Publication(n) == (n + 1) \div 2

(* Core 1, PublishPi1551UiSnapshot *)
StartPublishing == /\ ~Odd(sequence)
                   /\ Publication(sequence) < MaxPublications
                   /\ sequence' = sequence + 1
                   /\ unwritten' = Fields
                   /\ UNCHANGED <<snapshot, reader>>

WriteField == /\ \E f \in unwritten :
                   /\ snapshot' = [snapshot EXCEPT ![f] = Publication(sequence)]
                   /\ unwritten' = unwritten \ {f}
              /\ UNCHANGED <<sequence, reader>>

FinishPublishing == /\ Odd(sequence)
                    /\ unwritten = {}
                    /\ sequence' = sequence + 1
                    /\ UNCHANGED <<snapshot, unwritten, reader>>

(* Core 0 (or core 1 itself, between two emulations), ReadPi1551UiSnapshot *)
StartReading == /\ ~reading
                /\ reading' = TRUE
                /\ before' = sequence
                /\ uncopied' = Fields
                /\ UNCHANGED <<publisher, copy, result>>

CopyField == /\ \E f \in uncopied :
                  /\ copy' = [copy EXCEPT ![f] = snapshot[f]]
                  /\ uncopied' = uncopied \ {f}
             /\ UNCHANGED <<publisher, reading, before, result>>

(* Mutant of Torn: a read in the middle of one publication is not repeated.   *)
TornIfChanged == before # sequence

(* The test at the end of the do loop. *)
Torn == before # sequence \/ Odd(sequence)

ReadAgain == /\ reading /\ uncopied = {}
             /\ Torn
             /\ before' = sequence
             /\ uncopied' = Fields
             /\ UNCHANGED <<publisher, reading, copy, result>>

FinishReading == /\ reading /\ uncopied = {}
                 /\ ~Torn
                 /\ reading' = FALSE
                 /\ result' = copy
                 /\ UNCHANGED <<publisher, before, uncopied, copy>>

Next == \/ StartPublishing \/ WriteField \/ FinishPublishing
        \/ StartReading \/ CopyField \/ ReadAgain \/ FinishReading
Spec == Init /\ [][Next]_vars

-------------------------------------------------------------------------------
(* A read without a lock is as good as one of an atomic register: whatever   *)
(* publications overtake it, every field it returns is of one publication,   *)
(* and of the last one completed when it returns (main.cpp:536-614).         *)
Register == INSTANCE StatusRegister WITH edition <- sequence \div 2
RegisterSpec == Register!Spec

===============================================================================
