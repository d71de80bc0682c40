----------------------------- MODULE MCTapePlayer -----------------------------
(* Small instances of TapePlayer for TLC. *)
EXTENDS TapePlayer

CONSTANTS core0, core1

\* Core 1 runs the menu.  Each instance lets it call what its question needs.
RecordIssues == [c \in {core1} |-> Operations \ {"motor", "eject", "stop"}]
PlayOnly == [c \in {core1} |-> Operations \ {"record"}]

TwoHalfWaves == {<<2, 1>>}
OneHalfWave  == {<<2>>}

\* Explored up to, and including, the first interrupt that writes too late.
OnTime == ~late

\* A tape that was recorded past the first half-waves is not played on after its first
\* fetch: what core 2 does with a tape of one half-wave or two is what it does with any.
Played == Count > 2 => pc2 # "fetch"

\* The recorder's statics are dead once nothing records (Record() sets them again), and
\* so is the file while a save is still to come.  Of a wait only what has passed and what
\* is left count.  The READ level changes nothing else, and the run with recordings does
\* not ask about it.
SaveToCome == unsaved /\ \A c \in Controllers : pc[c] \in {"retried", "stopResume"} => ~ok[c]

Waits == CASE pc2 = "play"  -> <<wait2.from + wait2.spent, wait2.left>>
           [] pc2 = "check" -> <<wait2.from + wait2.spent>>
           [] OTHER         -> <<>>

Relevant ==
  <<IF recording \/ irq = "sample" THEN rec ELSE NoRec, IF loaded /\ ~SaveToCome THEN file ELSE Torn,
    editing, active, pulses, capacity, index, offset, atEnd, modes, motor, armed, irq,
    pc2, Waits, sevs, ctl, late>>
===============================================================================
