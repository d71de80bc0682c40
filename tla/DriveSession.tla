----------------------------- MODULE DriveSession -----------------------------
(***************************************************************************)
(* Core 1 between its two lives: the browse loop of emulator() and the     *)
(* emulation of a 1551 in Emulate1551() (src/src/main.cpp), with the idle  *)
(* sleep of pi1551_idle_sleep.h. The computer asks for service and resets  *)
(* the bus; the user presses keys, which are handled outside the emulation *)
(* loop and may mount, swap or unmount a disk, reset the drive or switch   *)
(* idle sleep on or off. What a mount does to the files is DiskMedia's,    *)
(* which key does what is OledMenu's, and how the published state is read  *)
(* is UiSnapshot's: told is its published value of idleSleeping.           *)
(*                                                                         *)
(* One pass of the emulation loop, a microsecond, is one step. Of the 6502 *)
(* only what the sleep and the computer see is kept: whether it waits for  *)
(* a request with everything closed (idle), waits with a file open or a    *)
(* motor running (open), or serves a request. The ROM it runs is external. *)
(***************************************************************************)
EXTENDS Naturals

CONSTANTS
  ChangeTime,   \* bound: loop passes of a disk change (Drive1551.cpp: 100000)
  TickEvery,    \* bound: loop passes between two looks at the keys (20000)
  MaxPresses,   \* bound: keys pressed
  MaxResets     \* bound: resets of the computer

ASSUME SessionAssumption ==
  /\ ChangeTime \in Nat \ {0} /\ TickEvery \in Nat \ {0}
  /\ MaxPresses \in Nat /\ MaxResets \in Nat

NoDisk == "none"
Disks  == {"D64", "G64"}

VARIABLES
  at,          \* where core 1 is
  reason,      \* exitReason of the emulation it has left, or "NONE"
  emulating,   \* IEC_COMMANDS or EMULATING_1551
  disk,        \* what is in the drive
  changing,    \* newDiskImageQueuedCylesRemaining
  resume,      \* g_oledResumeCpu
  wake,        \* g_oledWakeCpu
  idleOption,  \* options.IdleSleep()
  countdown,   \* uiPollCountdown
  cpu,         \* what the 6502 is doing
  session,     \* history: what has become of the 6502's last start
  told,        \* idleSleeping as published for the display
  sampled,     \* the bus as read before falling asleep
  host,        \* what the computer does on the bus
  resetLine,   \* RESET, when resets are not ignored
  keys,        \* keys in the ring
  presses,     \* keys the user may still press
  resets       \* resets the computer may still make

drive    == <<emulating, disk, changing, resume, wake, cpu, session, host>>
sleep    == <<told, sampled>>
computer == <<resetLine, resets>>
user     == <<keys, presses>>
vars     == <<at, reason, countdown, idleOption, drive, sleep, computer, user>>

Init == /\ at = "kernel" /\ reason = "NONE"
        /\ emulating = "IEC" /\ disk = NoDisk /\ changing = ChangeTime
        /\ resume = FALSE /\ wake = FALSE /\ idleOption = TRUE
        /\ countdown = 0
        /\ cpu = "open" /\ session = "none"
        /\ told = FALSE /\ sampled = "quiet"
        /\ host = "quiet" /\ resetLine = FALSE /\ resets = MaxResets
        /\ keys = 0 /\ presses = MaxPresses

-----------------------------------------------------------------------------
(* The computer asks with a code on the bus, which waits there until the   *)
(* drive takes it up; from then on it is engaged in an exchange that the   *)
(* drive must take to its end. An operation that sets the bus and the      *)
(* browse protocol back, or that starts the 6502 again, forgets it: the    *)
(* computer is left waiting for an answer to what nobody remembers.        *)
Cut(h) == IF h = "engaged" THEN "cut" ELSE h

(* The kernel's media operations, as keys and the computer call them.      *)

Leave(s) == IF s = "active" THEN "left" ELSE s

Unmount == /\ emulating' = "IEC" /\ disk' = NoDisk
           /\ resume' = FALSE
           /\ session' = Leave(session) /\ host' = Cut(host)
           /\ UNCHANGED <<changing, wake, cpu>>

(* A container is served by the browse loop; the flag stays as it is.      *)
MountContainer == /\ emulating' = "IEC" /\ disk' = NoDisk
                  /\ session' = Leave(session) /\ host' = Cut(host)
                  /\ UNCHANGED <<changing, resume, wake, cpu>>

(* Replacing an emulated disk keeps the 6502 and the bus as they are.      *)
SwapDisk == /\ emulating = "1551" /\ disk # NoDisk
            /\ disk' \in Disks /\ changing' = ChangeTime
            /\ resume' = TRUE
            /\ UNCHANGED <<emulating, wake, cpu, session, host>>

InsertDisk == /\ ~(emulating = "1551" /\ disk # NoDisk)
              /\ disk' \in Disks /\ changing' = ChangeTime
              /\ emulating' = "1551"
              /\ resume' = FALSE
              /\ session' = Leave(session) /\ host' = Cut(host)
              /\ UNCHANGED <<wake, cpu>>

MountDisk == SwapDisk \/ InsertDisk

(* The 6502 starts again and runs the ROM to its main loop; the mechanism  *)
(* moves on meanwhile. A 6502 that never ran has no bus to start from.     *)
Boot == /\ changing' \in 0 .. ChangeTime
        /\ cpu' = "open"
        /\ wake' = TRUE
        /\ host' = Cut(host)
        /\ UNCHANGED <<emulating, disk, resume, session>>

CanBoot == emulating = "IEC" \/ session # "none"
ResetDrive == CanBoot /\ IF emulating = "1551" THEN Boot ELSE UNCHANGED drive

-----------------------------------------------------------------------------
(* Keys, main.cpp:3129-3130 and 3172 *)

(* What one key does: nothing the kernel sees, or one of its operations.   *)
(* A mount that fails is a key that does nothing.                          *)
KeyEffect == \/ /\ UNCHANGED drive
                /\ idleOption' \in BOOLEAN
             \/ /\ Unmount \/ MountContainer \/ MountDisk \/ ResetDrive
                /\ UNCHANGED idleOption

StartService == /\ keys > 0
                /\ \/ at = "kernel" /\ emulating = "IEC"
                   \/ at = "left" /\ reason = "KEYBOARD"
                /\ at' = "service"
                /\ UNCHANGED <<reason, countdown, idleOption, drive, sleep, computer, user>>

ServiceKey == /\ at = "service" /\ keys > 0
              /\ KeyEffect
              /\ keys' = keys - 1
              /\ UNCHANGED <<at, reason, countdown, sleep, computer, presses>>

(* Reset drive, or a ROM change, for a 6502 that has no bus functions.     *)
ServiceCrash == /\ at = "service" /\ keys > 0
                /\ ~CanBoot
                /\ at' = "lost"
                /\ UNCHANGED <<reason, countdown, idleOption, drive, sleep, computer, user>>

(* Mutant of ServiceEnds: after keys the emulation starts its 6502 again.   *)
ServiceEndsRestarting ==
  /\ at = "service" /\ keys = 0
  /\ at' = "kernel" /\ reason' = "NONE"
  /\ UNCHANGED <<countdown, idleOption, drive, sleep, computer, user>>

(* Back in emulator(): a session that is still on is resumed, and the      *)
(* browse protocol starts afresh otherwise.                                *)
ServiceEnds == /\ at = "service" /\ keys = 0
               /\ at' = "kernel" /\ reason' = "NONE"
               /\ resume' = IF reason = "KEYBOARD" THEN emulating = "1551" ELSE resume
               /\ UNCHANGED <<countdown, idleOption, emulating, disk, changing, wake, cpu,
                              session, host, sleep, computer, user>>

-----------------------------------------------------------------------------
(* The browse loop with the computer, main.cpp:3170-3214 *)

Browsing == at = "kernel" /\ emulating = "IEC" /\ keys = 0

(* An exchange takes several rounds of the loop, with the keys looked at   *)
(* between them. Ended, it may be one that mounts a medium or leaves one.  *)
TakeRequest == /\ Browsing /\ ~resetLine
               /\ host = "asking" /\ host' = "engaged"
               /\ UNCHANGED <<at, reason, countdown, idleOption, emulating, disk, changing,
                              resume, wake, cpu, session, sleep, computer, user>>

EndRequest == /\ Browsing /\ ~resetLine
              /\ host = "engaged" /\ host' = "quiet"
              /\ at' = "acting"
              /\ UNCHANGED <<reason, countdown, idleOption, emulating, disk, changing,
                             resume, wake, cpu, session, sleep, computer, user>>

Act == /\ at = "acting"
       /\ UNCHANGED drive \/ MountDisk \/ MountContainer \/ Unmount
       /\ at' = "kernel"
       /\ UNCHANGED <<reason, countdown, idleOption, sleep, computer, user>>

(* It waits for the end of a reset, and may then mount a disk by itself.   *)
SeeReset == /\ Browsing /\ resetLine
            /\ at' = "reset"
            /\ UNCHANGED <<reason, countdown, idleOption, drive, sleep, computer, user>>

BrowseReset == /\ at = "reset" /\ ~resetLine
               /\ UNCHANGED drive \/ MountDisk \/ MountContainer
               /\ at' = "kernel"
               /\ UNCHANGED <<reason, countdown, idleOption, sleep, computer, user>>

-----------------------------------------------------------------------------
(* Emulate1551(), main.cpp:2336-2608 *)

(* The prologue: a resumed 6502 keeps its state, another one is started.   *)
Emulate ==
  /\ at = "kernel" /\ emulating = "1551"
  /\ IF resume THEN UNCHANGED <<changing, cpu, session>>
               ELSE /\ changing' \in 0 .. ChangeTime
                    /\ cpu' = "open"
                    /\ session' = "active"
  /\ at' = IF resume /\ session = "none" THEN "lost" ELSE "loop"
  /\ resume' = FALSE
  /\ countdown' = 0
  /\ UNCHANGED <<reason, emulating, disk, wake, host, idleOption, sleep, computer, user>>

LookNow == countdown = 0
NextCountdown == IF LookNow THEN TickEvery ELSE countdown - 1

PollKeys == /\ at = "loop" /\ LookNow /\ keys > 0
            /\ at' = "left" /\ reason' = "KEYBOARD"
            /\ UNCHANGED <<countdown, idleOption, drive, sleep, computer, user>>

(* Mutant of CanSleep: a disk change does not keep the drive awake.        *)
CanSleepChanging == idleOption /\ disk = "D64" /\ cpu = "idle"

CanSleep == idleOption /\ disk = "D64" /\ cpu = "idle" /\ changing = 0

(* Where a pass ends: RESET held for ten passes leaves the loop, also when *)
(* the pass has just decided to sleep or has left for a CD.                *)
EndOfPass(next, why) ==
  \/ /\ at' = next /\ reason' = why
  \/ /\ resetLine
     /\ at' = "left" /\ reason' = "RESET"

(* Mutant of FallAsleep: the display is not told.                          *)
FallAsleepUntold ==
  /\ at = "loop" /\ ~(LookNow /\ keys > 0)
  /\ CanSleep
  /\ host # "asking"
  /\ sampled' = host
  /\ countdown' = NextCountdown
  /\ EndOfPass("asleep", "NONE")
  /\ UNCHANGED <<told, idleOption, drive, computer, user>>

FallAsleep == /\ at = "loop" /\ ~(LookNow /\ keys > 0)
              /\ CanSleep
              /\ host # "asking"
              /\ sampled' = host
              /\ told' = TRUE
              /\ countdown' = NextCountdown
              /\ EndOfPass("asleep", "NONE")
              /\ UNCHANGED <<idleOption, drive, computer, user>>

(* A 6502 in an exchange that the computer has left by a RESET which core  *)
(* 1, busy with a key, has not seen.                                       *)
Deserted == cpu = "serving" /\ host # "engaged"

(* The 6502 runs: it takes a request up, ends one, or comes to rest; it    *)
(* may find out that it is deserted, or go on waiting for the rest.        *)
Takes   == cpu # "serving" /\ host = "asking" /\ cpu' = "serving" /\ host' = "engaged"
Answers == cpu = "serving" /\ host = "engaged" /\ cpu' = "open" /\ host' = "quiet"
Rests   == cpu # "serving" /\ host # "asking" /\ cpu' \in {cpu, "idle"} /\ UNCHANGED host
Strays  == Deserted /\ cpu' \in {cpu, "open"} /\ UNCHANGED host

Cycle == /\ at = "loop" /\ ~(LookNow /\ keys > 0)
         /\ Takes \/ Answers \/ Rests \/ Strays
         /\ changing' = IF changing = 0 THEN 0 ELSE changing - 1
         /\ told' = IF LookNow THEN FALSE ELSE told
         /\ countdown' = NextCountdown
         /\ EndOfPass("loop", "NONE")
         /\ UNCHANGED <<emulating, disk, resume, wake, session, idleOption, sampled,
                        computer, user>>

(* The ROM's request was CD to the parent: trapped, and the loop is left.  *)
TrapCd == /\ at = "loop" /\ ~(LookNow /\ keys > 0)
          /\ Answers
          /\ emulating' = "IEC"
          /\ changing' = IF changing = 0 THEN 0 ELSE changing - 1
          /\ told' = IF LookNow THEN FALSE ELSE told
          /\ countdown' = NextCountdown
          /\ EndOfPass("left", "CD")
          /\ UNCHANGED <<disk, resume, wake, session, idleOption, sampled,
                         computer, user>>

(* The look at the sources of work every 10 ms while asleep.               *)
SleepPollKeys == /\ at = "asleep" /\ keys > 0
                 /\ at' = "left" /\ reason' = "KEYBOARD"
                 /\ UNCHANGED <<countdown, idleOption, drive, sleep, computer, user>>

(* Mutant of HostNeedsWake: RESET does not wake the drive.                 *)
WakesButForReset == keys > 0 \/ host # sampled

HostNeedsWake == resetLine \/ keys > 0 \/ host # sampled

WakeUp == /\ at = "asleep" /\ keys = 0
          /\ ~idleOption \/ wake \/ HostNeedsWake
          /\ at' = "loop"
          /\ wake' = FALSE
          /\ told' = FALSE
          /\ countdown' = 0
          /\ UNCHANGED <<reason, idleOption, emulating, disk, changing, resume, cpu, session,
                         host, sampled, computer, user>>

-----------------------------------------------------------------------------
(* Back in emulator(), main.cpp:3133-3169; keys are StartService's.        *)

(* RESET reboots the drive, if the loop was not left for CD in the same    *)
(* pass, and may mount a disk by itself. The computer, which has ended     *)
(* whatever it did on the bus, may at most be asking again.                *)
LeaveReset ==
  /\ at = "left" /\ reason = "RESET"
  /\ \/ /\ UNCHANGED <<emulating, disk, session>>
        /\ IF emulating = "1551" THEN changing' \in 0 .. ChangeTime ELSE UNCHANGED changing
     \/ /\ emulating' = "1551" /\ disk' \in Disks /\ changing' = ChangeTime
        /\ session' = IF emulating = "1551" THEN session ELSE Leave(session)
     \/ /\ emulating' = "IEC" /\ disk' = NoDisk /\ session' = Leave(session)
        /\ UNCHANGED changing
  /\ IF emulating = "1551" THEN cpu' = "open" /\ wake' = TRUE ELSE UNCHANGED <<cpu, wake>>
  /\ resume' = (emulating' = "1551")
  /\ at' = "kernel" /\ reason' = "NONE"
  /\ UNCHANGED <<host, countdown, idleOption, sleep, computer, user>>

(* Mutant of StillIn: a CD that failed always goes back to the emulation.  *)
StillInAssumed == TRUE

StillIn == disk' # NoDisk

(* Leaving the disk succeeds, fails with the disk still in, or fails after *)
(* the disk is gone, when the directory cannot be read.                    *)
LeaveCd ==
  /\ at = "left" /\ reason = "CD"
  /\ \E ok \in BOOLEAN :
       /\ disk' \in {disk, NoDisk}
       /\ ok => disk' = NoDisk
       /\ IF ~ok /\ StillIn
          THEN emulating' = "1551" /\ resume' = TRUE /\ UNCHANGED session
          ELSE emulating' = "IEC" /\ resume' = FALSE /\ session' = Leave(session)
  /\ at' = "kernel" /\ reason' = "NONE"
  /\ UNCHANGED <<changing, wake, cpu, host, countdown, idleOption, sleep, computer, user>>

CoreOne == \/ StartService \/ ServiceKey \/ ServiceCrash \/ ServiceEnds
           \/ TakeRequest \/ EndRequest \/ Act \/ SeeReset \/ BrowseReset
           \/ Emulate \/ PollKeys \/ FallAsleep \/ Cycle \/ TrapCd
           \/ SleepPollKeys \/ WakeUp \/ LeaveReset \/ LeaveCd

-----------------------------------------------------------------------------
(* The computer and the user *)

HostMoves == UNCHANGED <<at, reason, countdown, idleOption, emulating, disk, changing,
                         resume, wake, cpu, session, sleep, user>>

HostAsks == /\ host = "quiet" /\ ~resetLine
            /\ host' = "asking"
            /\ HostMoves /\ UNCHANGED computer

(* A RESET ends whatever the computer is in.                               *)
HostResets == /\ ~resetLine /\ resets > 0
              /\ resetLine' = TRUE /\ resets' = resets - 1
              /\ host' = "quiet"
              /\ HostMoves

HostReleases == /\ resetLine
                /\ resetLine' = FALSE
                /\ HostMoves /\ UNCHANGED <<host, resets>>

(* Cut off, it may get away by an edge it takes for the one it waits for,  *)
(* or it may wait until it is reset.                                       *)
HostGetsAway == /\ host = "cut"
                /\ host' = "quiet"
                /\ HostMoves /\ UNCHANGED computer

Press == /\ presses > 0
         /\ presses' = presses - 1 /\ keys' = keys + 1
         /\ UNCHANGED <<at, reason, countdown, idleOption, drive, sleep, computer>>

Next == CoreOne \/ HostAsks \/ HostResets \/ HostReleases \/ HostGetsAway \/ Press

Spec == Init /\ [][Next]_vars
(* Core 1 does not stop. The computer and the user owe nothing.            *)
FairSpec == Spec /\ WF_vars(CoreOne)

-----------------------------------------------------------------------------
Places    == {"kernel", "service", "acting", "reset", "loop", "asleep", "left", "lost"}
Exchanges == {"quiet", "asking", "engaged", "cut"}
TypeOK ==
  /\ at \in Places /\ reason \in {"NONE", "KEYBOARD", "RESET", "CD"}
  /\ emulating \in {"IEC", "1551"} /\ disk \in Disks \cup {NoDisk}
  /\ changing \in 0 .. ChangeTime /\ countdown \in 0 .. TickEvery
  /\ resume \in BOOLEAN /\ wake \in BOOLEAN /\ idleOption \in BOOLEAN /\ told \in BOOLEAN
  /\ cpu \in {"idle", "open", "serving"} /\ session \in {"none", "active", "left"}
  /\ sampled \in Exchanges /\ host \in Exchanges
  /\ resetLine \in BOOLEAN /\ resets \in 0 .. MaxResets
  /\ keys \in 0 .. MaxPresses /\ presses \in 0 .. MaxPresses

(* The drive never runs without a disk. The end of a disk change looks at  *)
(* the disk's write protection through its pointer (Drive1551.cpp:474), so *)
(* every way back into the emulation must come with one: after keys, after *)
(* a reset, and after a CD that failed (main.cpp:3148).                    *)
NeverDriveless == emulating = "1551" => disk # NoDisk

(* The S that the display shows after the track is there while the drive   *)
(* sleeps, and is gone from the first look on after it woke or was resumed *)
(* (main.cpp:2439, 2494 and 2558).                                         *)
IdleTold == /\ at = "asleep" => told
            /\ at = "loop" /\ countdown # 0 => ~told

(* Sleep ends for everything it must end for: a key, the computer on the   *)
(* bus, a RESET that is held (pi1551_idle_sleep.h:68-74).                  *)
NeverSleepsThrough == []<>~(at = "asleep" /\ (keys > 0 \/ host = "asking" \/ resetLine))

(* A 6502 that runs without having been started, or a core that has jumped *)
(* through the null pointer of one: ResumeOnlyActive says when.            *)
Astray == at = "lost" \/ (at \in {"loop", "asleep"} /\ session # "active")

(* What the computer asks for is taken up, and an exchange is taken to its *)
(* end, whatever keys, resets, swaps and sleep come in between: a swap in  *)
(* mid-exchange (main.cpp:2926) and a CD that failed go on where it was.   *)
(* It is not, and the computer may wait until it is reset, only when       *)
(* - a key unmounts, mounts by inserting, or resets the drive in the midst *)
(*   of it, which forgets the exchange (main.cpp:2911-2913, 2956, 2962);   *)
(* - the 6502 still waits in an exchange that an unseen RESET has ended;   *)
(* - the 6502 is astray.                                                   *)
HostServed ==
  host \in {"asking", "engaged"} ~> (host \in {"quiet", "cut"} \/ Deserted \/ Astray)

(* A disk change runs to its end: the drive, which counts it in its own    *)
(* time, must not fall asleep in it (main.cpp:2484).                       *)
DiskChangeEnds ==
  changing > 0 ~> (changing = 0 \/ emulating = "IEC" \/ resetLine \/ Astray)

(* The 6502 is resumed only in a session that is still on, main.cpp:2386:  *)
(* "an active OLED session retains CPU/TPI state across image changes".    *)
ResumeOnlyActive == at = "kernel" /\ emulating = "1551" /\ resume => session = "active"
=============================================================================
