-------------------------- MODULE DriveSessionProofs --------------------------
(***************************************************************************)
(* What holds of core 1 for any length of a disk change, any interval      *)
(* between looks at the keys, and any number of keys and resets. The       *)
(* properties of the runs are inductive with the types.                    *)
(***************************************************************************)
EXTENDS DriveSession, TLAPS

(* The types: of the drive, of everything else, and of the counters. The   *)
(* keys in the ring and those still to come are never more than there were.*)
DriveTypes ==
  /\ emulating \in {"IEC", "1551"} /\ disk \in {"D64", "G64", "none"}
  /\ resume \in BOOLEAN /\ wake \in BOOLEAN
  /\ cpu \in {"idle", "open", "serving"} /\ session \in {"none", "active", "left"}
  /\ host \in {"quiet", "asking", "engaged", "cut"}

RestTypes ==
  /\ at \in Places /\ reason \in {"NONE", "KEYBOARD", "RESET", "CD"}
  /\ idleOption \in BOOLEAN /\ told \in BOOLEAN
  /\ sampled \in Exchanges
  /\ resetLine \in BOOLEAN

Counts ==
  /\ changing \in 0 .. ChangeTime /\ countdown \in 0 .. TickEvery
  /\ resets \in 0 .. MaxResets
  /\ keys \in 0 .. MaxPresses /\ presses \in 0 .. MaxPresses
  /\ keys + presses <= MaxPresses

SessionInvariant == DriveTypes /\ RestTypes /\ Counts /\ NeverDriveless /\ IdleTold

LEMMA SessionInit == Init => SessionInvariant
<1> SUFFICES ASSUME Init PROVE SessionInvariant
  OBVIOUS
<1> USE SessionAssumption DEF Init
<1>1. DriveTypes
  BY DEF DriveTypes, NoDisk
<1>2. RestTypes
  BY DEF RestTypes, Places, Exchanges
<1>3. Counts
  BY DEF Counts
<1>4. NeverDriveless /\ IdleTold
  BY DEF NeverDriveless, IdleTold
<1> QED  BY <1>1, <1>2, <1>3, <1>4 DEF SessionInvariant

(* The kernel's operations on the medium keep the drive's part.            *)
LEMMA MediaOperation ==
  ASSUME DriveTypes, changing \in 0 .. ChangeTime, NeverDriveless,
         UNCHANGED drive \/ Unmount \/ MountContainer \/ MountDisk \/ ResetDrive
  PROVE  DriveTypes' /\ changing' \in 0 .. ChangeTime /\ NeverDriveless'
<1> USE SessionAssumption DEF DriveTypes, NeverDriveless, NoDisk
<1>1. CASE UNCHANGED drive
  BY <1>1 DEF drive
<1>2. CASE Unmount
  BY <1>2 DEF Unmount, Leave, Cut
<1>3. CASE MountContainer
  BY <1>3 DEF MountContainer, Leave, Cut
<1>4. CASE SwapDisk
  BY <1>4 DEF SwapDisk, Disks
<1>5. CASE InsertDisk
  <2>1. disk' \in {"D64", "G64"} /\ emulating' = "1551" /\ changing' = ChangeTime
    BY <1>5 DEF InsertDisk, Disks
  <2>2. /\ resume' \in BOOLEAN /\ wake' \in BOOLEAN
        /\ cpu' \in {"idle", "open", "serving"} /\ session' \in {"none", "active", "left"}
        /\ host' \in {"quiet", "asking", "engaged", "cut"}
    BY <1>5 DEF InsertDisk, Leave, Cut
  <2> QED  BY <2>1, <2>2
<1>6. CASE ResetDrive
  BY <1>6 DEF ResetDrive, Boot, Cut, drive
<1> QED  BY <1>1, <1>2, <1>3, <1>4, <1>5, <1>6 DEF MountDisk

LEMMA SessionStep == SessionInvariant /\ [Next]_vars => SessionInvariant'
<1> SUFFICES ASSUME SessionInvariant, [Next]_vars PROVE SessionInvariant'
  OBVIOUS
<1>0. DriveTypes /\ RestTypes /\ Counts /\ NeverDriveless /\ IdleTold
  BY DEF SessionInvariant
<1> SUFFICES DriveTypes' /\ RestTypes' /\ Counts' /\ NeverDriveless' /\ IdleTold'
  BY DEF SessionInvariant
<1> USE <1>0, SessionAssumption DEF sleep, computer, user
<1>1. CASE StartService
  <2>1. UNCHANGED drive
    BY <1>1 DEF StartService
  <2>2. DriveTypes' /\ changing' \in 0 .. ChangeTime /\ NeverDriveless'
    BY <2>1, MediaOperation DEF Counts
  <2>3. RestTypes'
    BY <1>1 DEF StartService, RestTypes, Places
  <2>4. IdleTold'
    BY <1>1 DEF StartService, IdleTold
  <2>5. Counts'
    BY <1>1, <2>2 DEF StartService, Counts
  <2> QED  BY <2>2, <2>3, <2>4, <2>5
<1>2. CASE ServiceKey
  <2>1. UNCHANGED drive \/ Unmount \/ MountContainer \/ MountDisk \/ ResetDrive
    BY <1>2 DEF ServiceKey, KeyEffect
  <2>2. DriveTypes' /\ changing' \in 0 .. ChangeTime /\ NeverDriveless'
    BY <2>1, MediaOperation DEF Counts
  <2>3. RestTypes'
    BY <1>2 DEF ServiceKey, KeyEffect, RestTypes, Places
  <2>4. IdleTold'
    BY <1>2 DEF ServiceKey, KeyEffect, IdleTold
  <2>5. Counts'
    BY <1>2, <2>2 DEF ServiceKey, KeyEffect, Counts
  <2> QED  BY <2>2, <2>3, <2>4, <2>5
<1>3. CASE ServiceCrash
  <2>1. UNCHANGED drive
    BY <1>3 DEF ServiceCrash
  <2>2. DriveTypes' /\ changing' \in 0 .. ChangeTime /\ NeverDriveless'
    BY <2>1, MediaOperation DEF Counts
  <2>3. RestTypes'
    BY <1>3 DEF ServiceCrash, RestTypes, Places
  <2>4. IdleTold'
    BY <1>3 DEF ServiceCrash, IdleTold
  <2>5. Counts'
    BY <1>3, <2>2 DEF ServiceCrash, Counts
  <2> QED  BY <2>2, <2>3, <2>4, <2>5
<1>4. CASE ServiceEnds
  <2>1. DriveTypes'
    BY <1>4 DEF ServiceEnds, DriveTypes
  <2>2. RestTypes'
    BY <1>4 DEF ServiceEnds, RestTypes, Places
  <2>3. NeverDriveless'
    BY <1>4 DEF ServiceEnds, NeverDriveless
  <2>4. IdleTold'
    BY <1>4 DEF ServiceEnds, IdleTold
  <2>5. Counts'
    BY <1>4 DEF ServiceEnds, Counts
  <2> QED  BY <2>1, <2>2, <2>3, <2>4, <2>5
<1>5. CASE Act
  <2>1. UNCHANGED drive \/ Unmount \/ MountContainer \/ MountDisk \/ ResetDrive
    BY <1>5 DEF Act
  <2>2. DriveTypes' /\ changing' \in 0 .. ChangeTime /\ NeverDriveless'
    BY <2>1, MediaOperation DEF Counts
  <2>3. RestTypes'
    BY <1>5 DEF Act, RestTypes, Places
  <2>4. IdleTold'
    BY <1>5 DEF Act, IdleTold
  <2>5. Counts'
    BY <1>5, <2>2 DEF Act, Counts
  <2> QED  BY <2>2, <2>3, <2>4, <2>5
<1>6. CASE SeeReset
  <2>1. UNCHANGED drive
    BY <1>6 DEF SeeReset, Browsing
  <2>2. DriveTypes' /\ changing' \in 0 .. ChangeTime /\ NeverDriveless'
    BY <2>1, MediaOperation DEF Counts
  <2>3. RestTypes'
    BY <1>6 DEF SeeReset, Browsing, RestTypes, Places
  <2>4. IdleTold'
    BY <1>6 DEF SeeReset, Browsing, IdleTold
  <2>5. Counts'
    BY <1>6, <2>2 DEF SeeReset, Browsing, Counts
  <2> QED  BY <2>2, <2>3, <2>4, <2>5
<1>7. CASE BrowseReset
  <2>1. UNCHANGED drive \/ Unmount \/ MountContainer \/ MountDisk \/ ResetDrive
    BY <1>7 DEF BrowseReset
  <2>2. DriveTypes' /\ changing' \in 0 .. ChangeTime /\ NeverDriveless'
    BY <2>1, MediaOperation DEF Counts
  <2>3. RestTypes'
    BY <1>7 DEF BrowseReset, RestTypes, Places
  <2>4. IdleTold'
    BY <1>7 DEF BrowseReset, IdleTold
  <2>5. Counts'
    BY <1>7, <2>2 DEF BrowseReset, Counts
  <2> QED  BY <2>2, <2>3, <2>4, <2>5
<1>8. CASE Emulate
  <2>1. DriveTypes'
    BY <1>8 DEF Emulate, DriveTypes
  <2>2. RestTypes'
    BY <1>8 DEF Emulate, RestTypes, Places
  <2>3. NeverDriveless'
    BY <1>8 DEF Emulate, NeverDriveless
  <2>4. IdleTold'
    BY <1>8 DEF Emulate, IdleTold
  <2>5. Counts'
    BY <1>8 DEF Emulate, Counts
  <2> QED  BY <2>1, <2>2, <2>3, <2>4, <2>5
<1>9. CASE PollKeys
  <2>1. UNCHANGED drive
    BY <1>9 DEF PollKeys
  <2>2. DriveTypes' /\ changing' \in 0 .. ChangeTime /\ NeverDriveless'
    BY <2>1, MediaOperation DEF Counts
  <2>3. RestTypes'
    BY <1>9 DEF PollKeys, RestTypes, Places
  <2>4. IdleTold'
    BY <1>9 DEF PollKeys, IdleTold
  <2>5. Counts'
    BY <1>9, <2>2 DEF PollKeys, Counts
  <2> QED  BY <2>2, <2>3, <2>4, <2>5
<1>10. CASE FallAsleep
  <2>1. UNCHANGED drive
    BY <1>10 DEF FallAsleep, EndOfPass
  <2>2. DriveTypes' /\ changing' \in 0 .. ChangeTime /\ NeverDriveless'
    BY <2>1, MediaOperation DEF Counts
  <2>3. RestTypes'
    BY <1>10 DEF FallAsleep, EndOfPass, RestTypes, DriveTypes, Places, Exchanges
  <2>4. IdleTold'
    BY <1>10 DEF FallAsleep, EndOfPass, IdleTold
  <2>5. Counts'
    BY <1>10, <2>2 DEF FallAsleep, EndOfPass, NextCountdown, LookNow, Counts
  <2> QED  BY <2>2, <2>3, <2>4, <2>5
<1>11. CASE Cycle
  <2>1. DriveTypes'
    BY <1>11 DEF Cycle, EndOfPass, Takes, Answers, Rests, Strays, DriveTypes
  <2>2. RestTypes'
    BY <1>11 DEF Cycle, EndOfPass, Takes, Answers, Rests, Strays, RestTypes, Places
  <2>3. NeverDriveless'
    BY <1>11 DEF Cycle, EndOfPass, NeverDriveless
  <2>4. IdleTold'
    BY <1>11 DEF Cycle, EndOfPass, NextCountdown, LookNow, IdleTold
  <2>5. Counts'
    BY <1>11 DEF Cycle, EndOfPass, NextCountdown, LookNow, Counts
  <2> QED  BY <2>1, <2>2, <2>3, <2>4, <2>5
<1>12. CASE TrapCd
  <2>1. DriveTypes'
    BY <1>12 DEF TrapCd, EndOfPass, Answers, DriveTypes
  <2>2. RestTypes'
    BY <1>12 DEF TrapCd, EndOfPass, Answers, RestTypes, Places
  <2>3. NeverDriveless'
    BY <1>12 DEF TrapCd, EndOfPass, Answers, NeverDriveless
  <2>4. IdleTold'
    BY <1>12 DEF TrapCd, EndOfPass, Answers, NextCountdown, LookNow, IdleTold
  <2>5. Counts'
    BY <1>12 DEF TrapCd, EndOfPass, Answers, NextCountdown, LookNow, Counts
  <2> QED  BY <2>1, <2>2, <2>3, <2>4, <2>5
<1>13. CASE SleepPollKeys
  <2>1. UNCHANGED drive
    BY <1>13 DEF SleepPollKeys
  <2>2. DriveTypes' /\ changing' \in 0 .. ChangeTime /\ NeverDriveless'
    BY <2>1, MediaOperation DEF Counts
  <2>3. RestTypes'
    BY <1>13 DEF SleepPollKeys, RestTypes, Places
  <2>4. IdleTold'
    BY <1>13 DEF SleepPollKeys, IdleTold
  <2>5. Counts'
    BY <1>13, <2>2 DEF SleepPollKeys, Counts
  <2> QED  BY <2>2, <2>3, <2>4, <2>5
<1>14. CASE WakeUp
  <2>1. DriveTypes'
    BY <1>14 DEF WakeUp, DriveTypes
  <2>2. RestTypes'
    BY <1>14 DEF WakeUp, RestTypes, Places
  <2>3. NeverDriveless'
    BY <1>14 DEF WakeUp, NeverDriveless
  <2>4. IdleTold'
    BY <1>14 DEF WakeUp, IdleTold
  <2>5. Counts'
    BY <1>14 DEF WakeUp, Counts
  <2> QED  BY <2>1, <2>2, <2>3, <2>4, <2>5
<1>15. CASE LeaveReset
  <2>1. DriveTypes'
    BY <1>15 DEF LeaveReset, Leave, Disks, NoDisk, DriveTypes
  <2>2. RestTypes'
    BY <1>15 DEF LeaveReset, RestTypes, Places
  <2>3. NeverDriveless'
    BY <1>15 DEF LeaveReset, Disks, NoDisk, NeverDriveless
  <2>4. IdleTold'
    BY <1>15 DEF LeaveReset, IdleTold
  <2>5. Counts'
    BY <1>15 DEF LeaveReset, Counts
  <2> QED  BY <2>1, <2>2, <2>3, <2>4, <2>5
<1>16. CASE LeaveCd
  <2>1. DriveTypes'
    BY <1>16 DEF LeaveCd, Leave, NoDisk, DriveTypes
  <2>2. RestTypes'
    BY <1>16 DEF LeaveCd, RestTypes, Places
  <2>3. NeverDriveless'
    BY <1>16 DEF LeaveCd, StillIn, NeverDriveless
  <2>4. IdleTold'
    BY <1>16 DEF LeaveCd, IdleTold
  <2>5. Counts'
    BY <1>16 DEF LeaveCd, Counts
  <2> QED  BY <2>1, <2>2, <2>3, <2>4, <2>5
<1>17. CASE HostAsks
  <2>1. DriveTypes'
    BY <1>17 DEF HostAsks, HostMoves, DriveTypes
  <2>2. RestTypes'
    BY <1>17 DEF HostAsks, HostMoves, RestTypes, Places
  <2>3. NeverDriveless'
    BY <1>17 DEF HostAsks, HostMoves, NeverDriveless
  <2>4. IdleTold'
    BY <1>17 DEF HostAsks, HostMoves, IdleTold
  <2>5. Counts'
    BY <1>17 DEF HostAsks, HostMoves, Counts
  <2> QED  BY <2>1, <2>2, <2>3, <2>4, <2>5
<1>18. CASE HostResets
  <2>1. DriveTypes'
    BY <1>18 DEF HostResets, HostMoves, DriveTypes
  <2>2. RestTypes'
    BY <1>18 DEF HostResets, HostMoves, RestTypes, Places
  <2>3. NeverDriveless'
    BY <1>18 DEF HostResets, HostMoves, NeverDriveless
  <2>4. IdleTold'
    BY <1>18 DEF HostResets, HostMoves, IdleTold
  <2>5. Counts'
    BY <1>18 DEF HostResets, HostMoves, Counts
  <2> QED  BY <2>1, <2>2, <2>3, <2>4, <2>5
<1>19. CASE HostReleases
  <2>1. DriveTypes'
    BY <1>19 DEF HostReleases, HostMoves, DriveTypes
  <2>2. RestTypes'
    BY <1>19 DEF HostReleases, HostMoves, RestTypes, Places
  <2>3. NeverDriveless'
    BY <1>19 DEF HostReleases, HostMoves, NeverDriveless
  <2>4. IdleTold'
    BY <1>19 DEF HostReleases, HostMoves, IdleTold
  <2>5. Counts'
    BY <1>19 DEF HostReleases, HostMoves, Counts
  <2> QED  BY <2>1, <2>2, <2>3, <2>4, <2>5
<1>20. CASE Press
  <2>1. UNCHANGED drive
    BY <1>20 DEF Press
  <2>2. DriveTypes' /\ changing' \in 0 .. ChangeTime /\ NeverDriveless'
    BY <2>1, MediaOperation DEF Counts
  <2>3. RestTypes'
    BY <1>20 DEF Press, RestTypes, Places
  <2>4. IdleTold'
    BY <1>20 DEF Press, IdleTold
  <2>5. Counts'
    BY <1>20, <2>2 DEF Press, Counts
  <2> QED  BY <2>2, <2>3, <2>4, <2>5
<1>21. CASE UNCHANGED vars
  <2>1. UNCHANGED drive
    BY <1>21 DEF vars
  <2>2. DriveTypes' /\ changing' \in 0 .. ChangeTime /\ NeverDriveless'
    BY <2>1, MediaOperation DEF Counts
  <2>3. RestTypes'
    BY <1>21 DEF vars, RestTypes, Places
  <2>4. IdleTold'
    BY <1>21 DEF vars, IdleTold
  <2>5. Counts'
    BY <1>21, <2>2 DEF vars, Counts
  <2> QED  BY <2>2, <2>3, <2>4, <2>5
<1>22. CASE TakeRequest
  <2>1. DriveTypes'
    BY <1>22 DEF TakeRequest, Browsing, DriveTypes
  <2>2. RestTypes'
    BY <1>22 DEF TakeRequest, Browsing, RestTypes, Places
  <2>3. NeverDriveless'
    BY <1>22 DEF TakeRequest, Browsing, NeverDriveless
  <2>4. IdleTold'
    BY <1>22 DEF TakeRequest, Browsing, IdleTold
  <2>5. Counts'
    BY <1>22 DEF TakeRequest, Browsing, Counts
  <2> QED  BY <2>1, <2>2, <2>3, <2>4, <2>5
<1>23. CASE EndRequest
  <2>1. DriveTypes'
    BY <1>23 DEF EndRequest, Browsing, DriveTypes
  <2>2. RestTypes'
    BY <1>23 DEF EndRequest, Browsing, RestTypes, Places
  <2>3. NeverDriveless'
    BY <1>23 DEF EndRequest, Browsing, NeverDriveless
  <2>4. IdleTold'
    BY <1>23 DEF EndRequest, Browsing, IdleTold
  <2>5. Counts'
    BY <1>23 DEF EndRequest, Browsing, Counts
  <2> QED  BY <2>1, <2>2, <2>3, <2>4, <2>5
<1>24. CASE HostGetsAway
  <2>1. DriveTypes'
    BY <1>24 DEF HostGetsAway, HostMoves, DriveTypes
  <2>2. RestTypes'
    BY <1>24 DEF HostGetsAway, HostMoves, RestTypes, Places
  <2>3. NeverDriveless'
    BY <1>24 DEF HostGetsAway, HostMoves, NeverDriveless
  <2>4. IdleTold'
    BY <1>24 DEF HostGetsAway, HostMoves, IdleTold
  <2>5. Counts'
    BY <1>24 DEF HostGetsAway, HostMoves, Counts
  <2> QED  BY <2>1, <2>2, <2>3, <2>4, <2>5
<1> QED
  BY <1>1, <1>2, <1>3, <1>4, <1>5, <1>6, <1>7, <1>8, <1>9, <1>10, <1>11, <1>12,
     <1>13, <1>14, <1>15, <1>16, <1>17, <1>18, <1>19, <1>20, <1>21, <1>22, <1>23, <1>24
     DEF Next, CoreOne

(* Together: core 1 keeps its types, its disk and the display's S.         *)
THEOREM SessionAlways == Spec => []SessionInvariant
BY SessionInit, SessionStep, PTL DEF Spec

(* The types of core 1's state (emulator() and Emulate1551()).             *)
THEOREM SessionTyped == Spec => []TypeOK
<1>1. SessionInvariant => TypeOK
  BY DEF SessionInvariant, DriveTypes, RestTypes, Counts, TypeOK, Disks, NoDisk, Exchanges
<1> QED  BY <1>1, SessionAlways, PTL

(* Every way back into the emulation comes with a disk (main.cpp:3148).    *)
THEOREM DriveHasDisk == Spec => []NeverDriveless
<1>1. SessionInvariant => NeverDriveless
  BY DEF SessionInvariant
<1> QED  BY <1>1, SessionAlways, PTL

(* The display's S follows the sleep (main.cpp:2439, 2494 and 2558).       *)
THEOREM SleepShown == Spec => []IdleTold
<1>1. SessionInvariant => IdleTold
  BY DEF SessionInvariant
<1> QED  BY <1>1, SessionAlways, PTL

-----------------------------------------------------------------------------
(* A drive that sleeps has nothing to do: the disk change is over, the 6502  *)
(* waits with everything closed, and its disk is one that may be slept on.   *)
(* Nothing takes the drive away from a 6502 that runs or sleeps.             *)
SleepsIdle ==
  /\ at = "asleep" => changing = 0 /\ cpu = "idle" /\ disk = "D64" /\ idleOption
  /\ at \in {"loop", "asleep"} => emulating = "1551"

LEMMA SleepsIdleStep ==
  ASSUME SleepsIdle, [Next]_vars
  PROVE  SleepsIdle'
<1> USE DEF SleepsIdle
<1>1. CASE ServiceKey \/ Act \/ TakeRequest \/ EndRequest
  BY <1>1 DEF ServiceKey, Act, TakeRequest, EndRequest, Browsing
<1>2. CASE StartService \/ ServiceCrash \/ ServiceEnds \/ SeeReset \/ BrowseReset
  BY <1>2 DEF StartService, ServiceCrash, ServiceEnds, SeeReset, BrowseReset
<1>3. CASE Emulate
  BY <1>3 DEF Emulate
<1>4. CASE PollKeys \/ SleepPollKeys
  BY <1>4 DEF PollKeys, SleepPollKeys
<1>5. CASE FallAsleep
  BY <1>5 DEF FallAsleep, CanSleep, EndOfPass, drive
<1>6. CASE Cycle
  BY <1>6 DEF Cycle, EndOfPass
<1>7. CASE TrapCd
  BY <1>7 DEF TrapCd, EndOfPass
<1>8. CASE WakeUp
  BY <1>8 DEF WakeUp
<1>9. CASE LeaveReset \/ LeaveCd
  BY <1>9 DEF LeaveReset, LeaveCd
<1>10. CASE UNCHANGED <<at, emulating, disk, changing, cpu, idleOption>>
  BY <1>10
<1> QED
  BY <1>1, <1>2, <1>3, <1>4, <1>5, <1>6, <1>7, <1>8, <1>9, <1>10
     DEF Next, CoreOne, HostAsks, HostResets, HostReleases, HostGetsAway, HostMoves, Press,
         vars, drive

(* Idle sleep never starts in the middle of a disk change or of a request,   *)
(* and none begins while the drive sleeps (main.cpp:2478-2494).              *)
THEOREM SleepsOnlyIdle == Spec => []SleepsIdle
<1>1. Init => SleepsIdle
  BY DEF Init, SleepsIdle
<1> QED  BY <1>1, SleepsIdleStep, PTL DEF Spec
-----------------------------------------------------------------------------
(* The computer does nothing while it is held in RESET, and nobody is in an  *)
(* exchange while core 1 acts on a request that has ended or on a RESET, or  *)
(* when it has left the loop but for a key.                                  *)
Disengaged ==
  /\ resetLine => host = "quiet"
  /\ at \in {"acting", "reset"} \/ (at = "left" /\ reason # "KEYBOARD") => host # "engaged"

(* An operation on the medium cuts an exchange only where there is one.      *)
LEMMA NoExchangeNoCut ==
  ASSUME host # "engaged", host # "cut",
         UNCHANGED drive \/ Unmount \/ MountContainer \/ MountDisk \/ ResetDrive
  PROVE  host' = host
BY DEF drive, Unmount, MountContainer, MountDisk, SwapDisk, InsertDisk, ResetDrive, Boot, Cut

LEMMA NoExchangeStays ==
  ASSUME host # "engaged",
         UNCHANGED drive \/ Unmount \/ MountContainer \/ MountDisk \/ ResetDrive
  PROVE  host' # "engaged"
BY DEF drive, Unmount, MountContainer, MountDisk, SwapDisk, InsertDisk, ResetDrive, Boot, Cut

LEMMA DisengagedStep ==
  ASSUME Disengaged, [Next]_vars
  PROVE  Disengaged' /\ (host' = "cut" => host = "cut" \/ at = "service")
<1> USE DEF Disengaged, computer
<1>1. CASE ServiceKey
  <2>1. UNCHANGED drive \/ Unmount \/ MountContainer \/ MountDisk \/ ResetDrive
    BY <1>1 DEF ServiceKey, KeyEffect
  <2>2. at = "service" /\ at' = "service" /\ UNCHANGED resetLine
    BY <1>1 DEF ServiceKey
  <2>3. host = "quiet" => host' = "quiet"
    BY <2>1, NoExchangeNoCut
  <2> QED  BY <2>2, <2>3
<1>2. CASE Act \/ BrowseReset
  <2>1. UNCHANGED drive \/ Unmount \/ MountContainer \/ MountDisk \/ ResetDrive
    BY <1>2 DEF Act, BrowseReset
  <2>2. host # "engaged" /\ at' = "kernel" /\ UNCHANGED resetLine
    BY <1>2 DEF Act, BrowseReset
  <2>3. host' # "engaged" /\ (host # "cut" => host' = host)
    BY <2>1, <2>2, NoExchangeStays, NoExchangeNoCut
  <2> QED  BY <2>2, <2>3
<1>3. CASE StartService \/ ServiceCrash \/ SeeReset \/ PollKeys \/ FallAsleep \/ SleepPollKeys
  BY <1>3 DEF StartService, ServiceCrash, SeeReset, Browsing, PollKeys, FallAsleep, EndOfPass,
              SleepPollKeys, drive
<1>4. CASE ServiceEnds \/ Emulate \/ WakeUp \/ LeaveReset \/ LeaveCd
  BY <1>4 DEF ServiceEnds, Emulate, WakeUp, LeaveReset, LeaveCd
<1>5. CASE TakeRequest \/ EndRequest
  BY <1>5 DEF TakeRequest, EndRequest, Browsing
<1>6. CASE Cycle
  <2>1. /\ at = "loop" /\ UNCHANGED resetLine
        /\ at' = "loop" \/ (at' = "left" /\ reason' = "RESET" /\ resetLine)
    BY <1>6 DEF Cycle, EndOfPass
  <2>2. CASE Takes
    BY <2>1, <2>2 DEF Takes
  <2>3. CASE Answers \/ Rests \/ Strays
    BY <2>1, <2>3 DEF Answers, Rests, Strays
  <2> QED  BY <1>6, <2>2, <2>3 DEF Cycle
<1>7. CASE TrapCd
  BY <1>7 DEF TrapCd, Answers
<1>8. CASE HostAsks \/ HostResets \/ HostReleases \/ HostGetsAway
  BY <1>8 DEF HostAsks, HostResets, HostReleases, HostGetsAway, HostMoves
<1>9. CASE Press \/ UNCHANGED vars
  BY <1>9 DEF Press, vars, drive
<1> QED
  BY <1>1, <1>2, <1>3, <1>4, <1>5, <1>6, <1>7, <1>8, <1>9 DEF Next, CoreOne

(* An exchange of the computer is broken off by a key alone, which takes the *)
(* drive away, inserts a disk or resets the drive: never by a request's own  *)
(* mount, a RESET, a CD that failed, a resumed emulation or sleep            *)
(* (OledKernelUnmount(), OledKernelMount(), OledKernelReset()).              *)
THEOREM BrokenByKeys == Spec => [][host' = "cut" => host = "cut" \/ at = "service"]_vars
<1>1. Init => Disengaged
  BY DEF Init, Disengaged
<1>2. Disengaged /\ [Next]_vars => Disengaged'
  BY DisengagedStep
<1>3. Disengaged /\ [Next]_vars => [host' = "cut" => host = "cut" \/ at = "service"]_vars
  BY DisengagedStep
<1> QED  BY <1>1, <1>2, <1>3, PTL DEF Spec
===============================================================================
