----------------------------- MODULE OledHandoff ------------------------------
(***************************************************************************)
(* The two cores that share the OLED menu (src/src/Pi1551Oled.cpp and the  *)
(* loops that call it in src/src/main.cpp).                                *)
(*                                                                         *)
(* Core 0 samples the keys into a ring and owns the display.  Core 1 owns  *)
(* the menu: while browsing it also renders it and hands the frame over;   *)
(* while it emulates the drive it cannot spare the time, and core 0        *)
(* renders the menu itself.  realTime and liveRenderActive hand the menu   *)
(* from one core to the other.  A step is one access to shared memory;     *)
(* release stores and acquire loads of ARMv8 are sequentially consistent   *)
(* among themselves.                                                       *)
(*                                                                         *)
(* A menu is the number of changes made to it; a frame is the menu it      *)
(* shows, once for each of two halves.  Dimming is not modelled.           *)
(***************************************************************************)
EXTENDS Naturals, Sequences

CONSTANTS
  RingSize,      (* 64 slots, of which one stays empty                       *)
  MaxKeys,       (* bound: keys pressed                                      *)
  MaxChanges     (* bound: changes of the menu                               *)

ASSUME HandoffAssumption ==
  /\ RingSize \in Nat \ {0, 1}
  /\ MaxKeys \in Nat /\ MaxChanges \in Nat

VARIABLES
  presses,                          (* history: keys pressed                 *)
  handled,                          (* history: the last key the menu got    *)
  events, readIndex, writeIndex,    (* the ring                              *)
  key,                              (* Service(): the key it took            *)
  menu, emulating,
  frame, frameReady, lock,          (* the browse frame; frameLock           *)
  realTime, liveRenderActive,
  lastLiveFrame, lastLiveFrameValid,
  copy, screen,                     (* Draw(): its local frame; the display  *)
  reason,                           (* why Emulate1551() returned            *)
  pc0, pc1

None == "none"

keys   == <<presses, handled, events, readIndex, writeIndex, key>>
frames == <<frame, frameReady, lock>>
live   == <<realTime, liveRenderActive>>
last   == <<lastLiveFrame, lastLiveFrameValid>>
drawn  == <<last, copy, screen>>
drive  == <<menu, emulating, reason>>
vars   == <<keys, frames, live, drawn, drive, pc0, pc1>>

Next64(i) == IF i + 1 = RingSize THEN 0 ELSE i + 1
Whole(m)  == [top |-> m, bottom |-> m]

(* Whether two menus look the same: every second change undoes the last.     *)
SameLook(m, n) == m % 2 = n % 2

Core0(from, to) == pc0 = from /\ pc0' = to /\ UNCHANGED pc1
Core1(from, to) == pc1 = from /\ pc1' = to /\ UNCHANGED pc0

InputPending == readIndex # writeIndex

Init ==
  /\ presses = 0 /\ handled = 0
  /\ events = [i \in 0 .. RingSize - 1 |-> 0] /\ readIndex = 0 /\ writeIndex = 0 /\ key = 0
  /\ menu = 0 /\ emulating \in BOOLEAN /\ reason = None
  /\ frame = Whole(0) /\ frameReady = FALSE /\ lock = None
  /\ realTime = FALSE /\ liveRenderActive = FALSE
  /\ lastLiveFrame = 0 /\ lastLiveFrameValid = FALSE /\ copy = Whole(0) /\ screen = Whole(0)
  /\ pc0 = "poll" /\ pc1 = "service"

-----------------------------------------------------------------------------
(* Core 0: PollInput(), and Enqueue() for every key it finds.                *)

(* Mutant: a full ring is not noticed. *)
EnqueueUnchecked ==
  /\ presses < MaxKeys /\ presses' = presses + 1
  /\ Core0("poll", "store")
  /\ UNCHANGED <<handled, events, readIndex, writeIndex, key, frames, live, drawn, drive>>

Enqueue ==
  /\ presses < MaxKeys /\ presses' = presses + 1
  /\ IF Next64(writeIndex) = readIndex
       THEN Core0("poll", "poll")
       ELSE Core0("poll", "store")
  /\ UNCHANGED <<handled, events, readIndex, writeIndex, key, frames, live, drawn, drive>>

StoreKey ==
  /\ Core0("store", "publish")
  /\ events' = [events EXCEPT ![writeIndex] = presses]
  /\ UNCHANGED <<presses, handled, readIndex, writeIndex, key, frames, live, drawn, drive>>

PublishKey ==
  /\ Core0("publish", "poll")
  /\ writeIndex' = Next64(writeIndex)
  /\ UNCHANGED <<presses, handled, events, readIndex, key, frames, live, drawn, drive>>

-----------------------------------------------------------------------------
(* Core 0: Draw(). *)

BeginDraw ==
  /\ Core0("poll", "look")
  /\ liveRenderActive' = TRUE
  /\ UNCHANGED <<keys, frames, realTime, drawn, drive>>

EndDraw ==
  /\ Core0("leave", "poll")
  /\ liveRenderActive' = FALSE
  /\ UNCHANGED <<keys, frames, realTime, drawn, drive>>

LookBrowse ==
  /\ \E l \in {"look", "look again"} : Core0(l, "ready")
  /\ ~realTime
  /\ UNCHANGED <<keys, frames, live, drawn, drive>>

(* The next live frame is not due yet. *)
LookEarly ==
  /\ Core0("look", "leave")
  /\ realTime
  /\ UNCHANGED <<keys, frames, live, drawn, drive>>

LookDue ==
  /\ Core0("look", "look again")
  /\ realTime
  /\ UNCHANGED <<keys, frames, live, drawn, drive>>

LookAgain ==
  /\ Core0("look again", "render")
  /\ realTime
  /\ UNCHANGED <<keys, frames, live, drawn, drive>>

(* menu->Render() on core 0, and what it shows if it looks different. *)
RenderLive ==
  /\ Core0("render", "leave")
  /\ IF lastLiveFrameValid /\ SameLook(lastLiveFrame, menu)
       THEN UNCHANGED screen
       ELSE screen' = Whole(menu)
  /\ lastLiveFrame' = menu /\ lastLiveFrameValid' = TRUE
  /\ UNCHANGED <<keys, frames, live, copy, drive>>

LookReady ==
  /\ IF frameReady THEN Core0("ready", "copy") ELSE Core0("ready", "leave")
  /\ UNCHANGED <<keys, frames, live, drawn, drive>>

(* Mutant: the frame is copied without the lock. *)
CopyUnlocked ==
  /\ Core0("copy", "copied half")
  /\ copy' = [copy EXCEPT !.top = frame.top]
  /\ UNCHANGED <<keys, frames, live, last, screen, drive>>

CopyFrame ==
  /\ lock = None /\ lock' = "core 0"
  /\ Core0("copy", "copied half")
  /\ copy' = [copy EXCEPT !.top = frame.top]
  /\ UNCHANGED <<keys, frame, frameReady, live, last, screen, drive>>

CopyRest ==
  /\ Core0("copied half", "show")
  /\ copy' = [copy EXCEPT !.bottom = frame.bottom]
  /\ frameReady' = FALSE /\ lock' = None
  /\ UNCHANGED <<keys, frame, live, last, screen, drive>>

ShowFrame ==
  /\ Core0("show", "leave")
  /\ screen' = copy
  /\ UNCHANGED <<keys, frames, live, last, copy, drive>>

Draw ==
  \/ BeginDraw \/ LookBrowse \/ LookEarly \/ LookDue \/ LookAgain \/ RenderLive
  \/ LookReady \/ CopyFrame \/ CopyRest \/ ShowFrame \/ EndDraw

-----------------------------------------------------------------------------
(* Core 1: Service(false), which is all production code calls. *)

StartService ==
  /\ Core1("service", "take")
  /\ realTime' = FALSE
  /\ UNCHANGED <<keys, frames, liveRenderActive, drawn, drive>>

TakeKey ==
  /\ InputPending
  /\ Core1("take", "advance")
  /\ key' = events[readIndex]
  /\ UNCHANGED <<presses, handled, events, readIndex, writeIndex, frames, live, drawn, drive>>

AdvanceIndex ==
  /\ Core1("advance", "input")
  /\ readIndex' = Next64(readIndex)
  /\ UNCHANGED <<presses, handled, events, writeIndex, key, frames, live, drawn, drive>>

(* What the menu does with a key or a host action: it may change, and may    *)
(* mount or unmount a disk image.                                            *)
UseMenu ==
  /\ menu' \in {menu, menu + 1} /\ menu' <= MaxChanges
  /\ emulating' \in BOOLEAN

(* menu->Input(key). *)
Input ==
  /\ Core1("input", "take")
  /\ UseMenu /\ handled' = key
  /\ UNCHANGED <<presses, events, readIndex, writeIndex, key, frames, live, drawn, reason>>

NoKey ==
  /\ ~InputPending
  /\ \E l \in {"render", "dispatch"} : Core1("take", l)   (* is a frame due? *)
  /\ UNCHANGED <<keys, frames, live, drawn, drive>>

(* menu->Render(), and the first half of the frame under the lock. *)
RenderBrowse ==
  /\ Core1("render", "rendered half")
  /\ lock = None /\ lock' = "core 1"
  /\ frame' = [frame EXCEPT !.top = menu]
  /\ UNCHANGED <<keys, frameReady, live, drawn, drive>>

RenderRest ==
  /\ Core1("rendered half", "dispatch")
  /\ frame' = [frame EXCEPT !.bottom = menu]
  /\ frameReady' = TRUE /\ lock' = None
  /\ UNCHANGED <<keys, live, drawn, drive>>

Service ==
  \/ StartService \/ TakeKey \/ AdvanceIndex \/ Input
  \/ NoKey \/ RenderBrowse \/ RenderRest

-----------------------------------------------------------------------------
(* Core 1: emulator(). *)

(* After Service(): emulate, or serve the host. *)
Dispatch ==
  /\ Core1("dispatch", IF emulating THEN "begin" ELSE IF reason = "key" THEN "service" ELSE "host")
  /\ reason' = None
  /\ UNCHANGED <<keys, frames, live, drawn, menu, emulating>>

(* Nothing from the host, or one of the Pi1551Oled::Host...() calls, which   *)
(* clear realTime once more.                                                 *)
ServeHost ==
  /\ UseMenu /\ reason' = None
  /\ Core1("host", IF emulating' THEN "begin" ELSE "service")
  /\ UNCHANGED <<keys, frames, live, drawn>>

(* Mutant: the last live frame is still taken for what the display shows. *)
BeginKeeping ==
  /\ Core1("begin", "clear")
  /\ UNCHANGED <<keys, frames, live, drawn, drive>>

BeginLiveRender ==
  /\ Core1("begin", "clear")
  /\ lastLiveFrameValid' = FALSE
  /\ UNCHANGED <<keys, frames, live, lastLiveFrame, copy, screen, drive>>

(* Mutant: a browse frame nobody has shown yet stays for later. *)
ClearNothing ==
  /\ Core1("clear", "arm")
  /\ lock = None
  /\ UNCHANGED <<keys, frames, live, drawn, drive>>

ClearFrame ==
  /\ Core1("clear", "arm")
  /\ lock = None
  /\ frameReady' = FALSE
  /\ UNCHANGED <<keys, frame, lock, live, drawn, drive>>

ArmRealTime ==
  /\ Core1("arm", "settle")
  /\ realTime' = TRUE
  /\ UNCHANGED <<keys, frames, liveRenderActive, drawn, drive>>

(* Mutant: the browse frame in flight is not waited for. *)
SettleAtOnce ==
  /\ Core1("settle", "emulate")
  /\ UNCHANGED <<keys, frames, live, drawn, drive>>

Settle ==
  /\ Core1("settle", "emulate")
  /\ ~liveRenderActive
  /\ UNCHANGED <<keys, frames, live, drawn, drive>>

(* Mutant: the emulation loop does not look for keys. *)
PollNothing ==
  /\ Core1("emulate", "run")
  /\ UNCHANGED <<keys, frames, live, drawn, drive>>

(* The emulation loop looks for keys now and then, and first of all. *)
PollKeys ==
  /\ Core1("emulate", IF InputPending THEN "finish" ELSE "run")
  /\ reason' = IF InputPending THEN "key" ELSE None
  /\ UNCHANGED <<keys, frames, live, drawn, menu, emulating>>

(* Emulation goes on. *)
Run ==
  /\ Core1("run", "emulate")
  /\ UNCHANGED <<keys, frames, live, drawn, drive>>

(* A reset of the host, or a trapped command, ends the emulation. *)
LeaveForHost ==
  /\ Core1("run", "finish")
  /\ reason' = "host"
  /\ UNCHANGED <<keys, frames, live, drawn, menu, emulating>>

FinishLiveRender ==
  /\ Core1("finish", "drain")
  /\ realTime' = FALSE
  /\ UNCHANGED <<keys, frames, liveRenderActive, drawn, drive>>

(* Mutant: the live frame being rendered is not waited for. *)
DrainAtOnce ==
  /\ Core1("drain", IF reason = "key" THEN "service" ELSE "host")
  /\ UNCHANGED <<keys, frames, live, drawn, drive>>

Drain ==
  /\ Core1("drain", IF reason = "key" THEN "service" ELSE "host")
  /\ ~liveRenderActive
  /\ UNCHANGED <<keys, frames, live, drawn, drive>>

Emulate ==
  \/ BeginLiveRender \/ ClearFrame \/ ArmRealTime \/ Settle
  \/ PollKeys \/ Run \/ LeaveForHost \/ FinishLiveRender \/ Drain

-----------------------------------------------------------------------------
CoreZero == Enqueue \/ StoreKey \/ PublishKey \/ Draw
CoreOne  == Service \/ Dispatch \/ ServeHost \/ Emulate

Next == CoreZero \/ CoreOne

Spec == Init /\ [][Next]_vars

(* Both cores keep running, except that no key need be pressed and no host   *)
(* action need come.  A wait loop that can be left time and again is left:   *)
(* core 1 looks far more often than core 0 draws.  The timers of the frames  *)
(* run out.                                                                  *)
FairSpec ==
  /\ Spec
  /\ WF_vars(StoreKey \/ PublishKey \/ Draw)
  /\ WF_vars(Service \/ Dispatch \/ ServeHost \/ (Emulate /\ ~LeaveForHost))
  /\ SF_vars(Settle) /\ SF_vars(Drain) /\ SF_vars(CopyFrame)
  /\ SF_vars(BeginDraw) /\ SF_vars(LookDue) /\ SF_vars(NoKey /\ pc1' = "render")

-----------------------------------------------------------------------------
Labels0 == {"poll", "store", "publish", "look", "look again", "render", "ready",
            "copy", "copied half", "show", "leave"}
Labels1 == {"service", "take", "advance", "input", "render", "rendered half", "dispatch",
            "host", "begin", "clear", "arm", "settle", "emulate", "run", "finish", "drain"}

Slots  == 0 .. RingSize - 1
Frames == [top : Nat, bottom : Nat]

RingTypes ==
  /\ presses \in Nat /\ handled \in Nat /\ key \in Nat
  /\ events \in [Slots -> Nat] /\ readIndex \in Slots /\ writeIndex \in Slots

PictureTypes ==
  /\ menu \in Nat /\ lastLiveFrame \in Nat
  /\ frame \in Frames /\ copy \in Frames /\ screen \in Frames

FlagTypes ==
  /\ emulating \in BOOLEAN /\ frameReady \in BOOLEAN /\ realTime \in BOOLEAN
  /\ liveRenderActive \in BOOLEAN /\ lastLiveFrameValid \in BOOLEAN

LabelTypes ==
  /\ reason \in {None, "key", "host"} /\ lock \in {None, "core 0", "core 1"}
  /\ pc0 \in Labels0 /\ pc1 \in Labels1

TypeOK == RingTypes /\ PictureTypes /\ FlagTypes /\ LabelTypes

(* While core 0 renders the menu, core 1 neither uses nor renders it, nor    *)
(* resets what a live frame is compared with: menus are plain C++ objects,   *)
(* and their strings and lists can be freed under the other core.            *)
MenuExclusive ==
  pc0 = "render" => pc1 \notin {"input", "render", "rendered half", "host", "begin"}

(* "Complete any browse frame already in flight before emulation starts."    *)
BrowseFrameDone ==
  pc1 \in {"emulate", "run"} => pc0 \notin {"ready", "copy", "copied half", "show"}

(* No half-copied frame is shown. *)
WholeFrame == screen.top = screen.bottom

(* The display never goes back to an older menu, however often the two cores *)
(* take turns rendering.                                                     *)
ScreenInOrder == [][screen'.top >= screen.top]_screen

(* The keys in the ring, and those that the cores hold in their hands. *)
RingKeys ==
  [i \in 1 .. (writeIndex + RingSize - readIndex) % RingSize |->
     events[(readIndex + i - 1) % RingSize]]
Waiting ==
  (IF pc1 = "input" THEN <<key>> ELSE << >>)
  \o RingKeys
  \o (IF pc0 \in {"store", "publish"} THEN <<presses>> ELSE << >>)

Queue == INSTANCE KeyQueue WITH Capacity <- RingSize - 1, queue <- Waiting

(* Keys reach the menu in order, once each, and only a full ring loses one.  *)
KeysInOrder == Queue!Spec

(* Every key in the ring is given to the menu, also while a drive is         *)
(* emulated, when the menu belongs to core 0.                                *)
KeysHandled ==
  \A k \in 1 .. MaxKeys : (\E i \in DOMAIN Waiting : Waiting[i] = k) ~> handled >= k

(* When the device keeps to browsing, or to emulating, the display shows the *)
(* menu as it is.                                                            *)
ScreenCatchesUp ==
  (<>[]~emulating \/ <>[](pc1 \in {"emulate", "run"})) => <>[]SameLook(screen.top, menu)
===============================================================================
