-------------------------- MODULE OledHandoffProofs ---------------------------
(***************************************************************************)
(* Proofs about OledHandoff, for a ring of any size and any number of keys *)
(* and changes of the menu: the two cores never use the menu at the same   *)
(* time, the frames they hand over are whole, the display never goes back  *)
(* to an older menu, and the ring of keys is a queue.                      *)
(***************************************************************************)
EXTENDS OledHandoff, TLAPS, SequenceTheorems

(* Which core may use the menu.  liveRenderActive covers all of Draw(), and  *)
(* realTime the part of core 1's loop in which it leaves the menu alone; the *)
(* two wait loops of core 1 keep a look at realTime from being used after    *)
(* realTime changed.                                                         *)
Turns ==
  /\ liveRenderActive <=> pc0 \notin {"poll", "store", "publish"}
  /\ realTime <=> pc1 \in {"settle", "emulate", "run", "finish"}
  /\ pc0 \in {"look again", "render"} =>
       pc1 \in {"settle", "emulate", "run", "finish", "drain"}
  /\ pc1 \in {"emulate", "run", "finish"} =>
       pc0 \notin {"ready", "copy", "copied half", "show"}

(* Where the two halves of a frame can differ. *)
Halves ==
  /\ lock = "core 1" <=> pc1 = "rendered half"
  /\ lock = "core 0" <=> pc0 = "copied half"
  /\ IF pc1 = "rendered half" THEN frame.top = menu ELSE frame.top = frame.bottom
  /\ pc0 = "copied half" => copy.top = frame.top
  /\ pc0 = "show" => copy.top = copy.bottom
  /\ screen.top = screen.bottom

(* How old the display is compared with what may be shown next. *)
Ages ==
  /\ frame.top <= menu /\ screen.top <= menu
  /\ frameReady \/ pc0 \in {"copy", "copied half"} => screen.top <= frame.top
  /\ pc0 = "show" => screen.top <= copy.top /\ copy.top <= frame.top
  /\ pc1 \in {"arm", "settle", "emulate", "run", "finish", "drain"} => ~frameReady

(* The order of menus. *)
LEMMA OrderOfMenus ==
  /\ \A a \in Nat : a <= a
  /\ \A a, b \in Nat : a <= b => a <= b + 1
  /\ \A a, b, c \in Nat : a <= b /\ b <= c => a <= c
OBVIOUS

(* What the types say of the menus a frame shows. *)
LEMMA MenusAreNumbers ==
  ASSUME PictureTypes
  PROVE  /\ menu \in Nat
         /\ frame.top \in Nat /\ copy.top \in Nat /\ screen.top \in Nat
BY DEF PictureTypes, Frames

(* What is known of the frames, whether or not one is ready. *)
LEMMA AgesKnown ==
  ASSUME Ages
  PROVE  /\ frame.top <= menu /\ screen.top <= menu
         /\ pc0 = "copied half" => screen.top <= frame.top
         /\ pc0 = "show" => screen.top <= copy.top /\ copy.top <= frame.top
BY DEF Ages

(* Both halves of a whole frame show the menu. *)
LEMMA WholeShows == \A m : Whole(m).top = m /\ Whole(m).bottom = m
BY DEF Whole

(* The first state has the invariants. *)
LEMMA Initially == ASSUME Init PROVE TypeOK /\ Turns /\ Halves /\ Ages
<1>1. RingTypes
  BY HandoffAssumption DEF Init, RingTypes, Slots
<1>2. PictureTypes /\ FlagTypes
  BY DEF Init, PictureTypes, FlagTypes, Frames, Whole
<1>3. LabelTypes
  BY DEF Init, LabelTypes, Labels0, Labels1, None
<1> QED
  BY <1>1, <1>2, <1>3 DEF Init, TypeOK, Turns, Halves, Ages, None, Whole

(* The ring's indices stay inside it. *)
LEMMA RingTyped ==
  ASSUME RingTypes, [Next]_vars
  PROVE  RingTypes'
<1>1. CASE Enqueue
  BY <1>1 DEF Enqueue, Core0, Next64, frames, live, drawn, drive, last,
          RingTypes, Slots
<1>2. CASE StoreKey
  BY <1>2 DEF StoreKey, Core0, frames, live, drawn, drive, last, RingTypes,
          Slots
<1>3. CASE PublishKey
  BY <1>3, HandoffAssumption DEF PublishKey, Core0, Next64, frames, live,
          drawn, drive, last, RingTypes, Slots
<1>4. CASE TakeKey
  BY <1>4 DEF TakeKey, Core1, frames, live, drawn, drive, last, RingTypes,
          Slots
<1>5. CASE AdvanceIndex
  BY <1>5, HandoffAssumption DEF AdvanceIndex, Core1, Next64, frames, live,
          drawn, drive, last, RingTypes, Slots
<1>6. CASE Input
  BY <1>6 DEF Input, Core1, UseMenu, frames, live, drawn, last, RingTypes,
          Slots
<1>7. CASE UNCHANGED <<keys>>
  BY <1>7 DEF RingTypes, keys
<1> QED
  BY <1>1, <1>2, <1>3, <1>4, <1>5, <1>6, <1>7 DEF Next, CoreZero, CoreOne,
          Draw, Service, Emulate, vars, Core0, Core1, UseMenu, keys,
          BeginDraw, LookBrowse, LookEarly, LookDue, LookAgain, RenderLive,
          LookReady, CopyFrame, CopyRest, ShowFrame, EndDraw, StartService,
          NoKey, RenderBrowse, RenderRest, Dispatch, ServeHost,
          BeginLiveRender, ClearFrame, ArmRealTime, Settle, PollKeys, Run,
          LeaveForHost, FinishLiveRender, Drain

(* The menu and the frames keep their types. *)
LEMMA PicturesTyped ==
  ASSUME PictureTypes, [Next]_vars
  PROVE  PictureTypes'
<1>1. CASE RenderLive
  BY <1>1 DEF RenderLive, Core0, Whole, keys, frames, live, drive,
          PictureTypes, Frames
<1>2. CASE CopyFrame
  BY <1>2 DEF CopyFrame, Core0, keys, live, last, drive, PictureTypes, Frames
<1>3. CASE CopyRest
  BY <1>3 DEF CopyRest, Core0, keys, live, last, drive, PictureTypes, Frames
<1>4. CASE ShowFrame
  BY <1>4 DEF ShowFrame, Core0, keys, frames, live, last, drive, PictureTypes,
          Frames
<1>5. CASE Input
  BY <1>5 DEF Input, Core1, UseMenu, frames, live, drawn, last, PictureTypes,
          Frames
<1>6. CASE RenderBrowse
  BY <1>6 DEF RenderBrowse, Core1, keys, live, drawn, drive, last,
          PictureTypes, Frames
<1>7. CASE RenderRest
  BY <1>7 DEF RenderRest, Core1, keys, live, drawn, drive, last, PictureTypes,
          Frames
<1>8. CASE ServeHost
  BY <1>8 DEF ServeHost, Core1, UseMenu, keys, frames, live, drawn, last,
          PictureTypes, Frames
<1>9. CASE UNCHANGED <<menu, lastLiveFrame, frame, copy, screen>>
  BY <1>9 DEF PictureTypes
<1> QED
  BY <1>1, <1>2, <1>3, <1>4, <1>5, <1>6, <1>7, <1>8, <1>9 DEF Next, CoreZero,
          CoreOne, Draw, Service, Emulate, vars, Core0, Core1, UseMenu,
          frames, drawn, drive, last, Enqueue, StoreKey, PublishKey,
          BeginDraw, LookBrowse, LookEarly, LookDue, LookAgain, LookReady,
          EndDraw, StartService, TakeKey, AdvanceIndex, NoKey, Dispatch,
          BeginLiveRender, ClearFrame, ArmRealTime, Settle, PollKeys, Run,
          LeaveForHost, FinishLiveRender, Drain

(* The flags keep their types. *)
LEMMA FlagsTyped ==
  ASSUME FlagTypes, [Next]_vars
  PROVE  FlagTypes'
<1>1. CASE BeginDraw
  BY <1>1 DEF BeginDraw, Core0, keys, frames, drawn, drive, last, FlagTypes
<1>2. CASE EndDraw
  BY <1>2 DEF EndDraw, Core0, keys, frames, drawn, drive, last, FlagTypes
<1>3. CASE RenderLive
  BY <1>3 DEF RenderLive, Core0, Whole, keys, frames, live, drive, FlagTypes
<1>4. CASE CopyRest
  BY <1>4 DEF CopyRest, Core0, keys, live, last, drive, FlagTypes
<1>5. CASE StartService
  BY <1>5 DEF StartService, Core1, keys, frames, drawn, drive, last, FlagTypes
<1>6. CASE Input
  BY <1>6 DEF Input, Core1, UseMenu, frames, live, drawn, last, FlagTypes
<1>7. CASE RenderRest
  BY <1>7 DEF RenderRest, Core1, keys, live, drawn, drive, last, FlagTypes
<1>8. CASE ServeHost
  BY <1>8 DEF ServeHost, Core1, UseMenu, keys, frames, live, drawn, last,
          FlagTypes
<1>9. CASE BeginLiveRender
  BY <1>9 DEF BeginLiveRender, Core1, keys, frames, live, drive, FlagTypes
<1>10. CASE ClearFrame
  BY <1>10 DEF ClearFrame, Core1, keys, live, drawn, drive, last, FlagTypes
<1>11. CASE ArmRealTime
  BY <1>11 DEF ArmRealTime, Core1, keys, frames, drawn, drive, last, FlagTypes
<1>12. CASE FinishLiveRender
  BY <1>12 DEF FinishLiveRender, Core1, keys, frames, drawn, drive, last,
          FlagTypes
<1>13. CASE UNCHANGED <<emulating, frameReady, realTime, liveRenderActive, lastLiveFrameValid>>
  BY <1>13 DEF FlagTypes
<1> QED
  BY <1>1, <1>2, <1>3, <1>4, <1>5, <1>6, <1>7, <1>8, <1>9, <1>10, <1>11,
          <1>12, <1>13 DEF Next, CoreZero, CoreOne, Draw, Service, Emulate,
          vars, Core0, Core1, UseMenu, frames, live, drawn, drive, last,
          Enqueue, StoreKey, PublishKey, LookBrowse, LookEarly, LookDue,
          LookAgain, LookReady, CopyFrame, ShowFrame, TakeKey, AdvanceIndex,
          NoKey, RenderBrowse, Dispatch, Settle, PollKeys, Run, LeaveForHost,
          Drain

(* Both cores stay inside their programs. *)
LEMMA LabelsTyped ==
  ASSUME LabelTypes, [Next]_vars
  PROVE  LabelTypes'
<1>1. CASE Enqueue
  BY <1>1 DEF Enqueue, Core0, Next64, frames, live, drawn, drive, last,
          LabelTypes, Labels0, Labels1, None
<1>2. CASE StoreKey
  BY <1>2 DEF StoreKey, Core0, frames, live, drawn, drive, last, LabelTypes,
          Labels0, Labels1, None
<1>3. CASE PublishKey
  BY <1>3 DEF PublishKey, Core0, Next64, frames, live, drawn, drive, last,
          LabelTypes, Labels0, Labels1, None
<1>4. CASE BeginDraw
  BY <1>4 DEF BeginDraw, Core0, keys, frames, drawn, drive, last, LabelTypes,
          Labels0, Labels1, None
<1>5. CASE LookBrowse
  BY <1>5 DEF LookBrowse, Core0, keys, frames, live, drawn, drive, last,
          LabelTypes, Labels0, Labels1, None
<1>6. CASE LookEarly
  BY <1>6 DEF LookEarly, Core0, keys, frames, live, drawn, drive, last,
          LabelTypes, Labels0, Labels1, None
<1>7. CASE LookDue
  BY <1>7 DEF LookDue, Core0, keys, frames, live, drawn, drive, last,
          LabelTypes, Labels0, Labels1, None
<1>8. CASE LookAgain
  BY <1>8 DEF LookAgain, Core0, keys, frames, live, drawn, drive, last,
          LabelTypes, Labels0, Labels1, None
<1>9. CASE RenderLive
  BY <1>9 DEF RenderLive, Core0, Whole, keys, frames, live, drive, LabelTypes,
          Labels0, Labels1, None
<1>10. CASE LookReady
  BY <1>10 DEF LookReady, Core0, keys, frames, live, drawn, drive, last,
          LabelTypes, Labels0, Labels1, None
<1>11. CASE CopyFrame
  BY <1>11 DEF CopyFrame, Core0, keys, live, last, drive, LabelTypes, Labels0,
          Labels1, None
<1>12. CASE CopyRest
  BY <1>12 DEF CopyRest, Core0, keys, live, last, drive, LabelTypes, Labels0,
          Labels1, None
<1>13. CASE ShowFrame
  BY <1>13 DEF ShowFrame, Core0, keys, frames, live, last, drive, LabelTypes,
          Labels0, Labels1, None
<1>14. CASE EndDraw
  BY <1>14 DEF EndDraw, Core0, keys, frames, drawn, drive, last, LabelTypes,
          Labels0, Labels1, None
<1>15. CASE StartService
  BY <1>15 DEF StartService, Core1, keys, frames, drawn, drive, last,
          LabelTypes, Labels0, Labels1, None
<1>16. CASE TakeKey
  BY <1>16 DEF TakeKey, Core1, frames, live, drawn, drive, last, LabelTypes,
          Labels0, Labels1, None
<1>17. CASE AdvanceIndex
  BY <1>17 DEF AdvanceIndex, Core1, Next64, frames, live, drawn, drive, last,
          LabelTypes, Labels0, Labels1, None
<1>18. CASE Input
  BY <1>18 DEF Input, Core1, UseMenu, frames, live, drawn, last, LabelTypes,
          Labels0, Labels1, None
<1>19. CASE NoKey
  BY <1>19 DEF NoKey, Core1, keys, frames, live, drawn, drive, last,
          LabelTypes, Labels0, Labels1, None
<1>20. CASE RenderBrowse
  BY <1>20 DEF RenderBrowse, Core1, keys, live, drawn, drive, last,
          LabelTypes, Labels0, Labels1, None
<1>21. CASE RenderRest
  BY <1>21 DEF RenderRest, Core1, keys, live, drawn, drive, last, LabelTypes,
          Labels0, Labels1, None
<1>22. CASE Dispatch
  BY <1>22 DEF Dispatch, Core1, keys, frames, live, drawn, last, LabelTypes,
          Labels0, Labels1, None
<1>23. CASE ServeHost
  BY <1>23 DEF ServeHost, Core1, UseMenu, keys, frames, live, drawn, last,
          LabelTypes, Labels0, Labels1, None
<1>24. CASE BeginLiveRender
  BY <1>24 DEF BeginLiveRender, Core1, keys, frames, live, drive, LabelTypes,
          Labels0, Labels1, None
<1>25. CASE ClearFrame
  BY <1>25 DEF ClearFrame, Core1, keys, live, drawn, drive, last, LabelTypes,
          Labels0, Labels1, None
<1>26. CASE ArmRealTime
  BY <1>26 DEF ArmRealTime, Core1, keys, frames, drawn, drive, last,
          LabelTypes, Labels0, Labels1, None
<1>27. CASE Settle
  BY <1>27 DEF Settle, Core1, keys, frames, live, drawn, drive, last,
          LabelTypes, Labels0, Labels1, None
<1>28. CASE PollKeys
  BY <1>28 DEF PollKeys, Core1, keys, frames, live, drawn, last, LabelTypes,
          Labels0, Labels1, None
<1>29. CASE Run
  BY <1>29 DEF Run, Core1, keys, frames, live, drawn, drive, last, LabelTypes,
          Labels0, Labels1, None
<1>30. CASE LeaveForHost
  BY <1>30 DEF LeaveForHost, Core1, keys, frames, live, drawn, last,
          LabelTypes, Labels0, Labels1, None
<1>31. CASE FinishLiveRender
  BY <1>31 DEF FinishLiveRender, Core1, keys, frames, drawn, drive, last,
          LabelTypes, Labels0, Labels1, None
<1>32. CASE Drain
  BY <1>32 DEF Drain, Core1, keys, frames, live, drawn, drive, last,
          LabelTypes, Labels0, Labels1, None
<1>33. CASE UNCHANGED vars
  BY <1>33 DEF vars, keys, frames, live, last, drawn, drive, LabelTypes,
          Labels0, Labels1, None
<1> QED
  BY <1>1, <1>2, <1>3, <1>4, <1>5, <1>6, <1>7, <1>8, <1>9, <1>10, <1>11,
          <1>12, <1>13, <1>14, <1>15, <1>16, <1>17, <1>18, <1>19, <1>20,
          <1>21, <1>22, <1>23, <1>24, <1>25, <1>26, <1>27, <1>28, <1>29,
          <1>30, <1>31, <1>32, <1>33
     DEF Next, CoreZero, CoreOne, Draw, Service, Emulate

(* Every step keeps the turns of the two cores. *)
LEMMA TurnsKept ==
  ASSUME LabelTypes, Turns, [Next]_vars
  PROVE  Turns'
<1>1. CASE Enqueue
  BY <1>1 DEF Enqueue, Core0, Next64, frames, live, drawn, drive, last, Turns,
          LabelTypes, Labels0, Labels1
<1>2. CASE StoreKey
  BY <1>2 DEF StoreKey, Core0, frames, live, drawn, drive, last, Turns,
          LabelTypes, Labels0, Labels1
<1>3. CASE PublishKey
  BY <1>3 DEF PublishKey, Core0, Next64, frames, live, drawn, drive, last,
          Turns, LabelTypes, Labels0, Labels1
<1>4. CASE BeginDraw
  BY <1>4 DEF BeginDraw, Core0, keys, frames, drawn, drive, last, Turns,
          LabelTypes, Labels0, Labels1
<1>5. CASE LookBrowse
  BY <1>5 DEF LookBrowse, Core0, keys, frames, live, drawn, drive, last,
          Turns, LabelTypes, Labels0, Labels1
<1>6. CASE LookEarly
  BY <1>6 DEF LookEarly, Core0, keys, frames, live, drawn, drive, last, Turns,
          LabelTypes, Labels0, Labels1
<1>7. CASE LookDue
  BY <1>7 DEF LookDue, Core0, keys, frames, live, drawn, drive, last, Turns,
          LabelTypes, Labels0, Labels1
<1>8. CASE LookAgain
  BY <1>8 DEF LookAgain, Core0, keys, frames, live, drawn, drive, last, Turns,
          LabelTypes, Labels0, Labels1
<1>9. CASE RenderLive
  BY <1>9 DEF RenderLive, Core0, Whole, keys, frames, live, drive, Turns,
          LabelTypes, Labels0, Labels1
<1>10. CASE LookReady
  BY <1>10 DEF LookReady, Core0, keys, frames, live, drawn, drive, last,
          Turns, LabelTypes, Labels0, Labels1
<1>11. CASE CopyFrame
  BY <1>11 DEF CopyFrame, Core0, keys, live, last, drive, Turns, LabelTypes,
          Labels0, Labels1
<1>12. CASE CopyRest
  BY <1>12 DEF CopyRest, Core0, keys, live, last, drive, Turns, LabelTypes,
          Labels0, Labels1
<1>13. CASE ShowFrame
  BY <1>13 DEF ShowFrame, Core0, keys, frames, live, last, drive, Turns,
          LabelTypes, Labels0, Labels1
<1>14. CASE EndDraw
  BY <1>14 DEF EndDraw, Core0, keys, frames, drawn, drive, last, Turns,
          LabelTypes, Labels0, Labels1
<1>15. CASE StartService
  BY <1>15 DEF StartService, Core1, keys, frames, drawn, drive, last, Turns,
          LabelTypes, Labels0, Labels1
<1>16. CASE TakeKey
  BY <1>16 DEF TakeKey, Core1, frames, live, drawn, drive, last, Turns,
          LabelTypes, Labels0, Labels1
<1>17. CASE AdvanceIndex
  BY <1>17 DEF AdvanceIndex, Core1, Next64, frames, live, drawn, drive, last,
          Turns, LabelTypes, Labels0, Labels1
<1>18. CASE Input
  BY <1>18 DEF Input, Core1, UseMenu, frames, live, drawn, last, Turns,
          LabelTypes, Labels0, Labels1
<1>19. CASE NoKey
  BY <1>19 DEF NoKey, Core1, keys, frames, live, drawn, drive, last, Turns,
          LabelTypes, Labels0, Labels1
<1>20. CASE RenderBrowse
  BY <1>20 DEF RenderBrowse, Core1, keys, live, drawn, drive, last, Turns,
          LabelTypes, Labels0, Labels1
<1>21. CASE RenderRest
  BY <1>21 DEF RenderRest, Core1, keys, live, drawn, drive, last, Turns,
          LabelTypes, Labels0, Labels1
<1>22. CASE Dispatch
  BY <1>22 DEF Dispatch, Core1, keys, frames, live, drawn, last, Turns,
          LabelTypes, Labels0, Labels1
<1>23. CASE ServeHost
  BY <1>23 DEF ServeHost, Core1, UseMenu, keys, frames, live, drawn, last,
          Turns, LabelTypes, Labels0, Labels1
<1>24. CASE BeginLiveRender
  BY <1>24 DEF BeginLiveRender, Core1, keys, frames, live, drive, Turns,
          LabelTypes, Labels0, Labels1
<1>25. CASE ClearFrame
  BY <1>25 DEF ClearFrame, Core1, keys, live, drawn, drive, last, Turns,
          LabelTypes, Labels0, Labels1
<1>26. CASE ArmRealTime
  BY <1>26 DEF ArmRealTime, Core1, keys, frames, drawn, drive, last, Turns,
          LabelTypes, Labels0, Labels1
<1>27. CASE Settle
  BY <1>27 DEF Settle, Core1, keys, frames, live, drawn, drive, last, Turns,
          LabelTypes, Labels0, Labels1
<1>28. CASE PollKeys
  BY <1>28 DEF PollKeys, Core1, keys, frames, live, drawn, last, Turns,
          LabelTypes, Labels0, Labels1
<1>29. CASE Run
  BY <1>29 DEF Run, Core1, keys, frames, live, drawn, drive, last, Turns,
          LabelTypes, Labels0, Labels1
<1>30. CASE LeaveForHost
  BY <1>30 DEF LeaveForHost, Core1, keys, frames, live, drawn, last, Turns,
          LabelTypes, Labels0, Labels1
<1>31. CASE FinishLiveRender
  BY <1>31 DEF FinishLiveRender, Core1, keys, frames, drawn, drive, last,
          Turns, LabelTypes, Labels0, Labels1
<1>32. CASE Drain
  BY <1>32 DEF Drain, Core1, keys, frames, live, drawn, drive, last, Turns,
          LabelTypes, Labels0, Labels1
<1>33. CASE UNCHANGED vars
  BY <1>33 DEF vars, keys, frames, live, last, drawn, drive, Turns,
          LabelTypes, Labels0, Labels1
<1> QED
  BY <1>1, <1>2, <1>3, <1>4, <1>5, <1>6, <1>7, <1>8, <1>9, <1>10, <1>11,
          <1>12, <1>13, <1>14, <1>15, <1>16, <1>17, <1>18, <1>19, <1>20,
          <1>21, <1>22, <1>23, <1>24, <1>25, <1>26, <1>27, <1>28, <1>29,
          <1>30, <1>31, <1>32, <1>33
     DEF Next, CoreZero, CoreOne, Draw, Service, Emulate

(* Every step keeps the frames whole. *)
LEMMA HalvesKept ==
  ASSUME PictureTypes, Halves, [Next]_vars
  PROVE  Halves'
<1>1. CASE Enqueue
  BY <1>1 DEF Enqueue, Core0, Next64, frames, live, drawn, drive, last,
          Halves, PictureTypes, None
<1>2. CASE StoreKey
  BY <1>2 DEF StoreKey, Core0, frames, live, drawn, drive, last, Halves,
          PictureTypes, None
<1>3. CASE PublishKey
  BY <1>3 DEF PublishKey, Core0, Next64, frames, live, drawn, drive, last,
          Halves, PictureTypes, None
<1>4. CASE BeginDraw
  BY <1>4 DEF BeginDraw, Core0, keys, frames, drawn, drive, last, Halves,
          PictureTypes, None
<1>5. CASE LookBrowse
  BY <1>5 DEF LookBrowse, Core0, keys, frames, live, drawn, drive, last,
          Halves, PictureTypes, None
<1>6. CASE LookEarly
  BY <1>6 DEF LookEarly, Core0, keys, frames, live, drawn, drive, last,
          Halves, PictureTypes, None
<1>7. CASE LookDue
  BY <1>7 DEF LookDue, Core0, keys, frames, live, drawn, drive, last, Halves,
          PictureTypes, None
<1>8. CASE LookAgain
  BY <1>8 DEF LookAgain, Core0, keys, frames, live, drawn, drive, last,
          Halves, PictureTypes, None
<1>9. CASE RenderLive
  <2>1. screen' = screen \/ screen' = Whole(menu)
    BY <1>9 DEF RenderLive
  <2>2. screen'.top = screen'.bottom
    BY <2>1, WholeShows DEF Halves
  <2>3. pc0 = "render" /\ pc0' = "leave" /\ UNCHANGED <<lock, frame, copy, menu, pc1>>
    BY <1>9 DEF RenderLive, Core0, frames, drive
  <2> QED
    BY <2>2, <2>3 DEF Halves
<1>10. CASE LookReady
  BY <1>10 DEF LookReady, Core0, keys, frames, live, drawn, drive, last,
          Halves, PictureTypes, None
<1>11. CASE CopyFrame
  BY <1>11 DEF CopyFrame, Core0, keys, live, last, drive, Halves,
          PictureTypes, None, Frames
<1>12. CASE CopyRest
  BY <1>12 DEF CopyRest, Core0, keys, live, last, drive, Halves, PictureTypes,
          None, Frames
<1>13. CASE ShowFrame
  BY <1>13 DEF ShowFrame, Core0, keys, frames, live, last, drive, Halves,
          PictureTypes, None, Frames
<1>14. CASE EndDraw
  BY <1>14 DEF EndDraw, Core0, keys, frames, drawn, drive, last, Halves,
          PictureTypes, None
<1>15. CASE StartService
  BY <1>15 DEF StartService, Core1, keys, frames, drawn, drive, last, Halves,
          PictureTypes, None
<1>16. CASE TakeKey
  BY <1>16 DEF TakeKey, Core1, frames, live, drawn, drive, last, Halves,
          PictureTypes, None
<1>17. CASE AdvanceIndex
  BY <1>17 DEF AdvanceIndex, Core1, Next64, frames, live, drawn, drive, last,
          Halves, PictureTypes, None
<1>18. CASE Input
  BY <1>18 DEF Input, Core1, UseMenu, frames, live, drawn, last, Halves,
          PictureTypes, None
<1>19. CASE NoKey
  BY <1>19 DEF NoKey, Core1, keys, frames, live, drawn, drive, last, Halves,
          PictureTypes, None
<1>20. CASE RenderBrowse
  BY <1>20 DEF RenderBrowse, Core1, keys, live, drawn, drive, last, Halves,
          PictureTypes, None, Frames
<1>21. CASE RenderRest
  BY <1>21 DEF RenderRest, Core1, keys, live, drawn, drive, last, Halves,
          PictureTypes, None, Frames
<1>22. CASE Dispatch
  BY <1>22 DEF Dispatch, Core1, keys, frames, live, drawn, last, Halves,
          PictureTypes, None
<1>23. CASE ServeHost
  BY <1>23 DEF ServeHost, Core1, UseMenu, keys, frames, live, drawn, last,
          Halves, PictureTypes, None
<1>24. CASE BeginLiveRender
  BY <1>24 DEF BeginLiveRender, Core1, keys, frames, live, drive, Halves,
          PictureTypes, None
<1>25. CASE ClearFrame
  BY <1>25 DEF ClearFrame, Core1, keys, live, drawn, drive, last, Halves,
          PictureTypes, None
<1>26. CASE ArmRealTime
  BY <1>26 DEF ArmRealTime, Core1, keys, frames, drawn, drive, last, Halves,
          PictureTypes, None
<1>27. CASE Settle
  BY <1>27 DEF Settle, Core1, keys, frames, live, drawn, drive, last, Halves,
          PictureTypes, None
<1>28. CASE PollKeys
  BY <1>28 DEF PollKeys, Core1, keys, frames, live, drawn, last, Halves,
          PictureTypes, None
<1>29. CASE Run
  BY <1>29 DEF Run, Core1, keys, frames, live, drawn, drive, last, Halves,
          PictureTypes, None
<1>30. CASE LeaveForHost
  BY <1>30 DEF LeaveForHost, Core1, keys, frames, live, drawn, last, Halves,
          PictureTypes, None
<1>31. CASE FinishLiveRender
  BY <1>31 DEF FinishLiveRender, Core1, keys, frames, drawn, drive, last,
          Halves, PictureTypes, None
<1>32. CASE Drain
  BY <1>32 DEF Drain, Core1, keys, frames, live, drawn, drive, last, Halves,
          PictureTypes, None
<1>33. CASE UNCHANGED vars
  BY <1>33 DEF vars, keys, frames, live, last, drawn, drive, Halves,
          PictureTypes, None
<1> QED
  BY <1>1, <1>2, <1>3, <1>4, <1>5, <1>6, <1>7, <1>8, <1>9, <1>10, <1>11,
          <1>12, <1>13, <1>14, <1>15, <1>16, <1>17, <1>18, <1>19, <1>20,
          <1>21, <1>22, <1>23, <1>24, <1>25, <1>26, <1>27, <1>28, <1>29,
          <1>30, <1>31, <1>32, <1>33
     DEF Next, CoreZero, CoreOne, Draw, Service, Emulate

(* Every step keeps the order of the frames, given who may render. *)
LEMMA AgesKept ==
  ASSUME PictureTypes, Turns, Halves, Ages, [Next]_vars
  PROVE  Ages'
<1>1. CASE Enqueue
  BY <1>1 DEF Enqueue, Core0, Next64, frames, live, drawn, drive, last,
          PictureTypes, Turns, Halves, Ages
<1>2. CASE StoreKey
  BY <1>2 DEF StoreKey, Core0, frames, live, drawn, drive, last, PictureTypes,
          Turns, Halves, Ages
<1>3. CASE PublishKey
  BY <1>3 DEF PublishKey, Core0, Next64, frames, live, drawn, drive, last,
          PictureTypes, Turns, Halves, Ages
<1>4. CASE BeginDraw
  BY <1>4 DEF BeginDraw, Core0, keys, frames, drawn, drive, last,
          PictureTypes, Turns, Halves, Ages
<1>5. CASE LookBrowse
  BY <1>5 DEF LookBrowse, Core0, keys, frames, live, drawn, drive, last,
          PictureTypes, Turns, Halves, Ages
<1>6. CASE LookEarly
  BY <1>6 DEF LookEarly, Core0, keys, frames, live, drawn, drive, last,
          PictureTypes, Turns, Halves, Ages
<1>7. CASE LookDue
  BY <1>7 DEF LookDue, Core0, keys, frames, live, drawn, drive, last,
          PictureTypes, Turns, Halves, Ages
<1>8. CASE LookAgain
  BY <1>8 DEF LookAgain, Core0, keys, frames, live, drawn, drive, last,
          PictureTypes, Turns, Halves, Ages
<1>9. CASE RenderLive
  <2>1. screen' = screen \/ screen' = Whole(menu)
    BY <1>9 DEF RenderLive
  <2>2. screen'.top <= menu
    BY <2>1, WholeShows, MenusAreNumbers, AgesKnown, OrderOfMenus
  <2>3. pc0 = "render" /\ pc0' = "leave" /\ UNCHANGED <<frameReady, frame, copy, menu, pc1>>
    BY <1>9 DEF RenderLive, Core0, frames, drive
  <2>4. ~frameReady
    BY <2>3 DEF Turns, Ages
  <2> QED
    BY <2>2, <2>3, <2>4 DEF Ages
<1>10. CASE LookReady
  BY <1>10 DEF LookReady, Core0, keys, frames, live, drawn, drive, last,
          PictureTypes, Turns, Halves, Ages
<1>11. CASE CopyFrame
  BY <1>11 DEF CopyFrame, Core0, keys, live, last, drive, PictureTypes, Turns,
          Halves, Ages, Frames
<1>12. CASE CopyRest
  <2>1. pc0 = "copied half" /\ pc0' = "show" /\ ~frameReady'
        /\ UNCHANGED <<frame, screen, menu, pc1>>
    BY <1>12 DEF CopyRest, Core0, drive
  <2>2. copy'.top = frame.top
    BY <1>12, <2>1 DEF CopyRest, Halves, PictureTypes, Frames
  <2>3. screen.top <= frame.top /\ frame.top <= frame.top
    BY <2>1, MenusAreNumbers, AgesKnown, OrderOfMenus
  <2> QED
    BY <2>1, <2>2, <2>3 DEF Ages
<1>13. CASE ShowFrame
  <2>1. pc0 = "show" /\ pc0' = "leave" /\ screen' = copy
        /\ UNCHANGED <<frame, frameReady, menu, pc1>>
    BY <1>13 DEF ShowFrame, Core0, frames, drive
  <2>2. screen'.top <= frame.top /\ screen'.top <= menu
    BY <2>1, MenusAreNumbers, AgesKnown, OrderOfMenus
  <2> QED
    BY <2>1, <2>2 DEF Ages
<1>14. CASE EndDraw
  BY <1>14 DEF EndDraw, Core0, keys, frames, drawn, drive, last, PictureTypes,
          Turns, Halves, Ages
<1>15. CASE StartService
  BY <1>15 DEF StartService, Core1, keys, frames, drawn, drive, last,
          PictureTypes, Turns, Halves, Ages
<1>16. CASE TakeKey
  BY <1>16 DEF TakeKey, Core1, frames, live, drawn, drive, last, PictureTypes,
          Turns, Halves, Ages
<1>17. CASE AdvanceIndex
  BY <1>17 DEF AdvanceIndex, Core1, Next64, frames, live, drawn, drive, last,
          PictureTypes, Turns, Halves, Ages
<1>18. CASE Input
  <2>1. menu' \in {menu, menu + 1} /\ UNCHANGED <<frame, frameReady, copy, screen, pc0>>
    BY <1>18 DEF Input, UseMenu, Core1, frames, drawn
  <2>2. pc1 = "input" /\ pc1' = "take"
    BY <1>18 DEF Input, Core1
  <2>3. frame.top <= menu' /\ screen.top <= menu'
    BY <2>1, MenusAreNumbers, AgesKnown, OrderOfMenus
  <2> QED
    BY <2>1, <2>2, <2>3 DEF Ages
<1>19. CASE NoKey
  BY <1>19 DEF NoKey, Core1, keys, frames, live, drawn, drive, last,
          PictureTypes, Turns, Halves, Ages
<1>20. CASE RenderBrowse
  <2>1. pc1 = "render" /\ pc1' = "rendered half" /\ lock = None
        /\ frame'.top = menu /\ UNCHANGED <<screen, copy, frameReady, menu, pc0>>
    BY <1>20 DEF RenderBrowse, Core1, drawn, drive, PictureTypes, Frames
  <2>2. menu <= menu /\ (pc0 = "show" => copy.top <= menu)
    BY MenusAreNumbers, AgesKnown, OrderOfMenus
  <2>3. screen.top <= menu
    BY DEF Ages
  <2> QED
    BY <2>1, <2>2, <2>3 DEF Ages
<1>21. CASE RenderRest
  BY <1>21 DEF RenderRest, Core1, keys, live, drawn, drive, last,
          PictureTypes, Turns, Halves, Ages, Frames
<1>22. CASE Dispatch
  BY <1>22 DEF Dispatch, Core1, keys, frames, live, drawn, last, PictureTypes,
          Turns, Halves, Ages
<1>23. CASE ServeHost
  <2>1. menu' \in {menu, menu + 1} /\ UNCHANGED <<frame, frameReady, copy, screen, pc0>>
    BY <1>23 DEF ServeHost, UseMenu, Core1, frames, drawn
  <2>2. pc1 = "host" /\ pc1' \in {"begin", "service"}
    BY <1>23 DEF ServeHost, Core1
  <2>3. frame.top <= menu' /\ screen.top <= menu'
    BY <2>1, MenusAreNumbers, AgesKnown, OrderOfMenus
  <2> QED
    BY <2>1, <2>2, <2>3 DEF Ages
<1>24. CASE BeginLiveRender
  BY <1>24 DEF BeginLiveRender, Core1, keys, frames, live, drive,
          PictureTypes, Turns, Halves, Ages
<1>25. CASE ClearFrame
  BY <1>25 DEF ClearFrame, Core1, keys, live, drawn, drive, last,
          PictureTypes, Turns, Halves, Ages
<1>26. CASE ArmRealTime
  BY <1>26 DEF ArmRealTime, Core1, keys, frames, drawn, drive, last,
          PictureTypes, Turns, Halves, Ages
<1>27. CASE Settle
  BY <1>27 DEF Settle, Core1, keys, frames, live, drawn, drive, last,
          PictureTypes, Turns, Halves, Ages
<1>28. CASE PollKeys
  BY <1>28 DEF PollKeys, Core1, keys, frames, live, drawn, last, PictureTypes,
          Turns, Halves, Ages
<1>29. CASE Run
  BY <1>29 DEF Run, Core1, keys, frames, live, drawn, drive, last,
          PictureTypes, Turns, Halves, Ages
<1>30. CASE LeaveForHost
  BY <1>30 DEF LeaveForHost, Core1, keys, frames, live, drawn, last,
          PictureTypes, Turns, Halves, Ages
<1>31. CASE FinishLiveRender
  BY <1>31 DEF FinishLiveRender, Core1, keys, frames, drawn, drive, last,
          PictureTypes, Turns, Halves, Ages
<1>32. CASE Drain
  BY <1>32 DEF Drain, Core1, keys, frames, live, drawn, drive, last,
          PictureTypes, Turns, Halves, Ages
<1>33. CASE UNCHANGED vars
  BY <1>33 DEF vars, keys, frames, live, last, drawn, drive, PictureTypes,
          Turns, Halves, Ages
<1> QED
  BY <1>1, <1>2, <1>3, <1>4, <1>5, <1>6, <1>7, <1>8, <1>9, <1>10, <1>11,
          <1>12, <1>13, <1>14, <1>15, <1>16, <1>17, <1>18, <1>19, <1>20,
          <1>21, <1>22, <1>23, <1>24, <1>25, <1>26, <1>27, <1>28, <1>29,
          <1>30, <1>31, <1>32, <1>33
     DEF Next, CoreZero, CoreOne, Draw, Service, Emulate

Inv == TypeOK /\ Turns /\ Halves /\ Ages

(* The inductive invariant.  The turns need only the types, the halves need  *)
(* the lock, and the ages need the turns: a live frame is shown only when no *)
(* browse frame is waiting.                                                  *)
THEOREM HandoffInvariant == Spec => []Inv
<1>1. Init => Inv
  BY Initially DEF Inv
<1>2. Inv /\ [Next]_vars => Inv'
  BY RingTyped, PicturesTyped, FlagsTyped, LabelsTyped, TurnsKept, HalvesKept, AgesKept
     DEF Inv, TypeOK
<1> QED
  BY <1>1, <1>2, PTL DEF Spec

(* All the variables keep their types; the ring's indices stay inside it. *)
THEOREM TypesCorrect == Spec => []TypeOK
<1>1. Inv => TypeOK
  BY DEF Inv
<1> QED
  BY <1>1, HandoffInvariant, PTL

(* Core 0 renders the menu only while core 1 leaves it alone. *)
THEOREM MenuHasOneUser == Spec => []MenuExclusive
<1>1. Inv => MenuExclusive
  BY DEF Inv, Turns, MenuExclusive
<1> QED
  BY <1>1, HandoffInvariant, PTL

(* No browse frame is in flight while a drive is emulated. *)
THEOREM BrowseFramesFinish == Spec => []BrowseFrameDone
<1>1. Inv => BrowseFrameDone
  BY DEF Inv, Turns, BrowseFrameDone
<1> QED
  BY <1>1, HandoffInvariant, PTL

(* Every frame on the display is whole. *)
THEOREM FramesAreWhole == Spec => []WholeFrame
<1>1. Inv => WholeFrame
  BY DEF Inv, Halves, WholeFrame
<1> QED
  BY <1>1, HandoffInvariant, PTL

(* The display never goes back to an older menu. *)
THEOREM ScreenNeverGoesBack == Spec => ScreenInOrder
<1>1. ASSUME Inv, [Next]_vars
      PROVE  [screen'.top >= screen.top]_screen
  <2> USE <1>1 DEF Inv, TypeOK
  <2>1. CASE RenderLive
    <3>1. screen' = screen \/ screen' = Whole(menu)
      BY <2>1 DEF RenderLive
    <3> QED
      BY <3>1, WholeShows, MenusAreNumbers, AgesKnown, OrderOfMenus
  <2>2. CASE ShowFrame
    BY <2>2 DEF ShowFrame, Core0, Ages
  <2>3. CASE ~RenderLive /\ ~ShowFrame
    <3>1. UNCHANGED screen
      BY <2>3 DEF Next, CoreZero, CoreOne, Draw, Service, Emulate, vars,
          drawn, Enqueue, StoreKey, PublishKey, BeginDraw, LookBrowse,
          LookEarly, LookDue, LookAgain, LookReady, CopyFrame, CopyRest,
          EndDraw, StartService, TakeKey, AdvanceIndex, Input, NoKey,
          RenderBrowse, RenderRest, Dispatch, ServeHost, BeginLiveRender,
          ClearFrame, ArmRealTime, Settle, PollKeys, Run, LeaveForHost,
          FinishLiveRender, Drain
    <3> QED
      BY <3>1
  <2> QED
    BY <2>1, <2>2, <2>3
<1> QED
  BY <1>1, HandoffInvariant, PTL DEF Spec, ScreenInOrder

-----------------------------------------------------------------------------
(* The keys in the ring, as a queue. *)

(* What lies in a ring e that is read at r and written at w.                  *)
Count(r, w) == (w + RingSize - r) % RingSize
KeysFrom(e, r, w) == [i \in 1 .. Count(r, w) |-> e[(r + i - 1) % RingSize]]

(* Indices wrap once at most.                                                 *)
LEMMA Wraps ==
  /\ \A x \in Slots : x % RingSize = x
  /\ \A x \in RingSize .. RingSize + RingSize - 1 : x % RingSize = x - RingSize
BY HandoffAssumption DEF Slots

(* How many keys lie between two indices.                                     *)
LEMMA CountIs ==
  ASSUME NEW r \in Slots, NEW w \in Slots
  PROVE  Count(r, w) = IF r <= w THEN w - r ELSE w + RingSize - r
<1>1. CASE r <= w
  <2>1. w + RingSize - r \in RingSize .. RingSize + RingSize - 1
    BY <1>1, HandoffAssumption DEF Slots
  <2> QED
    BY <2>1, <1>1, Wraps, HandoffAssumption DEF Count, Slots
<1>2. CASE ~(r <= w)
  <2>1. w + RingSize - r \in Slots
    BY <1>2, HandoffAssumption DEF Slots
  <2> QED
    BY <2>1, <1>2, Wraps DEF Count
<1> QED
  BY <1>1, <1>2

(* One slot stays empty.                                                      *)
LEMMA CountBounds ==
  ASSUME NEW r \in Slots, NEW w \in Slots
  PROVE  /\ Count(r, w) \in Nat /\ Count(r, w) <= RingSize - 1
         /\ Count(r, w) = 0 <=> r = w
         /\ Next64(w) = r => Count(r, w) = RingSize - 1
BY CountIs, HandoffAssumption DEF Slots, Next64

(* Where the keys lie.                                                        *)
LEMMA SlotIs ==
  ASSUME NEW r \in Slots, NEW i \in 1 .. RingSize
  PROVE  /\ (r + i - 1) % RingSize \in Slots
         /\ (r + i - 1) % RingSize =
              IF r + i - 1 < RingSize THEN r + i - 1 ELSE r + i - 1 - RingSize
<1>1. CASE r + i - 1 < RingSize
  <2>1. r + i - 1 \in Slots
    BY <1>1, HandoffAssumption DEF Slots
  <2> QED
    BY <2>1, <1>1, Wraps
<1>2. CASE ~(r + i - 1 < RingSize)
  <2>1. r + i - 1 \in RingSize .. RingSize + RingSize - 1
    BY <1>2, HandoffAssumption DEF Slots
  <2> QED
    BY <2>1, <1>2, Wraps, HandoffAssumption DEF Slots
<1> QED
  BY <1>1, <1>2

LEMMA KeysFromIsSeq ==
  ASSUME NEW e \in [Slots -> Nat], NEW r \in Slots, NEW w \in Slots
  PROVE  /\ KeysFrom(e, r, w) \in Seq(Nat)
         /\ Len(KeysFrom(e, r, w)) = Count(r, w)
         /\ \A i \in 1 .. Count(r, w) : KeysFrom(e, r, w)[i] = e[(r + i - 1) % RingSize]
<1>1. \A i \in 1 .. Count(r, w) : e[(r + i - 1) % RingSize] \in Nat
  BY CountBounds, SlotIs, HandoffAssumption
<1> QED
  BY <1>1, CountBounds DEF KeysFrom

(* The slot that is written next holds no key yet.                            *)
LEMMA StoreOutside ==
  ASSUME NEW e \in [Slots -> Nat], NEW r \in Slots, NEW w \in Slots, NEW k \in Nat
  PROVE  KeysFrom([e EXCEPT ![w] = k], r, w) = KeysFrom(e, r, w)
<1>1. ASSUME NEW i \in 1 .. Count(r, w)
      PROVE  (r + i - 1) % RingSize \in Slots /\ (r + i - 1) % RingSize # w
  <2>1. i \in 1 .. RingSize
    BY CountBounds, HandoffAssumption
  <2>2. Count(r, w) = IF r <= w THEN w - r ELSE w + RingSize - r
    BY CountIs
  <2>3. i <= (IF r <= w THEN w - r ELSE w + RingSize - r)
    BY <2>2, CountBounds
  <2> DEFINE x == (r + i - 1) % RingSize
  <2>4. x \in Slots /\ x = IF r + i - 1 < RingSize THEN r + i - 1 ELSE r + i - 1 - RingSize
    BY <2>1, SlotIs
  <2> HIDE DEF x
  <2>5. x \in Slots /\ x # w
    BY <2>1, <2>3, <2>4, HandoffAssumption DEF Slots
  <2> QED
    BY <2>5 DEF x
<1> QED
  BY <1>1 DEF KeysFrom

(* Moving the write index appends what lies under it.                         *)
LEMMA PublishAppends ==
  ASSUME NEW e \in [Slots -> Nat], NEW r \in Slots, NEW w \in Slots, Next64(w) # r
  PROVE  KeysFrom(e, r, Next64(w)) = Append(KeysFrom(e, r, w), e[w])
<1>1. Next64(w) \in Slots
  BY HandoffAssumption DEF Slots, Next64
<1>2. Count(r, Next64(w)) = Count(r, w) + 1
  <2>1. /\ Count(r, w) = IF r <= w THEN w - r ELSE w + RingSize - r
        /\ Count(r, Next64(w)) =
             IF r <= Next64(w) THEN Next64(w) - r ELSE Next64(w) + RingSize - r
    BY <1>1, CountIs
  <2> QED
    BY <2>1, HandoffAssumption DEF Slots, Next64
<1>3. (r + (Count(r, w) + 1) - 1) % RingSize = w
  <2> DEFINE i == Count(r, w) + 1
  <2>1. i \in 1 .. RingSize
    BY CountBounds, HandoffAssumption
  <2>2. i = 1 + (IF r <= w THEN w - r ELSE w + RingSize - r)
    BY CountIs, HandoffAssumption DEF Slots
  <2> HIDE DEF i
  <2>3. (r + i - 1) % RingSize =
          IF r + i - 1 < RingSize THEN r + i - 1 ELSE r + i - 1 - RingSize
    BY <2>1, SlotIs
  <2>4. (r + i - 1) % RingSize = w
    BY <2>1, <2>2, <2>3, HandoffAssumption DEF Slots
  <2> QED
    BY <2>4 DEF i
<1> DEFINE s == KeysFrom(e, r, w)
<1> DEFINE t == KeysFrom(e, r, Next64(w))
<1>4. s \in Seq(Nat) /\ Len(s) = Count(r, w) /\ e[w] \in Nat /\ Count(r, w) \in Nat
  BY KeysFromIsSeq, CountBounds
<1>5. /\ t \in Seq(Nat) /\ Len(t) = Count(r, w) + 1
      /\ \A i \in 1 .. Count(r, w) + 1 : t[i] = e[(r + i - 1) % RingSize]
  <2> HIDE DEF t
  <2>1. /\ t \in Seq(Nat) /\ Len(t) = Count(r, Next64(w))
        /\ \A i \in 1 .. Count(r, Next64(w)) : t[i] = e[(r + i - 1) % RingSize]
    BY <1>1, KeysFromIsSeq DEF t
  <2> QED
    BY <2>1, <1>2
<1>6. \A i \in 1 .. Count(r, w) : t[i] = s[i]
  <2>1. \A i \in 1 .. Count(r, w) : s[i] = e[(r + i - 1) % RingSize]
    BY KeysFromIsSeq
  <2> HIDE DEF s, t
  <2>2. \A i \in 1 .. Count(r, w) : i \in 1 .. Count(r, w) + 1
    BY <1>4
  <2> QED
    BY <2>1, <2>2, <1>5
<1>7. t[Count(r, w) + 1] = e[w]
  <2> HIDE DEF t
  <2>1. Count(r, w) + 1 \in 1 .. Count(r, w) + 1
    BY <1>4
  <2>2. t[Count(r, w) + 1] = e[(r + (Count(r, w) + 1) - 1) % RingSize]
    BY <2>1, <1>5
  <2> QED
    BY <2>2, <1>3
<1> HIDE DEF s, t
<1>8. Append(s, e[w]) \in Seq(Nat) /\ Len(Append(s, e[w])) = Len(t)
  BY <1>4, <1>5
<1>9. \A i \in 1 .. Len(t) : t[i] = Append(s, e[w])[i]
  BY <1>4, <1>5, <1>6, <1>7
<1>10. t = Append(s, e[w])
  BY <1>5, <1>8, <1>9, SeqEqual
<1> QED
  BY <1>10 DEF s, t

(* Moving the read index takes the first key away.                            *)
LEMMA AdvanceTakes ==
  ASSUME NEW e \in [Slots -> Nat], NEW r \in Slots, NEW w \in Slots, r # w
  PROVE  KeysFrom(e, r, w) = <<e[r]>> \o KeysFrom(e, Next64(r), w)
<1>1. Next64(r) \in Slots
  BY HandoffAssumption DEF Slots, Next64
<1>2. Count(r, w) = Count(Next64(r), w) + 1
  <2>1. /\ Count(r, w) = IF r <= w THEN w - r ELSE w + RingSize - r
        /\ Count(Next64(r), w) =
             IF Next64(r) <= w THEN w - Next64(r) ELSE w + RingSize - Next64(r)
    BY <1>1, CountIs
  <2>2. CASE r + 1 = RingSize
    <3>1. Next64(r) = 0 /\ ~(r <= w)
      BY <2>2, HandoffAssumption DEF Slots, Next64
    <3> QED
      BY <2>1, <2>2, <3>1, HandoffAssumption DEF Slots
  <2>3. CASE r + 1 # RingSize
    <3>1. Next64(r) = r + 1 /\ (r <= w <=> r + 1 <= w)
      BY <2>3, HandoffAssumption DEF Slots, Next64
    <3> QED
      BY <2>1, <3>1, HandoffAssumption DEF Slots
  <2> QED
    BY <2>2, <2>3
<1> DEFINE s == KeysFrom(e, r, w)
<1> DEFINE t == KeysFrom(e, Next64(r), w)
<1> DEFINE n == Count(Next64(r), w)
<1>3. n \in Nat /\ n <= RingSize - 1 /\ n + 1 <= RingSize - 1
  BY <1>1, <1>2, CountBounds
<1>4. s \in Seq(Nat) /\ Len(s) = n + 1 /\ e[r] \in Nat
  BY <1>2, KeysFromIsSeq
<1>5. t \in Seq(Nat) /\ Len(t) = n
  BY <1>1, KeysFromIsSeq
<1>6. s[1] = e[r]
  <2>1. 1 \in 1 .. Count(r, w) /\ r + 1 - 1 = r
    BY <1>2, <1>3 DEF Slots
  <2> QED
    BY <2>1, KeysFromIsSeq, Wraps
<1>7. ASSUME NEW i \in 1 .. n PROVE s[i + 1] = t[i]
  <2>1. i \in 1 .. RingSize /\ i + 1 \in 1 .. RingSize /\ i + 1 \in 1 .. Count(r, w)
    BY <1>2, <1>3, HandoffAssumption
  <2>2. (r + (i + 1) - 1) % RingSize = (Next64(r) + i - 1) % RingSize
    <3>1. (r + (i + 1) - 1) % RingSize =
            IF r + (i + 1) - 1 < RingSize THEN r + (i + 1) - 1 ELSE r + (i + 1) - 1 - RingSize
      BY <2>1, SlotIs
    <3>2. (Next64(r) + i - 1) % RingSize =
            IF Next64(r) + i - 1 < RingSize THEN Next64(r) + i - 1
                                            ELSE Next64(r) + i - 1 - RingSize
      BY <2>1, <1>1, SlotIs
    <3> QED
      BY <2>1, <3>1, <3>2, HandoffAssumption DEF Slots, Next64
  <2>3. s[i + 1] = e[(r + (i + 1) - 1) % RingSize]
    BY <2>1, KeysFromIsSeq
  <2>4. t[i] = e[(Next64(r) + i - 1) % RingSize]
    BY <1>1, KeysFromIsSeq
  <2> HIDE DEF s, t
  <2> QED
    BY <2>2, <2>3, <2>4
<1> HIDE DEF s, t, n
<1>8. <<e[r]>> \o t \in Seq(Nat) /\ Len(<<e[r]>> \o t) = n + 1
  BY <1>4, <1>5, <1>3
<1>9. ASSUME NEW i \in 1 .. Len(s) PROVE s[i] = (<<e[r]>> \o t)[i]
  <2>1. CASE i = 1
    BY <2>1, <1>6, <1>5, <1>4
  <2>2. CASE i # 1
    <3>1. i - 1 \in 1 .. n /\ (i - 1) + 1 = i
      BY <2>2, <1>4, <1>3
    <3>2. s[i] = t[i - 1]
      BY <3>1, <1>7
    <3> QED
      BY <3>1, <3>2, <2>2, <1>5, <1>4, <1>3
  <2> QED
    BY <2>1, <2>2
<1>10. s = <<e[r]>> \o t
  BY <1>4, <1>8, <1>9, SeqEqual
<1> QED
  BY <1>10 DEF s, t

(* What the two cores know while they hold a key: there is room for it, it   *)
(* is the key that was pressed, and it is still the first in the ring.       *)
RingOrder ==
  /\ pc0 \in {"store", "publish"} => Next64(writeIndex) # readIndex
  /\ pc0 = "publish" => events[writeIndex] = presses
  /\ pc1 = "advance" => readIndex # writeIndex /\ key = events[readIndex]

(* The other core's steps leave that as it is: each core moves one index.    *)
LEMMA RingOrderKept ==
  ASSUME RingTypes, RingOrder, [Next]_vars
  PROVE  RingOrder'
<1>1. CASE Enqueue
  BY <1>1 DEF Enqueue, Core0, RingOrder
<1>2. CASE StoreKey
  BY <1>2 DEF StoreKey, Core0, RingOrder, RingTypes
<1>3. CASE PublishKey
  BY <1>3 DEF PublishKey, Core0, RingOrder
<1>4. CASE TakeKey
  BY <1>4 DEF TakeKey, Core1, InputPending, RingOrder
<1>5. CASE AdvanceIndex
  <2>1. readIndex # writeIndex /\ pc1 = "advance" /\ pc1' = "input" /\ pc0' = pc0
    BY <1>5 DEF AdvanceIndex, Core1, RingOrder
  <2>2. Next64(writeIndex) # Next64(readIndex)
    BY <2>1, HandoffAssumption DEF RingTypes, Slots, Next64
  <2>3. readIndex' = Next64(readIndex) /\ UNCHANGED <<presses, events, writeIndex>>
    BY <1>5 DEF AdvanceIndex
  <2>4. Next64(writeIndex)' = Next64(writeIndex)
    BY <2>3 DEF Next64
  <2> QED
    BY <2>1, <2>2, <2>3, <2>4 DEF RingOrder
<1>6. CASE /\ UNCHANGED <<presses, events, readIndex, writeIndex, key>>
           /\ pc0' \in {"store", "publish"} => pc0' = pc0
           /\ pc1' = "advance" => pc1' = pc1
  BY <1>6 DEF RingOrder, Next64
<1> QED
  BY <1>1, <1>2, <1>3, <1>4, <1>5, <1>6 DEF Next, CoreZero, CoreOne,
          Draw, Service, Emulate, vars, Core0, Core1, keys,
          BeginDraw, LookBrowse, LookEarly, LookDue, LookAgain, RenderLive,
          LookReady, CopyFrame, CopyRest, ShowFrame, EndDraw, StartService,
          Input, NoKey, RenderBrowse, RenderRest, Dispatch, ServeHost,
          BeginLiveRender, ClearFrame, ArmRealTime, Settle, PollKeys, Run,
          LeaveForHost, FinishLiveRender, Drain

(* The keys outside the ring: the one core 1 took, the one core 0 found.     *)
InHand  == IF pc1 = "input" THEN <<key>> ELSE << >>
Pressed == IF pc0 \in {"store", "publish"} THEN <<presses>> ELSE << >>

(* How queues are put together.                                              *)
LEMMA Joining ==
  /\ \A s \in Seq(Nat) : s \o << >> = s /\ << >> \o s = s
  /\ \A s, t \in Seq(Nat) : s \o t \in Seq(Nat)
  /\ \A s, t, u \in Seq(Nat) : (s \o t) \o u = s \o (t \o u)
  /\ \A s \in Seq(Nat) : \A x \in Nat :
       /\ Append(s, x) = s \o <<x>> /\ <<x>> \in Seq(Nat)
       /\ Head(<<x>> \o s) = x /\ Tail(<<x>> \o s) = s /\ <<x>> \o s # << >>
<1>1. \A s \in Seq(Nat) : s \o << >> = s /\ << >> \o s = s
  BY ConcatEmptySeq
<1>2. \A s, t \in Seq(Nat) : s \o t \in Seq(Nat)
  BY ConcatProperties
<1>3. \A s, t, u \in Seq(Nat) : (s \o t) \o u = s \o (t \o u)
  BY ConcatAssociative
<1>4. ASSUME NEW s \in Seq(Nat), NEW x \in Nat
      PROVE  /\ Append(s, x) = s \o <<x>> /\ <<x>> \in Seq(Nat)
             /\ Head(<<x>> \o s) = x /\ Tail(<<x>> \o s) = s /\ <<x>> \o s # << >>
  <2>1. Append(s, x) = s \o <<x>>
    BY AppendIsConcat
  <2> DEFINE t == <<x>> \o s
  <2>2. <<x>> \in Seq(Nat) /\ Len(<<x>>) = 1 /\ <<x>>[1] = x
    OBVIOUS
  <2>3. t \in Seq(Nat) /\ Len(t) = Len(s) + 1 /\ t[1] = x /\ \A i \in 1 .. Len(s) : t[i + 1] = s[i]
    BY <2>2
  <2> HIDE DEF t
  <2>4. t # << >> /\ Head(t) = x
    BY <2>3
  <2>5. Tail(t) \in Seq(Nat) /\ Len(Tail(t)) = Len(s) /\ \A i \in 1 .. Len(s) : Tail(t)[i] = t[i + 1]
    BY <2>3, <2>4, HeadTailProperties
  <2>6. Tail(t) = s
    BY <2>3, <2>5, SeqEqual
  <2> QED
    BY <2>1, <2>2, <2>4, <2>6 DEF t
<1> QED
  BY <1>1, <1>2, <1>3, <1>4

(* The three parts are queues of keys.                                       *)
LEMMA Parts ==
  ASSUME RingTypes
  PROVE  /\ InHand \in Seq(Nat) /\ Pressed \in Seq(Nat)
         /\ RingKeys \in Seq(Nat) /\ Len(RingKeys) = Count(readIndex, writeIndex)
         /\ RingKeys = KeysFrom(events, readIndex, writeIndex)
         /\ Waiting = (InHand \o RingKeys) \o Pressed
<1>1. InHand \in Seq(Nat) /\ Pressed \in Seq(Nat)
  BY DEF RingTypes, InHand, Pressed
<1>2. RingKeys = KeysFrom(events, readIndex, writeIndex)
  BY DEF RingKeys, KeysFrom, Count
<1>3. RingKeys \in Seq(Nat) /\ Len(RingKeys) = Count(readIndex, writeIndex)
  BY <1>2, KeysFromIsSeq DEF RingTypes
<1>4. Waiting = (InHand \o RingKeys) \o Pressed
  BY DEF Waiting, InHand, Pressed
<1> QED
  BY <1>1, <1>2, <1>3, <1>4

(* Every step is a press, a key given to the menu, or nothing to the user.   *)
LEMMA QueueStep ==
  ASSUME RingTypes, RingOrder, [Next]_vars
  PROVE  [Queue!Press \/ Queue!Handle]_(Queue!vars)
<1> DEFINE ring == KeysFrom(events, readIndex, writeIndex)
<1> DEFINE ringNext == KeysFrom(events', readIndex', writeIndex')
<1>a. /\ InHand \in Seq(Nat) /\ Pressed \in Seq(Nat) /\ ring \in Seq(Nat)
      /\ Len(ring) = Count(readIndex, writeIndex)
      /\ Waiting = (InHand \o ring) \o Pressed
  BY Parts
<1>b. /\ presses \in Nat /\ key \in Nat /\ events \in [Slots -> Nat]
      /\ readIndex \in Slots /\ writeIndex \in Slots
  BY DEF RingTypes
<1>c. Waiting' = (InHand' \o ringNext) \o Pressed'
  BY DEF Waiting, RingKeys, KeysFrom, Count, InHand, Pressed
<1> HIDE DEF ring, ringNext
<1>1. CASE Enqueue
  <2>1. /\ InHand' = InHand /\ ringNext = ring /\ Pressed = << >>
        /\ presses' = presses + 1 /\ handled' = handled
    BY <1>1 DEF Enqueue, Core0, InHand, Pressed, ring, ringNext
  <2>2. CASE Next64(writeIndex) = readIndex
    <3>1. Waiting' = Waiting
      BY <1>1, <2>1, <2>2, <1>a, <1>c DEF Enqueue, Core0, Pressed
    <3>2. Len(ring) = RingSize - 1
      BY <2>2, <1>a, <1>b, CountBounds
    <3>3. Len(Waiting) = Len(InHand) + Len(ring) + Len(Pressed)
      <4>1. InHand \o ring \in Seq(Nat) /\ Len(InHand \o ring) = Len(InHand) + Len(ring)
        BY <1>a, ConcatProperties
      <4>2. Len((InHand \o ring) \o Pressed) = Len(InHand \o ring) + Len(Pressed)
        BY <4>1, <1>a, ConcatProperties
      <4> QED
        BY <4>1, <4>2, <1>a
    <3>4. Len(InHand) \in Nat /\ Len(Pressed) \in Nat /\ Len(ring) \in Nat
      BY <1>a
    <3>5. Len(Waiting) >= RingSize - 1
      BY <3>2, <3>3, <3>4
    <3>6. presses' = presses + 1 /\ handled' = handled /\ UNCHANGED Waiting
      BY <2>1, <3>1
    <3>7. Queue!Press
      BY <3>5, <3>6, Zenon DEF Queue!Press
    <3> QED
      BY <3>7
  <2>3. CASE Next64(writeIndex) # readIndex
    <3>1. Pressed' = <<presses + 1>>
      BY <1>1, <2>1, <2>3 DEF Enqueue, Core0, Pressed
    <3>2. Waiting = InHand \o ring /\ Waiting \in Seq(Nat) /\ presses + 1 \in Nat
      BY <2>1, <1>a, <1>b, Joining
    <3>3. Waiting' = Append(Waiting, presses + 1)
      BY <2>1, <3>1, <3>2, <1>c, Joining
    <3> QED
      BY <2>1, <3>3 DEF Queue!Press
  <2> QED
    BY <2>2, <2>3
<1>2. CASE StoreKey
  <2>1. /\ InHand' = InHand /\ Pressed' = Pressed /\ UNCHANGED <<presses, handled>>
        /\ events' = [events EXCEPT ![writeIndex] = presses]
        /\ UNCHANGED <<readIndex, writeIndex>>
    BY <1>2 DEF StoreKey, Core0, InHand, Pressed
  <2>2. ringNext = ring
    BY <2>1, <1>b, StoreOutside DEF ring, ringNext
  <2> QED
    BY <2>1, <2>2, <1>a, <1>c DEF Queue!vars
<1>3. CASE PublishKey
  <2>1. /\ InHand' = InHand /\ Pressed = <<presses>> /\ Pressed' = << >>
        /\ UNCHANGED <<presses, handled, events, readIndex>>
        /\ writeIndex' = Next64(writeIndex)
    BY <1>3 DEF PublishKey, Core0, InHand, Pressed
  <2>2. Next64(writeIndex) # readIndex /\ events[writeIndex] = presses
    BY <1>3 DEF RingOrder, PublishKey, Core0
  <2>3. ringNext = Append(ring, presses)
    BY <2>1, <2>2, <1>b, PublishAppends DEF ring, ringNext
  <2>4. ringNext = ring \o <<presses>> /\ <<presses>> \in Seq(Nat) /\ ringNext \in Seq(Nat)
    BY <2>3, <1>a, <1>b, Joining
  <2>5. Waiting' = InHand \o ringNext
    BY <2>1, <2>4, <1>a, <1>c, Joining
  <2>6. InHand \o ringNext = Waiting
    BY <2>1, <2>4, <1>a, Joining
  <2>7. Waiting' = Waiting
    BY <2>5, <2>6
  <2> QED
    BY <2>1, <2>7 DEF Queue!vars
<1>4. CASE AdvanceIndex
  <2>1. /\ InHand = << >> /\ InHand' = <<key>> /\ Pressed' = Pressed
        /\ UNCHANGED <<presses, handled, events, writeIndex>>
        /\ readIndex' = Next64(readIndex)
    BY <1>4 DEF AdvanceIndex, Core1, InHand, Pressed
  <2>2. readIndex # writeIndex /\ key = events[readIndex]
    BY <1>4 DEF RingOrder, AdvanceIndex, Core1
  <2>3. ring = <<key>> \o ringNext
    BY <2>1, <2>2, <1>b, AdvanceTakes DEF ring, ringNext
  <2>4. Waiting' = ring \o Pressed
    BY <2>1, <2>3, <1>c
  <2>5. Waiting = ring \o Pressed
    BY <2>1, <1>a, Joining
  <2> QED
    BY <2>1, <2>4, <2>5 DEF Queue!vars
<1>5. CASE Input
  <2>1. /\ InHand = <<key>> /\ InHand' = << >> /\ Pressed' = Pressed /\ ringNext = ring
        /\ presses' = presses /\ handled' = key
    BY <1>5 DEF Input, Core1, InHand, Pressed, ring, ringNext
  <2>2. ring \o Pressed \in Seq(Nat) /\ Waiting' = ring \o Pressed
    BY <2>1, <1>a, <1>c, Joining
  <2>3. Waiting = <<key>> \o (ring \o Pressed)
    BY <2>1, <1>a, <1>b, Joining
  <2>4. Head(Waiting) = key /\ Tail(Waiting) = Waiting' /\ Waiting # << >>
    BY <2>2, <2>3, <1>b, Joining
  <2> QED
    BY <2>1, <2>4 DEF Queue!Handle
<1>6. CASE /\ UNCHANGED <<presses, handled, events, readIndex, writeIndex>>
           /\ InHand' = InHand /\ Pressed' = Pressed
  <2>1. ringNext = ring
    BY <1>6 DEF ring, ringNext
  <2> QED
    BY <1>6, <2>1, <1>a, <1>c DEF Queue!vars
<1>7. CASE TakeKey
  <2>1. InHand' = InHand /\ Pressed' = Pressed
    BY <1>7 DEF TakeKey, Core1, InHand, Pressed
  <2> QED
    BY <1>6, <1>7, <2>1 DEF TakeKey
<1>8. CASE /\ UNCHANGED keys
           /\ pc0' \in {"store", "publish"} <=> pc0 \in {"store", "publish"}
           /\ pc1' = "input" <=> pc1 = "input"
  <2>1. InHand' = InHand /\ Pressed' = Pressed
    BY <1>8 DEF keys, InHand, Pressed
  <2> QED
    BY <1>6, <1>8, <2>1 DEF keys
<1> QED
  BY <1>1, <1>2, <1>3, <1>4, <1>5, <1>7, <1>8 DEF Next, CoreZero, CoreOne,
          Draw, Service, Emulate, vars, Core0, Core1,
          BeginDraw, LookBrowse, LookEarly, LookDue, LookAgain, RenderLive,
          LookReady, CopyFrame, CopyRest, ShowFrame, EndDraw, StartService,
          NoKey, RenderBrowse, RenderRest, Dispatch, ServeHost,
          BeginLiveRender, ClearFrame, ArmRealTime, Settle, PollKeys, Run,
          LeaveForHost, FinishLiveRender, Drain

(* The ring is a queue of keys: they reach the menu in the order they were   *)
(* pressed, each once, and one is lost only when RingSize - 1 others wait.   *)
THEOREM KeysReachMenu == Spec => KeysInOrder
<1>1. Init => RingTypes /\ RingOrder
  BY Initially DEF TypeOK, Init, RingOrder
<1>2. RingTypes /\ RingOrder /\ [Next]_vars => RingTypes' /\ RingOrder'
  BY RingTyped, RingOrderKept
<1>3. Init => Queue!Init
  <2> SUFFICES ASSUME Init PROVE Queue!Init
    OBVIOUS
  <2>1. readIndex = 0 /\ writeIndex = 0 /\ 0 \in Slots /\ Count(0, 0) = 0
    BY CountBounds, HandoffAssumption DEF Init, Slots
  <2>2. RingKeys = << >>
    BY <2>1 DEF RingKeys, Count
  <2>3. InHand = << >> /\ Pressed = << >>
    BY DEF Init, InHand, Pressed
  <2>4. Waiting = (<< >> \o << >>) \o << >>
    BY <2>2, <2>3 DEF Waiting, InHand, Pressed
  <2>5. Waiting = << >>
    BY <2>4, Joining, EmptySeq
  <2> QED
    BY <2>5 DEF Init, Queue!Init
<1>4. RingTypes /\ RingOrder /\ [Next]_vars => [Queue!Press \/ Queue!Handle]_(Queue!vars)
  BY QueueStep
<1> QED
  BY <1>1, <1>2, <1>3, <1>4, PTL DEF Spec, KeysInOrder, Queue!Spec

-----------------------------------------------------------------------------
(* Who waits for the other core: for the frame lock, or for the end of       *)
(* Draw(); and who has the lock.                                             *)
Waits0 == pc0 = "copy" /\ lock # None
Waits1 == \/ pc1 \in {"render", "clear"} /\ lock # None
          \/ pc1 \in {"settle", "drain"} /\ liveRenderActive

(* A core never waits for one that waits itself: the one with the lock gives *)
(* it back with its next step, and core 1 has none while it waits for        *)
(* Draw() to end, although Draw() takes it.                                  *)
NoMutualWait ==
  /\ ~(Waits0 /\ Waits1)
  /\ Waits0 => lock = "core 1" /\ pc1 = "rendered half"
  /\ Waits1 => pc0 \notin {"poll", "store", "publish"}

(* The lock of the frame and the flags of the two cores cannot lock the      *)
(* cores up (Pi1551Oled.cpp:430, main.cpp's two wait loops).                 *)
THEOREM CoresDoNotLockUp == Spec => []NoMutualWait
<1>1. Inv => NoMutualWait
  <2> SUFFICES ASSUME Inv PROVE NoMutualWait
    OBVIOUS
  <2>1. lock \in {None, "core 0", "core 1"}
    BY DEF Inv, TypeOK, LabelTypes
  <2>2. /\ lock = "core 1" <=> pc1 = "rendered half"
        /\ lock = "core 0" <=> pc0 = "copied half"
        /\ liveRenderActive <=> pc0 \notin {"poll", "store", "publish"}
    BY DEF Inv, Halves, Turns
  <2>3. Waits0 => lock = "core 1" /\ pc1 = "rendered half"
    BY <2>1, <2>2 DEF Waits0
  <2>4. Waits1 => pc1 # "rendered half"
    BY DEF Waits1
  <2>5. Waits1 => pc0 \notin {"poll", "store", "publish"}
    BY <2>1, <2>2 DEF Waits1
  <2> QED
    BY <2>3, <2>4, <2>5 DEF NoMutualWait
<1> QED
  BY <1>1, HandoffInvariant, PTL
===============================================================================
