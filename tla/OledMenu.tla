------------------------------- MODULE OledMenu -------------------------------
(***************************************************************************)
(* The OLED menu (src/src/OledMenu.cpp) on the media it mounts, driven by  *)
(* the panel's keys and by the computer's commands as Pi1551Oled.cpp and   *)
(* emulator() in main.cpp dispatch them.  Core 1 runs each of them to its  *)
(* end outside the drive's loop, so each is one step; the ring the keys    *)
(* come through is OledHandoff's, the tape is TapePlayer's.                *)
(*                                                                         *)
(* Rows that change neither the medium nor the menu are left out, and with *)
(* them the views from which Back only returns: Settings, Status, Record,  *)
(* Seek, and Disk, whose rows are DiskMedia's PanelWriteImage and          *)
(* PanelWriteProtect.  A menu call is the set of its results: a flag, the  *)
(* kernel and the menu it leaves.                                          *)
(***************************************************************************)
EXTENDS DiskMedia, SequencesExt

CONSTANTS
  Dirs, Root, Start,     (* directories; the SD root; DEFAULT_BROWSE_DIR     *)
  Up,                    (* the directory an entry is in                     *)
  Listing,               (* what a directory lists, without ".."             *)
  Tapes, Indexes, Lists, (* TAP, IDX and LST files                           *)
  ListOf,                (* the media an LST names                           *)
  Unreadable,            (* bound: directories that may fail to be read       *)
  AutoMount,             (* set: the automatically mounted entry, or none    *)
  Lines,                 (* 6 rows below the header                          *)
  MaxHistory             (* bound: views behind the one shown                *)

Entries == Dirs \cup Paths \cup Tapes \cup Indexes \cup Lists

ASSUME MenuAssumption ==
  /\ Root \in Dirs /\ Start \in Dirs
  /\ Up \in [Entries -> Dirs]
  /\ Listing \in [Dirs -> Seq(Entries)]
  /\ ListOf \in [Lists -> Seq(Paths)] /\ \A e \in Lists : IsInjective(ListOf[e])
  /\ (Paths \cup Lists) \cap (Dirs \cup Tapes \cup Indexes) = {}
  /\ Unreadable \subseteq Dirs /\ AutoMount \subseteq Paths \cup Lists
  /\ Lines \in Nat \ {0, 1} /\ MaxHistory \in Nat

VARIABLES
  menu,
  hostLeft    (* history: the computer left the medium and nobody chose one  *)

menuVars == <<mediaVars, menu, hostLeft>>

NoReturn == [view |-> "none", cursor |-> 0, offset |-> 0]

Result(ok, k, m) == [ok |-> ok, k |-> k, m |-> m]
Told(m)          == [m EXCEPT !.message = TRUE]
And(results, Op(_, _)) == UNION {IF r.ok THEN Op(r.k, r.m) ELSE {r} : r \in results}

(* A call of the kernel: Good is the menu if it succeeds, Bad if it fails.   *)
Call(results, good, bad) == {Result(r.ok, r.k, IF r.ok THEN good ELSE bad) : r \in results}

-----------------------------------------------------------------------------
(* What a view shows; "Parent" is the row "..".                              *)

TapeEntry(e) == e \in Dirs \cup Tapes \cup Indexes

TapeListing == [d \in Dirs |-> SelectSeq(Listing[d], TapeEntry)]

(* True of every listing, but by an induction that the provers cannot do.    *)
ASSUME FilterAssumption == TapeListing \in [Dirs -> Seq(Entries)]

(* The vector files: kept as the directory and the filter it was read with.  *)
FilesOf(m) ==
  (IF m.shown.dir = Root THEN <<>> ELSE <<Up[m.shown.dir]>>)
    \o (IF m.shown.tapes THEN TapeListing ELSE Listing)[m.shown.dir]

RowsOf(m) ==
  CASE m.view = "Browser"   -> <<"Menu">> \o FilesOf(m)
    [] m.view = "Fliplist"  -> <<"Menu">> \o m.flip
    [] m.view = "Device"    -> IF m.flip = <<>> THEN <<"Parent", "Browser", "Tape", "Reboot">>
                               ELSE <<"Parent", "ClearList", "Browser", "Tape", "Reboot">>
    [] m.view = "Tape"      -> IF m.tape THEN <<"Parent", "GoToFile", "EjectTAP">>
                               ELSE <<"Parent", "LoadTAP">>
    [] m.view = "Reboot"    -> <<"Parent", "Cancel", "RebootNow">>
    [] OTHER                -> <<"Parent", m.view>>     (* Notice, TapeIndex *)

RowAt(m) == RowsOf(m)[m.cursor + 1]

FixedTop(view) == view \in {"Browser", "Fliplist"}

(* Mutant: the window does not follow the cursor down. *)
ClampShort(m) ==
  LET n == Len(RowsOf(m))
      c == IF m.cursor >= n THEN n - 1 ELSE m.cursor
  IN [m EXCEPT !.cursor = c,
        !.offset = IF FixedTop(m.view) THEN IF c > 0 /\ c <= @ THEN c - 1 ELSE @
                   ELSE IF c < @ THEN c ELSE @]

Clamp(m) ==
  LET n == Len(RowsOf(m))
      c == IF m.cursor >= n THEN n - 1 ELSE m.cursor
      o == IF FixedTop(m.view) THEN IF c > 0 /\ c <= m.offset THEN c - 1 ELSE m.offset
           ELSE IF c < m.offset THEN c ELSE m.offset
  IN [m EXCEPT !.cursor = c,
        !.offset = IF FixedTop(m.view) THEN IF c > o + Lines - 1 THEN c - (Lines - 1) ELSE o
                   ELSE IF c >= o + Lines THEN c - (Lines - 1) ELSE o]

Position(m) == [view |-> m.view, cursor |-> m.cursor, offset |-> m.offset]
At(m, p)    == [m EXCEPT !.view = p.view, !.cursor = p.cursor, !.offset = p.offset]
AtTop(m, v) == At(m, [view |-> v, cursor |-> 1, offset |-> 0])

Open(m, next) == Clamp(AtTop([m EXCEPT !.history = Append(@, Position(m))], next))

Refresh(m) ==
  {Told(m) : d \in {m.path} \cap Unreadable}
    \cup {Clamp([m EXCEPT !.shown = [dir |-> m.path, tapes |-> m.tapeFilter]])}

ChangeDirectory(k, m, next) ==
  {Result(FALSE, k, Told(m)) : d \in {next} \cap Unreadable}
    \cup {Result(TRUE, k, n) :
          n \in Refresh([m EXCEPT !.path = next, !.cursor = 1, !.offset = 0])}

-----------------------------------------------------------------------------
(* Leaving and choosing a medium.                                            *)

NoSolo(m) == [m EXCEPT !.flip = IF m.listMode THEN @ ELSE <<>>]

Focused(m, p) ==
  IF \E i \in 1 .. Len(FilesOf(m)) : FilesOf(m)[i] = p
  THEN [m EXCEPT !.cursor = CHOOSE i \in 1 .. Len(FilesOf(m)) : FilesOf(m)[i] = p] ELSE m

(* Mutant: the medium is taken for unmounted whatever the kernel says. *)
BrowseRegardless(k, m, fresh, tape) ==
  LET last == IF m.mounted = NoPath THEN m.lastMounted ELSE m.mounted
      n == [NoSolo(m) EXCEPT !.mounted = NoPath, !.lastMounted = last,
              !.tapeFilter = tape,
              !.history = IF fresh THEN <<>> ELSE @,
              !.back = IF fresh THEN NoReturn
                       ELSE IF m.view = "Fliplist" \/ tape THEN Position(m) ELSE @]
  IN UNION {{Result(TRUE, c.k, Clamp(c.m)) :
               c \in ChangeDirectory(r.k, AtTop(n, "Browser"), m.path)} : r \in Unmount(k)}

Browse(k, m, fresh, tape) ==
  LET last == IF m.mounted = NoPath THEN m.lastMounted ELSE m.mounted
      n == [NoSolo(m) EXCEPT !.mounted = NoPath, !.lastMounted = last,
              !.tapeFilter = tape,
              !.history = IF fresh THEN <<>> ELSE @,
              !.back = IF fresh THEN NoReturn
                       ELSE IF m.view = "Fliplist" \/ tape THEN Position(m) ELSE @]
      home == ~fresh /\ ~tape /\ last # NoPath
      next == IF home THEN Up[last] ELSE IF tape THEN Root ELSE IF fresh THEN Start ELSE m.path
  IN And(Call(Unmount(k), AtTop(n, "Browser"), Told(m)),
         LAMBDA j, b : {Result(TRUE, c.k, Clamp(IF home THEN Focused(c.m, last) ELSE c.m)) :
                        c \in ChangeDirectory(j, b, next)})

(* Mutant: the way back to the Fliplist stays open. *)
ShowHostBrowserKeepingReturn(k, m, next) ==
  And(Call(Unmount(k),
           AtTop([NoSolo(m) EXCEPT !.message = FALSE, !.mounted = NoPath, !.history = <<>>,
                    !.tapeFilter = FALSE], "Browser"),
           Told(m)),
      LAMBDA j, b : ChangeDirectory(j, b, next))

(* The computer's navigation: the panel forgets where it was.                *)
ShowHostBrowser(k, m, next) ==
  And(Call(Unmount(k),
           AtTop([NoSolo(m) EXCEPT !.message = FALSE, !.mounted = NoPath, !.lastMounted = NoPath,
                    !.history = <<>>, !.back = NoReturn, !.tapeFilter = FALSE], "Browser"),
           Told(m)),
      LAMBDA j, b : ChangeDirectory(j, b, next))

Activate(k, m, p) ==
  IF p = m.mounted THEN {Result(TRUE, k, [m EXCEPT !.lastMounted = p])}
  ELSE Call(Mount(k, p), [m EXCEPT !.mounted = p, !.lastMounted = p], Told(m))

Clear(k, m) ==
  Call(Unmount(k),
       [m EXCEPT !.flip = <<>>, !.mounted = NoPath, !.lastMounted = NoPath, !.listMode = FALSE,
          !.back = NoReturn,
          !.history = IF m.view = "Browser" THEN <<>>
                      ELSE <<[view |-> "Browser", cursor |-> 1, offset |-> 0]>>],
       Told(m))

(* Fliplist is shown, with Menu selected.                                    *)
InFliplist(m) ==
  [At(m, [view |-> "Fliplist", cursor |-> 0, offset |-> 0]) EXCEPT
     !.tapeFilter = FALSE, !.history = <<>>, !.back = NoReturn]

Added(m, p) == [NoSolo(m) EXCEPT !.flip = IF p \in ToSet(@) THEN @ ELSE Append(@, p)]

LoadTape(k, m) ==
  {Result(FALSE, k, Told(m)),
   Result(TRUE, k,
     LET n == [m EXCEPT !.tape = TRUE, !.tapeFilter = FALSE] IN
     IF m.tapeFilter /\ m.back # NoReturn
     THEN Clamp([At(n, m.back) EXCEPT !.back = NoReturn]) ELSE n)}

(* The tape may be loaded and then fail to stop.                             *)
LoadIndex(k, m) ==
  {Result(FALSE, k, Told(m)), Result(FALSE, k, Told([m EXCEPT !.tape = TRUE])),
   Result(TRUE, k, Open(AtTop([m EXCEPT !.tape = TRUE, !.tapeFilter = FALSE, !.history = <<>>,
                                 !.back = NoReturn], "Tape"), "TapeIndex"))}

OpenList(k, m, e) ==
  {Result(FALSE, k, Told(m))}
    \cup IF ListOf[e] = <<>>
         THEN {Result(FALSE, r.k, Told(r.m)) : r \in Clear(k, m)}
         ELSE And(Activate(k, m, ListOf[e][1]),
                  LAMBDA j, n : {Result(TRUE, j, InFliplist([n EXCEPT !.flip = ListOf[e],
                                                                      !.listMode = TRUE]))})

OpenMedia(k, m, e) ==
  CASE e \in Tapes   -> LoadTape(k, m)
    [] e \in Indexes -> LoadIndex(k, m)
    [] e \in Lists   -> OpenList(k, m, e)
    [] OTHER         -> And(Activate(k, m, e),
                            LAMBDA j, n : {Result(TRUE, j, InFliplist(Added(n, e)))})

(* The directory follows the medium; the cursor stays.                       *)
OpenHostMedia(k, m, e) ==
  And(OpenMedia(k, m, e),
      LAMBDA j, n :
        {Result(c.ok, c.k, Clamp([c.m EXCEPT !.cursor = n.cursor, !.offset = n.offset])) :
         c \in ChangeDirectory(j, [n EXCEPT !.message = FALSE], Up[e])})

Toggle(m, p) ==
  LET flip == IF p \in ToSet(m.flip)
              THEN RemoveAt(m.flip, CHOOSE i \in DOMAIN m.flip : m.flip[i] = p)
              ELSE Append(m.flip, p)
  IN [m EXCEPT !.flip = flip, !.listMode = flip # <<>>]

DisableList(m) ==
  LET n == [m EXCEPT !.flip = <<>>, !.listMode = FALSE]
  IN Clamp(IF m.view = "Fliplist" THEN AtTop(n, "Browser") ELSE n)

-----------------------------------------------------------------------------
(* Back()                                                                    *)

(* In Browser at the root: to where Browser was opened from.                 *)
Return(k, m) ==
  LET p == m.back
      there(j, n) == {Result(TRUE, j, Clamp([At(n, p) EXCEPT !.back = NoReturn,
                                                            !.tapeFilter = FALSE]))}
      selected == IF m.lastMounted \in ToSet(m.flip) THEN m.lastMounted ELSE m.flip[1]
  IN IF p = NoReturn THEN {Result(TRUE, k, m)}
     ELSE IF p.view # "Fliplist" THEN there(k, m)
     ELSE IF m.flip = <<>> THEN {Result(TRUE, k, [m EXCEPT !.back = NoReturn])}
     ELSE And(Activate(k, m, selected), there)

(* Mutant: a Fliplist that has been emptied is returned to. *)
PopUnchecked(m) ==
  IF m.history = <<>> THEN m ELSE Clamp(At([m EXCEPT !.history = Front(@)], Last(m.history)))

Pop(m) ==
  IF m.history = <<>> THEN m
  ELSE LET p == Last(m.history)
           n == [m EXCEPT !.history = Front(@)]
       IN Clamp(IF p.view = "Fliplist" /\ m.flip = <<>> THEN AtTop(n, "Browser") ELSE At(n, p))

Back(k, m) ==
  CASE m.view = "Browser" ->
         IF m.path # Root THEN ChangeDirectory(k, m, Up[m.path]) ELSE Return(k, m)
    [] m.view = "Fliplist" -> Browse(k, m, FALSE, FALSE)
    [] OTHER -> {Result(TRUE, k, Pop(IF m.view = "Notice" THEN [m EXCEPT !.message = FALSE]
                                     ELSE m))}

-----------------------------------------------------------------------------
(* Select(): Enter on a row.                                                 *)

OnFile(k, m) ==
  LET e == FilesOf(m)[m.cursor]
  IN IF e \in Dirs THEN ChangeDirectory(k, m, e) ELSE OpenMedia(k, m, e)

OnDevice(k, m) ==
  CASE RowAt(m) = "ClearList" ->
         {Result(r.ok, r.k, Clamp([r.m EXCEPT !.cursor = 1])) : r \in Clear(k, m)}
    [] RowAt(m) = "Browser" ->
         UNION {Browse(r.k, r.m, TRUE, FALSE) : r \in Clear(k, m)}
    [] OTHER -> {Result(TRUE, k, Open(m, RowAt(m)))}    (* Tape, Reboot *)

OnTape(k, m) ==
  CASE RowAt(m) = "LoadTAP" -> Browse(k, m, FALSE, TRUE)
    [] RowAt(m) = "GoToFile" -> {Result(TRUE, k, Open(m, "TapeIndex"))}
    [] RowAt(m) = "EjectTAP" ->
         {Result(TRUE, k, [m EXCEPT !.tape = FALSE]), Result(FALSE, k, Told(m))}

(* The tape is moved to the file, or it is not.                              *)
OnTapeIndex(k, m) == Back(k, m) \cup {Result(FALSE, k, Told(m))}

Select(k, m) ==
  IF m.cursor = 0
  THEN IF FixedTop(m.view) THEN {Result(TRUE, k, Open(m, "Device"))} ELSE Back(k, m)
  ELSE CASE m.view = "Browser"  -> OnFile(k, m)
         [] m.view = "Fliplist" -> Browse(k, m, FALSE, FALSE)
         [] m.view = "Device"   -> OnDevice(k, m)
         [] m.view = "Tape"     -> OnTape(k, m)
         [] m.view = "TapeIndex" -> OnTapeIndex(k, m)
         [] OTHER                -> Back(k, m)       (* Notice; Reboot's Cancel *)

OnEntry(k, m, e) ==
  CASE e \in Paths -> {Result(TRUE, k, Toggle(m, e))}
    [] e \in Dirs  -> ChangeDirectory(k, m, e)
    [] e \in Tapes -> LoadTape(k, m)
    [] OTHER       -> {Result(TRUE, k, m)}

(* Insert does not clamp the cursor first: past the end of files it is some  *)
(* entry that files had.                                                     *)
OnInsert(k, m) ==
  IF m.view = "Browser"
  THEN IF m.cursor = 0 THEN {Result(TRUE, k, Open(m, "Device"))}
       ELSE UNION {OnEntry(k, m, e) : e \in IF m.cursor <= Len(FilesOf(m))
                                            THEN {FilesOf(m)[m.cursor]} ELSE Entries}
  ELSE IF m.view = "Fliplist" THEN Browse(k, [m EXCEPT !.listMode = TRUE], FALSE, FALSE)
  ELSE {Result(TRUE, k, m)}

(* The encoder: a row landed on in Fliplist is mounted at once.              *)
OnTurn(k, m, right) ==
  LET n == Len(RowsOf(m))
      c == IF right THEN IF m.cursor < n - 1 THEN m.cursor + 1
                         ELSE IF m.view = "Fliplist" THEN 1 ELSE m.cursor
           ELSE IF m.cursor > 0 THEN m.cursor - 1 ELSE 0
      moved == [m EXCEPT !.cursor = c]
  IN IF m.view = "Fliplist" /\ m.flip = <<>> THEN Browse(k, m, FALSE, FALSE)
     ELSE IF m.view = "Fliplist" /\ c # 0
     THEN {Result(r.ok, r.k, Clamp(r.m)) : r \in Activate(k, moved, m.flip[c])}
     ELSE {Result(TRUE, k, Clamp(moved))}

-----------------------------------------------------------------------------
(* The steps of core 1.                                                      *)

BootMenu ==
  [view |-> "Browser", cursor |-> 1, offset |-> 0, path |-> Start,
   shown |-> [dir |-> Start, tapes |-> FALSE], tapeFilter |-> FALSE,
   mounted |-> NoPath, lastMounted |-> NoPath, flip |-> <<>>, listMode |-> FALSE,
   history |-> <<>>, back |-> NoReturn, tape |-> FALSE, message |-> FALSE]

(* Initialize(): the first view, then the automatic mount.                   *)
Boot(k) ==
  LET m == Clamp(BootMenu)
  IN {Result(TRUE, k, m)} \cup UNION {OpenHostMedia(k, m, e) : e \in AutoMount}

(* The step takes one of the results.                                        *)
Take(results) ==
  \E r \in results :
    /\ kernel' = r.k /\ menu' = r.m
    /\ Len(r.m.history) <= MaxHistory
    /\ UNCHANGED newest

Clamped(results) == {Result(r.ok, r.k, Clamp(r.m)) : r \in results}

KeyBack   == Take(Back(kernel, menu)) /\ UNCHANGED hostLeft
KeyInsert == Take(Clamped(OnInsert(kernel, menu))) /\ UNCHANGED hostLeft
KeyTurn   ==
  /\ \E right \in BOOLEAN : Take(OnTurn(kernel, menu, right))
  /\ hostLeft' = (hostLeft /\ menu.view # "Fliplist")

Chooses(m)   == m.view = "Browser" /\ RowAt(m) \in Paths \cup Lists
Rebooting(m) == m.view = "Reboot" /\ RowAt(m) = "RebootNow"

KeyEnter ==
  LET m == Clamp(menu) IN
  /\ ~Rebooting(m)
  /\ Take(Clamped(Select(kernel, m)))
  /\ hostLeft' = (hostLeft /\ ~Chooses(m))

KeyReboot ==
  /\ Rebooting(Clamp(menu))
  /\ \E r \in Rebooted(kernel) :
       IF r.ok THEN /\ \E b \in Boot(BootKernel(r.k.card, r.k.overwritten)) :
                         kernel' = b.k /\ menu' = b.m
                    /\ hostLeft' = FALSE
       ELSE kernel' = r.k /\ menu' = Told(menu) /\ UNCHANGED hostLeft
  /\ UNCHANGED newest

Render ==
  /\ menu.message /\ menu.view # "Notice" /\ Len(menu.history) < MaxHistory
  /\ menu' = Open(menu, "Notice")
  /\ UNCHANGED <<mediaVars, hostLeft>>

-----------------------------------------------------------------------------
(* The computer's commands in the browse mode, and those trapped while the   *)
(* drive is emulated (CD.. and RESET).                                       *)

Browsing == kernel.emulating = "IEC"

Leave(next) ==
  \E r \in ShowHostBrowser(kernel, menu, next) : Take({r}) /\ hostLeft' = (hostLeft \/ r.ok)

(* HostDirectory(), HostRoot(): CD to a directory, CD/ and CD//.             *)
HostDirectory == Browsing /\ \E d \in Dirs : Leave(d)

HostParent == Leave(IF menu.mounted # NoPath THEN Up[menu.mounted] ELSE Up[menu.path])

SameMedium(p, q) == p # NoPath /\ q # NoPath /\ FileOf[p] = FileOf[q]

(* CD to a medium of the directory; then HostSelection() for a disk that is  *)
(* only announced, HostRefresh() for a container that is already mounted.    *)
HostCd ==
  /\ Browsing
  /\ \E p \in {q \in ToSet(Listing[menu.path]) \cap Paths : Kind[FileOf[q]] # "PRG"} :
       \E r \in CdMedia(kernel, p) :
         Take(IF ~r.ok \/ (Kind[FileOf[p]] \in Container /\ SameMedium(p, menu.mounted))
              THEN {Result(r.ok, r.k, menu)} ELSE OpenHostMedia(r.k, menu, p))
  /\ hostLeft' = FALSE

(* XS:file and XS                                                            *)
HostList ==
  /\ Browsing
  /\ \E e \in Lists : Take(OpenHostMedia(kernel, menu, e))
  /\ hostLeft' = FALSE
HostClearList ==
  /\ Browsing
  /\ menu' = DisableList(menu) /\ UNCHANGED <<mediaVars, hostLeft>>

(* A command changed the directory's files.                                  *)
HostRefresh ==
  /\ Browsing
  /\ IF kernel.cbm # NoMount /\ kernel.mountedPath # NoPath
     THEN /\ ~SameMedium(kernel.mountedPath, menu.mounted)
          /\ Take(OpenHostMedia(kernel, menu, kernel.mountedPath))
          /\ hostLeft' = FALSE
     ELSE IF menu.mounted # NoPath THEN Leave(Up[menu.mounted])
     ELSE menu' \in Refresh(menu) /\ UNCHANGED <<mediaVars, hostLeft>>

(* ResetBrowserPath()                                                        *)
ResetPath(k, m) ==
  {Result(TRUE, k,
     Clamp([(IF m.view = "Browser" THEN c.m
             ELSE [c.m EXCEPT !.cursor = m.cursor, !.offset = m.offset]) EXCEPT
              !.history = [i \in DOMAIN @ |->
                             IF @[i].view = "Browser" THEN [@[i] EXCEPT !.cursor = 1, !.offset = 0]
                             ELSE @[i]]])) :
   c \in ChangeDirectory(k, m, Start)}

(* The computer's RESET: the browser's path, then the automatic mount, each  *)
(* as the settings have it.                                                  *)
HostReset ==
  LET k == [kernel EXCEPT !.unwritten = FALSE] IN
  \E reset \in BOOLEAN, auto \in {{}, AutoMount} :
    \E r \in IF reset THEN ResetPath(k, menu) ELSE {Result(TRUE, k, menu)} :
      /\ Take(IF auto = {} THEN {r} ELSE UNION {OpenHostMedia(r.k, r.m, e) : e \in auto})
      /\ hostLeft' = (hostLeft /\ auto = {})

(* The medium changes behind the menu: a write of the drive, a fast transfer,*)
(* Write image.                                                              *)
KernelStep ==
  /\ DriveWrite \/ FastRequest \/ FastWrite \/ FastTransferEnds \/ PanelWriteImage
  /\ UNCHANGED <<menu, hostLeft>>

Init ==
  /\ newest = [f \in Files |-> 0]
  /\ \E b \in Boot(BootKernel([f \in Files |-> 0], {})) : kernel = b.k /\ menu = b.m
  /\ hostLeft = FALSE

Next ==
  \/ KeyBack \/ KeyInsert \/ KeyTurn \/ KeyEnter \/ KeyReboot \/ Render
  \/ HostDirectory \/ HostParent \/ HostCd \/ HostList \/ HostClearList \/ HostRefresh
  \/ HostReset \/ KernelStep

Spec == Init /\ [][Next]_menuVars

-----------------------------------------------------------------------------
Views     == {"Browser", "Fliplist", "Device", "Tape", "TapeIndex", "Reboot", "Notice"}
Positions == [view : Views, cursor : Nat, offset : Nat]

(* The types of the variables.                                               *)
MenuTypeOK ==
  /\ kernel \in Kernel /\ newest \in [Files -> Contents] /\ hostLeft \in BOOLEAN
  /\ Position(menu) \in Positions /\ menu.back \in Positions \cup {NoReturn}
  /\ menu.path \in Dirs /\ menu.shown \in [dir : Dirs, tapes : BOOLEAN]
  /\ menu.mounted \in Paths \cup {NoPath} /\ menu.lastMounted \in Paths \cup {NoPath}
  /\ menu.flip \in Seq(Paths) /\ menu.history \in Seq(Positions)
  /\ {menu.tapeFilter, menu.listMode, menu.tape, menu.message} \subseteq BOOLEAN

(* The panel never shows a medium as gone, or another one as mounted, while  *)
(* a disk with the computer's changes is in the drive: a failed flush keeps  *)
(* the image (Menu::Browse(), Activate(), ShowHostBrowser(), Clear()).       *)
DiskAsShown == kernel.caddy # NoDisk => kernel.caddy.path = menu.mounted

(* The selected row exists and is on the screen whenever a view is drawn     *)
(* (Menu::Clamp()): operations that fail may leave the cursor on a row that  *)
(* is gone, but each of them leaves a message, and Menu::Render() then draws *)
(* Notice.                                                                   *)
CursorOnScreen ==
  (menu.message => menu.view = "Notice")
    => /\ menu.cursor < Len(RowsOf(menu))
       /\ IF FixedTop(menu.view)
          THEN \/ menu.cursor = 0
               \/ menu.offset < menu.cursor /\ menu.cursor <= menu.offset + Lines - 1
          ELSE menu.offset <= menu.cursor /\ menu.cursor < menu.offset + Lines

(* SOLO holds the mounted medium and nothing else; and with a medium mounted *)
(* neither LIST nor a Fliplist on the screen is empty (Menu::OpenMedia(),    *)
(* Toggle(), Clear(), DisableList(), Back()).  With none mounted they may    *)
(* be: an LST without media that the computer opens empties the Fliplist on  *)
(* the screen, and Insert selects LIST there.                                *)
ListAsMode ==
  /\ ~menu.listMode => menu.flip \in {<<>>, <<menu.mounted>>}
  /\ menu.flip = <<>> /\ (menu.listMode \/ menu.view = "Fliplist") => menu.mounted = NoPath

(* Once the computer has left a medium, no history of the panel mounts it    *)
(* again: only a choice does (Menu::ShowHostBrowser()).                      *)
NoRemount == hostLeft => menu.mounted = NoPath /\ kernel.caddy = NoDisk

=============================================================================
