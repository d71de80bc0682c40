------------------------------ MODULE DiskMedia -------------------------------
(***************************************************************************)
(* The mounted medium as the kernel of the OLED build keeps it             *)
(* (OledKernel* in src/src/main.cpp): the SD card, the disk caddy with its *)
(* one emulated disk, the drive the disk is in, the image the browse mode  *)
(* serves (cbm_diskimage.cpp), and the path the protocol believes mounted. *)
(*                                                                         *)
(* A call can fail in several ways, and callers go on after a failure, so  *)
(* a call is the set of its results: a flag and the kernel it leaves.      *)
(* What a file holds is the number of the last write it has taken.         *)
(***************************************************************************)
EXTENDS Naturals

CONSTANTS
  Paths,      (* the names a file is asked for by                            *)
  Files,
  FileOf,     (* FAT ignores case: a file answers to several names           *)
  Kind,       (* the format of a file                                        *)
  Locked,     (* files with the read-only attribute                          *)
  MaxWrites   (* bound: writes of the computer to each image                 *)

Emulated  == {"D64", "G64"}
Container == {"D81"}

ASSUME MediaAssumption ==
  /\ FileOf \in [Paths -> Files]
  /\ Kind \in [Files -> Emulated \cup Container \cup {"PRG"}]
  /\ Locked \subseteq Files
  /\ MaxWrites \in Nat

NoPath == "no path"
ASSUME NoPathAssumption == NoPath \notin Paths

Contents == 0 .. MaxWrites
Cut      == MaxWrites + 1     (* the file is shorter than an image           *)
Torn     == MaxWrites + 2     (* what was read of it before the card failed  *)
Ids      == 1 .. 4            (* disk images in memory; 0 is no image        *)

NoDisk  == [id |-> 0, path |-> NoPath, content |-> 0, dirty |-> FALSE, odd |-> FALSE,
            readOnly |-> FALSE, stale |-> FALSE]
NoMount == [path |-> NoPath, image |-> 0, open |-> FALSE]

Disks  == [id : Ids \cup {0}, path : Paths \cup {NoPath}, content : Contents \cup {Torn},
           dirty : BOOLEAN, odd : BOOLEAN, readOnly : BOOLEAN,
           stale : BOOLEAN]           (* history: the card's file has more   *)
Mounts == [path : Paths \cup {NoPath}, image : Ids \cup {0}, open : BOOLEAN]
Kernel ==
  [card : [Files -> Contents \cup {Cut, Torn}],
   caddy : Disks,                    (* diskCaddy's current disk             *)
   drive : Ids \cup {0},             (* pi1551.drive's disk image            *)
   cbm : Mounts,                     (* s_mount: the sector reader's image   *)
                                     (* or the card's file, and filOpen      *)
   mountedPath : Paths \cup {NoPath},(* Commands_Base::mountedImagePath      *)
   emulating : {"IEC", "1551"},
   wprot : BOOLEAN,                  (* g_oledWriteProtect                   *)
   cbmProtected : BOOLEAN,           (* cbm_image_set_write_protected()      *)
   unwritten : BOOLEAN,              (* a channel holds unwritten bytes      *)
   overwritten : SUBSET Files]       (* history: saved from a stale copy     *)

VARIABLES
  kernel,
  newest      (* history: the last write the computer made to each image     *)

mediaVars == <<kernel, newest>>

Ok(k)     == [ok |-> TRUE, k |-> k]
Failed(k) == [ok |-> FALSE, k |-> k]

(* Go on with Op where the call before it succeeded.                         *)
Then(results, Op(_)) == UNION {IF r.ok THEN Op(r.k) ELSE {r} : r \in results}

BootKernel(card, overwritten) ==
  [card |-> card, caddy |-> NoDisk, drive |-> 0, cbm |-> NoMount, mountedPath |-> NoPath,
   emulating |-> "IEC", wprot |-> FALSE, cbmProtected |-> FALSE, unwritten |-> FALSE,
   overwritten |-> overwritten]

InitMedia ==
  /\ newest = [f \in Files |-> 0]
  /\ kernel = BootKernel([f \in Files |-> 0], {})

-----------------------------------------------------------------------------
(* Saving.  DiskImage::Flush() opens the file with FA_CREATE_ALWAYS, so a    *)
(* save that fails after that has destroyed the copy on the card.            *)

(* WriteD64() saves the tracks that were read, WriteG64() all of them.       *)
Saved(disk) ==
  IF disk.content = Torn /\ Kind[FileOf[disk.path]] = "D64" THEN Cut ELSE disk.content

Flush(k) ==
  IF ~k.caddy.dirty THEN {Ok(k)}
  ELSE LET f == FileOf[k.caddy.path] IN
       {Failed(k)}
         \cup IF f \in Locked \/ k.caddy.odd THEN {}
              ELSE {Failed([k EXCEPT !.card[f] = Cut]),
                    Ok([k EXCEPT !.card[f] = Saved(k.caddy), !.caddy.dirty = FALSE,
                                 !.overwritten = IF k.caddy.stale THEN @ \cup {f} ELSE @])}

FinishFiles(k) ==
  {Ok([k EXCEPT !.unwritten = FALSE])} \cup IF k.unwritten THEN {Failed(k)} ELSE {}

(* cbm_image_sync(): only a container read from the card has a file open.    *)
CbmSync(k) ==
  {Ok(k)} \cup IF k.cbm.open THEN {Failed(k)} ELSE {}

(* What every change of the medium does first.                               *)
WriteAll(k) == Then(Then(FinishFiles(k), Flush), CbmSync)

(* OledKernelWriteImage() *)
WriteImage(k) ==
  IF k.caddy # NoDisk THEN Flush(k)
  ELSE IF k.cbm # NoMount THEN CbmSync(k) ELSE {Failed(k)}

-----------------------------------------------------------------------------
(* OledKernelUnmount() *)

Released(k) ==
  [k EXCEPT !.drive = 0, !.caddy = NoDisk, !.cbm = NoMount, !.mountedPath = NoPath,
            !.emulating = "IEC"]

(* Mutant: the results of the writes are not looked at. *)
UnmountUnchecked(k) == {Ok(Released(r.k)) : r \in WriteAll(k)}

Unmount(k) == Then(WriteAll(k), LAMBDA j : {Ok(Released(j))})

-----------------------------------------------------------------------------
(* OledKernelMount() *)

(* ValidMedia(): a file cut short has not the size of an image.              *)
Readable(k, p) == k.card[FileOf[p]] # Cut

FreshId(k) == CHOOSE i \in Ids : i \notin {k.caddy.id, k.drive, k.cbm.image}

(* The disk in memory is of the same file and has changes to save.           *)
Unsaved(k, p) == k.caddy.dirty /\ FileOf[k.caddy.path] = FileOf[p]

(* DiskCaddy::Insert(): the image is read from the card into memory.  What   *)
(* f_read() returns is not looked at: a part is a disk as well.              *)
Loaded(k, p) ==
  {[id |-> FreshId(k), path |-> p, content |-> c, dirty |-> FALSE, odd |-> FALSE,
    readOnly |-> k.wprot \/ FileOf[p] \in Locked \/ Kind[FileOf[p]] = "PRG",
    stale |-> c = Torn \/ Unsaved(k, p)] : c \in {k.card[FileOf[p]], Torn}}

(* Mutant: the sector reader of the old disk stays mounted. *)
SwappedKeepingReader(k, p, disk) ==
  [k EXCEPT !.caddy = disk, !.drive = disk.id, !.mountedPath = p]

(* One emulated disk for another, while the drive runs.                      *)
Swapped(k, p, disk) ==
  [k EXCEPT !.caddy = disk, !.drive = disk.id, !.cbm = NoMount, !.mountedPath = p]

Inserted(k, p, disk) ==
  IF Kind[FileOf[p]] = "PRG"
  THEN [k EXCEPT !.caddy = disk, !.mountedPath = p,
                 !.cbm = [path |-> p, image |-> disk.id, open |-> FALSE]]
  ELSE [k EXCEPT !.caddy = disk, !.mountedPath = p, !.drive = disk.id, !.emulating = "1551"]

(* cbm_image_mount(): a path that differs in case only is the mounted one;   *)
(* detect_image_type() knows an image by its size, and no G64.               *)
CbmMount(k, p) ==
  IF k.cbm # NoMount /\ FileOf[k.cbm.path] = FileOf[p] THEN {Ok(k)}
  ELSE {Failed(k)} \cup
       IF Readable(k, p) /\ Kind[FileOf[p]] \in {"D64"} \cup Container
       THEN Then(CbmSync(k),
                 LAMBDA j : {Ok([j EXCEPT !.cbm = [path |-> p, image |-> 0, open |-> TRUE]])})
       ELSE {}

Served(k, p) ==
  [k EXCEPT !.drive = 0, !.caddy = NoDisk, !.mountedPath = p, !.emulating = "IEC",
            !.cbmProtected = k.wprot \/ FileOf[p] \in Locked]

(* The candidate is loaded before the old disk is written.                   *)
Mount(k, p) ==
  {Failed(k)} \cup
  IF ~Readable(k, p) THEN {}
  ELSE IF Kind[FileOf[p]] \in Container
  THEN Then(Then(WriteAll(k), LAMBDA j : CbmMount(j, p)), LAMBDA j : {Ok(Served(j, p))})
  ELSE UNION {IF Kind[FileOf[p]] \in Emulated /\ k.emulating = "1551" /\ k.caddy # NoDisk
              THEN Then(WriteAll(k), LAMBDA j : {Ok(Swapped(j, p, disk))})
              ELSE Then(Unmount(k), LAMBDA j : {Ok(Inserted(j, p, disk))}) : disk \in Loaded(k, p)}

-----------------------------------------------------------------------------
(* Write protection.                                                         *)

WriteProtected(k) ==
  k.wprot \/ (k.caddy # NoDisk /\ k.caddy.readOnly) \/ (k.cbm # NoMount /\ k.cbmProtected)

LockedPath(p) == p # NoPath /\ FileOf[p] \in Locked

(* Mutant: switching the protection off forgets the file's attribute. *)
WriteProtectForced(k, value) ==
  [k EXCEPT !.wprot = value,
            !.caddy.readOnly = k.caddy # NoDisk /\ value,
            !.cbmProtected = value \/ LockedPath(k.mountedPath)]

(* OledKernelWriteProtect() *)
WriteProtect(k, value) ==
  [k EXCEPT !.wprot = value,
            !.caddy.readOnly = k.caddy # NoDisk /\ (value \/ LockedPath(k.caddy.path)),
            !.cbmProtected = value \/ LockedPath(k.mountedPath)]

-----------------------------------------------------------------------------
(* What the protocol does on its own: CD to an image, and tcbm2sd requests.  *)

(* MountDiskImageFromCd(): a container is mounted at once; an emulated disk  *)
(* is only announced, for the menu to mount.                                 *)
CdMedia(k, p) ==
  IF Kind[FileOf[p]] \in Container THEN CbmMount([k EXCEPT !.mountedPath = p], p)
  ELSE {Ok([k EXCEPT !.cbm = NoMount, !.mountedPath = p])}

EnsureImageMode(k) ==
  IF k.cbm # NoMount THEN {Ok(k)}
  ELSE IF k.mountedPath = NoPath THEN {Failed(k)} ELSE CbmMount(k, k.mountedPath)

(* Pi1551MountDecodedG64ForBrowserHandoff() *)
DecodedG64(k) ==
  IF k.mountedPath # NoPath /\ Kind[FileOf[k.mountedPath]] = "G64" /\ k.drive # 0
     /\ ~(k.cbm # NoMount /\ FileOf[k.cbm.path] = FileOf[k.mountedPath])
  THEN [k EXCEPT !.cbm = [path |-> k.mountedPath, image |-> k.drive, open |-> FALSE]] ELSE k

(* A U0 command, trapped by the emulated ROM or given to the browse mode:    *)
(* what it leaves if it only reads, or is refused.                           *)
FastMounted == EnsureImageMode(IF kernel.emulating = "1551" THEN DecodedG64(kernel) ELSE kernel)

FastRequest ==
  /\ \E r \in FastMounted : kernel' = r.k
  /\ UNCHANGED newest

(* The writes after MaxWrites are not told apart.                            *)
NextWrite(n) == IF n < MaxWrites THEN n + 1 ELSE n

(* The sectors are changed in the card's file, past a copy in memory.        *)
BlocksWritten(k) ==
  LET f == FileOf[k.cbm.path] IN
  [k EXCEPT !.card[f] = IF @ \in Contents THEN NextWrite(newest[f]) ELSE @,
            !.caddy.stale = @ \/ (k.caddy # NoDisk /\ FileOf[k.caddy.path] = f)]

(* A U0 block write: the file is opened again to be written, and again when  *)
(* it has been (cbm_image_block_io_begin(), cbm_image_block_io_end()).       *)
FastWrite ==
  \E r \in FastMounted :
    LET f == FileOf[r.k.cbm.path] IN
    /\ r.k.cbm.open /\ ~r.k.cbmProtected
    /\ \/ kernel' = [r.k EXCEPT !.cbm.open = FALSE] /\ UNCHANGED newest
       \/ /\ f \notin Locked
          /\ \/ kernel' = BlocksWritten(r.k)
             \/ kernel' = [BlocksWritten(r.k) EXCEPT !.cbm = NoMount]
          /\ newest' = [newest EXCEPT ![f] = NextWrite(@)]

(* RestoreAfterEmulationFastHandoff() *)
FastTransferEnds ==
  /\ kernel.emulating = "1551"
  /\ kernel' = IF kernel.mountedPath # NoPath /\ Kind[FileOf[kernel.mountedPath]] \in Emulated
               THEN [kernel EXCEPT !.cbm = NoMount] ELSE kernel
  /\ UNCHANGED newest

(* A SAVE in the browse mode leaves bytes in the channel's buffer.           *)
HostSave ==
  /\ kernel.emulating = "IEC" /\ kernel.cbm = NoMount
  /\ kernel' = [kernel EXCEPT !.unwritten = TRUE]
  /\ UNCHANGED newest

-----------------------------------------------------------------------------
(* The emulated drive changes bits of its disk; a track of a D64 written at  *)
(* another density than the format's can never be saved again.               *)

Written(content, n) == IF content = Torn THEN Torn ELSE NextWrite(n)

(* Mutant: the disk does not notice that it was changed. *)
DriveWriteClean ==
  LET f == FileOf[kernel.caddy.path] IN
  /\ kernel.emulating = "1551" /\ kernel.drive # 0 /\ kernel.drive = kernel.caddy.id
  /\ ~kernel.caddy.readOnly
  /\ newest' = [newest EXCEPT ![f] = NextWrite(@)]
  /\ \E odd \in IF Kind[f] = "D64" THEN {kernel.caddy.odd, TRUE} ELSE {FALSE} :
       kernel' = [kernel EXCEPT !.caddy.content = Written(@, newest[f]), !.caddy.odd = odd]

DriveWrite ==
  LET f == FileOf[kernel.caddy.path] IN
  /\ kernel.emulating = "1551" /\ kernel.drive # 0 /\ kernel.drive = kernel.caddy.id
  /\ ~kernel.caddy.readOnly
  /\ newest' = [newest EXCEPT ![f] = NextWrite(@)]
  /\ \E odd \in IF Kind[f] = "D64" THEN {kernel.caddy.odd, TRUE} ELSE {FALSE} :
       kernel' = [kernel EXCEPT !.caddy.content = Written(@, newest[f]), !.caddy.dirty = TRUE,
                                !.caddy.odd = odd]

-----------------------------------------------------------------------------
(* The panel's calls, in any order.  Menu::Activate() does not mount what is *)
(* mounted already.                                                          *)

PanelMount ==
  /\ \E p \in Paths \ {kernel.caddy.path} : \E r \in Mount(kernel, p) : kernel' = r.k
  /\ UNCHANGED newest

PanelUnmount     == (\E r \in Unmount(kernel) : kernel' = r.k) /\ UNCHANGED newest
PanelWriteImage  == (\E r \in WriteImage(kernel) : kernel' = r.k) /\ UNCHANGED newest
PanelWriteProtect == kernel' = WriteProtect(kernel, ~WriteProtected(kernel)) /\ UNCHANGED newest

(* OledKernelPrepareReboot(), which writes everything and syncs the card     *)
(* before it unmounts; then the machine starts again.                        *)
Rebooted(k) == Then(Then(WriteAll(k), LAMBDA j : {Ok(j), Failed(j)}), Unmount)

PanelReboot ==
  /\ \E r \in Rebooted(kernel) : kernel' = IF r.ok THEN BootKernel(r.k.card, r.k.overwritten) ELSE r.k
  /\ UNCHANGED newest

(* CD to an image, in the browse mode.                                       *)
HostCdMedia ==
  /\ kernel.emulating = "IEC"
  /\ \E p \in {q \in Paths : Kind[FileOf[q]] # "PRG"} : \E r \in CdMedia(kernel, p) : kernel' = r.k
  /\ UNCHANGED newest

DriveStep == DriveWrite \/ FastRequest \/ FastWrite \/ FastTransferEnds \/ HostSave

MediaNext ==
  \/ PanelMount \/ PanelUnmount \/ PanelWriteImage \/ PanelWriteProtect \/ PanelReboot
  \/ HostCdMedia \/ DriveStep

MediaSpec == InitMedia /\ [][MediaNext]_mediaVars

-----------------------------------------------------------------------------
(* The types of the variables.                                               *)
MediaTypeOK == kernel \in Kernel /\ newest \in [Files -> Contents]

(* What is on the card or in memory is what the computer wrote last: no      *)
(* exchange of disks, refused save or restart loses a write                  *)
(* (OledKernelUnmount(), OledKernelMount(), DiskImage::Flush()).  There is   *)
(* one way to lose one: a copy in memory that lacks what the card has (read  *)
(* in part, read before the same file was saved under another name, or       *)
(* written past by a U0 command) is changed, and then saved.                 *)
NothingLost ==
  \A f \in Files \ kernel.overwritten :
    IF kernel.caddy # NoDisk /\ FileOf[kernel.caddy.path] = f
    THEN /\ kernel.caddy.stale \/ kernel.caddy.content = newest[f]
         /\ kernel.caddy.dirty \/ kernel.card[f] = newest[f]
    ELSE kernel.card[f] = newest[f]

(* The drive and the sector reader hold the disk in the caddy, never one     *)
(* that DiskCaddy::Empty() has deleted.                                      *)
NoDanglingDisk ==
  /\ kernel.drive # 0 => kernel.drive = kernel.caddy.id
  /\ kernel.cbm.image # 0 => kernel.cbm.image = kernel.caddy.id

(* Only what may be written is changed: a disk whose file has the read-only  *)
(* attribute, and a program shown as a disk, never have changes to save.     *)
ReadOnlyStaysClean ==
  kernel.caddy # NoDisk /\ (FileOf[kernel.caddy.path] \in Locked
                             \/ Kind[FileOf[kernel.caddy.path]] = "PRG")
    => ~kernel.caddy.dirty
=============================================================================
