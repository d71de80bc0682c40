---------------------------- MODULE MediaProofs ------------------------------
(***************************************************************************)
(* What holds of the mounted medium, and of the menu on it, for any card,  *)
(* any formats and any number of writes. A call of the kernel or the menu  *)
(* is a set of results, so the lemmas speak of one result of a call: what  *)
(* is sound stays sound, and what is not lost stays so. The theorems then  *)
(* only put actions together.                                              *)
(***************************************************************************)
EXTENDS OledMenu, TLAPS, SequenceTheorems

(* The parts of the invariant, of a kernel k. *)

(* The caddy is empty or holds a disk with a number and a path.            *)
Inside(k)  == k.caddy = NoDisk \/ (k.caddy.id \in Ids /\ k.caddy.path \in Paths)
Mounted(k) == k.cbm = NoMount \/ k.cbm.path \in Paths

Pointers(k) ==
  /\ k.drive # 0 => k.drive = k.caddy.id
  /\ k.cbm.image # 0 => k.cbm.image = k.caddy.id

(* Only an emulated format is in the drive: a program never is, so it does *)
(* not matter that OledKernelWriteProtect() makes its disk writable.       *)
InDrive(k) == k.drive # 0 => Kind[FileOf[k.caddy.path]] \in Emulated

Guarded(k) == k.caddy # NoDisk /\ FileOf[k.caddy.path] \in Locked => k.caddy.readOnly

Clean(k) ==
  k.caddy # NoDisk /\ (FileOf[k.caddy.path] \in Locked \/ Kind[FileOf[k.caddy.path]] = "PRG")
    => ~k.caddy.dirty

(* A container is read from the card, never through a disk in memory.      *)
FromCard(k) == k.cbm.image # 0 => Kind[FileOf[k.cbm.path]] \notin Container

Sound(k) == /\ k \in Kernel
            /\ Inside(k) /\ Mounted(k) /\ Pointers(k) /\ InDrive(k)
            /\ Guarded(k) /\ Clean(k) /\ FromCard(k)

Lossless(k, n) ==
  \A f \in Files \ k.overwritten :
    IF k.caddy # NoDisk /\ FileOf[k.caddy.path] = f
    THEN /\ k.caddy.stale \/ k.caddy.content = n[f]
         /\ k.caddy.dirty \/ k.card[f] = n[f]
    ELSE k.card[f] = n[f]

(* From k to j files may have been written, and nothing else.              *)
OnlyWritten(k, j) ==
  /\ j.caddy = [k.caddy EXCEPT !.dirty = j.caddy.dirty]
  /\ j.drive = k.drive /\ j.cbm = k.cbm /\ j.mountedPath = k.mountedPath
  /\ j.emulating = k.emulating /\ j.wprot = k.wprot /\ j.cbmProtected = k.cbmProtected
  /\ k.overwritten \subseteq j.overwritten
  /\ ~k.caddy.dirty => j.card = k.card /\ ~j.caddy.dirty
  /\ \A f \in Files :
       j.card[f] = k.card[f] \/ (k.caddy # NoDisk /\ f = FileOf[k.caddy.path])

Histories == [Files -> Contents]

-----------------------------------------------------------------------------
(* Saving.                                                                 *)

(* A disk without its changes is as sound as the disk with them.           *)
LEMMA CleanSound ==
  ASSUME NEW k, Sound(k), NEW j \in Kernel,
         j.caddy # NoDisk, k.caddy # NoDisk, j.caddy.id = k.caddy.id,
         j.caddy.path = k.caddy.path, j.caddy.readOnly = k.caddy.readOnly,
         ~j.caddy.dirty, j.drive = k.drive, j.cbm = k.cbm
  PROVE  Sound(j)
BY DEF Sound, Inside, Mounted, Pointers, InDrive, Guarded, Clean, FromCard

LEMMA FlushStep ==
  ASSUME NEW k, Sound(k), NEW r \in Flush(k)
  PROVE  /\ Sound(r.k) /\ OnlyWritten(k, r.k)
         /\ r.ok => ~r.k.caddy.dirty
         /\ \A n \in Histories : Lossless(k, n) => Lossless(r.k, n)
<1> DEFINE f == FileOf[k.caddy.path]
           cut  == [k EXCEPT !.card[f] = Cut]
           done == [k EXCEPT !.card[f] = Saved(k.caddy), !.caddy.dirty = FALSE,
                             !.overwritten = IF k.caddy.stale THEN @ \cup {f} ELSE @]
<1>1. CASE r = Ok(k) /\ ~k.caddy.dirty
  BY <1>1 DEF Ok, Sound, OnlyWritten, Kernel, Disks
<1>2. CASE r = Failed(k)
  BY <1>2 DEF Failed, Sound, OnlyWritten, Kernel, Disks
<1>3. k.caddy.dirty => k.caddy # NoDisk /\ k.caddy.path \in Paths /\ f \in Files
  BY MediaAssumption DEF Sound, Inside, NoDisk
<1>4. CASE r = Failed(cut) /\ k.caddy.dirty
  <2>1. /\ r.k = cut /\ cut \in Kernel /\ ~r.ok
        /\ cut.caddy = k.caddy /\ cut.drive = k.drive /\ cut.cbm = k.cbm
        /\ cut.overwritten = k.overwritten
        /\ \A g \in Files \ {f} : cut.card[g] = k.card[g]
    BY <1>3, <1>4 DEF Failed, Sound, Kernel, Cut
  <2>2. Sound(cut)
    BY <2>1 DEF Sound, Inside, Mounted, Pointers, InDrive, Guarded, Clean, FromCard
  <2>3. OnlyWritten(k, cut)
    BY <1>3, <1>4, <2>1 DEF OnlyWritten, Sound, Kernel, Disks
  <2>4. ASSUME NEW n \in Histories, Lossless(k, n) PROVE Lossless(cut, n)
    BY <1>3, <1>4, <2>1, <2>4 DEF Lossless
  <2> QED  BY <2>1, <2>2, <2>3, <2>4
<1>5. CASE r = Ok(done) /\ k.caddy.dirty /\ f \notin Locked
  <2>0. /\ Saved(k.caddy) \in Contents \cup {Cut, Torn}
        /\ k.caddy.content # Torn => Saved(k.caddy) = k.caddy.content
    BY DEF Saved, Sound, Kernel, Disks
  <2>1. /\ r.k = done /\ done \in Kernel
        /\ done.caddy = [k.caddy EXCEPT !.dirty = FALSE] /\ ~done.caddy.dirty
        /\ done.drive = k.drive /\ done.cbm = k.cbm
        /\ done.card[f] = Saved(k.caddy)
        /\ \A g \in Files \ {f} : done.card[g] = k.card[g]
        /\ done.overwritten = IF k.caddy.stale THEN k.overwritten \cup {f} ELSE k.overwritten
    BY <1>3, <1>5, <2>0 DEF Ok, Sound, Kernel, Disks
  <2>2. /\ done.mountedPath = k.mountedPath /\ done.emulating = k.emulating
        /\ done.wprot = k.wprot /\ done.cbmProtected = k.cbmProtected
    BY DEF Sound, Kernel
  <2> HIDE DEF done
  <2>3. /\ k.caddy # NoDisk /\ done.caddy # NoDisk
        /\ done.caddy.id = k.caddy.id /\ done.caddy.path = k.caddy.path
        /\ done.caddy.readOnly = k.caddy.readOnly /\ done.caddy.content = k.caddy.content
        /\ done.caddy.stale = k.caddy.stale
    BY <1>3, <2>1, <1>5 DEF Sound, Kernel, Disks, NoDisk, Inside, Ids
  <2>4. Sound(done)
    BY <2>1, <2>3, CleanSound
  <2>5. OnlyWritten(k, done)
    <3>1. done.caddy = [k.caddy EXCEPT !.dirty = done.caddy.dirty]
      BY <2>1 DEF Sound, Kernel, Disks
    <3> QED  BY <1>3, <1>5, <2>1, <2>2, <2>3, <3>1 DEF OnlyWritten
  <2>6. ASSUME NEW n \in Histories, Lossless(k, n) PROVE Lossless(done, n)
    <3>1. \A c \in Contents : c # Torn
      BY MediaAssumption DEF Contents, Torn
    <3>2. n[f] \in Contents
      BY <1>3, <1>5 DEF Histories
    <3>3. f \notin done.overwritten => done.card[f] = n[f]
      BY <1>3, <1>5, <2>0, <2>1, <2>6, <3>1, <3>2 DEF Lossless
    <3> QED  BY <1>3, <1>5, <2>1, <2>3, <2>6, <3>3 DEF Lossless
  <2> QED  BY <2>1, <2>4, <2>5, <2>6
<1> QED  BY <1>1, <1>2, <1>4, <1>5 DEF Flush

LEMMA FinishFilesStep ==
  ASSUME NEW k, Sound(k), NEW r \in FinishFiles(k)
  PROVE  /\ Sound(r.k) /\ OnlyWritten(k, r.k)
         /\ \A n \in Histories : Lossless(k, n) => Lossless(r.k, n)
<1> DEFINE j == [k EXCEPT !.unwritten = FALSE]
<1>1. CASE r.k = k
  BY <1>1 DEF Sound, OnlyWritten, Kernel, Disks
<1>2. CASE r.k = j
  <2>1. /\ j \in Kernel /\ j.caddy = k.caddy /\ j.card = k.card /\ j.drive = k.drive
        /\ j.cbm = k.cbm /\ j.overwritten = k.overwritten
    BY DEF Sound, Kernel
  <2>2. OnlyWritten(k, j)
    BY DEF OnlyWritten, Sound, Kernel, Disks
  <2> HIDE DEF j
  <2>3. Sound(j) /\ \A n \in Histories : Lossless(k, n) => Lossless(j, n)
    BY <2>1 DEF Sound, Inside, Mounted, Pointers, InDrive, Guarded, Clean, FromCard, Lossless
  <2> QED  BY <1>2, <2>2, <2>3
<1>3. r = Ok(j) \/ r = Ok(k) \/ r = Failed(k)
  BY DEF FinishFiles
<1>4. r.k = j \/ r.k = k
  <2> HIDE DEF j
  <2> QED  BY <1>3 DEF Ok, Failed
<1> QED  BY <1>1, <1>2, <1>4

LEMMA WrittenTwice ==
  ASSUME NEW k, Sound(k), NEW j, Sound(j), NEW i, Sound(i),
         OnlyWritten(k, j), OnlyWritten(j, i)
  PROVE  OnlyWritten(k, i)
<1>1. /\ k.caddy \in Disks /\ j.caddy \in Disks /\ i.caddy \in Disks
      /\ j.caddy.path = k.caddy.path /\ j.caddy.id = k.caddy.id
  BY DEF OnlyWritten, Sound, Kernel, Disks
<1>2. j.caddy # NoDisk => k.caddy # NoDisk
  BY <1>1 DEF Sound, Inside, NoDisk, Ids
<1>3. i.caddy = [k.caddy EXCEPT !.dirty = i.caddy.dirty]
  BY <1>1 DEF OnlyWritten, Disks
<1> QED  BY <1>1, <1>2, <1>3 DEF OnlyWritten

(* After a change of the medium has written everything nothing is left to  *)
(* write, and otherwise nothing but files has changed.                     *)
LEMMA WriteAllStep ==
  ASSUME NEW k, Sound(k), NEW r \in WriteAll(k)
  PROVE  /\ Sound(r.k) /\ OnlyWritten(k, r.k)
         /\ r.ok => ~r.k.caddy.dirty
         /\ \A n \in Histories : Lossless(k, n) => Lossless(r.k, n)
<1> DEFINE flushed == Then(FinishFiles(k), Flush)
<1>1. ASSUME NEW q \in flushed
      PROVE  /\ Sound(q.k) /\ OnlyWritten(k, q.k)
             /\ q.ok => ~q.k.caddy.dirty
             /\ \A n \in Histories : Lossless(k, n) => Lossless(q.k, n)
  <2>1. PICK p \in FinishFiles(k) : q \in IF p.ok THEN Flush(p.k) ELSE {p}
    BY <1>1 DEF Then
  <2>2. /\ Sound(p.k) /\ OnlyWritten(k, p.k)
        /\ \A n \in Histories : Lossless(k, n) => Lossless(p.k, n)
    BY FinishFilesStep
  <2>3. CASE p.ok
    <3>1. /\ Sound(q.k) /\ OnlyWritten(p.k, q.k) /\ (q.ok => ~q.k.caddy.dirty)
          /\ \A n \in Histories : Lossless(p.k, n) => Lossless(q.k, n)
      BY <2>1, <2>2, <2>3, FlushStep
    <3> QED  BY <2>2, <3>1, WrittenTwice
  <2>4. CASE ~p.ok
    BY <2>1, <2>2, <2>4
  <2> QED  BY <2>3, <2>4
<1>2. PICK q \in flushed : r \in IF q.ok THEN CbmSync(q.k) ELSE {q}
  BY DEF WriteAll, Then
<1>3. r.k = q.k /\ (r.ok => q.ok)
  BY <1>2 DEF CbmSync, Ok, Failed
<1> QED  BY <1>1, <1>3

-----------------------------------------------------------------------------
(* Changes of the medium.                                                  *)

LEMMA NothingMounted == NoDisk \in Disks /\ NoMount \in Mounts
BY MediaAssumption DEF NoDisk, NoMount, Disks, Mounts, Contents

LEMMA ReleasedStep ==
  ASSUME NEW k, Sound(k)
  PROVE  /\ Sound(Released(k))
         /\ \A n \in Histories : Lossless(k, n) /\ ~k.caddy.dirty => Lossless(Released(k), n)
<1> DEFINE j == Released(k)
<1>1. /\ j \in Kernel /\ j.caddy = NoDisk /\ j.cbm = NoMount /\ j.drive = 0 /\ j.card = k.card
      /\ j.overwritten = k.overwritten
  BY NothingMounted DEF Released, Sound, Kernel
<1> HIDE DEF j
<1>2. Sound(j)
  BY <1>1 DEF Sound, Inside, Mounted, Pointers, InDrive, Guarded, Clean, FromCard, NoMount
<1>3. ASSUME NEW n \in Histories, Lossless(k, n), ~k.caddy.dirty PROVE Lossless(j, n)
  BY <1>1, <1>3 DEF Lossless
<1> QED  BY <1>2, <1>3 DEF j

LEMMA UnmountStep ==
  ASSUME NEW k, Sound(k), NEW r \in Unmount(k)
  PROVE  /\ Sound(r.k)
         /\ r.ok => r.k.caddy = NoDisk /\ r.k.drive = 0 /\ r.k.cbm = NoMount
         /\ r.ok => \A f \in Files : r.k.card[f] = k.card[f]
                                     \/ (k.caddy # NoDisk /\ f = FileOf[k.caddy.path])
         /\ r.ok /\ ~k.caddy.dirty => r.k.card = k.card
         /\ r.ok => k.overwritten \subseteq r.k.overwritten
         /\ \A n \in Histories : Lossless(k, n) => Lossless(r.k, n)
<1>1. PICK q \in WriteAll(k) : r \in IF q.ok THEN {Ok(Released(q.k))} ELSE {q}
  BY DEF Unmount, Then
<1>2. /\ Sound(q.k) /\ OnlyWritten(k, q.k) /\ (q.ok => ~q.k.caddy.dirty)
      /\ \A n \in Histories : Lossless(k, n) => Lossless(q.k, n)
  BY WriteAllStep
<1>3. CASE q.ok /\ r.k = Released(q.k)
  <2>1. /\ Released(q.k).caddy = NoDisk /\ Released(q.k).drive = 0
        /\ Released(q.k).cbm = NoMount /\ Released(q.k).card = q.k.card
        /\ Released(q.k).overwritten = q.k.overwritten
    BY <1>2 DEF Released, Sound, Kernel
  <2> QED  BY <1>2, <1>3, <2>1, ReleasedStep DEF OnlyWritten
<1>4. CASE ~q.ok /\ r = q
  BY <1>2, <1>4
<1> QED  BY <1>1, <1>3, <1>4 DEF Ok

(* Neither the disk nor the card changes, and what is served from memory   *)
(* is what it was or nothing.                                              *)
LEMMA SameDisk ==
  ASSUME NEW k, Sound(k), NEW j \in Kernel,
         j.card = k.card, j.caddy = k.caddy, j.drive = k.drive, j.overwritten = k.overwritten,
         j.cbm = k.cbm \/ j.cbm = NoMount \/ (j.cbm.image = 0 /\ j.cbm.path \in Paths)
  PROVE  /\ Sound(j)
         /\ \A n \in Histories : Lossless(k, n) => Lossless(j, n)
<1>1. Sound(j)
  BY DEF Sound, Inside, Mounted, Pointers, InDrive, Guarded, Clean, FromCard, NoMount
<1>2. \A n \in Histories : Lossless(k, n) => Lossless(j, n)
  BY DEF Lossless
<1> QED  BY <1>1, <1>2

LEMMA CbmMountStep ==
  ASSUME NEW k, Sound(k), NEW p \in Paths, NEW r \in CbmMount(k, p)
  PROVE  /\ Sound(r.k) /\ r.k.caddy = k.caddy /\ r.k.card = k.card
         /\ r.k.overwritten = k.overwritten
         /\ r.ok /\ Kind[FileOf[p]] \in Container => r.k.cbm.image = 0
         /\ \A n \in Histories : Lossless(k, n) => Lossless(r.k, n)
<1> DEFINE j == [k EXCEPT !.cbm = [path |-> p, image |-> 0, open |-> TRUE]]
<1>1. CASE r = Ok(k) /\ k.cbm # NoMount /\ FileOf[k.cbm.path] = FileOf[p]
  BY <1>1 DEF Ok, Sound, FromCard
<1>2. CASE r = Failed(k)
  BY <1>2 DEF Failed
<1>3. CASE r = Ok(j)
  <2>1. /\ j \in Kernel /\ j.caddy = k.caddy /\ j.card = k.card /\ j.drive = k.drive
        /\ j.cbm.image = 0 /\ j.cbm.path = p /\ j.overwritten = k.overwritten
    BY DEF Sound, Kernel, Mounts
  <2>2. r.k = j
    BY <1>3 DEF Ok
  <2> HIDE DEF j
  <2> QED  BY <2>1, <2>2, SameDisk
<1>4. ASSUME NEW q \in CbmSync(k) PROVE q = Ok(k) \/ q = Failed(k)
  BY DEF CbmSync
<1>5. ASSUME NEW q \in CbmSync(k), r \in IF q.ok THEN {Ok([q.k EXCEPT !.cbm = [path |-> p, image |-> 0, open |-> TRUE]])} ELSE {q}
      PROVE r = Ok(j) \/ r = Failed(k)
  BY <1>4, <1>5 DEF Ok, Failed
<1> QED  BY <1>1, <1>2, <1>3, <1>5 DEF CbmMount, Then

-----------------------------------------------------------------------------
(* OledKernelMount()                                                       *)

(* A disk that has just been loaded for path p.                            *)
Fresh(disk, p) ==
  /\ disk \in Disks /\ disk.id \in Ids /\ disk.path = p /\ ~disk.dirty
  /\ FileOf[p] \in Locked => disk.readOnly

(* The disk is as new as the file that it was loaded from, or is known not *)
(* to be.                                                                  *)
Current(k, disk, n) ==
  disk.stale \/ FileOf[disk.path] \in k.overwritten \/ disk.content = n[FileOf[disk.path]]

LEMMA LoadedStep ==
  ASSUME NEW k, Sound(k), NEW p \in Paths, Readable(k, p), NEW disk \in Loaded(k, p)
  PROVE  /\ Fresh(disk, p)
         /\ ~disk.stale => disk.content = k.card[FileOf[p]] /\ ~Unsaved(k, p)
<1>1. FreshId(k) \in Ids
  <2>1. \E i \in Ids : i \notin {k.caddy.id, k.drive, k.cbm.image}
    <3>1. \A a, b, c \in Ids \cup {0} : \E i \in Ids : i \notin {a, b, c}
      BY SMT DEF Ids
    <3> QED  BY <3>1 DEF Sound, Kernel, Disks, Mounts
  <2> QED  BY <2>1 DEF FreshId
<1>2. /\ FileOf[p] \in Files /\ k.card[FileOf[p]] \in Contents \cup {Torn}
      /\ k.wprot \in BOOLEAN /\ k.caddy.dirty \in BOOLEAN
  BY MediaAssumption DEF Readable, Sound, Kernel, Disks
<1> DEFINE guard == k.wprot \/ FileOf[p] \in Locked \/ Kind[FileOf[p]] = "PRG"
           old(c) == c = Torn \/ Unsaved(k, p)
<1>3. guard \in BOOLEAN /\ \A c : old(c) \in BOOLEAN
  BY <1>2 DEF Unsaved
<1>4. PICK c \in {k.card[FileOf[p]], Torn} :
        disk = [id |-> FreshId(k), path |-> p, content |-> c, dirty |-> FALSE, odd |-> FALSE,
                readOnly |-> guard, stale |-> old(c)]
  BY DEF Loaded
<1>5. disk.path = p /\ ~disk.dirty /\ disk.content = c /\ disk.stale = old(c)
      /\ disk.readOnly = guard /\ disk.id = FreshId(k)
  BY <1>4
<1>6. ~disk.stale => disk.content = k.card[FileOf[p]] /\ ~Unsaved(k, p)
  BY <1>4, <1>5
<1>7. FileOf[p] \in Locked => disk.readOnly
  BY <1>5
<1> HIDE DEF guard, old
<1>8. disk \in Disks
  BY <1>1, <1>2, <1>3, <1>4 DEF Disks
<1> QED  BY <1>1, <1>5, <1>6, <1>7, <1>8 DEF Fresh

LEMMA InsertedStep ==
  ASSUME NEW k, Sound(k), k.caddy = NoDisk, k.drive = 0, k.cbm = NoMount,
         NEW p \in Paths, NEW disk, Fresh(disk, p), Kind[FileOf[p]] \notin Container
  PROVE  /\ Sound(Inserted(k, p, disk))
         /\ \A n \in Histories : Lossless(k, n) /\ Current(k, disk, n)
                                   => Lossless(Inserted(k, p, disk), n)
<1> DEFINE j == Inserted(k, p, disk)
<1>1. Kind[FileOf[p]] \in Emulated \/ Kind[FileOf[p]] = "PRG"
  BY MediaAssumption
<1>2. /\ j \in Kernel /\ j.caddy = disk /\ j.card = k.card /\ j.overwritten = k.overwritten
      /\ \/ Kind[FileOf[p]] \in Emulated /\ j.drive = disk.id /\ j.cbm = NoMount
         \/ /\ Kind[FileOf[p]] = "PRG" /\ j.drive = 0
            /\ j.cbm = [path |-> p, image |-> disk.id, open |-> FALSE]
  BY <1>1 DEF Inserted, Fresh, Sound, Kernel, Mounts, Emulated
<1> HIDE DEF j
<1>3. disk # NoDisk
  BY DEF Fresh, NoDisk, Ids
<1>4. Sound(j)
  BY <1>2, <1>3 DEF Sound, Inside, Mounted, Pointers, InDrive, Guarded, Clean, FromCard, Fresh,
                    NoMount
<1>5. ASSUME NEW n \in Histories, Lossless(k, n), Current(k, disk, n)
      PROVE  Lossless(j, n)
  BY <1>2, <1>3, <1>5 DEF Lossless, Fresh, Current
<1> QED  BY <1>4, <1>5 DEF j

LEMMA SwappedStep ==
  ASSUME NEW k, Sound(k), ~k.caddy.dirty,
         NEW p \in Paths, NEW disk, Fresh(disk, p), Kind[FileOf[p]] \in Emulated
  PROVE  /\ Sound(Swapped(k, p, disk))
         /\ \A n \in Histories : Lossless(k, n) /\ Current(k, disk, n)
                                   => Lossless(Swapped(k, p, disk), n)
<1> DEFINE j == Swapped(k, p, disk)
<1>1. /\ j \in Kernel /\ j.caddy = disk /\ j.card = k.card /\ j.drive = disk.id
      /\ j.cbm = NoMount /\ j.overwritten = k.overwritten
  BY DEF Swapped, Fresh, Sound, Kernel, Mounts, NoMount
<1> HIDE DEF j
<1>2. disk # NoDisk
  BY DEF Fresh, NoDisk, Ids
<1>3. Sound(j)
  BY <1>1, <1>2 DEF Sound, Inside, Mounted, Pointers, InDrive, Guarded, Clean, FromCard, Fresh,
                    NoMount
<1>4. ASSUME NEW n \in Histories, Lossless(k, n), Current(k, disk, n)
      PROVE  Lossless(j, n)
  BY <1>1, <1>2, <1>4 DEF Lossless, Fresh, Current
<1> QED  BY <1>3, <1>4 DEF j

LEMMA ServedStep ==
  ASSUME NEW k, Sound(k), k.cbm.image = 0, NEW p \in Paths
  PROVE  /\ Sound(Served(k, p))
         /\ \A n \in Histories : Lossless(k, n) /\ ~k.caddy.dirty => Lossless(Served(k, p), n)
<1> DEFINE j == Served(k, p)
<1>1. /\ j \in Kernel /\ j.caddy = NoDisk /\ j.card = k.card /\ j.drive = 0 /\ j.cbm = k.cbm
      /\ j.overwritten = k.overwritten
  <2>1. (k.wprot \/ FileOf[p] \in Locked) \in BOOLEAN
    OBVIOUS
  <2> QED  BY <2>1, NothingMounted DEF Served, Sound, Kernel
<1> HIDE DEF j
<1>2. Sound(j)
  BY <1>1 DEF Sound, Inside, Mounted, Pointers, InDrive, Guarded, Clean, FromCard
<1>3. ASSUME NEW n \in Histories, Lossless(k, n), ~k.caddy.dirty PROVE Lossless(j, n)
  BY <1>1, <1>3 DEF Lossless
<1> QED  BY <1>2, <1>3 DEF j

(* The disk is loaded before the files are written: unless the disk before *)
(* it is of the same file and had changes, what was loaded is current.     *)
LEMMA LoadedCurrent ==
  ASSUME NEW k, Sound(k), NEW p \in Paths, Readable(k, p), NEW disk \in Loaded(k, p),
         NEW n \in Histories, Lossless(k, n), NEW j, k.overwritten \subseteq j.overwritten
  PROVE  Current(j, disk, n)
<1>1. Fresh(disk, p) /\ (~disk.stale => disk.content = k.card[FileOf[p]] /\ ~Unsaved(k, p))
  BY LoadedStep
<1>2. FileOf[p] \in Files
  BY MediaAssumption
<1> QED  BY <1>1, <1>2 DEF Current, Fresh, Lossless, Unsaved

LEMMA MountStep ==
  ASSUME NEW k, Sound(k), NEW p \in Paths, NEW r \in Mount(k, p)
  PROVE  /\ Sound(r.k)
         /\ \A n \in Histories : Lossless(k, n) => Lossless(r.k, n)
<1>1. CASE r = Failed(k)
  BY <1>1 DEF Failed
<1>2. FileOf[p] \in Files
  BY MediaAssumption
<1>3. CASE /\ Readable(k, p) /\ Kind[FileOf[p]] \in Container
           /\ r \in Then(Then(WriteAll(k), LAMBDA j : CbmMount(j, p)),
                         LAMBDA j : {Ok(Served(j, p))})
  <2>1. PICK q \in Then(WriteAll(k), LAMBDA j : CbmMount(j, p)) :
               r \in IF q.ok THEN {Ok(Served(q.k, p))} ELSE {q}
    BY <1>3 DEF Then
  <2>2. PICK w \in WriteAll(k) : q \in IF w.ok THEN CbmMount(w.k, p) ELSE {w}
    BY <2>1 DEF Then
  <2>3. /\ Sound(w.k) /\ (w.ok => ~w.k.caddy.dirty)
        /\ \A n \in Histories : Lossless(k, n) => Lossless(w.k, n)
    BY WriteAllStep
  <2>4. CASE ~w.ok
    BY <2>1, <2>2, <2>3, <2>4
  <2>5. CASE w.ok
    <3>1. /\ Sound(q.k) /\ ~q.k.caddy.dirty /\ (q.ok => q.k.cbm.image = 0)
          /\ \A n \in Histories : Lossless(w.k, n) => Lossless(q.k, n)
      <4>1. q \in CbmMount(w.k, p)
        BY <2>2, <2>5
      <4>2. /\ Sound(q.k) /\ q.k.caddy = w.k.caddy /\ q.k.card = w.k.card
            /\ q.ok /\ Kind[FileOf[p]] \in Container => q.k.cbm.image = 0
            /\ \A n \in Histories : Lossless(w.k, n) => Lossless(q.k, n)
        BY <2>3, <4>1, CbmMountStep
      <4> QED  BY <1>3, <2>3, <2>5, <4>2
    <3>2. CASE q.ok
      <4>1. r.k = Served(q.k, p)
        BY <2>1, <3>2 DEF Ok
      <4> QED  BY <2>3, <3>1, <3>2, <4>1, ServedStep
    <3> QED  BY <2>1, <2>3, <3>1, <3>2
  <2> QED  BY <2>4, <2>5
<1>4. ASSUME Readable(k, p), Kind[FileOf[p]] \in Emulated, NEW disk \in Loaded(k, p),
             r \in Then(WriteAll(k), LAMBDA j : {Ok(Swapped(j, p, disk))})
      PROVE  Sound(r.k) /\ \A n \in Histories : Lossless(k, n) => Lossless(r.k, n)
  <2>1. PICK w \in WriteAll(k) : r \in IF w.ok THEN {Ok(Swapped(w.k, p, disk))} ELSE {w}
    BY <1>4 DEF Then
  <2>2. /\ Sound(w.k) /\ (w.ok => ~w.k.caddy.dirty) /\ OnlyWritten(k, w.k)
        /\ \A n \in Histories : Lossless(k, n) => Lossless(w.k, n)
    BY WriteAllStep
  <2>3. Fresh(disk, p)
    BY <1>4, LoadedStep
  <2>4. CASE w.ok
    <3>1. r.k = Swapped(w.k, p, disk)
      BY <2>1, <2>4 DEF Ok
    <3>2. ASSUME NEW n \in Histories, Lossless(k, n) PROVE Current(w.k, disk, n)
      BY <1>4, <2>2, <3>2, LoadedCurrent DEF OnlyWritten
    <3> QED  BY <1>4, <2>2, <2>3, <2>4, <3>1, <3>2, SwappedStep
  <2> QED  BY <2>1, <2>2, <2>4
<1>5. ASSUME Readable(k, p), Kind[FileOf[p]] \notin Container, NEW disk \in Loaded(k, p),
             r \in Then(Unmount(k), LAMBDA j : {Ok(Inserted(j, p, disk))})
      PROVE  Sound(r.k) /\ \A n \in Histories : Lossless(k, n) => Lossless(r.k, n)
  <2>1. PICK w \in Unmount(k) : r \in IF w.ok THEN {Ok(Inserted(w.k, p, disk))} ELSE {w}
    BY <1>5 DEF Then
  <2>2. /\ Sound(w.k)
        /\ w.ok => w.k.caddy = NoDisk /\ w.k.drive = 0 /\ w.k.cbm = NoMount
        /\ w.ok => k.overwritten \subseteq w.k.overwritten
        /\ \A n \in Histories : Lossless(k, n) => Lossless(w.k, n)
    BY UnmountStep
  <2>3. Fresh(disk, p)
    BY <1>5, LoadedStep
  <2>4. CASE w.ok
    <3>1. r.k = Inserted(w.k, p, disk)
      BY <2>1, <2>4 DEF Ok
    <3>2. ASSUME NEW n \in Histories, Lossless(k, n) PROVE Current(w.k, disk, n)
      BY <1>5, <2>2, <2>4, <3>2, LoadedCurrent
    <3> QED  BY <1>5, <2>2, <2>3, <2>4, <3>1, <3>2, InsertedStep
  <2> QED  BY <2>1, <2>2, <2>4
<1> QED  BY <1>1, <1>3, <1>4, <1>5 DEF Mount

-----------------------------------------------------------------------------
(* Write protection, and what the protocol does on its own.                *)

LEMMA WriteProtectStep ==
  ASSUME NEW k, Sound(k), NEW value \in BOOLEAN
  PROVE  /\ Sound(WriteProtect(k, value))
         /\ \A n \in Histories : Lossless(k, n) => Lossless(WriteProtect(k, value), n)
<1> DEFINE j == WriteProtect(k, value)
           guard == k.caddy # NoDisk /\ (value \/ LockedPath(k.caddy.path))
           served == value \/ LockedPath(k.mountedPath)
<1>1. guard \in BOOLEAN /\ served \in BOOLEAN
  BY DEF LockedPath
<1>2. /\ j \in Kernel /\ j.caddy = [k.caddy EXCEPT !.readOnly = guard]
      /\ j.card = k.card /\ j.drive = k.drive /\ j.cbm = k.cbm
      /\ j.overwritten = k.overwritten
  <2>1. j = [k EXCEPT !.wprot = value, !.caddy.readOnly = guard, !.cbmProtected = served]
    BY DEF WriteProtect
  <2> HIDE DEF guard, served, j
  <2> DEFINE disk == [k.caddy EXCEPT !.readOnly = guard]
  <2>2. disk \in Disks
    BY <1>1 DEF Sound, Kernel, Disks
  <2>3. j = [k EXCEPT !.wprot = value, !.caddy = disk, !.cbmProtected = served]
    BY <2>1 DEF Sound, Kernel
  <2>4. j.card = k.card /\ j.drive = k.drive /\ j.cbm = k.cbm /\ j.overwritten = k.overwritten
    BY <2>1 DEF Sound, Kernel
  <2>5. j \in Kernel /\ j.caddy = disk
    <3> HIDE DEF disk
    <3> QED  BY <1>1, <2>2, <2>3 DEF Sound, Kernel
  <2> QED  BY <2>4, <2>5
<1>3. k.caddy # NoDisk /\ FileOf[k.caddy.path] \in Locked => guard
  <2>1. k.caddy # NoDisk => k.caddy.path # NoPath
    BY NoPathAssumption DEF Sound, Inside
  <2> QED  BY <2>1 DEF LockedPath
<1>4. k.caddy = NoDisk => j.caddy = NoDisk
  <2>1. k.caddy = NoDisk => guard = FALSE
    OBVIOUS
  <2>2. [NoDisk EXCEPT !.readOnly = FALSE] = NoDisk
    <3>1. NoDisk.readOnly = FALSE
      BY DEF NoDisk
    <3> QED  BY <3>1, NothingMounted DEF Disks
  <2> HIDE DEF guard, j
  <2> QED  BY <1>2, <2>1, <2>2, Zenon
<1>5. k.caddy # NoDisk => j.caddy # NoDisk
  BY <1>2 DEF Sound, Inside, Kernel, Disks, NoDisk, Ids
<1>6. /\ j.caddy.id = k.caddy.id /\ j.caddy.path = k.caddy.path
      /\ j.caddy.dirty = k.caddy.dirty /\ j.caddy.readOnly = guard
      /\ j.caddy.content = k.caddy.content /\ j.caddy.stale = k.caddy.stale
  <2> HIDE DEF guard
  <2> QED  BY <1>2 DEF Sound, Kernel, Disks
<1> HIDE DEF j, guard
<1>7. Sound(j)
  BY <1>2, <1>3, <1>4, <1>5, <1>6
     DEF Sound, Inside, Mounted, Pointers, InDrive, Guarded, Clean, FromCard
<1>8. \A n \in Histories : Lossless(k, n) => Lossless(j, n)
  BY <1>2, <1>4, <1>5, <1>6 DEF Lossless
<1> QED  BY <1>7, <1>8 DEF j

LEMMA CdStep ==
  ASSUME NEW k, Sound(k), NEW p \in Paths, NEW r \in CdMedia(k, p)
  PROVE  /\ Sound(r.k)
         /\ \A n \in Histories : Lossless(k, n) => Lossless(r.k, n)
<1> DEFINE named == [k EXCEPT !.mountedPath = p]
           announced == [k EXCEPT !.cbm = NoMount, !.mountedPath = p]
<1>1. CASE r \in CbmMount(named, p)
  <2>1. /\ named \in Kernel /\ named.card = k.card /\ named.caddy = k.caddy
        /\ named.drive = k.drive /\ named.cbm = k.cbm /\ named.overwritten = k.overwritten
    BY DEF Sound, Kernel
  <2> HIDE DEF named
  <2>2. Sound(named) /\ \A n \in Histories : Lossless(k, n) => Lossless(named, n)
    BY <2>1, SameDisk
  <2> QED  BY <1>1, <2>2, CbmMountStep
<1>2. CASE r = Ok(announced)
  <2>1. /\ announced \in Kernel /\ announced.card = k.card /\ announced.caddy = k.caddy
        /\ announced.drive = k.drive /\ announced.cbm = NoMount
        /\ announced.overwritten = k.overwritten
    BY NothingMounted DEF Sound, Kernel
  <2>2. r.k = announced
    BY <1>2 DEF Ok
  <2> HIDE DEF announced
  <2> QED  BY <2>1, <2>2, SameDisk
<1> QED  BY <1>1, <1>2 DEF CdMedia

LEMMA EnsureStep ==
  ASSUME NEW k, Sound(k), NEW r \in EnsureImageMode(k)
  PROVE  /\ Sound(r.k)
         /\ \A n \in Histories : Lossless(k, n) => Lossless(r.k, n)
<1>1. CASE r = Ok(k) \/ r = Failed(k)
  BY <1>1 DEF Ok, Failed
<1>2. CASE k.mountedPath # NoPath /\ r \in CbmMount(k, k.mountedPath)
  <2>1. k.mountedPath \in Paths
    BY <1>2 DEF Sound, Kernel
  <2> QED  BY <1>2, <2>1, CbmMountStep
<1> QED  BY <1>1, <1>2 DEF EnsureImageMode

(* The sector reader is given the disk in the drive: the one in the caddy. *)
LEMMA DecodedStep ==
  ASSUME NEW k, Sound(k)
  PROVE  /\ Sound(DecodedG64(k))
         /\ \A n \in Histories : Lossless(k, n) => Lossless(DecodedG64(k), n)
<1> DEFINE j == [k EXCEPT !.cbm = [path |-> k.mountedPath, image |-> k.drive,
                                   open |-> FALSE]]
<1>1. CASE DecodedG64(k) = k
  BY <1>1
<1>2. CASE /\ DecodedG64(k) = j
           /\ k.mountedPath # NoPath /\ Kind[FileOf[k.mountedPath]] = "G64" /\ k.drive # 0
  <2>1. /\ j \in Kernel /\ j.card = k.card /\ j.caddy = k.caddy /\ j.drive = k.drive
        /\ j.cbm.path = k.mountedPath /\ j.cbm.image = k.drive
        /\ j.overwritten = k.overwritten
        /\ k.mountedPath \in Paths
    BY <1>2 DEF Sound, Kernel, Mounts
  <2> HIDE DEF j
  <2>2. Sound(j)
    BY <1>2, <2>1 DEF Sound, Inside, Mounted, Pointers, InDrive, Guarded, Clean, FromCard,
                      Container
  <2> QED  BY <1>2, <2>1, <2>2 DEF Lossless
<1> QED  BY <1>1, <1>2 DEF DecodedG64

-----------------------------------------------------------------------------
(* The actions.                                                            *)

MediaInvariant == Sound(kernel) /\ newest \in Histories

Cards == [Files -> Contents \cup {Cut, Torn}]

LEMMA BootStep ==
  ASSUME NEW card \in Cards, NEW over \in SUBSET Files
  PROVE  /\ Sound(BootKernel(card, over))
         /\ \A n \in Histories :
              (\A f \in Files \ over : card[f] = n[f]) => Lossless(BootKernel(card, over), n)
<1> DEFINE j == BootKernel(card, over)
<1>1. /\ j \in Kernel /\ j.caddy = NoDisk /\ j.cbm = NoMount /\ j.drive = 0 /\ j.card = card
      /\ j.overwritten = over
  BY NothingMounted DEF BootKernel, Kernel, Cards
<1> HIDE DEF j
<1>2. Sound(j)
  BY <1>1 DEF Sound, Inside, Mounted, Pointers, InDrive, Guarded, Clean, FromCard, NoMount
<1>3. ASSUME NEW n \in Histories, \A f \in Files \ over : card[f] = n[f] PROVE Lossless(j, n)
  BY <1>1, <1>3 DEF Lossless
<1> QED  BY <1>2, <1>3 DEF j

LEMMA DriveWriteStep ==
  MediaInvariant /\ DriveWrite
    => MediaInvariant' /\ (Lossless(kernel, newest) => Lossless(kernel', newest'))
<1> SUFFICES ASSUME MediaInvariant, DriveWrite
             PROVE  MediaInvariant' /\ (Lossless(kernel, newest) => Lossless(kernel', newest'))
  OBVIOUS
<1> DEFINE f == FileOf[kernel.caddy.path]
           w == NextWrite(newest[f])
           c == Written(kernel.caddy.content, newest[f])
<1>1. /\ Sound(kernel) /\ newest \in Histories
      /\ kernel.drive # 0 /\ kernel.drive = kernel.caddy.id /\ ~kernel.caddy.readOnly
      /\ newest' = [newest EXCEPT ![f] = w]
  BY DEF MediaInvariant, DriveWrite, Histories
<1>2. PICK odd \in BOOLEAN :
        kernel' = [kernel EXCEPT !.caddy.content = c, !.caddy.dirty = TRUE, !.caddy.odd = odd]
  <2>1. kernel.caddy.odd \in BOOLEAN
    BY <1>1 DEF Sound, Kernel, Disks
  <2>2. kernel.caddy.content = kernel.caddy.content
    OBVIOUS
  <2> QED  BY <2>1 DEF DriveWrite
<1>3. kernel.caddy # NoDisk /\ kernel.caddy.path \in Paths /\ f \in Files
  BY <1>1, MediaAssumption DEF Sound, Inside, NoDisk
<1>4. w \in Contents
  BY <1>1, <1>3, MediaAssumption DEF NextWrite, Histories, Contents
<1>5. c \in Contents \cup {Torn} /\ (kernel.caddy.content # Torn => c = w)
  BY <1>4 DEF Written
<1>6. \A x \in Contents : x # Torn
  BY MediaAssumption DEF Contents, Torn
<1> HIDE DEF w, c
<1>7. /\ kernel' \in Kernel /\ kernel'.card = kernel.card /\ kernel'.drive = kernel.drive
      /\ kernel'.cbm = kernel.cbm /\ kernel'.overwritten = kernel.overwritten
      /\ kernel'.caddy = [kernel.caddy EXCEPT !.content = c, !.dirty = TRUE, !.odd = odd]
  BY <1>1, <1>2, <1>5 DEF Sound, Kernel, Disks
<1>8. /\ kernel'.caddy.id = kernel.caddy.id /\ kernel'.caddy.path = kernel.caddy.path
      /\ kernel'.caddy.readOnly = kernel.caddy.readOnly
      /\ kernel'.caddy.stale = kernel.caddy.stale
      /\ kernel'.caddy.content = c /\ kernel'.caddy.dirty
  BY <1>1, <1>7 DEF Sound, Kernel, Disks
<1>9. kernel'.caddy # NoDisk
  BY <1>1, <1>8 DEF NoDisk
<1>10. f \notin Locked /\ Kind[f] # "PRG"
  BY <1>1, <1>3 DEF Sound, Guarded, InDrive, Emulated
<1>11. Sound(kernel')
  BY <1>1, <1>3, <1>7, <1>8, <1>9, <1>10
     DEF Sound, Inside, Mounted, Pointers, InDrive, Guarded, Clean, FromCard
<1>12. newest' \in Histories
  BY <1>1, <1>3, <1>4 DEF Histories
<1>13. ASSUME Lossless(kernel, newest) PROVE Lossless(kernel', newest')
  <2>1. newest[f] \in Contents /\ newest'[f] = w
    BY <1>1, <1>3 DEF Histories
  <2>2. \A g \in Files \ {f} : newest'[g] = newest[g]
    BY <1>1 DEF Histories
  <2>3. f \notin kernel.overwritten => kernel.caddy.stale \/ c = w
    BY <1>3, <1>5, <1>6, <1>13, <2>1 DEF Lossless
  <2> QED  BY <1>3, <1>7, <1>8, <1>9, <1>13, <2>1, <2>2, <2>3 DEF Lossless
<1> QED  BY <1>11, <1>12, <1>13 DEF MediaInvariant

(* What a U0 command mounts for the sector reader is sound.                *)
LEMMA FastMountedStep ==
  ASSUME MediaInvariant, NEW r \in FastMounted
  PROVE  Sound(r.k) /\ \A n \in Histories : Lossless(kernel, n) => Lossless(r.k, n)
<1> DEFINE j == IF kernel.emulating = "1551" THEN DecodedG64(kernel) ELSE kernel
<1>1. Sound(kernel)
  BY DEF MediaInvariant
<1>2. Sound(j) /\ \A n \in Histories : Lossless(kernel, n) => Lossless(j, n)
  BY <1>1, DecodedStep
<1>3. r \in EnsureImageMode(j)
  BY DEF FastMounted
<1> HIDE DEF j
<1> QED  BY <1>2, <1>3, EnsureStep

(* The copy in memory of the file that is written is stale from then on.   *)
LEMMA BlocksStep ==
  ASSUME NEW k, Sound(k), k.cbm # NoMount, newest \in Histories
  PROVE  LET f == FileOf[k.cbm.path] IN
         /\ Sound(BlocksWritten(k)) /\ f \in Files
         /\ NextWrite(newest[f]) \in Contents
         /\ Lossless(k, newest)
              => Lossless(BlocksWritten(k), [newest EXCEPT ![f] = NextWrite(@)])
<1> DEFINE f == FileOf[k.cbm.path]
           w == NextWrite(newest[f])
           old == k.caddy.stale \/ (k.caddy # NoDisk /\ FileOf[k.caddy.path] = f)
           x == IF k.card[f] \in Contents THEN w ELSE k.card[f]
           j == BlocksWritten(k)
<1>1. f \in Files
  BY MediaAssumption DEF Sound, Mounted
<1>2. w \in Contents /\ newest[f] \in Contents
  BY <1>1, MediaAssumption DEF NextWrite, Histories, Contents
<1>3. k.caddy \in Disks /\ k.card \in Cards /\ old \in BOOLEAN
  BY DEF Sound, Kernel, Disks, Cards
<1>4. x \in Contents \cup {Cut, Torn}
  BY <1>1, <1>2, <1>3 DEF Cards
<1>5. j = [k EXCEPT !.card[f] = x, !.caddy.stale = old]
  BY DEF BlocksWritten
<1> HIDE DEF j, old, x, w
<1>6. j = [k EXCEPT !.card = [k.card EXCEPT ![f] = x], !.caddy = [k.caddy EXCEPT !.stale = old]]
  BY <1>5 DEF Sound, Kernel
<1>7. [k.caddy EXCEPT !.stale = old] \in Disks /\ [k.card EXCEPT ![f] = x] \in Cards
  BY <1>1, <1>3, <1>4 DEF Disks, Cards
<1>8. /\ j \in Kernel /\ j.caddy = [k.caddy EXCEPT !.stale = old]
      /\ j.card = [k.card EXCEPT ![f] = x]
      /\ j.drive = k.drive /\ j.cbm = k.cbm /\ j.overwritten = k.overwritten
  <2> DEFINE disk == [k.caddy EXCEPT !.stale = old]
             card == [k.card EXCEPT ![f] = x]
  <2>1. j = [k EXCEPT !.card = card, !.caddy = disk] /\ disk \in Disks /\ card \in Cards
    BY <1>6, <1>7
  <2> HIDE DEF disk, card
  <2>2. /\ j \in Kernel /\ j.caddy = disk /\ j.card = card
        /\ j.drive = k.drive /\ j.cbm = k.cbm /\ j.overwritten = k.overwritten
    BY <2>1 DEF Sound, Kernel, Cards
  <2> QED  BY <2>2 DEF disk, card
<1>9. /\ j.caddy.id = k.caddy.id /\ j.caddy.path = k.caddy.path
      /\ j.caddy.readOnly = k.caddy.readOnly /\ j.caddy.dirty = k.caddy.dirty
      /\ j.caddy.content = k.caddy.content /\ j.caddy.stale = old
      /\ j.card[f] = x /\ \A g \in Files \ {f} : j.card[g] = k.card[g]
  BY <1>1, <1>3, <1>8 DEF Disks, Cards
<1>10. k.caddy # NoDisk => j.caddy # NoDisk
  BY <1>9 DEF Sound, Inside, NoDisk, Ids
<1>11. k.caddy = NoDisk => j.caddy = NoDisk
  <2>1. k.caddy = NoDisk => old = FALSE
    BY DEF old, NoDisk
  <2>2. [NoDisk EXCEPT !.stale = FALSE] = NoDisk
    <3>1. NoDisk.stale = FALSE
      BY DEF NoDisk
    <3> QED  BY <3>1, NothingMounted DEF Disks
  <2> QED  BY <1>8, <2>1, <2>2, Zenon
<1>12. Sound(j)
  BY <1>8, <1>9, <1>10, <1>11
     DEF Sound, Inside, Mounted, Pointers, InDrive, Guarded, Clean, FromCard
<1>13. ASSUME Lossless(k, newest) PROVE Lossless(j, [newest EXCEPT ![f] = w])
  <2> DEFINE n == [newest EXCEPT ![f] = w]
  <2>1. n[f] = w /\ \A g \in Files \ {f} : n[g] = newest[g]
    BY <1>1 DEF Histories
  <2>2. k.caddy # NoDisk /\ FileOf[k.caddy.path] = f => old = TRUE
    BY DEF old
  <2>3. k.card[f] = newest[f] => x = w
    BY <1>2 DEF x
  <2>4. k.caddy.stale => old = TRUE
    BY DEF old
  <2> HIDE DEF n, f
  <2>5. ASSUME NEW g \in Files \ j.overwritten
        PROVE  IF j.caddy # NoDisk /\ FileOf[j.caddy.path] = g
               THEN /\ j.caddy.stale \/ j.caddy.content = n[g]
                    /\ j.caddy.dirty \/ j.card[g] = n[g]
               ELSE j.card[g] = n[g]
    <3>1. IF k.caddy # NoDisk /\ FileOf[k.caddy.path] = g
          THEN /\ k.caddy.stale \/ k.caddy.content = newest[g]
               /\ k.caddy.dirty \/ k.card[g] = newest[g]
          ELSE k.card[g] = newest[g]
      BY <1>8, <1>13 DEF Lossless
    <3>2. CASE g = f
      BY <1>9, <1>10, <1>11, <2>1, <2>2, <2>3, <3>1, <3>2
    <3>3. CASE g # f
      BY <1>9, <1>10, <1>11, <2>1, <2>4, <3>1, <3>3
    <3> QED  BY <3>2, <3>3
  <2> QED  BY <2>5 DEF Lossless, n
<1> QED  BY <1>1, <1>2, <1>12, <1>13 DEF j, w

LEMMA FastWriteStep ==
  MediaInvariant /\ FastWrite
    => MediaInvariant' /\ (Lossless(kernel, newest) => Lossless(kernel', newest'))
<1> SUFFICES ASSUME MediaInvariant, FastWrite
             PROVE  MediaInvariant' /\ (Lossless(kernel, newest) => Lossless(kernel', newest'))
  OBVIOUS
<1>1. PICK r \in FastMounted :
        LET f == FileOf[r.k.cbm.path] IN
        /\ r.k.cbm.open /\ ~r.k.cbmProtected
        /\ \/ kernel' = [r.k EXCEPT !.cbm.open = FALSE] /\ UNCHANGED newest
           \/ /\ f \notin Locked
              /\ \/ kernel' = BlocksWritten(r.k)
                 \/ kernel' = [BlocksWritten(r.k) EXCEPT !.cbm = NoMount]
              /\ newest' = [newest EXCEPT ![f] = NextWrite(@)]
  BY DEF FastWrite
<1> DEFINE k == r.k
           f == FileOf[k.cbm.path]
<1>2. /\ Sound(k) /\ (Lossless(kernel, newest) => Lossless(k, newest))
      /\ newest \in Histories
  BY FastMountedStep DEF MediaInvariant
<1>3. k.cbm # NoMount
  BY <1>1 DEF NoMount
<1> HIDE DEF k
<1>4. CASE kernel' = [k EXCEPT !.cbm.open = FALSE] /\ UNCHANGED newest
  <2>1. /\ kernel' \in Kernel /\ kernel'.card = k.card /\ kernel'.caddy = k.caddy
        /\ kernel'.drive = k.drive /\ kernel'.overwritten = k.overwritten
        /\ kernel'.cbm.image = k.cbm.image /\ kernel'.cbm.path = k.cbm.path
    BY <1>2, <1>4 DEF Sound, Kernel, Mounts
  <2>2. Sound(kernel')
    BY <1>2, <1>3, <2>1
       DEF Sound, Inside, Mounted, Pointers, InDrive, Guarded, Clean, FromCard
  <2>3. Lossless(k, newest) => Lossless(kernel', newest')
    BY <1>4, <2>1 DEF Lossless
  <2> QED  BY <1>2, <1>4, <2>2, <2>3 DEF MediaInvariant
<1>5. CASE /\ kernel' = BlocksWritten(k) \/ kernel' = [BlocksWritten(k) EXCEPT !.cbm = NoMount]
           /\ newest' = [newest EXCEPT ![f] = NextWrite(@)]
  <2> DEFINE j == BlocksWritten(k)
  <2>1. /\ Sound(j) /\ f \in Files /\ NextWrite(newest[f]) \in Contents
        /\ Lossless(k, newest) => Lossless(j, newest')
    BY <1>2, <1>3, <1>5, BlocksStep
  <2>2. newest' \in Histories
    BY <1>2, <1>5, <2>1 DEF Histories
  <2> HIDE DEF j
  <2>3. Sound(kernel') /\ (Lossless(j, newest') => Lossless(kernel', newest'))
    <3>1. CASE kernel' = j
      BY <2>1, <3>1
    <3>2. CASE kernel' = [j EXCEPT !.cbm = NoMount]
      <4>1. /\ kernel' \in Kernel /\ kernel'.card = j.card /\ kernel'.caddy = j.caddy
            /\ kernel'.drive = j.drive /\ kernel'.overwritten = j.overwritten
            /\ kernel'.cbm = NoMount
        BY <2>1, <3>2, NothingMounted DEF Sound, Kernel
      <4> QED  BY <2>1, <2>2, <4>1, SameDisk
    <3> QED  BY <1>5, <3>1, <3>2 DEF j
  <2> QED  BY <1>2, <2>1, <2>2, <2>3 DEF MediaInvariant
<1> QED  BY <1>1, <1>4, <1>5 DEF k

(* Every action that writes nothing of the computer's.                     *)
LEMMA CallStep ==
  ASSUME MediaInvariant, MediaNext, ~DriveWrite, ~FastWrite
  PROVE  /\ Sound(kernel') /\ newest' = newest
         /\ Lossless(kernel, newest) => Lossless(kernel', newest)
<1>0. Sound(kernel) /\ newest \in Histories
  BY DEF MediaInvariant
<1>1. CASE PanelMount
  <2>1. PICK p \in Paths \ {kernel.caddy.path} : \E r \in Mount(kernel, p) : kernel' = r.k
    BY <1>1 DEF PanelMount
  <2>2. PICK r \in Mount(kernel, p) : kernel' = r.k
    BY <2>1
  <2> QED  BY <1>0, <1>1, <2>2, MountStep DEF PanelMount
<1>2. CASE PanelUnmount
  <2>1. PICK r \in Unmount(kernel) : kernel' = r.k
    BY <1>2 DEF PanelUnmount
  <2> QED  BY <1>0, <1>2, <2>1, UnmountStep DEF PanelUnmount
<1>3. CASE PanelWriteImage
  <2>1. PICK r \in WriteImage(kernel) : kernel' = r.k
    BY <1>3 DEF PanelWriteImage
  <2>2. r \in Flush(kernel) \/ r \in CbmSync(kernel) \/ r = Failed(kernel)
    BY <2>1 DEF WriteImage
  <2>3. CASE r \in Flush(kernel)
    BY <1>0, <1>3, <2>1, <2>3, FlushStep DEF PanelWriteImage
  <2>4. CASE r \in CbmSync(kernel) \/ r = Failed(kernel)
    <3>1. r.k = kernel
      BY <2>4 DEF CbmSync, Ok, Failed
    <3> QED  BY <1>0, <1>3, <2>1, <3>1 DEF PanelWriteImage
  <2> QED  BY <2>2, <2>3, <2>4
<1>4. CASE PanelWriteProtect
  <2>1. (~WriteProtected(kernel)) \in BOOLEAN
    OBVIOUS
  <2> QED  BY <1>0, <1>4, <2>1, WriteProtectStep DEF PanelWriteProtect
<1>5. CASE PanelReboot
  <2>1. PICK r \in Rebooted(kernel) :
               kernel' = IF r.ok THEN BootKernel(r.k.card, r.k.overwritten) ELSE r.k
    BY <1>5 DEF PanelReboot
  <2>2. PICK s \in Then(WriteAll(kernel), LAMBDA j : {Ok(j), Failed(j)}) :
               r \in IF s.ok THEN Unmount(s.k) ELSE {s}
    BY <2>1 DEF Rebooted, Then
  <2>3. PICK w \in WriteAll(kernel) : s \in IF w.ok THEN {Ok(w.k), Failed(w.k)} ELSE {w}
    BY <2>2 DEF Then
  <2>4. s.k = w.k
    <3>1. s = Ok(w.k) \/ s = Failed(w.k) \/ s = w
      BY <2>3
    <3>2. Ok(w.k).k = w.k /\ Failed(w.k).k = w.k
      BY DEF Ok, Failed
    <3> QED  BY <3>1, <3>2
  <2>5. Sound(s.k) /\ (Lossless(kernel, newest) => Lossless(s.k, newest))
    BY <1>0, <2>4, WriteAllStep
  <2>6. CASE s.ok
    <3>1. r \in Unmount(s.k)
      BY <2>2, <2>6
    <3>2. /\ Sound(r.k) /\ (r.ok => r.k.caddy = NoDisk)
          /\ Lossless(kernel, newest) => Lossless(r.k, newest)
      BY <1>0, <2>5, <3>1, UnmountStep
    <3>3. CASE r.ok
      <4>1. r.k.card \in Cards /\ r.k.overwritten \in SUBSET Files
        BY <3>2 DEF Sound, Kernel, Cards
      <4>2. Lossless(r.k, newest) => \A f \in Files \ r.k.overwritten : r.k.card[f] = newest[f]
        BY <3>2, <3>3 DEF Lossless
      <4> DEFINE j == BootKernel(r.k.card, r.k.overwritten)
      <4>3. kernel' = j /\ newest' = newest
        BY <1>5, <2>1, <3>3 DEF PanelReboot
      <4>4. Sound(j) /\ (Lossless(r.k, newest) => Lossless(j, newest))
        BY <1>0, <4>1, <4>2, BootStep
      <4> HIDE DEF j
      <4> QED  BY <3>2, <4>3, <4>4
    <3> QED  BY <1>5, <2>1, <3>2, <3>3 DEF PanelReboot
  <2>7. CASE ~s.ok
    <3>1. r = s
      BY <2>2, <2>7
    <3> QED  BY <1>5, <2>1, <2>5, <2>7, <3>1 DEF PanelReboot
  <2> QED  BY <2>6, <2>7
<1>6. CASE HostCdMedia
  <2>1. PICK p \in Paths : \E r \in CdMedia(kernel, p) : kernel' = r.k
    BY <1>6 DEF HostCdMedia
  <2>2. PICK r \in CdMedia(kernel, p) : kernel' = r.k
    BY <2>1
  <2> QED  BY <1>0, <1>6, <2>2, CdStep DEF HostCdMedia
<1>7. CASE FastRequest
  <2>1. PICK r \in FastMounted : kernel' = r.k
    BY <1>7 DEF FastRequest
  <2> QED  BY <1>0, <1>7, <2>1, FastMountedStep DEF FastRequest
<1>8. CASE FastTransferEnds
  <2>1. /\ kernel' \in Kernel /\ kernel'.card = kernel.card /\ kernel'.caddy = kernel.caddy
        /\ kernel'.drive = kernel.drive /\ kernel'.overwritten = kernel.overwritten
        /\ kernel'.cbm = kernel.cbm \/ kernel'.cbm = NoMount
    BY <1>0, <1>8, NothingMounted DEF FastTransferEnds, Sound, Kernel
  <2> QED  BY <1>0, <1>8, <2>1, SameDisk DEF FastTransferEnds
<1>9. CASE HostSave
  <2>1. /\ kernel' \in Kernel /\ kernel'.card = kernel.card /\ kernel'.caddy = kernel.caddy
        /\ kernel'.drive = kernel.drive /\ kernel'.cbm = kernel.cbm
        /\ kernel'.overwritten = kernel.overwritten
    BY <1>0, <1>9 DEF HostSave, Sound, Kernel
  <2> QED  BY <1>0, <1>9, <2>1, SameDisk DEF HostSave
<1> QED  BY <1>1, <1>2, <1>3, <1>4, <1>5, <1>6, <1>7, <1>8, <1>9 DEF MediaNext, DriveStep

-----------------------------------------------------------------------------
(* The theorems.                                                           *)

LEMMA MediaInit == InitMedia => MediaInvariant /\ NothingLost
<1> SUFFICES ASSUME InitMedia PROVE MediaInvariant /\ NothingLost
  OBVIOUS
<1> DEFINE card == [f \in Files |-> 0]
<1>1. card \in Cards /\ card \in Histories /\ {} \in SUBSET Files
  BY MediaAssumption DEF Contents, Histories, Cards
<1>2. kernel = BootKernel(card, {}) /\ newest = card
  BY DEF InitMedia
<1> HIDE DEF card
<1> QED  BY <1>1, <1>2, BootStep DEF MediaInvariant, NothingLost, Lossless

LEMMA MediaStep == MediaInvariant /\ [MediaNext]_mediaVars => MediaInvariant'
<1> SUFFICES ASSUME MediaInvariant, [MediaNext]_mediaVars PROVE MediaInvariant'
  OBVIOUS
<1>1. CASE DriveWrite
  BY <1>1, DriveWriteStep
<1>2. CASE FastWrite
  BY <1>2, FastWriteStep
<1>3. CASE MediaNext /\ ~DriveWrite /\ ~FastWrite
  BY <1>3, CallStep DEF MediaInvariant
<1>4. CASE UNCHANGED mediaVars
  BY <1>4 DEF mediaVars, MediaInvariant
<1> QED  BY <1>1, <1>2, <1>3, <1>4

(* Whatever the computer, the panel and the card do, the kernel's record   *)
(* of the medium is sound.                                                 *)
THEOREM MediumSound == MediaSpec => []MediaInvariant
<1>1. InitMedia => MediaInvariant
  BY MediaInit
<1> QED  BY <1>1, MediaStep, PTL DEF MediaSpec

(* The types of the kernel's record (OledKernel* in main.cpp).             *)
THEOREM MediaTypes == MediaSpec => []MediaTypeOK
<1>1. MediaInvariant => MediaTypeOK
  BY DEF MediaInvariant, Sound, Histories, MediaTypeOK
<1> QED  BY <1>1, MediumSound, PTL

(* The drive and the sector reader never hold a disk that is not in the    *)
(* caddy (DiskCaddy::Empty(), main.cpp:2932).                              *)
THEOREM DisksHeld == MediaSpec => []NoDanglingDisk
<1>1. MediaInvariant => NoDanglingDisk
  BY DEF MediaInvariant, Sound, Pointers, NoDanglingDisk
<1> QED  BY <1>1, MediumSound, PTL

(* A disk of a read-only file, or of a program, has nothing to save        *)
(* (OledKernelWriteProtect(), OledKernelMount()).                          *)
THEOREM ReadOnlyClean == MediaSpec => []ReadOnlyStaysClean
<1>1. MediaInvariant => ReadOnlyStaysClean
  BY DEF MediaInvariant, Sound, Clean, ReadOnlyStaysClean
<1> QED  BY <1>1, MediumSound, PTL

(* No write of the computer is lost, unless a copy in memory that lacks    *)
(* what the card has is changed and saved (OledKernelMount() loads the new *)
(* disk before it writes the old one, DiskCaddy::Insert() does not look at *)
(* how much it has read, and a U0 command writes past the copy).           *)
THEOREM WritesKept == MediaSpec => []NothingLost
<1>1. InitMedia => NothingLost
  BY MediaInit
<1>2. MediaInvariant /\ NothingLost /\ [MediaNext]_mediaVars => NothingLost'
  <2> SUFFICES ASSUME MediaInvariant, NothingLost, [MediaNext]_mediaVars PROVE NothingLost'
    OBVIOUS
  <2>1. Lossless(kernel, newest)
    BY DEF NothingLost, Lossless
  <2>2. Lossless(kernel', newest') => NothingLost'
    BY DEF NothingLost, Lossless
  <2>3. CASE DriveWrite
    BY <2>1, <2>2, <2>3, DriveWriteStep
  <2>4. CASE FastWrite
    BY <2>1, <2>2, <2>4, FastWriteStep
  <2>5. CASE MediaNext /\ ~DriveWrite /\ ~FastWrite
    BY <2>1, <2>2, <2>5, CallStep
  <2>6. CASE UNCHANGED mediaVars
    BY <2>6 DEF mediaVars, NothingLost
  <2> QED  BY <2>3, <2>4, <2>5, <2>6
<1> QED  BY <1>1, <1>2, MediumSound, PTL DEF MediaSpec
-----------------------------------------------------------------------------
(* The menu.                                                               *)

Menus ==
  [view : Views, cursor : Nat, offset : Nat, path : Dirs,
   shown : [dir : Dirs, tapes : BOOLEAN], tapeFilter : BOOLEAN,
   mounted : Paths \cup {NoPath}, lastMounted : Paths \cup {NoPath},
   flip : Seq(Paths), listMode : BOOLEAN, history : Seq(Positions),
   back : Positions \cup {NoReturn}, tape : BOOLEAN, message : BOOLEAN]

(* DiskAsShown, CursorOnScreen and ListAsMode, of a menu m on a kernel k.  *)
Shows(k, m) == k.caddy # NoDisk => k.caddy.path = m.mounted

OnScreen(m) ==
  /\ m.cursor < Len(RowsOf(m))
  /\ IF FixedTop(m.view)
     THEN m.cursor = 0 \/ (m.offset < m.cursor /\ m.cursor <= m.offset + Lines - 1)
     ELSE m.offset <= m.cursor /\ m.cursor < m.offset + Lines

(* The view that is drawn next: a message brings up Notice first.          *)
Drawn(m) == (m.message => m.view = "Notice") => OnScreen(m)

Fits(m) ==
  /\ ~m.listMode => m.flip \in {<<>>, <<m.mounted>>}
  /\ m.flip = <<>> /\ (m.listMode \/ m.view = "Fliplist") => m.mounted = NoPath

(* Load TAP... is the only browser for tapes, and was opened from Tape.    *)
TapeReturn(m) == m.tapeFilter /\ m.back # NoReturn => m.back.view = "Tape"

(* The row that the encoder is on in Fliplist is in the list.              *)
FlipRow(m) == m.view = "Fliplist" /\ m.flip # <<>> => m.cursor <= Len(m.flip)

Holds(k, m) == Sound(k) /\ m \in Menus /\ Shows(k, m) /\ TapeReturn(m)

(* Nothing on the panel leads back to a medium that the computer has left. *)
Avoids(m) ==
  /\ m.view # "Fliplist" /\ m.back.view # "Fliplist"
  /\ \A i \in 1 .. Len(m.history) : m.history[i].view # "Fliplist"

Away(k, m) == k.caddy = NoDisk /\ m.mounted = NoPath /\ Avoids(m)

-----------------------------------------------------------------------------
(* What a view shows.                                                      *)

LEMMA FilesTyped ==
  ASSUME NEW m \in Menus
  PROVE  FilesOf(m) \in Seq(Entries)
<1> DEFINE parent == IF m.shown.dir = Root THEN <<>> ELSE <<Up[m.shown.dir]>>
           rest   == (IF m.shown.tapes THEN TapeListing ELSE Listing)[m.shown.dir]
<1>1. m.shown.dir \in Dirs
  BY DEF Menus
<1>2. rest \in Seq(Entries)
  BY <1>1, MenuAssumption, FilterAssumption
<1>3. parent \in Seq(Entries)
  <2>1. Up[m.shown.dir] \in Entries
    BY <1>1, MenuAssumption DEF Entries
  <2>2. \A e \in Entries : <<e>> \in Seq(Entries)
    OBVIOUS
  <2>3. <<>> \in Seq(Entries)
    OBVIOUS
  <2> QED  BY <2>1, <2>2, <2>3, Zenon
<1>4. FilesOf(m) = parent \o rest
  BY DEF FilesOf
<1> HIDE DEF parent, rest
<1> QED  BY <1>2, <1>3, <1>4

LEMMA SameRows ==
  ASSUME NEW m, NEW n,
         n.view = m.view, n.shown = m.shown, n.flip = m.flip, n.tape = m.tape
  PROVE  RowsOf(n) = RowsOf(m) /\ FilesOf(n) = FilesOf(m)
<1>1. FilesOf(n) = FilesOf(m)
  BY DEF FilesOf
<1> QED  BY <1>1 DEF RowsOf

LEMMA RowsTyped ==
  ASSUME NEW m \in Menus
  PROVE  /\ Len(RowsOf(m)) \in Nat /\ Len(RowsOf(m)) > 0
         /\ m.view = "Browser" => /\ Len(RowsOf(m)) = Len(FilesOf(m)) + 1
                                  /\ \A i \in 1 .. Len(FilesOf(m)) : RowsOf(m)[i + 1] = FilesOf(m)[i]
         /\ m.view = "Fliplist" => Len(RowsOf(m)) = Len(m.flip) + 1
<1>1. \A S : \A s \in Seq(S) : \A h :
        /\ Len(<<h>> \o s) = Len(s) + 1
        /\ \A i \in 1 .. Len(s) : (<<h>> \o s)[i + 1] = s[i]
  OBVIOUS
<1>2. CASE m.view = "Browser"
  <2>1. RowsOf(m) = <<"Menu">> \o FilesOf(m)
    BY <1>2 DEF RowsOf
  <2>2. FilesOf(m) \in Seq(Entries)
    BY FilesTyped
  <2> QED  BY <1>1, <1>2, <2>1, <2>2
<1>3. CASE m.view = "Fliplist"
  <2>1. RowsOf(m) = <<"Menu">> \o m.flip
    BY <1>3 DEF RowsOf
  <2>2. m.flip \in Seq(Paths)
    BY DEF Menus
  <2> QED  BY <1>1, <1>3, <2>1, <2>2
<1>4. CASE m.view = "Device"
  <2>1. RowsOf(m) \in {<<"Parent", "ClearList", "Browser", "Tape", "Reboot">>,
                       <<"Parent", "Browser", "Tape", "Reboot">>}
    BY <1>4 DEF RowsOf
  <2>2. Len(RowsOf(m)) \in {4, 5}
    BY <2>1
  <2>3. Len(RowsOf(m)) \in Nat /\ Len(RowsOf(m)) > 0
    BY <2>2
  <2>4. m.view # "Browser" /\ m.view # "Fliplist"
    BY <1>4
  <2> QED  BY <2>3, <2>4
<1>5. CASE m.view = "Tape"
  <2>1. RowsOf(m) \in {<<"Parent", "GoToFile", "EjectTAP">>, <<"Parent", "LoadTAP">>}
    BY <1>5 DEF RowsOf
  <2>2. Len(RowsOf(m)) \in {2, 3}
    BY <2>1
  <2>3. Len(RowsOf(m)) \in Nat /\ Len(RowsOf(m)) > 0
    BY <2>2
  <2>4. m.view # "Browser" /\ m.view # "Fliplist"
    BY <1>5
  <2> QED  BY <2>3, <2>4
<1>6. CASE m.view \in {"TapeIndex", "Reboot", "Notice"}
  <2>1. RowsOf(m) \in {<<"Parent", "Cancel", "RebootNow">>, <<"Parent", m.view>>}
    BY <1>6 DEF RowsOf
  <2>2. Len(RowsOf(m)) \in {2, 3}
    BY <2>1
  <2>3. Len(RowsOf(m)) \in Nat /\ Len(RowsOf(m)) > 0
    BY <2>2
  <2>4. m.view # "Browser" /\ m.view # "Fliplist"
    BY <1>6
  <2> QED  BY <2>3, <2>4
<1> QED  BY <1>2, <1>3, <1>4, <1>5, <1>6 DEF Menus, Views

(* n is m, but for the cursor, the directory and the message.              *)
Beside(m, n) ==
  /\ n.view = m.view /\ n.flip = m.flip /\ n.listMode = m.listMode /\ n.mounted = m.mounted
  /\ n.lastMounted = m.lastMounted /\ n.history = m.history /\ n.back = m.back
  /\ n.tapeFilter = m.tapeFilter /\ n.tape = m.tape

LEMMA BesideKeeps ==
  ASSUME NEW k, NEW m, NEW n \in Menus, Beside(m, n)
  PROVE  /\ Holds(k, m) => Holds(k, n)
         /\ Fits(m) => Fits(n)
         /\ Away(k, m) => Away(k, n)
<1>1. Holds(k, m) => Holds(k, n)
  BY DEF Beside, Holds, Shows, TapeReturn
<1>2. Fits(m) => Fits(n)
  BY DEF Beside, Fits
<1>3. Away(k, m) => Away(k, n)
  BY DEF Beside, Away, Avoids
<1> QED  BY <1>1, <1>2, <1>3

LEMMA ClampStep ==
  ASSUME NEW m \in Menus
  PROVE  /\ Clamp(m) \in Menus /\ Beside(m, Clamp(m)) /\ OnScreen(Clamp(m))
         /\ FlipRow(Clamp(m))
         /\ Clamp(m).shown = m.shown /\ Clamp(m).message = m.message /\ Clamp(m).path = m.path
<1> DEFINE rows == Len(RowsOf(m))
           last == Lines - 1
           c == IF m.cursor >= rows THEN rows - 1 ELSE m.cursor
           o == IF FixedTop(m.view) THEN IF c > 0 /\ c <= m.offset THEN c - 1 ELSE m.offset
                ELSE IF c < m.offset THEN c ELSE m.offset
           w == IF FixedTop(m.view) THEN IF c > o + last THEN c - last ELSE o
                ELSE IF c >= o + Lines THEN c - last ELSE o
           n == [m EXCEPT !.cursor = c, !.offset = w]
<1>1. Clamp(m) = n
  BY DEF Clamp
<1>2. /\ rows \in Nat /\ rows > 0 /\ m.cursor \in Nat /\ m.offset \in Nat
      /\ Lines \in Nat /\ last \in Nat /\ last > 0 /\ Lines = last + 1
  <2>1. Lines \in Nat \ {0, 1}
    BY MenuAssumption
  <2> QED  BY <2>1, RowsTyped DEF Menus
<1> HIDE DEF rows, last
<1>3. c \in Nat /\ c < rows
  BY <1>2
<1> HIDE DEF c
<1>4. o \in Nat
  BY <1>2, <1>3
<1>5. /\ w \in Nat
      /\ IF FixedTop(m.view) THEN c = 0 \/ (w < c /\ c <= w + Lines - 1)
         ELSE w <= c /\ c < w + Lines
  <2>1. CASE FixedTop(m.view)
    BY <1>2, <1>3, <2>1
  <2>2. CASE ~FixedTop(m.view)
    BY <1>2, <1>3, <2>2
  <2> QED  BY <2>1, <2>2
<1> HIDE DEF o, w
<1>6. n \in Menus /\ Beside(m, n) /\ n.cursor = c /\ n.offset = w
      /\ n.shown = m.shown /\ n.message = m.message /\ n.path = m.path
  BY <1>3, <1>5 DEF Menus, Beside
<1> HIDE DEF n
<1>7. RowsOf(n) = RowsOf(m)
  BY <1>6, SameRows DEF Beside
<1>8. OnScreen(n)
  BY <1>3, <1>5, <1>6, <1>7 DEF OnScreen, Beside, rows
<1>9. FlipRow(n)
  <2>1. m.view = "Fliplist" => rows = Len(m.flip) + 1 /\ Len(m.flip) \in Nat
    BY RowsTyped DEF rows, Menus
  <2> QED  BY <1>3, <1>6, <2>1 DEF FlipRow, Beside
<1> QED  BY <1>1, <1>6, <1>8, <1>9

LEMMA ToldStep ==
  ASSUME NEW m \in Menus
  PROVE  /\ Told(m) \in Menus /\ Beside(m, Told(m))
         /\ OnScreen(m) => OnScreen(Told(m))
         /\ FlipRow(m) => FlipRow(Told(m))
<1> DEFINE n == Told(m)
<1>1. n \in Menus /\ Beside(m, n) /\ n.cursor = m.cursor /\ n.offset = m.offset
      /\ n.shown = m.shown
  BY DEF Told, Menus, Beside
<1> HIDE DEF n
<1>2. RowsOf(n) = RowsOf(m)
  BY <1>1, SameRows DEF Beside
<1>3. OnScreen(m) => OnScreen(n)
  BY <1>1, <1>2 DEF OnScreen, Beside
<1>4. FlipRow(m) => FlipRow(n)
  BY <1>1 DEF FlipRow, Beside
<1> QED  BY <1>1, <1>3, <1>4 DEF n

(* What is drawn is in place after a message, too: Notice is drawn then.   *)
LEMMA ToldDrawn ==
  ASSUME NEW m \in Menus
  PROVE  /\ Drawn(m) => Drawn(Told(m))
         /\ m.view # "Notice" => Drawn(Told(m))
<1>1. Told(m).message = TRUE /\ Told(m).view = m.view
  BY DEF Told, Menus
<1> QED  BY <1>1, ToldStep DEF Drawn

LEMMA RefreshStep ==
  ASSUME NEW m \in Menus, NEW n \in Refresh(m)
  PROVE  /\ n \in Menus /\ Beside(m, n)
         /\ Drawn(m) \/ m.view # "Notice" => Drawn(n)
         /\ FlipRow(m) => FlipRow(n)
<1> DEFINE read == [m EXCEPT !.shown = [dir |-> m.path, tapes |-> m.tapeFilter]]
<1>1. CASE n = Told(m)
  BY <1>1, ToldStep, ToldDrawn
<1>2. CASE n = Clamp(read)
  <2>1. read \in Menus /\ Beside(m, read)
    BY DEF Menus, Beside
  <2> HIDE DEF read
  <2> QED  BY <1>2, <2>1, ClampStep DEF Beside, Drawn
<1> QED  BY <1>1, <1>2 DEF Refresh

LEMMA DirectoryStep ==
  ASSUME NEW k, NEW m \in Menus, NEW next \in Dirs, NEW r \in ChangeDirectory(k, m, next)
  PROVE  /\ r.k = k /\ r.m \in Menus /\ Beside(m, r.m)
         /\ m.view = "Browser" => FlipRow(r.m) /\ Drawn(r.m)
<1> DEFINE there == [m EXCEPT !.path = next, !.cursor = 1, !.offset = 0]
<1>1. CASE r = Result(FALSE, k, Told(m))
  BY <1>1, ToldStep, ToldDrawn DEF Result, FlipRow, Beside
<1>2. CASE \E n \in Refresh(there) : r = Result(TRUE, k, n)
  <2>1. PICK n \in Refresh(there) : r = Result(TRUE, k, n)
    BY <1>2
  <2>2. there \in Menus /\ Beside(m, there)
    BY DEF Menus, Beside
  <2> HIDE DEF there
  <2>3. n \in Menus /\ Beside(m, n)
    BY <2>2, RefreshStep DEF Beside
  <2>4. m.view = "Browser" => FlipRow(n) /\ Drawn(n)
    <3>1. m.view = "Browser" => there.view = "Browser" /\ n.view = "Browser"
      BY <2>2, <2>3 DEF Beside
    <3> QED  BY <2>2, <3>1, RefreshStep DEF FlipRow
  <2> QED  BY <2>1, <2>3, <2>4 DEF Result
<1> QED  BY <1>1, <1>2 DEF ChangeDirectory

-----------------------------------------------------------------------------
(* What a call of the kernel leaves in the caddy.                          *)

SameOrGone(k, j) == j.caddy # NoDisk => k.caddy # NoDisk /\ j.caddy.path = k.caddy.path

LEMMA WrittenDisk ==
  ASSUME NEW k, Sound(k), NEW j, Sound(j), OnlyWritten(k, j)
  PROVE  SameOrGone(k, j)
<1>1. k.caddy \in Disks /\ j.caddy \in Disks /\ j.caddy = [k.caddy EXCEPT !.dirty = j.caddy.dirty]
  BY DEF OnlyWritten, Sound, Kernel
<1>2. j.caddy.id = k.caddy.id /\ j.caddy.path = k.caddy.path
  BY <1>1 DEF Disks
<1>3. k.caddy = NoDisk => j.caddy = NoDisk
  BY <1>2 DEF Sound, Inside, NoDisk, Ids
<1> QED  BY <1>2, <1>3 DEF SameOrGone

LEMMA UnmountDisk ==
  ASSUME NEW k, Sound(k), NEW r \in Unmount(k)
  PROVE  Sound(r.k) /\ SameOrGone(k, r.k) /\ (r.ok => r.k.caddy = NoDisk)
<1>1. Sound(r.k) /\ (r.ok => r.k.caddy = NoDisk)
  BY UnmountStep
<1>2. PICK q \in WriteAll(k) : r \in IF q.ok THEN {Ok(Released(q.k))} ELSE {q}
  BY DEF Unmount, Then
<1>3. CASE q.ok
  <2>1. r.ok
    BY <1>2, <1>3 DEF Ok
  <2> QED  BY <1>1, <2>1 DEF SameOrGone
<1>4. CASE ~q.ok
  BY <1>1, <1>2, <1>4, WriteAllStep, WrittenDisk
<1> QED  BY <1>1, <1>3, <1>4

(* A medium that has been mounted is in the caddy under its own path or is *)
(* not in the caddy.                                                       *)
LEMMA MountDisk ==
  ASSUME NEW k, Sound(k), NEW p \in Paths, NEW r \in Mount(k, p)
  PROVE  /\ Sound(r.k)
         /\ r.ok => (r.k.caddy # NoDisk => r.k.caddy.path = p)
         /\ ~r.ok => SameOrGone(k, r.k)
<1>0. Sound(r.k)
  BY MountStep
<1>1. CASE r = Failed(k)
  BY <1>0, <1>1 DEF Failed, SameOrGone
<1>2. CASE /\ Readable(k, p)
           /\ r \in Then(Then(WriteAll(k), LAMBDA j : CbmMount(j, p)),
                         LAMBDA j : {Ok(Served(j, p))})
  <2>1. PICK q \in Then(WriteAll(k), LAMBDA j : CbmMount(j, p)) :
               r \in IF q.ok THEN {Ok(Served(q.k, p))} ELSE {q}
    BY <1>2 DEF Then
  <2>2. PICK w \in WriteAll(k) : q \in IF w.ok THEN CbmMount(w.k, p) ELSE {w}
    BY <2>1 DEF Then
  <2>3. Sound(w.k) /\ SameOrGone(k, w.k)
    BY WriteAllStep, WrittenDisk
  <2>4. Sound(q.k) /\ SameOrGone(k, q.k)
    BY <2>2, <2>3, CbmMountStep DEF SameOrGone
  <2>5. CASE q.ok
    <3>1. r.k = Served(q.k, p) /\ r.ok
      BY <2>1, <2>5 DEF Ok
    <3>2. Served(q.k, p).caddy = NoDisk
      BY <2>4 DEF Served, Sound, Kernel
    <3> QED  BY <1>0, <3>1, <3>2
  <2>6. CASE ~q.ok
    BY <2>1, <2>4, <2>6
  <2> QED  BY <2>5, <2>6
<1>3. \A disk \in Loaded(k, p) : disk.path = p
  BY DEF Loaded
<1>4. ASSUME NEW disk \in Loaded(k, p),
             r \in Then(WriteAll(k), LAMBDA j : {Ok(Swapped(j, p, disk))})
      PROVE  /\ Sound(r.k)
             /\ r.ok => (r.k.caddy # NoDisk => r.k.caddy.path = p)
             /\ ~r.ok => SameOrGone(k, r.k)
  <2>1. PICK q \in WriteAll(k) : r \in IF q.ok THEN {Ok(Swapped(q.k, p, disk))} ELSE {q}
    BY <1>4 DEF Then
  <2>2. Sound(q.k) /\ SameOrGone(k, q.k)
    BY WriteAllStep, WrittenDisk
  <2>3. CASE q.ok
    <3>1. r.k = Swapped(q.k, p, disk) /\ r.ok
      BY <2>1, <2>3 DEF Ok
    <3>2. Swapped(q.k, p, disk).caddy = disk
      BY <2>2 DEF Swapped, Sound, Kernel
    <3> QED  BY <1>0, <1>3, <3>1, <3>2
  <2>4. CASE ~q.ok
    BY <1>0, <2>1, <2>2, <2>4
  <2> QED  BY <2>3, <2>4
<1>5. ASSUME NEW disk \in Loaded(k, p),
             r \in Then(Unmount(k), LAMBDA j : {Ok(Inserted(j, p, disk))})
      PROVE  /\ Sound(r.k)
             /\ r.ok => (r.k.caddy # NoDisk => r.k.caddy.path = p)
             /\ ~r.ok => SameOrGone(k, r.k)
  <2>1. PICK q \in Unmount(k) : r \in IF q.ok THEN {Ok(Inserted(q.k, p, disk))} ELSE {q}
    BY <1>5 DEF Then
  <2>2. Sound(q.k) /\ SameOrGone(k, q.k)
    BY UnmountDisk
  <2>3. CASE q.ok
    <3>1. r.k = Inserted(q.k, p, disk) /\ r.ok
      BY <2>1, <2>3 DEF Ok
    <3>2. Inserted(q.k, p, disk).caddy = disk
      BY <2>2 DEF Inserted, Sound, Kernel
    <3> QED  BY <1>0, <1>3, <3>1, <3>2
  <2>4. CASE ~q.ok
    BY <1>0, <2>1, <2>2, <2>4
  <2> QED  BY <2>3, <2>4
<1> QED  BY <1>1, <1>2, <1>4, <1>5 DEF Mount

-----------------------------------------------------------------------------
(* Leaving and choosing a medium.                                          *)

(* A change of the menu that fails in the kernel only leaves a message.    *)
LEMMA RefusedStep ==
  ASSUME NEW k, NEW m, Holds(k, m), NEW j, Sound(j), SameOrGone(k, j)
  PROVE  /\ Holds(j, Told(m))
         /\ Fits(m) => Fits(Told(m))
         /\ Drawn(m) => Drawn(Told(m))
         /\ FlipRow(m) => FlipRow(Told(m))
         /\ Away(k, m) => Away(j, Told(m))
<1>1. Holds(j, m) /\ (Away(k, m) => Away(j, m))
  BY DEF Holds, Shows, SameOrGone, Away
<1>2. m \in Menus
  BY DEF Holds
<1> QED  BY <1>1, <1>2, ToldStep, ToldDrawn, BesideKeeps

Activated(m, p) == [m EXCEPT !.mounted = p, !.lastMounted = p]

LEMMA ActivateStep ==
  ASSUME NEW k, NEW m, Holds(k, m), NEW p \in Paths, NEW r \in Activate(k, m, p)
  PROVE  /\ Sound(r.k)
         /\ r.ok => r.m = Activated(m, p) /\ Holds(r.k, r.m)
         /\ ~r.ok => r.m = Told(m) /\ SameOrGone(k, r.k)
<1> DEFINE n == Activated(m, p)
<1>1. /\ n \in Menus /\ n.mounted = p /\ n.tapeFilter = m.tapeFilter /\ n.back = m.back
  BY DEF Activated, Holds, Menus
<1>2. CASE p = m.mounted /\ r = Result(TRUE, k, [m EXCEPT !.lastMounted = p])
  <2>1. r.k = k /\ r.ok /\ r.m = [m EXCEPT !.lastMounted = p]
    BY <1>2 DEF Result
  <2>2. [m EXCEPT !.lastMounted = p] = n
    BY <1>2 DEF Activated, Holds, Menus
  <2>3. Holds(k, n)
    BY <1>1, <1>2 DEF Holds, Shows, TapeReturn
  <2>4. Sound(k)
    BY DEF Holds
  <2> HIDE DEF n
  <2>5. r.m = n
    BY <2>1, <2>2
  <2> QED  BY <2>1, <2>3, <2>4, <2>5 DEF n
<1>3. CASE r \in Call(Mount(k, p), n, Told(m))
  <2>1. PICK q \in Mount(k, p) : r = Result(q.ok, q.k, IF q.ok THEN n ELSE Told(m))
    BY <1>3 DEF Call
  <2>2. /\ Sound(q.k)
        /\ q.ok => (q.k.caddy # NoDisk => q.k.caddy.path = p)
        /\ ~q.ok => SameOrGone(k, q.k)
    BY MountDisk DEF Holds
  <2> HIDE DEF n
  <2>3. r.k = q.k /\ r.ok = q.ok /\ r.m = IF q.ok THEN n ELSE Told(m)
    BY <2>1 DEF Result
  <2>4. q.ok => Holds(q.k, n)
    BY <1>1, <2>2 DEF Holds, Shows, TapeReturn
  <2> QED  BY <2>2, <2>3, <2>4 DEF n
<1> QED  BY <1>2, <1>3 DEF Activate, Activated

Cleared(m) ==
  [m EXCEPT !.flip = <<>>, !.mounted = NoPath, !.lastMounted = NoPath, !.listMode = FALSE,
     !.back = NoReturn,
     !.history = IF m.view = "Browser" THEN <<>>
                 ELSE <<[view |-> "Browser", cursor |-> 1, offset |-> 0]>>]

LEMMA ClearedTyped ==
  ASSUME NEW m \in Menus
  PROVE  /\ Cleared(m) \in Menus /\ Cleared(m).view = m.view
         /\ Cleared(m).cursor = m.cursor /\ Cleared(m).offset = m.offset
         /\ Cleared(m).flip = <<>> /\ ~Cleared(m).listMode /\ Cleared(m).mounted = NoPath
         /\ Cleared(m).back = NoReturn
         /\ \A i \in 1 .. Len(Cleared(m).history) : Cleared(m).history[i].view = "Browser"
<1> DEFINE home == [view |-> "Browser", cursor |-> 1, offset |-> 0]
           h == IF m.view = "Browser" THEN <<>> ELSE <<home>>
<1>1. home \in Positions /\ home.view = "Browser"
  BY DEF Positions, Views
<1> HIDE DEF home
<1>2. h \in Seq(Positions) /\ \A i \in 1 .. Len(h) : h[i].view = "Browser"
  <2>1. CASE m.view = "Browser"
    BY <2>1
  <2>2. CASE m.view # "Browser"
    BY <1>1, <2>2
  <2> QED  BY <2>1, <2>2
<1>3. Cleared(m) = [m EXCEPT !.flip = <<>>, !.mounted = NoPath, !.lastMounted = NoPath,
                             !.listMode = FALSE, !.back = NoReturn, !.history = h]
  BY DEF Cleared, home
<1> HIDE DEF h
<1>4. <<>> \in Seq(Paths)
  OBVIOUS
<1>5. Cleared(m) \in Menus
  BY <1>2, <1>3, <1>4 DEF Menus
<1>6. /\ Cleared(m).view = m.view /\ Cleared(m).cursor = m.cursor
      /\ Cleared(m).offset = m.offset /\ Cleared(m).flip = <<>> /\ Cleared(m).listMode = FALSE
      /\ Cleared(m).mounted = NoPath /\ Cleared(m).back = NoReturn /\ Cleared(m).history = h
  BY <1>3 DEF Menus
<1> QED  BY <1>2, <1>5, <1>6

LEMMA ClearStep ==
  ASSUME NEW k, NEW m, Holds(k, m), NEW r \in Clear(k, m)
  PROVE  /\ Holds(r.k, r.m)
         /\ Fits(m) => Fits(r.m)
         /\ Away(k, m) => Away(r.k, r.m)
         /\ FlipRow(m) => FlipRow(r.m)
         /\ r.m.view = m.view
         /\ m.view = "Notice" /\ OnScreen(m) => OnScreen(r.m)
         /\ ~r.ok => r.m = Told(m)
<1> DEFINE n == Cleared(m)
<1>1. PICK q \in Unmount(k) : r = Result(q.ok, q.k, IF q.ok THEN n ELSE Told(m))
  BY DEF Clear, Call, Cleared
<1>2. Sound(q.k) /\ SameOrGone(k, q.k) /\ (q.ok => q.k.caddy = NoDisk)
  BY UnmountDisk DEF Holds
<1>3. /\ n \in Menus /\ n.view = m.view /\ n.cursor = m.cursor /\ n.offset = m.offset
      /\ n.flip = <<>> /\ ~n.listMode /\ n.mounted = NoPath /\ n.back = NoReturn
      /\ \A i \in 1 .. Len(n.history) : n.history[i].view = "Browser"
  BY ClearedTyped DEF Holds
<1> HIDE DEF n
<1>4. r.k = q.k /\ r.ok = q.ok /\ r.m = IF q.ok THEN n ELSE Told(m)
  BY <1>1 DEF Result
<1>5. CASE q.ok
  <2>1. Holds(q.k, n)
    BY <1>2, <1>3, <1>5 DEF Holds, Shows, TapeReturn
  <2>2. Fits(n)
    BY <1>3 DEF Fits
  <2>3. FlipRow(n)
    BY <1>3 DEF FlipRow
  <2>4. Away(k, m) => Away(q.k, n)
    BY <1>2, <1>3, <1>5 DEF Away, Avoids, NoReturn
  <2>5. m.view = "Notice" /\ OnScreen(m) => OnScreen(n)
    <3>1. m.view = "Notice" => RowsOf(n) = RowsOf(m)
      BY <1>3 DEF RowsOf
    <3> QED  BY <1>3, <3>1 DEF OnScreen
  <2> QED  BY <1>3, <1>4, <1>5, <2>1, <2>2, <2>3, <2>4, <2>5
<1>6. CASE ~q.ok
  <2>1. Told(m).view = m.view /\ (OnScreen(m) => OnScreen(Told(m)))
    BY ToldStep DEF Holds, Beside
  <2> QED  BY <1>2, <1>4, <1>6, <2>1, RefusedStep
<1> QED  BY <1>5, <1>6

LEMMA FocusedStep ==
  ASSUME NEW m \in Menus, NEW p
  PROVE  Focused(m, p) \in Menus /\ Beside(m, Focused(m, p))
<1>1. CASE \E i \in 1 .. Len(FilesOf(m)) : FilesOf(m)[i] = p
  <2> DEFINE row == CHOOSE i \in 1 .. Len(FilesOf(m)) : FilesOf(m)[i] = p
  <2>1. row \in 1 .. Len(FilesOf(m))
    BY <1>1
  <2>2. row \in Nat
    BY <2>1, FilesTyped
  <2>3. Focused(m, p) = [m EXCEPT !.cursor = row]
    BY <1>1 DEF Focused
  <2> HIDE DEF row
  <2> QED  BY <2>2, <2>3 DEF Menus, Beside
<1>2. CASE ~\E i \in 1 .. Len(FilesOf(m)) : FilesOf(m)[i] = p
  <2>1. Focused(m, p) = m
    BY <1>2 DEF Focused
  <2> QED  BY <2>1 DEF Beside
<1> QED  BY <1>1, <1>2

LEMMA PositionTyped ==
  ASSUME NEW m \in Menus
  PROVE  Position(m) \in Positions /\ Position(m).view = m.view
BY DEF Position, Positions, Menus

(* What a SOLO list becomes when its medium is left.                       *)
LEMMA SoloTyped ==
  ASSUME NEW m \in Menus
  PROVE  /\ NoSolo(m) \in Menus
         /\ NoSolo(m).listMode = m.listMode
         /\ NoSolo(m).history = m.history /\ NoSolo(m).back = m.back
         /\ m.listMode => NoSolo(m).flip = m.flip
         /\ ~m.listMode => NoSolo(m).flip = <<>>
<1> DEFINE flip == IF m.listMode THEN m.flip ELSE <<>>
<1>1. flip \in Seq(Paths)
  <2>1. m.flip \in Seq(Paths) /\ <<>> \in Seq(Paths)
    BY DEF Menus
  <2> QED  BY <2>1
<1>2. NoSolo(m) = [m EXCEPT !.flip = flip]
  BY DEF NoSolo, Menus
<1>3. (m.listMode => flip = m.flip) /\ (~m.listMode => flip = <<>>)
  OBVIOUS
<1> HIDE DEF flip
<1>4. /\ NoSolo(m) \in Menus /\ NoSolo(m).listMode = m.listMode /\ NoSolo(m).flip = flip
      /\ NoSolo(m).history = m.history /\ NoSolo(m).back = m.back
  BY <1>1, <1>2 DEF Menus
<1> QED  BY <1>3, <1>4

(* Browse() unmounts, and puts Browser on top of the view it came from.    *)
LEMMA BrowseStep ==
  ASSUME NEW k, NEW m, Holds(k, m), NEW fresh \in BOOLEAN, NEW tape \in BOOLEAN,
         tape => m.view = "Tape", NEW r \in Browse(k, m, fresh, tape)
  PROVE  /\ Holds(r.k, r.m)
         /\ Fits(m) => Fits(r.m)
         /\ Drawn(m) => Drawn(r.m)
         /\ FlipRow(m) => FlipRow(r.m)
         /\ Away(k, m) => Away(r.k, r.m)
<1> DEFINE last == IF m.mounted = NoPath THEN m.lastMounted ELSE m.mounted
           hist == IF fresh THEN <<>> ELSE m.history
           back == IF fresh THEN NoReturn
                   ELSE IF m.view = "Fliplist" \/ tape THEN Position(m) ELSE m.back
           n == [NoSolo(m) EXCEPT !.mounted = NoPath, !.lastMounted = last, !.tapeFilter = tape,
                   !.history = hist, !.back = back]
           b == AtTop(n, "Browser")
           home == ~fresh /\ ~tape /\ last # NoPath
           next == IF home THEN Up[last] ELSE IF tape THEN Root ELSE IF fresh THEN Start
                   ELSE m.path
<1>0. m \in Menus /\ Sound(k) /\ Shows(k, m) /\ TapeReturn(m)
  BY DEF Holds
<1>1. last \in Paths \cup {NoPath} /\ hist \in Seq(Positions) /\ back \in Positions \cup {NoReturn}
  <2>1. <<>> \in Seq(Positions)
    OBVIOUS
  <2> QED  BY <1>0, <2>1, PositionTyped DEF Menus
<1>2. next \in Dirs
  <2>1. last # NoPath => last \in Entries
    BY <1>1 DEF Entries
  <2> QED  BY <1>0, <2>1, MenuAssumption DEF Menus
<1>3. tape => back = NoReturn \/ back.view = "Tape"
  <2>1. tape /\ ~fresh => back = Position(m)
    OBVIOUS
  <2>2. Position(m).view = m.view
    BY <1>0, PositionTyped
  <2> HIDE DEF back
  <2>3. tape /\ fresh => back = NoReturn
    BY DEF back
  <2> QED  BY <2>1, <2>2, <2>3
<1>4. /\ NoSolo(m).history = m.history /\ NoSolo(m).back = m.back /\ NoSolo(m) \in Menus
      /\ NoSolo(m).flip \in {m.flip, <<>>} /\ NoSolo(m).listMode = m.listMode
  BY <1>0, SoloTyped DEF Menus
<1>5. /\ b \in Menus /\ b.view = "Browser" /\ b.mounted = NoPath /\ b.tapeFilter = tape
      /\ b.back = back /\ b.history = hist /\ b.flip = NoSolo(m).flip
      /\ b.listMode = NoSolo(m).listMode
  <2> HIDE DEF last, hist, back
  <2>1. b = [NoSolo(m) EXCEPT !.mounted = NoPath, !.lastMounted = last, !.tapeFilter = tape,
               !.history = hist, !.back = back, !.view = "Browser", !.cursor = 1, !.offset = 0]
    BY <1>4 DEF AtTop, At, Menus
  <2> HIDE DEF b
  <2> QED  BY <1>1, <1>4, <2>1 DEF Menus, Views
<1>6. /\ Fits(m) => Fits(b)
      /\ Away(k, m) => Avoids(b)
  <2>1. Fits(m) => Fits(b)
    <3> HIDE DEF b
    <3> QED  BY <1>0, <1>5, SoloTyped DEF Fits
  <2>2. ASSUME Away(k, m) PROVE Avoids(b)
    <3>1. b.back.view # "Fliplist"
      <4>1. back.view # "Fliplist"
        BY <1>0, <2>2, PositionTyped DEF Away, Avoids, NoReturn
      <4> QED  BY <1>5, <4>1
    <3>2. \A i \in 1 .. Len(hist) : hist[i].view # "Fliplist"
      <4>1. CASE fresh
        BY <4>1
      <4>2. CASE ~fresh
        BY <2>2, <4>2 DEF Away, Avoids
      <4> QED  BY <4>1, <4>2
    <3> HIDE DEF b, hist
    <3> QED  BY <1>5, <3>1, <3>2 DEF Avoids
  <2> QED  BY <2>1, <2>2
<1>7. r \in And(Call(Unmount(k), b, Told(m)),
                LAMBDA j, a : {Result(TRUE, c.k, Clamp(IF home THEN Focused(c.m, last) ELSE c.m)) :
                               c \in ChangeDirectory(j, a, next)})
  BY <1>4 DEF Browse
<1> HIDE DEF b, home, next, last, hist, back
<1>8. PICK u \in Call(Unmount(k), b, Told(m)) :
         r \in IF u.ok THEN {Result(TRUE, c.k, Clamp(IF home THEN Focused(c.m, last) ELSE c.m)) :
                             c \in ChangeDirectory(u.k, u.m, next)} ELSE {u}
  BY <1>7 DEF And
<1>9. PICK q \in Unmount(k) : u = Result(q.ok, q.k, IF q.ok THEN b ELSE Told(m))
  BY <1>8 DEF Call
<1>10. Sound(q.k) /\ SameOrGone(k, q.k) /\ (q.ok => q.k.caddy = NoDisk)
  BY <1>0, UnmountDisk
<1>11. u.ok = q.ok /\ u.k = q.k /\ u.m = IF q.ok THEN b ELSE Told(m)
  BY <1>9 DEF Result
<1>12. CASE ~q.ok
  <2>1. r.k = q.k /\ r.m = Told(m)
    BY <1>8, <1>11, <1>12
  <2> QED  BY <1>10, <2>1, RefusedStep
<1>13. CASE q.ok
  <2>1. PICK c \in ChangeDirectory(q.k, b, next) :
          r = Result(TRUE, c.k, Clamp(IF home THEN Focused(c.m, last) ELSE c.m))
    BY <1>8, <1>11, <1>13
  <2>2. c.k = q.k /\ c.m \in Menus /\ Beside(b, c.m)
    BY <1>2, <1>5, <2>1, DirectoryStep
  <2> DEFINE f == IF home THEN Focused(c.m, last) ELSE c.m
  <2>3. f \in Menus /\ Beside(c.m, f)
    BY <2>2, FocusedStep DEF Beside
  <2> HIDE DEF f
  <2>4. r.k = q.k /\ r.m = Clamp(f)
    BY <2>1, <2>2 DEF Result, f
  <2>5. r.m \in Menus /\ Beside(f, r.m) /\ Drawn(r.m) /\ FlipRow(r.m)
    BY <2>3, <2>4, ClampStep DEF Drawn
  <2>6. Beside(b, r.m)
    BY <2>2, <2>3, <2>5 DEF Beside
  <2>7. Holds(q.k, b)
    BY <1>3, <1>5, <1>10, <1>13 DEF Holds, Shows, TapeReturn
  <2>8. Away(k, m) => Away(q.k, b)
    BY <1>5, <1>6, <1>10, <1>13 DEF Away
  <2> QED  BY <1>6, <2>4, <2>5, <2>6, <2>7, <2>8, BesideKeeps
<1> QED  BY <1>12, <1>13

-----------------------------------------------------------------------------
(* What every call leaves: a sound menu whose list fits; and what it       *)
(* leaves on the screen.                                                   *)

Kept(m, j, n) == Holds(j, n) /\ (Fits(m) => Fits(n))

InView(m, n) == (FlipRow(m) => FlipRow(n)) /\ (Drawn(m) => Drawn(n))

(* n is m, but for where it is.                                            *)
Around(m, n) ==
  /\ n.flip = m.flip /\ n.listMode = m.listMode /\ n.mounted = m.mounted
  /\ n.lastMounted = m.lastMounted /\ n.history = m.history /\ n.back = m.back
  /\ n.tapeFilter = m.tapeFilter /\ n.tape = m.tape
  /\ n.path = m.path /\ n.shown = m.shown /\ n.message = m.message

LEMMA AtTyped ==
  ASSUME NEW m \in Menus, NEW p \in Positions
  PROVE  At(m, p) \in Menus /\ Around(m, At(m, p)) /\ Position(At(m, p)) = p
<1>1. p.view \in Views /\ p.cursor \in Nat /\ p.offset \in Nat
      /\ p = [view |-> p.view, cursor |-> p.cursor, offset |-> p.offset]
  BY DEF Positions
<1> DEFINE n == At(m, p)
<1>2. /\ n \in Menus /\ Around(m, n)
      /\ n.view = p.view /\ n.cursor = p.cursor /\ n.offset = p.offset
  BY <1>1 DEF At, Menus, Around
<1> HIDE DEF n
<1> QED  BY <1>1, <1>2 DEF Position, n

LEMMA ClampKept ==
  ASSUME NEW m, NEW j, NEW n, Kept(m, j, n)
  PROVE  Kept(m, j, Clamp(n)) /\ InView(m, Clamp(n))
         /\ \A k : Away(k, n) => Away(k, Clamp(n))
<1>1. n \in Menus
  BY DEF Kept, Holds
<1>2. Clamp(n) \in Menus /\ Beside(n, Clamp(n)) /\ OnScreen(Clamp(n)) /\ FlipRow(Clamp(n))
  BY <1>1, ClampStep
<1> QED  BY <1>2, BesideKeeps DEF Kept, InView, Drawn

LEMMA RefusedKept ==
  ASSUME NEW k, NEW m, Holds(k, m), NEW j, Sound(j), SameOrGone(k, j)
  PROVE  /\ Kept(m, j, Told(m)) /\ InView(m, Told(m))
         /\ Away(k, m) => Away(j, Told(m))
BY RefusedStep DEF Kept, InView

LEMMA ToldKept ==
  ASSUME NEW k, NEW m, Holds(k, m)
  PROVE  /\ Kept(m, k, Told(m)) /\ InView(m, Told(m))
         /\ Away(k, m) => Away(k, Told(m))
BY RefusedKept DEF SameOrGone, Holds

LEMMA OpenStep ==
  ASSUME NEW k, NEW m, Holds(k, m), NEW next \in Views \ {"Fliplist"}
  PROVE  /\ Kept(m, k, Open(m, next)) /\ InView(m, Open(m, next))
         /\ Away(k, m) => Away(k, Open(m, next))
<1> DEFINE top == [view |-> next, cursor |-> 1, offset |-> 0]
           h == Append(m.history, Position(m))
           w == [m EXCEPT !.history = h]
           n == At(w, top)
<1>0. m \in Menus /\ m.history \in Seq(Positions)
  BY DEF Holds, Menus
<1>1. top \in Positions /\ top.view = next
  BY DEF Positions
<1>2. /\ h \in Seq(Positions) /\ Len(h) = Len(m.history) + 1 /\ Len(m.history) \in Nat
      /\ h[Len(h)].view = m.view
      /\ \A i \in 1 .. Len(m.history) : h[i] = m.history[i]
  <2>1. Position(m) \in Positions /\ Position(m).view = m.view
    BY <1>0, PositionTyped
  <2> QED  BY <1>0, <2>1
<1> HIDE DEF top, h
<1>3. /\ w \in Menus /\ w.view = m.view /\ w.flip = m.flip /\ w.listMode = m.listMode
      /\ w.mounted = m.mounted /\ w.tapeFilter = m.tapeFilter /\ w.back = m.back /\ w.history = h
  BY <1>0, <1>2 DEF Menus
<1>4. Open(m, next) = Clamp(n)
  BY DEF Open, AtTop, top, h
<1> HIDE DEF w
<1>5. n \in Menus /\ Around(w, n) /\ n.view = next
  BY <1>1, <1>3, AtTyped DEF Position
<1> HIDE DEF n
<1>6. Holds(k, n)
  BY <1>3, <1>5 DEF Holds, Shows, TapeReturn, Around
<1>7. Fits(m) => Fits(n)
  BY <1>3, <1>5 DEF Fits, Around
<1>8. ASSUME Away(k, m) PROVE Away(k, n)
  <2>1. \A i \in 1 .. Len(h) : h[i].view # "Fliplist"
    <3> SUFFICES ASSUME NEW i \in 1 .. Len(h) PROVE h[i].view # "Fliplist"
      OBVIOUS
    <3>1. i \in 1 .. Len(m.history) \/ i = Len(h)
      BY <1>2
    <3> QED  BY <1>2, <1>8, <3>1 DEF Away, Avoids
  <2> QED  BY <1>3, <1>5, <1>8, <2>1 DEF Away, Avoids, Around
<1>9. Kept(m, k, n)
  BY <1>6, <1>7 DEF Kept
<1> QED  BY <1>4, <1>8, <1>9, ClampKept

(* The computer's navigation leaves nothing that leads back to its medium. *)
LEMMA ShowHostBrowserStep ==
  ASSUME NEW k, NEW m, Holds(k, m), NEW next \in Dirs, NEW r \in ShowHostBrowser(k, m, next)
  PROVE  /\ Kept(m, r.k, r.m) /\ InView(m, r.m)
         /\ Away(k, m) \/ r.ok => Away(r.k, r.m)
<1> DEFINE n == [NoSolo(m) EXCEPT !.message = FALSE, !.mounted = NoPath, !.lastMounted = NoPath,
                   !.history = <<>>, !.back = NoReturn, !.tapeFilter = FALSE]
           b == AtTop(n, "Browser")
<1>0. m \in Menus /\ Sound(k)
  BY DEF Holds
<1>1. /\ n \in Menus /\ n.mounted = NoPath /\ n.history = <<>> /\ n.back = NoReturn
      /\ n.tapeFilter = FALSE /\ n.flip = NoSolo(m).flip /\ n.listMode = m.listMode
  <2>1. <<>> \in Seq(Positions)
    OBVIOUS
  <2> QED  BY <1>0, <2>1, SoloTyped DEF Menus
<1> HIDE DEF n
<1>2. /\ b \in Menus /\ Around(n, b) /\ b.view = "Browser" /\ b.cursor = 1 /\ b.offset = 0
  <2> DEFINE top == [view |-> "Browser", cursor |-> 1, offset |-> 0]
  <2>1. top \in Positions /\ top.view = "Browser" /\ top.cursor = 1 /\ top.offset = 0
    BY DEF Positions, Views
  <2> HIDE DEF top
  <2>2. b = At(n, top)
    BY DEF AtTop, top
  <2> HIDE DEF b
  <2>3. b \in Menus /\ Around(n, b) /\ Position(b) = top
    BY <1>1, <2>1, <2>2, AtTyped
  <2> QED  BY <2>1, <2>3 DEF Position
<1>3. r \in And(Call(Unmount(k), b, Told(m)), LAMBDA j, a : ChangeDirectory(j, a, next))
  BY DEF ShowHostBrowser, n
<1> HIDE DEF b
<1>4. PICK u \in Call(Unmount(k), b, Told(m)) :
         r \in IF u.ok THEN ChangeDirectory(u.k, u.m, next) ELSE {u}
  BY <1>3 DEF And
<1>5. PICK q \in Unmount(k) : u = Result(q.ok, q.k, IF q.ok THEN b ELSE Told(m))
  BY <1>4 DEF Call
<1>6. Sound(q.k) /\ SameOrGone(k, q.k) /\ (q.ok => q.k.caddy = NoDisk)
  BY <1>0, UnmountDisk
<1>7. u.ok = q.ok /\ u.k = q.k /\ u.m = IF q.ok THEN b ELSE Told(m)
  BY <1>5 DEF Result
<1>8. CASE ~q.ok
  <2>1. r.k = q.k /\ r.m = Told(m) /\ (r.ok = q.ok)
    BY <1>4, <1>7, <1>8
  <2> QED  BY <1>6, <1>8, <2>1, RefusedKept
<1>9. CASE q.ok
  <2>1. r \in ChangeDirectory(q.k, b, next)
    BY <1>4, <1>7, <1>9
  <2>2. /\ r.k = q.k /\ r.m \in Menus /\ Beside(b, r.m)
        /\ FlipRow(r.m) /\ Drawn(r.m)
    BY <1>2, <2>1, DirectoryStep
  <2>3. Holds(q.k, b)
    BY <1>1, <1>2, <1>6, <1>9 DEF Holds, Shows, TapeReturn, Around
  <2>4. Fits(m) => Fits(b)
    BY <1>0, <1>1, <1>2, SoloTyped DEF Fits, Around
  <2>5. Away(q.k, b)
    BY <1>1, <1>2, <1>6, <1>9 DEF Away, Avoids, Around, NoReturn
  <2> QED  BY <2>2, <2>3, <2>4, <2>5, BesideKeeps DEF Kept, InView
<1> QED  BY <1>8, <1>9

LEMMA LoadTapeStep ==
  ASSUME NEW k, NEW m, Holds(k, m), NEW r \in LoadTape(k, m)
  PROVE  Kept(m, r.k, r.m) /\ (Away(k, m) => Away(r.k, r.m))
<1> DEFINE n == [m EXCEPT !.tape = TRUE, !.tapeFilter = FALSE]
           w == At(n, m.back)
           b == [w EXCEPT !.back = NoReturn]
<1>0. m \in Menus /\ Sound(k) /\ Shows(k, m) /\ TapeReturn(m)
  BY DEF Holds
<1>1. /\ n \in Menus /\ n.view = m.view /\ n.flip = m.flip /\ n.listMode = m.listMode
      /\ n.mounted = m.mounted /\ n.tapeFilter = FALSE /\ n.back = m.back
      /\ n.history = m.history
  BY <1>0 DEF Menus
<1> HIDE DEF n
<1>2. Kept(m, k, n) /\ (Away(k, m) => Away(k, n))
  BY <1>0, <1>1 DEF Kept, Holds, Shows, TapeReturn, Fits, Away, Avoids
<1>3. CASE r = Result(FALSE, k, Told(m))
  BY <1>3, ToldKept DEF Result
<1>4. CASE r = Result(TRUE, k, n)
  BY <1>2, <1>4 DEF Result
<1>5. CASE m.tapeFilter /\ m.back # NoReturn /\ r = Result(TRUE, k, Clamp(b))
  <2>1. m.back \in Positions /\ m.back.view = "Tape"
    BY <1>0, <1>5 DEF TapeReturn, Menus
  <2>2. w \in Menus /\ Around(n, w) /\ w.view = "Tape"
    BY <1>1, <2>1, AtTyped DEF Position
  <2> HIDE DEF w
  <2>3. /\ b \in Menus /\ b.view = "Tape" /\ b.flip = m.flip /\ b.listMode = m.listMode
        /\ b.mounted = m.mounted /\ b.tapeFilter = FALSE /\ b.back = NoReturn
        /\ b.history = m.history
    <3>1. /\ b \in Menus /\ b.view = w.view /\ b.flip = w.flip /\ b.listMode = w.listMode
          /\ b.mounted = w.mounted /\ b.tapeFilter = w.tapeFilter /\ b.back = NoReturn
          /\ b.history = w.history
      BY <2>2 DEF Menus
    <3> HIDE DEF b
    <3> QED  BY <1>1, <2>2, <3>1 DEF Around
  <2> HIDE DEF b
  <2>4. Kept(m, k, b) /\ (Away(k, m) => Away(k, b))
    BY <1>0, <2>3 DEF Kept, Holds, Shows, TapeReturn, Fits, Away, Avoids, NoReturn
  <2>5. r.k = k /\ r.m = Clamp(b)
    BY <1>5 DEF Result
  <2> QED  BY <2>4, <2>5, ClampKept
<1> QED  BY <1>3, <1>4, <1>5 DEF LoadTape, n

LEMMA LoadIndexStep ==
  ASSUME NEW k, NEW m, Holds(k, m), NEW r \in LoadIndex(k, m)
  PROVE  Kept(m, r.k, r.m) /\ (Away(k, m) => Away(r.k, r.m))
<1> DEFINE n == [m EXCEPT !.tape = TRUE, !.tapeFilter = FALSE, !.history = <<>>,
                   !.back = NoReturn]
           top == [view |-> "Tape", cursor |-> 1, offset |-> 0]
           b == At(n, top)
           late == [m EXCEPT !.tape = TRUE]
<1>0. m \in Menus /\ Sound(k) /\ Shows(k, m)
  BY DEF Holds
<1>1. /\ n \in Menus /\ n.flip = m.flip /\ n.listMode = m.listMode /\ n.mounted = m.mounted
      /\ n.tapeFilter = FALSE /\ n.back = NoReturn /\ n.history = <<>>
  <2>1. <<>> \in Seq(Positions)
    OBVIOUS
  <2> QED  BY <1>0, <2>1 DEF Menus
<1>2. top \in Positions /\ top.view = "Tape"
  BY DEF Positions, Views
<1>3. \/ r = Result(FALSE, k, Told(m)) \/ r = Result(FALSE, k, Told(late))
      \/ r = Result(TRUE, k, Open(b, "TapeIndex"))
  BY DEF LoadIndex, AtTop
<1> HIDE DEF n, top
<1>4. b \in Menus /\ Around(n, b) /\ b.view = "Tape"
  BY <1>1, <1>2, AtTyped DEF Position
<1> HIDE DEF b
<1>5. Holds(k, b) /\ (Fits(m) => Fits(b)) /\ (Away(k, m) => Away(k, b))
  BY <1>0, <1>1, <1>4 DEF Holds, Shows, TapeReturn, Fits, Away, Avoids, NoReturn, Around
<1>6. CASE r = Result(FALSE, k, Told(m))
  BY <1>6, ToldKept DEF Result
<1>7. CASE r = Result(TRUE, k, Open(b, "TapeIndex"))
  <2>1. "TapeIndex" \in Views \ {"Fliplist"}
    BY DEF Views
  <2>2. r.k = k /\ r.m = Open(b, "TapeIndex")
    BY <1>7 DEF Result
  <2> QED  BY <1>5, <2>1, <2>2, OpenStep DEF Kept
<1>8. CASE r = Result(FALSE, k, Told(late))
  <2>1. /\ late \in Menus /\ late.view = m.view /\ late.flip = m.flip
        /\ late.listMode = m.listMode /\ late.mounted = m.mounted
        /\ late.tapeFilter = m.tapeFilter /\ late.back = m.back /\ late.history = m.history
    BY <1>0 DEF Menus
  <2>2. r.k = k /\ r.m = Told(late)
    BY <1>8 DEF Result
  <2> HIDE DEF late
  <2>3. Kept(m, k, late) /\ (Away(k, m) => Away(k, late))
    BY <2>1 DEF Kept, Holds, Shows, TapeReturn, Fits, Away, Avoids
  <2>4. Kept(late, k, Told(late)) /\ (Away(k, late) => Away(k, Told(late)))
    BY <2>3, ToldKept DEF Kept
  <2> QED  BY <2>2, <2>3, <2>4 DEF Kept
<1> QED  BY <1>3, <1>6, <1>7, <1>8

(* Fliplist is shown with a medium in it.                                  *)
LEMMA InFliplistStep ==
  ASSUME NEW j, NEW m, Holds(j, m), m.flip # <<>>, m.listMode \/ m.flip = <<m.mounted>>
  PROVE  /\ Holds(j, InFliplist(m)) /\ Fits(InFliplist(m))
         /\ FlipRow(InFliplist(m)) /\ Drawn(InFliplist(m))
<1> DEFINE top == [view |-> "Fliplist", cursor |-> 0, offset |-> 0]
           w == At(m, top)
           n == [w EXCEPT !.tapeFilter = FALSE, !.history = <<>>, !.back = NoReturn]
<1>0. m \in Menus /\ Sound(j) /\ Shows(j, m)
  BY DEF Holds
<1>1. /\ top \in Positions /\ top.view = "Fliplist" /\ top.cursor = 0
  BY DEF Positions, Views
<1>2. InFliplist(m) = n
  BY DEF InFliplist
<1> HIDE DEF top
<1>3. w \in Menus /\ Around(m, w) /\ w.view = "Fliplist" /\ w.cursor = 0
  BY <1>0, <1>1, AtTyped DEF Position
<1> HIDE DEF w
<1>4. /\ n \in Menus /\ n.view = "Fliplist" /\ n.cursor = 0 /\ n.flip = m.flip
      /\ n.listMode = m.listMode /\ n.mounted = m.mounted /\ n.tapeFilter = FALSE
  <2>1. <<>> \in Seq(Positions)
    OBVIOUS
  <2>2. /\ n \in Menus /\ n.view = w.view /\ n.cursor = w.cursor /\ n.flip = w.flip
        /\ n.listMode = w.listMode /\ n.mounted = w.mounted /\ n.tapeFilter = FALSE
    BY <1>3, <2>1 DEF Menus
  <2> HIDE DEF n
  <2> QED  BY <1>3, <2>2 DEF Around
<1> HIDE DEF n
<1>5. Holds(j, n) /\ Fits(n)
  BY <1>0, <1>4 DEF Holds, Shows, TapeReturn, Fits
<1>6. FlipRow(n)
  BY <1>4 DEF FlipRow, Menus
<1>7. Drawn(n)
  BY <1>4, RowsTyped DEF Drawn, OnScreen, FixedTop
<1> QED  BY <1>2, <1>5, <1>6, <1>7

LEMMA AddedStep ==
  ASSUME NEW j, NEW m, Holds(j, m), NEW p \in Paths, m.mounted = p
  PROVE  /\ Holds(j, Added(m, p)) /\ Added(m, p).flip # <<>>
         /\ Added(m, p).listMode \/ Added(m, p).flip = <<Added(m, p).mounted>>
<1> DEFINE s == NoSolo(m)
           flip == IF p \in ToSet(s.flip) THEN s.flip ELSE Append(s.flip, p)
           n == [s EXCEPT !.flip = flip]
<1>0. m \in Menus
  BY DEF Holds
<1>1. /\ s \in Menus /\ s.listMode = m.listMode /\ (m.listMode = FALSE => s.flip = <<>>)
      /\ s = [m EXCEPT !.flip = s.flip]
  BY <1>0, SoloTyped DEF NoSolo, Menus
<1> HIDE DEF s
<1>2. s.flip \in Seq(Paths)
  BY <1>1 DEF Menus
<1>3. flip \in Seq(Paths) /\ flip # <<>> /\ (s.flip = <<>> => flip = <<p>>)
  <2>1. ToSet(<<>>) = {}
    BY DEF ToSet
  <2>2. CASE p \in ToSet(s.flip)
    BY <1>2, <2>1, <2>2
  <2>3. CASE p \notin ToSet(s.flip)
    <3>1. \A t \in Seq(Paths) : Append(t, p) \in Seq(Paths) /\ Append(t, p) # <<>>
      BY AppendProperties
    <3>2. Append(<<>>, p) = <<p>>
      OBVIOUS
    <3>3. flip = Append(s.flip, p)
      BY <2>3
    <3> HIDE DEF flip
    <3> QED  BY <1>2, <3>1, <3>2, <3>3
  <2> QED  BY <2>2, <2>3
<1>4. Added(m, p) = n
  BY DEF Added, s
<1> HIDE DEF flip
<1>5. /\ n \in Menus /\ n.flip = flip /\ n.listMode = m.listMode /\ n.mounted = s.mounted
      /\ n.tapeFilter = s.tapeFilter /\ n.back = s.back
  BY <1>1, <1>3 DEF Menus
<1>6. s.mounted = m.mounted /\ s.tapeFilter = m.tapeFilter /\ s.back = m.back
  BY <1>0, <1>1 DEF Menus
<1> HIDE DEF n
<1>7. Holds(j, n)
  BY <1>5, <1>6 DEF Holds, Shows, TapeReturn
<1>8. n.listMode \/ n.flip = <<n.mounted>>
  BY <1>1, <1>3, <1>5, <1>6 DEF Menus
<1> QED  BY <1>3, <1>4, <1>5, <1>7, <1>8

LEMMA ActivatedTyped ==
  ASSUME NEW m \in Menus, NEW p \in Paths
  PROVE  /\ Activated(m, p) \in Menus /\ Activated(m, p).mounted = p
         /\ Activated(m, p).view = m.view /\ Activated(m, p).flip = m.flip
         /\ Activated(m, p).listMode = m.listMode /\ Activated(m, p).cursor = m.cursor
BY DEF Activated, Menus

LEMMA OpenListStep ==
  ASSUME NEW k, NEW m, Holds(k, m), NEW e \in Lists, NEW r \in OpenList(k, m, e)
  PROVE  Kept(m, r.k, r.m) /\ InView(m, r.m)
<1>0. ListOf[e] \in Seq(Paths)
  BY MenuAssumption
<1>1. CASE r = Result(FALSE, k, Told(m))
  BY <1>1, ToldKept DEF Result
<1>2. CASE ListOf[e] = <<>> /\ r \in {Result(FALSE, c.k, Told(c.m)) : c \in Clear(k, m)}
  <2>1. PICK c \in Clear(k, m) : r = Result(FALSE, c.k, Told(c.m))
    BY <1>2
  <2>2. /\ Holds(c.k, c.m) /\ (FlipRow(m) => FlipRow(c.m)) /\ (Fits(m) => Fits(c.m))
        /\ c.m.view = m.view /\ (m.view = "Notice" /\ OnScreen(m) => OnScreen(c.m))
    BY <2>1, ClearStep
  <2>3. Kept(c.m, c.k, Told(c.m)) /\ InView(c.m, Told(c.m))
    BY <2>2, ToldKept
  <2>4. r.k = c.k /\ r.m = Told(c.m)
    BY <2>1 DEF Result
  <2>5. Drawn(m) => Drawn(Told(c.m))
    <3>1. CASE m.view = "Notice"
      BY <2>2, <2>3, <3>1 DEF Drawn, InView
    <3>2. CASE m.view # "Notice"
      BY <2>2, <3>2, ToldDrawn DEF Holds
    <3> QED  BY <3>1, <3>2
  <2> QED  BY <2>2, <2>3, <2>4, <2>5 DEF Kept, InView
<1>3. CASE /\ ListOf[e] # <<>>
           /\ r \in And(Activate(k, m, ListOf[e][1]),
                        LAMBDA j, n : {Result(TRUE, j, InFliplist([n EXCEPT !.flip = ListOf[e],
                                                                           !.listMode = TRUE]))})
  <2> DEFINE p == ListOf[e][1]
  <2>1. p \in Paths
    <3>1. \A t \in Seq(Paths) : t # <<>> => t[1] \in Paths
      OBVIOUS
    <3> QED  BY <1>0, <1>3, <3>1
  <2>2. PICK a \in Activate(k, m, p) :
          r \in IF a.ok THEN {Result(TRUE, a.k, InFliplist([a.m EXCEPT !.flip = ListOf[e],
                                                                       !.listMode = TRUE]))}
                ELSE {a}
    BY <1>3 DEF And
  <2> HIDE DEF p
  <2>3. /\ Sound(a.k)
        /\ a.ok => Holds(a.k, a.m)
        /\ ~a.ok => a.m = Told(m) /\ SameOrGone(k, a.k)
    BY <2>1, <2>2, ActivateStep
  <2>4. CASE ~a.ok
    BY <2>2, <2>3, <2>4, RefusedKept
  <2>5. CASE a.ok
    <3> DEFINE n == [a.m EXCEPT !.flip = ListOf[e], !.listMode = TRUE]
    <3>1. /\ n \in Menus /\ n.flip = ListOf[e] /\ n.listMode = TRUE
          /\ n.mounted = a.m.mounted /\ n.tapeFilter = a.m.tapeFilter /\ n.back = a.m.back
      BY <1>0, <2>3, <2>5 DEF Holds, Menus
    <3>2. r.k = a.k /\ r.m = InFliplist(n)
      BY <2>2, <2>5 DEF Result
    <3> HIDE DEF n
    <3>3. Holds(a.k, n)
      BY <2>3, <2>5, <3>1 DEF Holds, Shows, TapeReturn
    <3> QED  BY <1>3, <3>1, <3>2, <3>3, InFliplistStep DEF Kept, InView
  <2> QED  BY <2>4, <2>5
<1> QED  BY <1>1, <1>2, <1>3 DEF OpenList

LEMMA OpenMediaStep ==
  ASSUME NEW k, NEW m, Holds(k, m), NEW e \in Entries \ Dirs, NEW r \in OpenMedia(k, m, e)
  PROVE  /\ Kept(m, r.k, r.m)
         /\ e \in Paths \cup Lists => InView(m, r.m)
         /\ e \notin Paths \cup Lists /\ Away(k, m) => Away(r.k, r.m)
<1>0. (Paths \cup Lists) \cap (Tapes \cup Indexes) = {}
  BY MenuAssumption
<1>1. CASE e \in Tapes \cup Indexes
  <2>1. e \notin Paths \cup Lists
    BY <1>0, <1>1
  <2>2. r \in LoadTape(k, m) \/ r \in LoadIndex(k, m)
    BY <1>1, <2>1 DEF OpenMedia
  <2> QED  BY <2>1, <2>2, LoadTapeStep, LoadIndexStep
<1>2. CASE e \notin Tapes \cup Indexes /\ e \in Lists
  BY <1>2, OpenListStep DEF OpenMedia
<1>3. CASE e \notin Tapes \cup Indexes \cup Lists
  <2>1. e \in Paths
    BY <1>3 DEF Entries
  <2>2. r \in And(Activate(k, m, e), LAMBDA j, n : {Result(TRUE, j, InFliplist(Added(n, e)))})
    BY <1>3 DEF OpenMedia
  <2>3. PICK a \in Activate(k, m, e) :
          r \in IF a.ok THEN {Result(TRUE, a.k, InFliplist(Added(a.m, e)))} ELSE {a}
    BY <2>2 DEF And
  <2>4. /\ Sound(a.k)
        /\ a.ok => a.m = Activated(m, e) /\ Holds(a.k, a.m)
        /\ ~a.ok => a.m = Told(m) /\ SameOrGone(k, a.k)
    BY <2>1, <2>3, ActivateStep
  <2>5. CASE ~a.ok
    BY <2>1, <2>3, <2>4, <2>5, RefusedKept
  <2>6. CASE a.ok
    <3>1. r.k = a.k /\ r.m = InFliplist(Added(a.m, e))
      BY <2>3, <2>6 DEF Result
    <3>2. a.m.mounted = e
      BY <2>1, <2>4, <2>6, ActivatedTyped DEF Holds
    <3>3. /\ Holds(a.k, Added(a.m, e)) /\ Added(a.m, e).flip # <<>>
          /\ Added(a.m, e).listMode \/ Added(a.m, e).flip = <<Added(a.m, e).mounted>>
      BY <2>1, <2>4, <2>6, <3>2, AddedStep
    <3> QED  BY <2>1, <3>1, <3>3, InFliplistStep DEF Kept, InView
  <2> QED  BY <2>5, <2>6
<1> QED  BY <1>1, <1>2, <1>3

LEMMA OpenHostMediaStep ==
  ASSUME NEW k, NEW m, Holds(k, m), NEW e \in Paths \cup Lists, NEW r \in OpenHostMedia(k, m, e)
  PROVE  Kept(m, r.k, r.m) /\ InView(m, r.m)
<1>0. e \in Entries \ Dirs /\ Up[e] \in Dirs
  BY MenuAssumption DEF Entries
<1>1. PICK u \in OpenMedia(k, m, e) :
         r \in IF u.ok
               THEN {Result(c.ok, c.k, Clamp([c.m EXCEPT !.cursor = u.m.cursor,
                                                         !.offset = u.m.offset])) :
                     c \in ChangeDirectory(u.k, [u.m EXCEPT !.message = FALSE], Up[e])}
               ELSE {u}
  BY DEF OpenHostMedia, And
<1>2. Kept(m, u.k, u.m) /\ InView(m, u.m)
  BY <1>0, <1>1, OpenMediaStep
<1>3. CASE ~u.ok
  BY <1>1, <1>2, <1>3
<1>4. CASE u.ok
  <2> DEFINE n == [u.m EXCEPT !.message = FALSE]
  <2>1. n \in Menus /\ Beside(u.m, n)
    BY <1>2 DEF Kept, Holds, Menus, Beside
  <2>2. PICK c \in ChangeDirectory(u.k, n, Up[e]) :
          r = Result(c.ok, c.k, Clamp([c.m EXCEPT !.cursor = u.m.cursor, !.offset = u.m.offset]))
    BY <1>1, <1>4
  <2> HIDE DEF n
  <2>3. c.k = u.k /\ c.m \in Menus /\ Beside(n, c.m)
    BY <1>0, <2>1, <2>2, DirectoryStep
  <2> DEFINE d == [c.m EXCEPT !.cursor = u.m.cursor, !.offset = u.m.offset]
  <2>4. d \in Menus /\ Beside(c.m, d)
    <3>1. u.m.cursor \in Nat /\ u.m.offset \in Nat
      BY <1>2 DEF Kept, Holds, Menus
    <3> QED  BY <2>3, <3>1 DEF Menus, Beside
  <2>5. r.k = u.k /\ r.m = Clamp(d)
    BY <2>2, <2>3 DEF Result
  <2> HIDE DEF d
  <2>6. Beside(u.m, d)
    BY <2>1, <2>3, <2>4 DEF Beside
  <2>7. Kept(m, u.k, d)
    BY <1>2, <2>4, <2>6, BesideKeeps DEF Kept
  <2> QED  BY <2>5, <2>7, ClampKept
<1> QED  BY <1>3, <1>4

LEMMA ToggleStep ==
  ASSUME NEW k, NEW m, Holds(k, m), NEW p \in Paths, m.view = "Browser"
  PROVE  Kept(m, k, Toggle(m, p)) /\ (Away(k, m) => Away(k, Toggle(m, p)))
<1> DEFINE i == CHOOSE i \in DOMAIN m.flip : m.flip[i] = p
           flip == IF p \in ToSet(m.flip) THEN RemoveAt(m.flip, i) ELSE Append(m.flip, p)
           mode == flip # <<>>
           n == [m EXCEPT !.flip = flip, !.listMode = mode]
<1>0. m \in Menus /\ m.flip \in Seq(Paths)
  BY DEF Holds, Menus
<1>1. flip \in Seq(Paths) /\ mode \in BOOLEAN
  <2>1. CASE p \in ToSet(m.flip)
    <3>1. \E x \in DOMAIN m.flip : m.flip[x] = p
      BY <2>1 DEF ToSet
    <3>2. i \in 1 .. Len(m.flip)
      BY <1>0, <3>1
    <3> HIDE DEF i
    <3>3. SubSeq(m.flip, 1, i - 1) \in Seq(Paths) /\ SubSeq(m.flip, i + 1, Len(m.flip)) \in Seq(Paths)
      BY <1>0, <3>2
    <3>4. \A s, t \in Seq(Paths) : s \o t \in Seq(Paths)
      OBVIOUS
    <3> QED  BY <2>1, <3>3, <3>4 DEF RemoveAt
  <2>2. CASE p \notin ToSet(m.flip)
    BY <1>0, <2>2
  <2> QED  BY <2>1, <2>2
<1>2. Toggle(m, p) = n
  BY DEF Toggle
<1>3. mode = TRUE <=> flip # <<>>
  OBVIOUS
<1> HIDE DEF flip, mode
<1>4. /\ n \in Menus /\ n.flip = flip /\ n.listMode = mode /\ n.view = m.view
      /\ n.mounted = m.mounted /\ n.tapeFilter = m.tapeFilter /\ n.back = m.back
      /\ n.history = m.history
  BY <1>0, <1>1 DEF Menus
<1> HIDE DEF n
<1>5. Holds(k, n) /\ (Away(k, m) => Away(k, n))
  BY <1>4 DEF Holds, Shows, TapeReturn, Away, Avoids
<1>6. Fits(n)
  BY <1>1, <1>3, <1>4 DEF Fits
<1> QED  BY <1>2, <1>5, <1>6 DEF Kept

LEMMA DisableListStep ==
  ASSUME NEW k, NEW m, Holds(k, m)
  PROVE  /\ Kept(m, k, DisableList(m)) /\ InView(m, DisableList(m))
         /\ Away(k, m) => Away(k, DisableList(m))
<1> DEFINE n == [m EXCEPT !.flip = <<>>, !.listMode = FALSE]
           top == [view |-> "Browser", cursor |-> 1, offset |-> 0]
           w == IF m.view = "Fliplist" THEN At(n, top) ELSE n
<1>0. m \in Menus
  BY DEF Holds
<1>1. /\ n \in Menus /\ n.flip = <<>> /\ n.listMode = FALSE /\ n.view = m.view
      /\ n.mounted = m.mounted /\ n.tapeFilter = m.tapeFilter /\ n.back = m.back
      /\ n.history = m.history
  <2>1. <<>> \in Seq(Paths)
    OBVIOUS
  <2> QED  BY <1>0, <2>1 DEF Menus
<1>2. top \in Positions /\ top.view = "Browser"
  BY DEF Positions, Views
<1>3. DisableList(m) = Clamp(w)
  BY DEF DisableList, AtTop
<1> HIDE DEF n, top
<1>4. w \in Menus /\ Around(n, w) /\ w.view # "Fliplist"
  <2>1. CASE m.view = "Fliplist"
    BY <1>1, <1>2, <2>1, AtTyped DEF Position
  <2>2. CASE m.view # "Fliplist"
    BY <1>1, <2>2 DEF Around
  <2> QED  BY <2>1, <2>2
<1> HIDE DEF w
<1>5. Holds(k, w) /\ Fits(w) /\ (Away(k, m) => Away(k, w))
  BY <1>1, <1>4 DEF Holds, Shows, TapeReturn, Fits, Away, Avoids, Around
<1> QED  BY <1>3, <1>5, ClampKept DEF Kept

-----------------------------------------------------------------------------
(* Back().                                                                 *)

LEMMA ActivatedFits ==
  ASSUME NEW m \in Menus, NEW i \in 1 .. Len(m.flip)
  PROVE  m.flip[i] \in Paths /\ (Fits(m) => Fits(Activated(m, m.flip[i])))
<1> DEFINE p == m.flip[i]
<1>0. m.flip \in Seq(Paths)
  BY DEF Menus
<1>1. p \in Paths
  BY <1>0
<1>2. m.flip = <<m.mounted>> => p = m.mounted
  <2>1. m.flip = <<m.mounted>> => i = 1
    BY <1>0
  <2> QED  BY <2>1
<1>3. m.flip # <<>>
  BY <1>0
<1> HIDE DEF p
<1>4. Fits(m) => Fits(Activated(m, p))
  BY <1>1, <1>2, <1>3, ActivatedTyped DEF Fits
<1> QED  BY <1>1, <1>4 DEF p

(* From the browser at the root to where it was opened from.               *)
LEMMA ThereStep ==
  ASSUME NEW k, NEW m, Holds(k, m), NEW p \in Positions,
         p.view = "Fliplist" => m.flip # <<>>
  PROVE  LET n == Clamp([At(m, p) EXCEPT !.back = NoReturn, !.tapeFilter = FALSE])
         IN /\ Kept(m, k, n) /\ FlipRow(n) /\ Drawn(n)
            /\ p.view # "Fliplist" /\ Away(k, m) => Away(k, n)
<1> DEFINE w == At(m, p)
           b == [w EXCEPT !.back = NoReturn, !.tapeFilter = FALSE]
<1>0. m \in Menus
  BY DEF Holds
<1>1. w \in Menus /\ Around(m, w) /\ w.view = p.view
  BY <1>0, AtTyped DEF Position
<1> HIDE DEF w
<1>2. /\ b \in Menus /\ b.view = w.view /\ b.flip = w.flip /\ b.listMode = w.listMode
      /\ b.mounted = w.mounted /\ b.history = w.history /\ b.tapeFilter = FALSE
      /\ b.back = NoReturn
  BY <1>1 DEF Menus
<1> HIDE DEF b
<1>3. Holds(k, b) /\ (Fits(m) => Fits(b)) /\ (p.view # "Fliplist" /\ Away(k, m) => Away(k, b))
  BY <1>1, <1>2 DEF Holds, Shows, TapeReturn, Fits, Away, Avoids, NoReturn, Around
<1>4. Kept(m, k, b)
  BY <1>3 DEF Kept
<1>5. /\ Kept(m, k, Clamp(b)) /\ FlipRow(Clamp(b)) /\ Drawn(Clamp(b))
      /\ p.view # "Fliplist" /\ Away(k, m) => Away(k, Clamp(b))
  BY <1>2, <1>3, <1>4, ClampKept, ClampStep DEF Drawn
<1> QED  BY <1>5 DEF b, w

LEMMA ReturnStep ==
  ASSUME NEW k, NEW m, Holds(k, m), NEW r \in Return(k, m)
  PROVE  /\ Kept(m, r.k, r.m) /\ InView(m, r.m)
         /\ Away(k, m) => Away(r.k, r.m)
<1> DEFINE p == m.back
           there(n) == Clamp([At(n, p) EXCEPT !.back = NoReturn, !.tapeFilter = FALSE])
<1>0. m \in Menus /\ m.flip \in Seq(Paths) /\ p \in Positions \cup {NoReturn}
  BY DEF Holds, Menus
<1>1. CASE p = NoReturn
  <2>1. r = Result(TRUE, k, m)
    BY <1>1 DEF Return
  <2> QED  BY <2>1 DEF Result, Kept, InView
<1>2. CASE p # NoReturn /\ p.view # "Fliplist"
  <2>1. r = Result(TRUE, k, there(m))
    BY <1>2 DEF Return
  <2>2. p \in Positions
    BY <1>0, <1>2
  <2>3. /\ Kept(m, k, there(m)) /\ FlipRow(there(m)) /\ Drawn(there(m))
        /\ Away(k, m) => Away(k, there(m))
    BY <1>2, <2>2, ThereStep
  <2> HIDE DEF there
  <2> QED  BY <2>1, <2>3 DEF Result, InView
<1>3. CASE p # NoReturn /\ p.view = "Fliplist" /\ m.flip = <<>>
  <2> DEFINE n == [m EXCEPT !.back = NoReturn]
  <2>1. r = Result(TRUE, k, n)
    BY <1>3 DEF Return
  <2>2. /\ n \in Menus /\ n.view = m.view /\ n.flip = m.flip /\ n.listMode = m.listMode
        /\ n.mounted = m.mounted /\ n.history = m.history /\ n.cursor = m.cursor
        /\ n.offset = m.offset /\ n.shown = m.shown /\ n.tape = m.tape
        /\ n.tapeFilter = m.tapeFilter /\ n.back = NoReturn /\ n.message = m.message
    BY <1>0 DEF Menus
  <2> HIDE DEF n
  <2>3. Kept(m, k, n) /\ (Away(k, m) => Away(k, n))
    BY <2>2 DEF Kept, Holds, Shows, TapeReturn, Fits, Away, Avoids, NoReturn
  <2>4. InView(m, n)
    <3>1. RowsOf(n) = RowsOf(m)
      BY <2>2, SameRows
    <3> QED  BY <2>2, <3>1 DEF InView, FlipRow, Drawn, OnScreen
  <2> QED  BY <2>1, <2>3, <2>4 DEF Result
<1>4. CASE p # NoReturn /\ p.view = "Fliplist" /\ m.flip # <<>>
  <2> DEFINE selected == IF m.lastMounted \in ToSet(m.flip) THEN m.lastMounted ELSE m.flip[1]
  <2>1. PICK i \in 1 .. Len(m.flip) : selected = m.flip[i]
    <3>1. Len(m.flip) \in Nat /\ Len(m.flip) > 0
      BY <1>0, <1>4
    <3>2. CASE m.lastMounted \in ToSet(m.flip)
      <4>1. \E i \in DOMAIN m.flip : m.flip[i] = m.lastMounted
        BY <3>2 DEF ToSet
      <4> QED  BY <1>0, <3>2, <4>1
    <3>3. CASE m.lastMounted \notin ToSet(m.flip)
      BY <3>1, <3>3
    <3> QED  BY <3>2, <3>3
  <2>2. PICK a \in Activate(k, m, selected) :
          r \in IF a.ok THEN {Result(TRUE, a.k, there(a.m))} ELSE {a}
    BY <1>4 DEF Return, And
  <2> HIDE DEF selected
  <2>3. selected \in Paths /\ (Fits(m) => Fits(Activated(m, selected)))
    BY <1>0, <1>4, <2>1, ActivatedFits
  <2>4. /\ Sound(a.k)
        /\ a.ok => a.m = Activated(m, selected) /\ Holds(a.k, a.m)
        /\ ~a.ok => a.m = Told(m) /\ SameOrGone(k, a.k)
    BY <2>2, <2>3, ActivateStep
  <2>5. CASE ~a.ok
    <3>1. r = a
      BY <2>2, <2>5
    <3> HIDE DEF there
    <3> QED  BY <2>4, <2>5, <3>1, RefusedKept
  <2>6. CASE a.ok
    <3>1. r = Result(TRUE, a.k, there(a.m))
      BY <2>2, <2>6
    <3>2. p \in Positions
      BY <1>0, <1>4
    <3>3. a.m.flip = m.flip
      BY <1>0, <2>3, <2>4, <2>6, ActivatedTyped
    <3>4. Kept(a.m, a.k, there(a.m)) /\ FlipRow(there(a.m)) /\ Drawn(there(a.m))
      BY <1>4, <2>4, <2>6, <3>2, <3>3, ThereStep
    <3>5. ~Away(k, m)
      BY <1>4 DEF Away, Avoids
    <3> HIDE DEF there
    <3> QED  BY <2>3, <2>4, <2>6, <3>1, <3>4, <3>5 DEF Result, Kept, InView
  <2> QED  BY <2>5, <2>6
<1> QED  BY <1>1, <1>2, <1>3, <1>4

LEMMA PopStep ==
  ASSUME NEW k, NEW m, Holds(k, m)
  PROVE  /\ Kept(m, k, Pop(m)) /\ InView(m, Pop(m))
         /\ Away(k, m) => Away(k, Pop(m))
<1> DEFINE h == Front(m.history)
           p == Last(m.history)
           top == [view |-> "Browser", cursor |-> 1, offset |-> 0]
           to == IF p.view = "Fliplist" /\ m.flip = <<>> THEN top ELSE p
           n == [m EXCEPT !.history = h]
           w == At(n, to)
<1>0. m \in Menus /\ m.history \in Seq(Positions)
  BY DEF Holds, Menus
<1>1. CASE m.history = <<>>
  <2>1. Pop(m) = m
    BY <1>1 DEF Pop
  <2> QED  BY <2>1 DEF Kept, InView
<1>2. CASE m.history # <<>>
  <2>1. /\ h \in Seq(Positions) /\ p \in Positions
        /\ Len(h) = Len(m.history) - 1 /\ Len(m.history) \in Nat /\ Len(m.history) > 0
        /\ \A i \in 1 .. Len(h) : h[i] = m.history[i]
        /\ p = m.history[Len(m.history)]
    <3>1. Len(m.history) \in Nat /\ Len(m.history) > 0
      BY <1>0, <1>2
    <3> QED  BY <1>0, <3>1 DEF Front, Last
  <2>2. top \in Positions /\ top.view = "Browser"
    BY DEF Positions, Views
  <2>3. Pop(m) = Clamp(w)
    BY <1>2 DEF Pop, AtTop
  <2> HIDE DEF top, h, p
  <2>4. to \in Positions /\ (to.view = "Fliplist" => p.view = "Fliplist" /\ m.flip # <<>>)
    BY <2>1, <2>2
  <2> HIDE DEF to
  <2>5. /\ n \in Menus /\ n.flip = m.flip /\ n.listMode = m.listMode /\ n.mounted = m.mounted
        /\ n.tapeFilter = m.tapeFilter /\ n.back = m.back /\ n.history = h
    BY <1>0, <2>1 DEF Menus
  <2> HIDE DEF n
  <2>6. w \in Menus /\ Around(n, w) /\ w.view = to.view
    BY <2>4, <2>5, AtTyped DEF Position
  <2> HIDE DEF w
  <2>7. Holds(k, w) /\ (Fits(m) => Fits(w))
    BY <2>4, <2>5, <2>6 DEF Holds, Shows, TapeReturn, Fits, Around
  <2>8. Away(k, m) => Away(k, w)
    BY <2>1, <2>4, <2>5, <2>6 DEF Away, Avoids, Around
  <2>9. Kept(m, k, w)
    BY <2>7 DEF Kept
  <2> QED  BY <2>3, <2>8, <2>9, ClampKept
<1> QED  BY <1>1, <1>2

LEMMA BackStep ==
  ASSUME NEW k, NEW m, Holds(k, m), NEW r \in Back(k, m)
  PROVE  /\ Kept(m, r.k, r.m) /\ InView(m, r.m)
         /\ Away(k, m) => Away(r.k, r.m)
<1>0. m \in Menus /\ Up[m.path] \in Dirs
  <2>1. m \in Menus /\ m.path \in Entries
    BY DEF Holds, Menus, Entries
  <2> QED  BY <2>1, MenuAssumption
<1>1. CASE m.view = "Browser" /\ r \in ChangeDirectory(k, m, Up[m.path])
  <2>1. /\ r.k = k /\ r.m \in Menus /\ Beside(m, r.m) /\ FlipRow(r.m) /\ Drawn(r.m)
    BY <1>0, <1>1, DirectoryStep
  <2> QED  BY <2>1, BesideKeeps DEF Kept, InView
<1>2. CASE r \in Return(k, m)
  BY <1>2, ReturnStep
<1>3. CASE r \in Browse(k, m, FALSE, FALSE)
  BY <1>3, BrowseStep DEF Kept, InView
<1>4. CASE r = Result(TRUE, k, Pop(m))
  BY <1>4, PopStep DEF Result
<1>5. CASE m.view = "Notice" /\ r = Result(TRUE, k, Pop([m EXCEPT !.message = FALSE]))
  <2> DEFINE n == [m EXCEPT !.message = FALSE]
  <2>1. n \in Menus /\ Beside(m, n) /\ n.cursor = m.cursor /\ n.offset = m.offset
        /\ n.shown = m.shown
    BY <1>0 DEF Menus, Beside
  <2> HIDE DEF n
  <2>2. Holds(k, n) /\ (Fits(m) => Fits(n)) /\ (Away(k, m) => Away(k, n))
    BY <2>1, BesideKeeps
  <2>3. (FlipRow(m) => FlipRow(n)) /\ (Drawn(m) => Drawn(n))
    <3>1. RowsOf(n) = RowsOf(m)
      BY <2>1, SameRows DEF Beside
    <3> QED  BY <1>5, <2>1, <3>1 DEF FlipRow, Drawn, OnScreen, Beside
  <2>4. r.k = k /\ r.m = Pop(n)
    BY <1>5 DEF Result, n
  <2> QED  BY <2>2, <2>3, <2>4, PopStep DEF Kept, InView
<1> QED  BY <1>1, <1>2, <1>3, <1>4, <1>5 DEF Back

-----------------------------------------------------------------------------
(* Select() and Input().                                                   *)

LEMMA OnFileStep ==
  ASSUME NEW k, NEW m, Holds(k, m), OnScreen(m), m.view = "Browser", m.cursor # 0,
         NEW r \in OnFile(k, m)
  PROVE  Kept(m, r.k, r.m) /\ (~Chooses(m) /\ Away(k, m) => Away(r.k, r.m))
<1> DEFINE e == FilesOf(m)[m.cursor]
<1>0. m \in Menus /\ m.cursor \in Nat /\ FilesOf(m) \in Seq(Entries)
  BY FilesTyped DEF Holds, Menus
<1>1. m.cursor \in 1 .. Len(FilesOf(m))
  <2>1. m.cursor < Len(FilesOf(m)) + 1 /\ Len(FilesOf(m)) \in Nat
    BY <1>0, RowsTyped DEF OnScreen
  <2> QED  BY <1>0, <2>1
<1>2. e \in Entries /\ RowAt(m) = e
  BY <1>0, <1>1, RowsTyped DEF RowAt
<1>3. r \in IF e \in Dirs THEN ChangeDirectory(k, m, e) ELSE OpenMedia(k, m, e)
  BY DEF OnFile
<1> HIDE DEF e
<1>4. CASE e \in Dirs
  <2>1. r.k = k /\ r.m \in Menus /\ Beside(m, r.m)
    BY <1>0, <1>3, <1>4, DirectoryStep
  <2> QED  BY <2>1, BesideKeeps DEF Kept
<1>5. CASE e \notin Dirs
  <2>1. r \in OpenMedia(k, m, e) /\ e \in Entries \ Dirs
    BY <1>2, <1>3, <1>5
  <2> QED  BY <1>2, <2>1, OpenMediaStep DEF Chooses
<1> QED  BY <1>4, <1>5

LEMMA OnDeviceStep ==
  ASSUME NEW k, NEW m, Holds(k, m), OnScreen(m), m.view = "Device", m.cursor # 0,
         NEW r \in OnDevice(k, m)
  PROVE  Kept(m, r.k, r.m) /\ (Away(k, m) => Away(r.k, r.m))
<1>0. m \in Menus /\ m.cursor \in Nat
  BY DEF Holds, Menus
<1>1. RowAt(m) \in {"ClearList", "Browser", "Tape", "Reboot"}
  <2>1. m.cursor < Len(RowsOf(m))
    BY DEF OnScreen
  <2>2. CASE RowsOf(m) = <<"Parent", "Browser", "Tape", "Reboot">>
    <3>1. m.cursor \in {1, 2, 3}
      BY <1>0, <2>1, <2>2
    <3> QED  BY <2>2, <3>1 DEF RowAt
  <2>3. CASE RowsOf(m) = <<"Parent", "ClearList", "Browser", "Tape", "Reboot">>
    <3>1. m.cursor \in {1, 2, 3, 4}
      BY <1>0, <2>1, <2>3
    <3> QED  BY <2>3, <3>1 DEF RowAt
  <2> QED  BY <2>2, <2>3 DEF RowsOf
<1>2. CASE RowAt(m) = "ClearList"
  <2>1. PICK c \in Clear(k, m) : r = Result(c.ok, c.k, Clamp([c.m EXCEPT !.cursor = 1]))
    BY <1>2 DEF OnDevice
  <2>2. /\ Holds(c.k, c.m) /\ (Fits(m) => Fits(c.m)) /\ (Away(k, m) => Away(c.k, c.m))
    BY <2>1, ClearStep
  <2> DEFINE n == [c.m EXCEPT !.cursor = 1]
  <2>3. n \in Menus /\ Beside(c.m, n)
    BY <2>2 DEF Holds, Menus, Beside
  <2>4. r.k = c.k /\ r.m = Clamp(n)
    BY <2>1 DEF Result
  <2> HIDE DEF n
  <2>5. Kept(m, c.k, n) /\ (Away(k, m) => Away(c.k, n))
    BY <2>2, <2>3, BesideKeeps DEF Kept
  <2> QED  BY <2>4, <2>5, ClampKept
<1>3. CASE RowAt(m) = "Browser"
  <2>1. PICK c \in Clear(k, m) : r \in Browse(c.k, c.m, TRUE, FALSE)
    BY <1>3 DEF OnDevice
  <2>2. /\ Holds(c.k, c.m) /\ (Fits(m) => Fits(c.m)) /\ (Away(k, m) => Away(c.k, c.m))
    BY <2>1, ClearStep
  <2>3. /\ Holds(r.k, r.m) /\ (Fits(c.m) => Fits(r.m)) /\ (Away(c.k, c.m) => Away(r.k, r.m))
    BY <2>1, <2>2, BrowseStep
  <2> QED  BY <2>2, <2>3 DEF Kept
<1>4. CASE RowAt(m) \in {"Tape", "Reboot"}
  <2>1. r = Result(TRUE, k, Open(m, RowAt(m)))
    BY <1>4 DEF OnDevice
  <2>2. RowAt(m) \in Views \ {"Fliplist"}
    BY <1>4 DEF Views
  <2> QED  BY <2>1, <2>2, OpenStep DEF Result
<1> QED  BY <1>1, <1>2, <1>3, <1>4

LEMMA OnTapeStep ==
  ASSUME NEW k, NEW m, Holds(k, m), OnScreen(m), m.view = "Tape", m.cursor # 0,
         NEW r \in OnTape(k, m)
  PROVE  Kept(m, r.k, r.m) /\ (Away(k, m) => Away(r.k, r.m))
<1>0. m \in Menus /\ m.cursor \in Nat
  BY DEF Holds, Menus
<1>1. RowAt(m) \in {"LoadTAP", "GoToFile", "EjectTAP"}
  <2>1. m.cursor < Len(RowsOf(m))
    BY DEF OnScreen
  <2>2. CASE RowsOf(m) = <<"Parent", "GoToFile", "EjectTAP">>
    <3>1. m.cursor \in {1, 2}
      BY <1>0, <2>1, <2>2
    <3> QED  BY <2>2, <3>1 DEF RowAt
  <2>3. CASE RowsOf(m) = <<"Parent", "LoadTAP">>
    <3>1. m.cursor = 1
      BY <1>0, <2>1, <2>3
    <3> QED  BY <2>3, <3>1 DEF RowAt
  <2> QED  BY <2>2, <2>3 DEF RowsOf
<1>2. CASE RowAt(m) = "LoadTAP"
  <2>1. r \in Browse(k, m, FALSE, TRUE)
    BY <1>2 DEF OnTape
  <2> QED  BY <2>1, BrowseStep DEF Kept
<1>3. CASE RowAt(m) = "GoToFile"
  <2>1. r = Result(TRUE, k, Open(m, "TapeIndex"))
    BY <1>3 DEF OnTape
  <2>2. "TapeIndex" \in Views \ {"Fliplist"}
    BY DEF Views
  <2> QED  BY <2>1, <2>2, OpenStep DEF Result
<1>4. CASE RowAt(m) = "EjectTAP"
  <2> DEFINE n == [m EXCEPT !.tape = FALSE]
  <2>1. r = Result(TRUE, k, n) \/ r = Result(FALSE, k, Told(m))
    BY <1>4 DEF OnTape
  <2>2. /\ n \in Menus /\ n.view = m.view /\ n.flip = m.flip /\ n.listMode = m.listMode
        /\ n.mounted = m.mounted /\ n.tapeFilter = m.tapeFilter /\ n.back = m.back
        /\ n.history = m.history
    BY <1>0 DEF Menus
  <2> HIDE DEF n
  <2>3. Kept(m, k, n) /\ (Away(k, m) => Away(k, n))
    BY <2>2 DEF Kept, Holds, Shows, TapeReturn, Fits, Away, Avoids
  <2> QED  BY <2>1, <2>3, ToldKept DEF Result
<1> QED  BY <1>1, <1>2, <1>3, <1>4

LEMMA SelectStep ==
  ASSUME NEW k, NEW m, Holds(k, m), OnScreen(m), NEW r \in Select(k, m)
  PROVE  Kept(m, r.k, r.m) /\ (~Chooses(m) /\ Away(k, m) => Away(r.k, r.m))
<1>1. CASE r = Result(TRUE, k, Open(m, "Device"))
  <2>1. "Device" \in Views \ {"Fliplist"}
    BY DEF Views
  <2> QED  BY <1>1, <2>1, OpenStep DEF Result
<1>2. CASE r \in Back(k, m)
  BY <1>2, BackStep
<1>3. CASE m.cursor # 0 /\ m.view = "Browser" /\ r \in OnFile(k, m)
  BY <1>3, OnFileStep
<1>4. CASE m.cursor # 0 /\ m.view = "Fliplist" /\ r \in Browse(k, m, FALSE, FALSE)
  BY <1>4, BrowseStep DEF Kept
<1>5. CASE m.cursor # 0 /\ m.view = "Device" /\ r \in OnDevice(k, m)
  BY <1>5, OnDeviceStep
<1>6. CASE m.cursor # 0 /\ m.view = "Tape" /\ r \in OnTape(k, m)
  BY <1>6, OnTapeStep
<1>7. CASE r \in OnTapeIndex(k, m)
  BY <1>7, BackStep, ToldKept DEF OnTapeIndex, Result
<1> QED  BY <1>1, <1>2, <1>3, <1>4, <1>5, <1>6, <1>7 DEF Select

LEMMA OnInsertStep ==
  ASSUME NEW k, NEW m, Holds(k, m), NEW r \in OnInsert(k, m)
  PROVE  Kept(m, r.k, r.m) /\ (Away(k, m) => Away(r.k, r.m))
<1>0. m \in Menus /\ FilesOf(m) \in Seq(Entries) /\ m.cursor \in Nat
  BY FilesTyped DEF Holds, Menus
<1>1. CASE r = Result(TRUE, k, Open(m, "Device"))
  <2>1. "Device" \in Views \ {"Fliplist"}
    BY DEF Views
  <2> QED  BY <1>1, <2>1, OpenStep DEF Result
<1>2. ASSUME m.view = "Browser", NEW e \in Paths, r = Result(TRUE, k, Toggle(m, e))
      PROVE  Kept(m, r.k, r.m) /\ (Away(k, m) => Away(r.k, r.m))
  BY <1>2, ToggleStep DEF Result
<1>3. ASSUME NEW e \in Dirs, r \in ChangeDirectory(k, m, e)
      PROVE  Kept(m, r.k, r.m) /\ (Away(k, m) => Away(r.k, r.m))
  <2>1. r.k = k /\ r.m \in Menus /\ Beside(m, r.m)
    BY <1>0, <1>3, DirectoryStep
  <2> QED  BY <2>1, BesideKeeps DEF Kept
<1>4. CASE r \in LoadTape(k, m)
  BY <1>4, LoadTapeStep
<1>5. CASE r = Result(TRUE, k, m)
  BY <1>5 DEF Result, Kept
<1>6. CASE m.view = "Fliplist" /\ r \in Browse(k, [m EXCEPT !.listMode = TRUE], FALSE, FALSE)
  <2> DEFINE n == [m EXCEPT !.listMode = TRUE]
  <2>1. /\ n \in Menus /\ n.view = m.view /\ n.flip = m.flip /\ n.mounted = m.mounted
        /\ n.tapeFilter = m.tapeFilter /\ n.back = m.back /\ n.listMode = TRUE
    BY <1>0 DEF Menus
  <2>2. r \in Browse(k, n, FALSE, FALSE)
    BY <1>6
  <2> HIDE DEF n
  <2>3. Holds(k, n) /\ (Fits(m) => Fits(n))
    BY <1>6, <2>1 DEF Holds, Shows, TapeReturn, Fits, Menus
  <2>4. Holds(r.k, r.m) /\ (Fits(n) => Fits(r.m))
    BY <2>2, <2>3, BrowseStep
  <2>5. ~Away(k, m)
    BY <1>6 DEF Away, Avoids
  <2> QED  BY <2>3, <2>4, <2>5 DEF Kept
<1>7. CASE m.view = "Browser"
  <2>1. CASE m.cursor = 0
    BY <1>1, <1>7, <2>1 DEF OnInsert
  <2>2. CASE m.cursor # 0
    <3>1. PICK e : r \in OnEntry(k, m, e)
      BY <1>7, <2>2 DEF OnInsert
    <3>2. \/ e \in Paths /\ r = Result(TRUE, k, Toggle(m, e))
          \/ e \in Dirs /\ r \in ChangeDirectory(k, m, e)
          \/ r \in LoadTape(k, m)
          \/ r = Result(TRUE, k, m)
      BY <3>1 DEF OnEntry
    <3> QED  BY <1>2, <1>3, <1>4, <1>5, <1>7, <3>2
  <2> QED  BY <2>1, <2>2
<1> QED  BY <1>5, <1>6, <1>7 DEF OnInsert

(* The encoder mounts the row that it comes to in Fliplist.                *)
LEMMA OnTurnStep ==
  ASSUME NEW k, NEW m, Holds(k, m), FlipRow(m), NEW right \in BOOLEAN,
         NEW r \in OnTurn(k, m, right)
  PROVE  /\ Kept(m, r.k, r.m) /\ InView(m, r.m)
         /\ Away(k, m) => Away(r.k, r.m)
<1> DEFINE n == Len(RowsOf(m))
           c == IF right THEN IF m.cursor < n - 1 THEN m.cursor + 1
                              ELSE IF m.view = "Fliplist" THEN 1 ELSE m.cursor
                ELSE IF m.cursor > 0 THEN m.cursor - 1 ELSE 0
           moved == [m EXCEPT !.cursor = c]
<1>0. m \in Menus /\ m.cursor \in Nat /\ m.flip \in Seq(Paths)
  BY DEF Holds, Menus
<1>1. /\ n \in Nat /\ (m.view = "Fliplist" => n = Len(m.flip) + 1)
      /\ Len(m.flip) \in Nat /\ (m.flip # <<>> => Len(m.flip) > 0)
  BY <1>0, RowsTyped
<1>2. \/ m.view = "Fliplist" /\ m.flip = <<>> /\ r \in Browse(k, m, FALSE, FALSE)
      \/ /\ m.view = "Fliplist" /\ m.flip # <<>> /\ c # 0
         /\ r \in {Result(q.ok, q.k, Clamp(q.m)) : q \in Activate(k, moved, m.flip[c])}
      \/ r = Result(TRUE, k, Clamp(moved))
  BY DEF OnTurn
<1> HIDE DEF n
<1>3. c \in Nat
  BY <1>0, <1>1
<1>4. m.view = "Fliplist" /\ m.flip # <<>> /\ c # 0 => c \in 1 .. Len(m.flip)
  BY <1>0, <1>1 DEF FlipRow
<1> HIDE DEF c
<1>5. /\ moved \in Menus /\ Beside(m, moved)
  BY <1>0, <1>3 DEF Menus, Beside
<1> HIDE DEF moved
<1>6. Kept(m, k, moved) /\ (Away(k, m) => Away(k, moved))
  BY <1>5, BesideKeeps DEF Kept
<1>7. CASE r \in Browse(k, m, FALSE, FALSE)
  BY <1>7, BrowseStep DEF Kept, InView
<1>8. CASE r = Result(TRUE, k, Clamp(moved))
  BY <1>6, <1>8, ClampKept DEF Result
<1>9. CASE /\ m.view = "Fliplist" /\ m.flip # <<>> /\ c # 0
           /\ r \in {Result(q.ok, q.k, Clamp(q.m)) : q \in Activate(k, moved, m.flip[c])}
  <2>1. c \in 1 .. Len(moved.flip) /\ moved.flip = m.flip /\ moved.flip # <<>>
    BY <1>4, <1>5, <1>9 DEF Beside
  <2>2. PICK q \in Activate(k, moved, moved.flip[c]) : r = Result(q.ok, q.k, Clamp(q.m))
    BY <1>9, <2>1
  <2>3. /\ moved.flip[c] \in Paths
        /\ Fits(moved) => Fits(Activated(moved, moved.flip[c]))
    BY <1>5, <2>1, ActivatedFits
  <2>4. /\ Sound(q.k)
        /\ q.ok => q.m = Activated(moved, moved.flip[c]) /\ Holds(q.k, q.m)
        /\ ~q.ok => q.m = Told(moved) /\ SameOrGone(k, q.k)
    BY <1>6, <2>2, <2>3, ActivateStep DEF Kept
  <2>5. Kept(m, q.k, q.m)
    <3>1. CASE q.ok
      BY <1>6, <2>3, <2>4, <3>1 DEF Kept
    <3>2. CASE ~q.ok
      BY <1>6, <2>4, <3>2, RefusedKept DEF Kept
    <3> QED  BY <3>1, <3>2
  <2>6. ~Away(k, m)
    BY <1>9 DEF Away, Avoids
  <2>7. r.k = q.k /\ r.m = Clamp(q.m)
    BY <2>2 DEF Result
  <2> QED  BY <2>5, <2>6, <2>7, ClampKept
<1> QED  BY <1>2, <1>7, <1>8, <1>9

-----------------------------------------------------------------------------
(* What the computer's commands and the restart do to the medium.          *)

LEMMA CdDisk ==
  ASSUME NEW k, Sound(k), NEW p \in Paths, NEW r \in CdMedia(k, p)
  PROVE  Sound(r.k) /\ SameOrGone(k, r.k)
<1> DEFINE named == [k EXCEPT !.mountedPath = p]
           announced == [k EXCEPT !.cbm = NoMount, !.mountedPath = p]
<1>0. Sound(r.k)
  BY CdStep
<1>1. CASE r \in CbmMount(named, p)
  <2>1. /\ named \in Kernel /\ named.card = k.card /\ named.caddy = k.caddy
        /\ named.drive = k.drive /\ named.cbm = k.cbm /\ named.overwritten = k.overwritten
    BY DEF Sound, Kernel
  <2> HIDE DEF named
  <2>2. Sound(named)
    BY <2>1, SameDisk
  <2>3. r.k.caddy = named.caddy
    BY <1>1, <2>2, CbmMountStep
  <2> QED  BY <1>0, <2>1, <2>3 DEF SameOrGone
<1>2. CASE r = Ok(announced)
  <2>1. announced.caddy = k.caddy
    BY DEF Sound, Kernel
  <2> HIDE DEF announced
  <2> QED  BY <1>0, <1>2, <2>1 DEF Ok, SameOrGone
<1> QED  BY <1>1, <1>2 DEF CdMedia

LEMMA RebootedDisk ==
  ASSUME NEW k, Sound(k), NEW r \in Rebooted(k)
  PROVE  /\ r.k.card \in Cards /\ r.k.overwritten \in SUBSET Files
         /\ Sound(r.k) /\ SameOrGone(k, r.k)
<1>1. PICK s \in Then(WriteAll(k), LAMBDA j : {Ok(j), Failed(j)}) :
             r \in IF s.ok THEN Unmount(s.k) ELSE {s}
  BY DEF Rebooted, Then
<1>2. PICK w \in WriteAll(k) : s \in IF w.ok THEN {Ok(w.k), Failed(w.k)} ELSE {w}
  BY <1>1 DEF Then
<1>3. s.k = w.k
  <2>1. s = Ok(w.k) \/ s = Failed(w.k) \/ s = w
    BY <1>2
  <2>2. Ok(w.k).k = w.k /\ Failed(w.k).k = w.k
    BY DEF Ok, Failed
  <2> QED  BY <2>1, <2>2
<1>4. Sound(s.k) /\ SameOrGone(k, s.k)
  BY <1>2, <1>3, WriteAllStep, WrittenDisk
<1>5. CASE s.ok
  <2>1. r \in Unmount(s.k)
    BY <1>1, <1>5
  <2>2. Sound(r.k) /\ SameOrGone(s.k, r.k)
    BY <1>4, <2>1, UnmountDisk
  <2> QED  BY <1>4, <2>2 DEF SameOrGone, Sound, Kernel, Cards
<1>6. CASE ~s.ok
  <2>1. r = s
    BY <1>1, <1>6
  <2> QED  BY <1>4, <2>1 DEF Sound, Kernel, Cards
<1> QED  BY <1>5, <1>6

LEMMA KernelDisk ==
  ASSUME Sound(kernel), newest \in Histories,
         DriveWrite \/ FastRequest \/ FastWrite \/ FastTransferEnds \/ PanelWriteImage
  PROVE  Sound(kernel') /\ newest' \in Histories /\ SameOrGone(kernel, kernel')
<1>1. Sound(kernel') /\ newest' \in Histories
  BY MediaStep DEF MediaInvariant, MediaNext, DriveStep
<1>2. CASE DriveWrite
  <2> DEFINE w == Written(kernel.caddy.content, newest[FileOf[kernel.caddy.path]])
  <2>1. \E odd : kernel' = [kernel EXCEPT !.caddy.content = w, !.caddy.dirty = TRUE,
                                          !.caddy.odd = odd]
    BY <1>2 DEF DriveWrite
  <2> HIDE DEF w
  <2>2. kernel'.caddy.path = kernel.caddy.path
    <3>1. PICK odd : kernel' = [kernel EXCEPT !.caddy.content = w, !.caddy.dirty = TRUE,
                                              !.caddy.odd = odd]
      BY <2>1
    <3>2. kernel'.caddy = [kernel.caddy EXCEPT !.content = w, !.dirty = TRUE, !.odd = odd]
      BY <3>1 DEF Sound, Kernel
    <3> QED  BY <3>2 DEF Sound, Kernel, Disks
  <2>3. kernel.caddy # NoDisk
    <3>1. kernel.drive # 0 /\ kernel.drive = kernel.caddy.id
      BY <1>2 DEF DriveWrite
    <3> QED  BY <3>1 DEF NoDisk
  <2> QED  BY <1>1, <2>2, <2>3 DEF SameOrGone
<1>3. ASSUME NEW r \in FastMounted
      PROVE  Sound(r.k) /\ r.k.caddy = kernel.caddy
  <2> DEFINE j == IF kernel.emulating = "1551" THEN DecodedG64(kernel) ELSE kernel
  <2>1. r \in EnsureImageMode(j)
    BY DEF FastMounted
  <2>2. Sound(j) /\ j.caddy = kernel.caddy
    BY DecodedStep DEF DecodedG64, Sound, Kernel
  <2> HIDE DEF j
  <2>3. CASE r = Ok(j) \/ r = Failed(j)
    BY <2>2, <2>3 DEF Ok, Failed
  <2>4. CASE j.mountedPath # NoPath /\ r \in CbmMount(j, j.mountedPath)
    <3>1. j.mountedPath \in Paths
      BY <2>2, <2>4 DEF Sound, Kernel
    <3> QED  BY <2>2, <2>4, <3>1, CbmMountStep
  <2> QED  BY <2>1, <2>3, <2>4 DEF EnsureImageMode
<1>6. CASE FastRequest
  BY <1>1, <1>3, <1>6 DEF FastRequest, SameOrGone
<1>7. CASE FastWrite
  <2>1. PICK r \in FastMounted :
          \/ kernel' = [r.k EXCEPT !.cbm.open = FALSE]
          \/ kernel' = BlocksWritten(r.k)
          \/ kernel' = [BlocksWritten(r.k) EXCEPT !.cbm = NoMount]
    BY <1>7 DEF FastWrite
  <2>2. Sound(r.k) /\ r.k.caddy = kernel.caddy
    BY <1>3
  <2> DEFINE old == r.k.caddy.stale \/ (r.k.caddy # NoDisk
                                         /\ FileOf[r.k.caddy.path] = FileOf[r.k.cbm.path])
             j == BlocksWritten(r.k)
  <2>3. j.caddy = [kernel.caddy EXCEPT !.stale = old]
    BY <2>2 DEF BlocksWritten, Sound, Kernel
  <2>4. kernel'.caddy = kernel.caddy \/ kernel'.caddy = [kernel.caddy EXCEPT !.stale = old]
    <3>1. CASE kernel' = [r.k EXCEPT !.cbm.open = FALSE]
      BY <2>2, <3>1 DEF Sound, Kernel
    <3>2. CASE kernel' = j \/ kernel' = [j EXCEPT !.cbm = NoMount]
      <4>1. [j EXCEPT !.cbm = NoMount].caddy = j.caddy
        BY DEF BlocksWritten, Sound, Kernel
      <4> HIDE DEF j, old
      <4> QED  BY <2>3, <3>2, <4>1
    <3> QED  BY <2>1, <3>1, <3>2
  <2> HIDE DEF old
  <2>5. kernel'.caddy.path = kernel.caddy.path /\ kernel'.caddy.id = kernel.caddy.id
    BY <2>4 DEF Sound, Kernel, Disks
  <2> QED  BY <1>1, <2>5 DEF SameOrGone, Sound, Inside, NoDisk, Ids
<1>4. CASE FastTransferEnds
  <2>1. kernel'.caddy = kernel.caddy
    BY <1>4 DEF FastTransferEnds, Sound, Kernel
  <2> QED  BY <1>1, <2>1 DEF SameOrGone
<1>5. CASE PanelWriteImage
  <2>1. PICK r \in WriteImage(kernel) : kernel' = r.k
    BY <1>5 DEF PanelWriteImage
  <2>2. CASE r \in Flush(kernel)
    <3>1. OnlyWritten(kernel, kernel')
      BY <2>1, <2>2, FlushStep
    <3> QED  BY <1>1, <3>1, WrittenDisk
  <2>3. CASE r \in CbmSync(kernel) \/ r = Failed(kernel)
    <3>1. r.k = kernel
      BY <2>3 DEF CbmSync, Ok, Failed
    <3> QED  BY <1>1, <2>1, <3>1 DEF SameOrGone
  <2> QED  BY <2>1, <2>2, <2>3 DEF WriteImage
<1> QED  BY <1>2, <1>4, <1>5, <1>6, <1>7

(* The first view, and the medium that is mounted by itself.               *)
LEMMA BootedStep ==
  ASSUME NEW card \in Cards, NEW over \in SUBSET Files, NEW b \in Boot(BootKernel(card, over))
  PROVE  Holds(b.k, b.m) /\ FlipRow(b.m) /\ Fits(b.m) /\ Drawn(b.m)
<1> DEFINE k == BootKernel(card, over)
           m == Clamp(BootMenu)
<1>1. Sound(k) /\ k.caddy = NoDisk
  BY BootStep DEF BootKernel
<1>2. /\ BootMenu \in Menus /\ BootMenu.view = "Browser"
      /\ BootMenu.flip = <<>> /\ BootMenu.listMode = FALSE /\ BootMenu.tapeFilter = FALSE
  <2>1. <<>> \in Seq(Paths) /\ <<>> \in Seq(Positions)
    OBVIOUS
  <2>2. Start \in Dirs
    BY MenuAssumption
  <2> QED  BY <2>1, <2>2 DEF BootMenu, Menus, Views
<1>3. Holds(k, BootMenu) /\ Fits(BootMenu)
  BY <1>1, <1>2 DEF Holds, Shows, TapeReturn, Fits
<1>4. m \in Menus /\ Beside(BootMenu, m) /\ FlipRow(m) /\ Drawn(m)
  BY <1>2, ClampStep DEF Drawn
<1> HIDE DEF k, m
<1>5. Holds(k, m) /\ Fits(m)
  BY <1>3, <1>4, BesideKeeps
<1>6. CASE b = Result(TRUE, k, m)
  BY <1>4, <1>5, <1>6 DEF Result
<1>7. CASE \E e \in AutoMount : b \in OpenHostMedia(k, m, e)
  <2>1. PICK e \in AutoMount : b \in OpenHostMedia(k, m, e)
    BY <1>7
  <2>2. e \in Paths \cup Lists
    BY <2>1, MenuAssumption
  <2>3. Kept(m, b.k, b.m) /\ InView(m, b.m)
    BY <1>5, <2>1, <2>2, OpenHostMediaStep
  <2> QED  BY <1>4, <1>5, <2>3 DEF Kept, InView
<1> QED  BY <1>6, <1>7 DEF Boot, k, m

(* The computer's RESET leaves the views of the history.                   *)
LEMMA ResetPathStep ==
  ASSUME NEW k, NEW m, Holds(k, m), NEW r \in ResetPath(k, m)
  PROVE  /\ Kept(m, r.k, r.m) /\ InView(m, r.m)
         /\ Away(k, m) => Away(r.k, r.m)
<1>0. m \in Menus /\ Start \in Dirs
  BY MenuAssumption DEF Holds
<1>1. PICK c \in ChangeDirectory(k, m, Start) :
        r = Result(TRUE, k,
              Clamp([(IF m.view = "Browser" THEN c.m
                      ELSE [c.m EXCEPT !.cursor = m.cursor, !.offset = m.offset]) EXCEPT
                       !.history = [i \in DOMAIN @ |->
                                      IF @[i].view = "Browser"
                                      THEN [@[i] EXCEPT !.cursor = 1, !.offset = 0] ELSE @[i]]]))
  BY DEF ResetPath
<1>2. c.m \in Menus /\ Beside(m, c.m)
  BY <1>0, <1>1, DirectoryStep
<1> DEFINE w == IF m.view = "Browser" THEN c.m
                ELSE [c.m EXCEPT !.cursor = m.cursor, !.offset = m.offset]
           h == [i \in DOMAIN w.history |->
                   IF w.history[i].view = "Browser"
                   THEN [w.history[i] EXCEPT !.cursor = 1, !.offset = 0] ELSE w.history[i]]
           n == [w EXCEPT !.history = h]
<1>3. w \in Menus /\ Beside(c.m, w)
  <2>1. m.cursor \in Nat /\ m.offset \in Nat
    BY <1>0 DEF Menus
  <2> QED  BY <1>2, <2>1 DEF Menus, Beside
<1>4. r.k = k /\ r.m = Clamp(n)
  BY <1>1 DEF Result
<1> HIDE DEF w
<1>5. /\ h \in Seq(Positions) /\ Len(h) = Len(w.history)
      /\ \A i \in 1 .. Len(h) : h[i].view = w.history[i].view
  <2>1. w.history \in Seq(Positions)
    BY <1>3 DEF Menus
  <2>2. \A i \in 1 .. Len(w.history) : /\ h[i] \in Positions
                                       /\ h[i].view = w.history[i].view
    <3> SUFFICES ASSUME NEW i \in 1 .. Len(w.history)
                 PROVE  h[i] \in Positions /\ h[i].view = w.history[i].view
      OBVIOUS
    <3>1. w.history[i] \in Positions /\ i \in DOMAIN w.history
      BY <2>1
    <3> QED  BY <3>1 DEF Positions
  <2>3. DOMAIN w.history = 1 .. Len(w.history) /\ Len(w.history) \in Nat
    BY <2>1
  <2>4. h \in [1 .. Len(w.history) -> Positions]
    BY <2>2, <2>3
  <2>5. \A i \in 1 .. Len(w.history) : h[i].view = w.history[i].view
    BY <2>2
  <2> HIDE DEF h
  <2>6. \A len \in Nat : \A s \in [1 .. len -> Positions] : s \in Seq(Positions) /\ Len(s) = len
    OBVIOUS
  <2>7. h \in Seq(Positions) /\ Len(h) = Len(w.history)
    BY <2>3, <2>4, <2>6
  <2> QED  BY <2>5, <2>7
<1> HIDE DEF h
<1>6. /\ n \in Menus /\ n.view = w.view /\ n.flip = w.flip /\ n.listMode = w.listMode
      /\ n.mounted = w.mounted /\ n.tapeFilter = w.tapeFilter /\ n.back = w.back
      /\ n.history = h
  BY <1>3, <1>5 DEF Menus
<1> HIDE DEF n
<1>7. Holds(k, w) /\ (Fits(m) => Fits(w)) /\ (Away(k, m) => Away(k, w))
  BY <1>2, <1>3, BesideKeeps
<1>8. Holds(k, n) /\ (Fits(w) => Fits(n)) /\ (Away(k, w) => Away(k, n))
  BY <1>5, <1>6, <1>7 DEF Holds, Shows, TapeReturn, Fits, Away, Avoids
<1> QED  BY <1>4, <1>7, <1>8, ClampKept DEF Kept

-----------------------------------------------------------------------------
(* The actions of the menu.                                                *)

MenuInvariant ==
  /\ Holds(kernel, menu) /\ FlipRow(menu)
  /\ newest \in Histories /\ hostLeft \in BOOLEAN
  /\ hostLeft => Away(kernel, menu)

(* What every step preserves, and what it preserves of the list and of the *)
(* screen besides.                                                         *)
MenuKept ==
  /\ Kept(menu, kernel', menu') /\ InView(menu, menu')
  /\ newest' \in Histories /\ hostLeft' \in BOOLEAN
  /\ hostLeft' => Away(kernel', menu')

LEMMA ClampedMenu ==
  ASSUME MenuInvariant
  PROVE  /\ Holds(kernel, Clamp(menu)) /\ (Fits(menu) => Fits(Clamp(menu)))
         /\ OnScreen(Clamp(menu)) /\ (Away(kernel, menu) => Away(kernel, Clamp(menu)))
<1>1. menu \in Menus
  BY DEF MenuInvariant, Holds
<1> QED  BY <1>1, ClampStep, BesideKeeps DEF MenuInvariant

LEMMA KeyBackStep == MenuInvariant /\ KeyBack => MenuKept
<1> SUFFICES ASSUME MenuInvariant, KeyBack PROVE MenuKept
  OBVIOUS
<1>1. PICK r \in Back(kernel, menu) :
         kernel' = r.k /\ menu' = r.m /\ newest' = newest /\ hostLeft' = hostLeft
  BY DEF KeyBack, Take
<1> QED  BY <1>1, BackStep DEF MenuInvariant, MenuKept

LEMMA KeyInsertStep == MenuInvariant /\ KeyInsert => MenuKept
<1> SUFFICES ASSUME MenuInvariant, KeyInsert PROVE MenuKept
  OBVIOUS
<1>1. PICK q \in Clamped(OnInsert(kernel, menu)) :
         kernel' = q.k /\ menu' = q.m /\ newest' = newest /\ hostLeft' = hostLeft
  BY DEF KeyInsert, Take
<1>2. PICK r \in OnInsert(kernel, menu) : q = Result(r.ok, r.k, Clamp(r.m))
  BY <1>1 DEF Clamped
<1>3. kernel' = r.k /\ menu' = Clamp(r.m)
  BY <1>1, <1>2 DEF Result
<1>4. Kept(menu, r.k, r.m) /\ (Away(kernel, menu) => Away(r.k, r.m))
  BY <1>2, OnInsertStep DEF MenuInvariant
<1> QED  BY <1>1, <1>3, <1>4, ClampKept DEF MenuInvariant, MenuKept

LEMMA KeyTurnStep == MenuInvariant /\ KeyTurn => MenuKept
<1> SUFFICES ASSUME MenuInvariant, KeyTurn PROVE MenuKept
  OBVIOUS
<1>1. PICK right \in BOOLEAN : Take(OnTurn(kernel, menu, right))
  BY DEF KeyTurn
<1>2. PICK r \in OnTurn(kernel, menu, right) :
         kernel' = r.k /\ menu' = r.m /\ newest' = newest
  BY <1>1 DEF Take
<1>3. hostLeft' = (hostLeft /\ menu.view # "Fliplist")
  BY DEF KeyTurn
<1>4. /\ Kept(menu, r.k, r.m) /\ InView(menu, r.m)
      /\ Away(kernel, menu) => Away(r.k, r.m)
  BY <1>2, OnTurnStep DEF MenuInvariant
<1> QED  BY <1>2, <1>3, <1>4 DEF MenuInvariant, MenuKept

LEMMA KeyEnterStep == MenuInvariant /\ KeyEnter => MenuKept
<1> SUFFICES ASSUME MenuInvariant, KeyEnter PROVE MenuKept
  OBVIOUS
<1> DEFINE m == Clamp(menu)
<1>1. PICK q \in Clamped(Select(kernel, m)) :
         kernel' = q.k /\ menu' = q.m /\ newest' = newest
  BY DEF KeyEnter, Take
<1>2. hostLeft' = (hostLeft /\ ~Chooses(m))
  BY DEF KeyEnter
<1>3. PICK r \in Select(kernel, m) : q = Result(r.ok, r.k, Clamp(r.m))
  BY <1>1 DEF Clamped
<1>4. kernel' = r.k /\ menu' = Clamp(r.m)
  BY <1>1, <1>3 DEF Result
<1>5. /\ Holds(kernel, m) /\ (Fits(menu) => Fits(m)) /\ OnScreen(m)
      /\ Away(kernel, menu) => Away(kernel, m)
  BY ClampedMenu
<1> HIDE DEF m
<1>6. Kept(m, r.k, r.m) /\ (~Chooses(m) /\ Away(kernel, m) => Away(r.k, r.m))
  BY <1>3, <1>5, SelectStep
<1>7. Kept(menu, r.k, r.m)
  BY <1>5, <1>6 DEF Kept
<1>8. /\ Kept(menu, r.k, Clamp(r.m)) /\ InView(menu, Clamp(r.m))
      /\ Away(r.k, r.m) => Away(r.k, Clamp(r.m))
  BY <1>7, ClampKept
<1> QED  BY <1>1, <1>2, <1>4, <1>5, <1>6, <1>8 DEF MenuInvariant, MenuKept

LEMMA KeyRebootStep == MenuInvariant /\ KeyReboot => MenuKept
<1> SUFFICES ASSUME MenuInvariant, KeyReboot PROVE MenuKept
  OBVIOUS
<1>0. Holds(kernel, menu) /\ Sound(kernel)
  BY DEF MenuInvariant, Holds
<1>1. PICK r \in Rebooted(kernel) :
         IF r.ok THEN /\ \E b \in Boot(BootKernel(r.k.card, r.k.overwritten)) :
                           kernel' = b.k /\ menu' = b.m
                      /\ hostLeft' = FALSE
         ELSE kernel' = r.k /\ menu' = Told(menu) /\ hostLeft' = hostLeft
  BY DEF KeyReboot
<1>2. newest' = newest
  BY DEF KeyReboot
<1>3. /\ r.k.card \in Cards /\ r.k.overwritten \in SUBSET Files
      /\ Sound(r.k) /\ SameOrGone(kernel, r.k)
  BY <1>0, RebootedDisk
<1>4. CASE r.ok
  <2>1. PICK b \in Boot(BootKernel(r.k.card, r.k.overwritten)) : kernel' = b.k /\ menu' = b.m
    BY <1>1, <1>4
  <2>2. Holds(b.k, b.m) /\ FlipRow(b.m) /\ Fits(b.m) /\ Drawn(b.m)
    BY <1>3, <2>1, BootedStep
  <2>3. hostLeft' = FALSE
    BY <1>1, <1>4
  <2> QED  BY <1>2, <2>1, <2>2, <2>3 DEF MenuInvariant, MenuKept, Kept, InView
<1>5. CASE ~r.ok
  <2>1. /\ Kept(menu, r.k, Told(menu)) /\ InView(menu, Told(menu))
        /\ Away(kernel, menu) => Away(r.k, Told(menu))
    BY <1>0, <1>3, RefusedKept
  <2> QED  BY <1>1, <1>2, <1>5, <2>1 DEF MenuInvariant, MenuKept
<1> QED  BY <1>4, <1>5

LEMMA LeaveStep ==
  ASSUME MenuInvariant, NEW next \in Dirs, Leave(next)
  PROVE  MenuKept
<1>1. PICK r \in ShowHostBrowser(kernel, menu, next) :
         Take({r}) /\ hostLeft' = (hostLeft \/ r.ok)
  BY DEF Leave
<1>2. kernel' = r.k /\ menu' = r.m /\ newest' = newest
  BY <1>1 DEF Take
<1>3. /\ Kept(menu, r.k, r.m) /\ InView(menu, r.m)
      /\ Away(kernel, menu) \/ r.ok => Away(r.k, r.m)
  BY <1>1, ShowHostBrowserStep DEF MenuInvariant
<1>4. hostLeft' \in BOOLEAN
  BY <1>1
<1> QED  BY <1>1, <1>2, <1>3, <1>4 DEF MenuInvariant, MenuKept

(* A medium that the computer has chosen, on a kernel with the same disk.  *)
LEMMA HostMediaStep ==
  ASSUME MenuInvariant, NEW k, Sound(k), SameOrGone(kernel, k), NEW e \in Paths \cup Lists,
         Take(OpenHostMedia(k, menu, e)), hostLeft' = FALSE
  PROVE  MenuKept
<1>1. PICK r \in OpenHostMedia(k, menu, e) : kernel' = r.k /\ menu' = r.m /\ newest' = newest
  BY DEF Take
<1>2. Holds(k, menu)
  BY DEF MenuInvariant, Holds, Shows, SameOrGone
<1>3. Kept(menu, r.k, r.m) /\ InView(menu, r.m)
  BY <1>1, <1>2, OpenHostMediaStep
<1> QED  BY <1>1, <1>3 DEF MenuInvariant, MenuKept

(* The medium or the directory shown is left as it is.                     *)
LEMMA MenuSame ==
  ASSUME MenuInvariant, menu' = menu, Sound(kernel'), SameOrGone(kernel, kernel'),
         newest' \in Histories, hostLeft' = hostLeft \/ hostLeft' = FALSE
  PROVE  MenuKept
<1>1. Holds(kernel', menu) /\ (Away(kernel, menu) => Away(kernel', menu))
  BY DEF MenuInvariant, Holds, Shows, SameOrGone, Away
<1>2. Kept(menu, kernel', menu') /\ InView(menu, menu')
  BY <1>1 DEF Kept, InView
<1>3. Away(kernel, menu) => Away(kernel', menu')
  BY <1>1
<1>4. hostLeft' \in BOOLEAN
  BY DEF MenuInvariant
<1>5. hostLeft' => hostLeft
  BY Zenon
<1> QED  BY <1>2, <1>3, <1>4, <1>5 DEF MenuInvariant, MenuKept

LEMMA HostCdStep == MenuInvariant /\ HostCd => MenuKept
<1> SUFFICES ASSUME MenuInvariant, HostCd PROVE MenuKept
  OBVIOUS
<1>0. Sound(kernel) /\ hostLeft' = FALSE
  BY DEF MenuInvariant, Holds, HostCd
<1>1. PICK p \in Paths : \E r \in CdMedia(kernel, p) :
         Take(IF ~r.ok \/ (Kind[FileOf[p]] \in Container /\ SameMedium(p, menu.mounted))
              THEN {Result(r.ok, r.k, menu)} ELSE OpenHostMedia(r.k, menu, p))
  BY DEF HostCd
<1>2. PICK r \in CdMedia(kernel, p) :
         \/ Take({Result(r.ok, r.k, menu)})
         \/ Take(OpenHostMedia(r.k, menu, p))
  BY <1>1
<1>3. Sound(r.k) /\ SameOrGone(kernel, r.k)
  BY <1>0, CdDisk
<1>4. CASE Take({Result(r.ok, r.k, menu)})
  <2>1. kernel' = r.k /\ menu' = menu /\ newest' = newest
    BY <1>4 DEF Take, Result
  <2> QED  BY <1>0, <1>3, <2>1, MenuSame DEF MenuInvariant
<1>5. CASE Take(OpenHostMedia(r.k, menu, p))
  BY <1>0, <1>3, <1>5, HostMediaStep
<1> QED  BY <1>2, <1>4, <1>5

LEMMA HostRefreshStep == MenuInvariant /\ HostRefresh => MenuKept
<1> SUFFICES ASSUME MenuInvariant, HostRefresh PROVE MenuKept
  OBVIOUS
<1>0. /\ Sound(kernel) /\ menu \in Menus /\ SameOrGone(kernel, kernel)
      /\ Holds(kernel, menu)
  BY DEF MenuInvariant, Holds, SameOrGone
<1>1. CASE /\ kernel.mountedPath # NoPath /\ hostLeft' = FALSE
           /\ Take(OpenHostMedia(kernel, menu, kernel.mountedPath))
  <2>1. kernel.mountedPath \in Paths
    BY <1>0, <1>1 DEF Sound, Kernel
  <2> QED  BY <1>0, <1>1, <2>1, HostMediaStep
<1>2. CASE menu.mounted # NoPath /\ Leave(Up[menu.mounted])
  <2>1. menu.mounted \in Entries
    BY <1>0, <1>2 DEF Menus, Entries
  <2>2. Up[menu.mounted] \in Dirs
    BY <2>1, MenuAssumption
  <2> QED  BY <1>2, <2>2, LeaveStep
<1>3. CASE menu' \in Refresh(menu) /\ UNCHANGED <<mediaVars, hostLeft>>
  <2>1. kernel' = kernel /\ newest' = newest /\ hostLeft' = hostLeft
    BY <1>3 DEF mediaVars
  <2>2. /\ menu' \in Menus /\ Beside(menu, menu')
        /\ Drawn(menu) => Drawn(menu')
        /\ FlipRow(menu) => FlipRow(menu')
    BY <1>0, <1>3, RefreshStep
  <2> QED  BY <1>0, <2>1, <2>2, BesideKeeps DEF MenuInvariant, MenuKept, Kept, InView
<1> QED  BY <1>1, <1>2, <1>3 DEF HostRefresh

LEMMA HostResetStep == MenuInvariant /\ HostReset => MenuKept
<1> SUFFICES ASSUME MenuInvariant, HostReset PROVE MenuKept
  OBVIOUS
<1> DEFINE k == [kernel EXCEPT !.unwritten = FALSE]
<1>0. PICK reset \in BOOLEAN, auto \in {{}, AutoMount} :
         \E r \in IF reset THEN ResetPath(k, menu) ELSE {Result(TRUE, k, menu)} :
           /\ Take(IF auto = {} THEN {r} ELSE UNION {OpenHostMedia(r.k, r.m, e) : e \in auto})
           /\ hostLeft' = (hostLeft /\ auto = {})
  BY DEF HostReset
<1>1. PICK r \in IF reset THEN ResetPath(k, menu) ELSE {Result(TRUE, k, menu)} :
         /\ Take(IF auto = {} THEN {r} ELSE UNION {OpenHostMedia(r.k, r.m, e) : e \in auto})
         /\ hostLeft' = (hostLeft /\ auto = {})
  BY <1>0
<1>2. Sound(k) /\ k.caddy = kernel.caddy
  <2>1. Sound(kernel)
    BY DEF MenuInvariant, Holds
  <2>2. /\ k \in Kernel /\ k.card = kernel.card /\ k.caddy = kernel.caddy
        /\ k.drive = kernel.drive /\ k.cbm = kernel.cbm
        /\ k.overwritten = kernel.overwritten
    BY <2>1 DEF Sound, Kernel
  <2> HIDE DEF k
  <2> QED  BY <2>1, <2>2, SameDisk
<1> HIDE DEF k
<1>3. Holds(k, menu) /\ (Away(kernel, menu) => Away(k, menu))
  BY <1>2 DEF MenuInvariant, Holds, Shows, Away
<1>4. /\ Kept(menu, r.k, r.m) /\ InView(menu, r.m)
      /\ Away(kernel, menu) => Away(r.k, r.m)
  <2>1. CASE reset
    BY <1>1, <1>3, <2>1, ResetPathStep
  <2>2. CASE ~reset
    BY <1>1, <1>3, <2>2 DEF Result, Kept, InView
  <2> QED  BY <2>1, <2>2
<1>5. CASE auto = {}
  <2>1. Take({r}) /\ hostLeft' = hostLeft
    BY <1>1, <1>5 DEF MenuInvariant
  <2>2. kernel' = r.k /\ menu' = r.m /\ newest' = newest
    BY <2>1 DEF Take
  <2> QED  BY <1>4, <2>1, <2>2 DEF MenuInvariant, MenuKept
<1>6. CASE auto # {}
  <2>1. Take(UNION {OpenHostMedia(r.k, r.m, e) : e \in auto}) /\ hostLeft' = FALSE
    BY <1>1, <1>6
  <2>2. PICK q \in UNION {OpenHostMedia(r.k, r.m, e) : e \in auto} :
           kernel' = q.k /\ menu' = q.m /\ newest' = newest
    BY <2>1 DEF Take
  <2>3. PICK e \in auto : q \in OpenHostMedia(r.k, r.m, e)
    BY <2>2
  <2>4. e \in Paths \cup Lists
    BY <1>1, <1>6, <2>3, MenuAssumption
  <2>5. Kept(r.m, q.k, q.m) /\ InView(r.m, q.m)
    BY <1>4, <2>3, <2>4, OpenHostMediaStep DEF Kept
  <2> QED  BY <1>4, <2>1, <2>2, <2>5 DEF MenuInvariant, MenuKept, Kept, InView
<1> QED  BY <1>5, <1>6

LEMMA MenuStep == MenuInvariant /\ [Next]_menuVars => MenuKept
<1> SUFFICES ASSUME MenuInvariant, [Next]_menuVars PROVE MenuKept
  OBVIOUS
<1>0. /\ Holds(kernel, menu) /\ Sound(kernel) /\ menu \in Menus
      /\ newest \in Histories /\ SameOrGone(kernel, kernel)
  BY DEF MenuInvariant, Holds, SameOrGone
<1>1. CASE KeyBack
  BY <1>1, KeyBackStep
<1>2. CASE KeyInsert
  BY <1>2, KeyInsertStep
<1>3. CASE KeyTurn
  BY <1>3, KeyTurnStep
<1>4. CASE KeyEnter
  BY <1>4, KeyEnterStep
<1>5. CASE KeyReboot
  BY <1>5, KeyRebootStep
<1>6. CASE Render
  <2>1. menu' = Open(menu, "Notice") /\ "Notice" \in Views \ {"Fliplist"}
    BY <1>6 DEF Render, Views
  <2>2. kernel' = kernel /\ newest' = newest /\ hostLeft' = hostLeft
    BY <1>6 DEF Render, mediaVars
  <2> QED  BY <1>0, <2>1, <2>2, OpenStep DEF MenuInvariant, MenuKept
<1>7. CASE HostDirectory
  BY <1>7, LeaveStep DEF HostDirectory
<1>8. CASE HostParent
  <2>1. menu.path \in Entries /\ (menu.mounted # NoPath => menu.mounted \in Entries)
    BY <1>0 DEF Menus, Entries
  <2>2. (IF menu.mounted # NoPath THEN Up[menu.mounted] ELSE Up[menu.path]) \in Dirs
    BY <2>1, MenuAssumption
  <2> QED  BY <1>8, <2>2, LeaveStep DEF HostParent
<1>9. CASE HostCd
  BY <1>9, HostCdStep
<1>10. CASE HostList
  <2>1. PICK e \in Lists : Take(OpenHostMedia(kernel, menu, e))
    BY <1>10 DEF HostList
  <2>2. hostLeft' = FALSE
    BY <1>10 DEF HostList
  <2> QED  BY <1>0, <2>1, <2>2, HostMediaStep
<1>11. CASE HostClearList
  <2>1. /\ menu' = DisableList(menu)
        /\ kernel' = kernel /\ newest' = newest /\ hostLeft' = hostLeft
    BY <1>11 DEF HostClearList, mediaVars
  <2> QED  BY <1>0, <2>1, DisableListStep DEF MenuInvariant, MenuKept
<1>12. CASE HostRefresh
  BY <1>12, HostRefreshStep
<1>13. CASE HostReset
  BY <1>13, HostResetStep
<1>14. CASE KernelStep
  <2>1. Sound(kernel') /\ newest' \in Histories /\ SameOrGone(kernel, kernel')
    BY <1>0, <1>14, KernelDisk DEF KernelStep
  <2> QED  BY <1>14, <2>1, MenuSame DEF KernelStep
<1>15. CASE UNCHANGED menuVars
  <2>1. kernel' = kernel /\ newest' = newest /\ hostLeft' = hostLeft /\ menu' = menu
    BY <1>15 DEF menuVars, mediaVars
  <2> QED  BY <1>0, <2>1, MenuSame
<1> QED  BY <1>1, <1>2, <1>3, <1>4, <1>5, <1>6, <1>7, <1>8, <1>9, <1>10, <1>11, <1>12, <1>13,
            <1>14, <1>15 DEF Next

LEMMA MenuInit == Init => MenuInvariant /\ Fits(menu) /\ Drawn(menu)
<1> SUFFICES ASSUME Init PROVE MenuInvariant /\ Fits(menu) /\ Drawn(menu)
  OBVIOUS
<1> DEFINE card == [f \in Files |-> 0]
<1>1. card \in Cards /\ card \in Histories /\ {} \in SUBSET Files
  BY MediaAssumption DEF Contents, Histories, Cards
<1>2. PICK b \in Boot(BootKernel(card, {})) : kernel = b.k /\ menu = b.m
  BY DEF Init
<1>3. newest = card /\ hostLeft = FALSE
  BY DEF Init
<1> HIDE DEF card
<1> QED  BY <1>1, <1>2, <1>3, BootedStep DEF MenuInvariant

-----------------------------------------------------------------------------
(* The theorems of the menu.                                               *)

(* Whatever the panel, the computer and the card do, the menu is of its    *)
(* type and is true to the medium, and once the computer has left a medium *)
(* no view, no history and no way back of the panel leads to it.           *)
THEOREM MenuSound == Spec => []MenuInvariant
<1>1. Init => MenuInvariant
  BY MenuInit
<1>2. MenuInvariant /\ [Next]_menuVars => MenuInvariant'
  BY MenuStep DEF MenuInvariant, MenuKept, Kept, InView
<1> QED  BY <1>1, <1>2, PTL DEF Spec

(* The types of Menu's members (OledMenu.h).                               *)
THEOREM MenuTypes == Spec => []MenuTypeOK
<1>1. MenuInvariant => MenuTypeOK
  BY PositionTyped
     DEF MenuInvariant, Holds, Sound, Histories, Menus, MenuTypeOK
<1> QED  BY <1>1, MenuSound, PTL

(* The panel never shows another medium than the one in the drive (Browse(), *)
(* Activate(), ShowHostBrowser(), Clear()).                                *)
THEOREM MenuShowsDisk == Spec => []DiskAsShown
<1>1. MenuInvariant => DiskAsShown
  BY DEF MenuInvariant, Holds, Shows, DiskAsShown
<1> QED  BY <1>1, MenuSound, PTL

(* A medium that the computer has left is mounted again by a choice only   *)
(* (ShowHostBrowser()).                                                    *)
THEOREM LeftForGood == Spec => []NoRemount
<1>1. MenuInvariant => NoRemount
  BY DEF MenuInvariant, Away, NoRemount
<1> QED  BY <1>1, MenuSound, PTL

(* SOLO holds the mounted medium only, and with a medium mounted neither   *)
(* LIST nor a Fliplist on the screen is empty (OpenMedia(), Toggle(),      *)
(* Clear(), DisableList(), Back()), whatever the LST files on the card     *)
(* hold.                                                                   *)
THEOREM ListMatchesMode == Spec => []ListAsMode
<1>1. Init => Fits(menu)
  BY MenuInit
<1>2. MenuInvariant /\ Fits(menu) /\ [Next]_menuVars => Fits(menu)'
  BY MenuStep DEF MenuKept, Kept
<1>3. Fits(menu) => ListAsMode
  BY DEF Fits, ListAsMode
<1> QED  BY <1>1, <1>2, <1>3, MenuSound, PTL DEF Spec

(* The row that is selected when a view is drawn exists and is on the      *)
(* screen, for any card: empty directories, and ones that cannot be read   *)
(* (Clamp(), Render()).                                                    *)
THEOREM CursorShown == Spec => []CursorOnScreen
<1>1. Init => Drawn(menu)
  BY MenuInit
<1>2. MenuInvariant /\ Drawn(menu) /\ [Next]_menuVars => Drawn(menu)'
  BY MenuStep DEF MenuKept, InView
<1>3. Drawn(menu) => CursorOnScreen
  BY DEF Drawn, OnScreen, CursorOnScreen
<1> QED  BY <1>1, <1>2, <1>3, MenuSound, PTL DEF Spec
=============================================================================
