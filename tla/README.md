# Pi1551 in TLA+

Pi1551 is bare-metal firmware for a Raspberry Pi that plugs into the TCBM port
(and the cassette port) of a Commodore Plus/4. It emulates a 1551 drive cycle by
cycle, serves files from the SD card over the same bus ("browse mode"), plays and
records tapes, and has an OLED menu. This directory holds TLA+ models of the parts
where several cores, an interrupt, the computer on the other side of the bus, or a
power failure can interleave; TLC checks them on small instances, and TLAPS proves
the most important results for every instance. Each definition that stands for code
is mapped to its lines in `PROJECT.json` (`map`). Source files are named relative to
the repository; line numbers refer to the commit this directory was written for.

## 1. Inventory

### Who runs what

| Actor | Code | Duty |
|---|---|---|
| core 0 | `UpdateScreen()` (main.cpp 1016-1024 with the OLED, else `Tick10ms` and the HDMI user interface); the GPIO interrupt | samples keys, owns the display, takes the recording edges |
| core 1 | `emulator()` (main.cpp 3109-3217), `Emulate1551()` (2336-2608) | the menu, all media access, the file server, the 6502 |
| core 2 | `CoreLoop()` (main.cpp 3440-3485, tape_player.cpp) | turns a tape into levels of READ |
| the computer | KERNAL and BASIC (docs/plus4-kernal-disassembly.txt) | the other end of the bus: external |

There is no operating system. The cores share memory through `std::atomic` or
`volatile` flags, WFE/SEV and two spin locks.

### Components

**Cassette player** (`tape_player.cpp`). State: the array of half-wave timings with
index and offset, modes (loaded, playing, recording, unsaved), the flags
`editingPulses` and `corePulseActive`, the recorder's statics. Operations: load,
eject, play, stop, seek, record, `Tick10ms`, the motor line, the interrupt handler,
`CoreLoop`. Hard: core 2 reads the array that core 1 frees, reallocates and edits,
and an interrupt on core 0 appends to it; the handshake is two flags and two event
registers. Correct when the array has one owner at a time, every half-wave is output
in full, a recording fits its buffer and reaches the card, nobody waits for ever.

**Runtime settings** (`Pi1551Oled.cpp` 225-330, `OledSettings.cpp`, `options.cpp`).
State: options.txt, its backup and a temporary file on the card; the running options;
the baseline of the last load or save. Operations: change, load, save. Hard: seven
FatFS calls in a row, any of which fails, and power can fail between any two. Correct
when options change on the card atomically and a failed save forgets nothing.

**OLED input and frame handoff** (`Pi1551Oled.cpp`). State: a ring of 64 keys, the
browse frame with its lock, `realTime`, `liveRenderActive`, the last live frame.
Operations: `PollInput`, `Draw` (core 0); `Service`, `BeginLiveRender`,
`FinishLiveRender` (core 1). Hard: the plain C++ objects of the menu change hands
between the cores twice per emulated session, through two flags and spin loops.
Correct when they have one user, frames are whole, never go backwards and finally
show the menu as it is, and keys arrive in order.

**TCBM byte exchange** (`tcbm_bus.h`, `tcbm_commands.cpp` 379-485, 1978-2021). State:
DIO, DAV, ACK, ST and who drives DIO. Operations: accept a code, take a byte, give a
byte, reset. Hard: everything is polled, one byte takes up to nine edges, DIO changes
direction twice, the host can be reset at any edge. Correct when every call of the
host is served exactly once with its own byte.

**TCBM file server** (`tcbm_commands.cpp`, `commands_base.cpp`). State: the protocol
state, 16 channels each with a buffer, a command and a file, the error message.
Operations: LISTEN, TALK, OPEN, CLOSE, data in and out, DOS commands, time-outs,
reset. Hard: the two sides keep their own idea of where they are; a host stops half
way, resets, or reads on after the end. Correct when reads are whole, saves are on
the card under their name, errors are told, files get closed, and both sides are
idle at the same time.

**Mounted media** (`OledKernel*` in `main.cpp`, `DiskCaddy.cpp`, `DiskImage.cpp`,
`cbm_diskimage.cpp`, `commands_base.cpp`). State: the disk in the caddy with its unsaved
changes, the drive's pointer to it, the image or sector reader that the browse mode
serves, the path the protocol believes mounted, write protection. Operations: mount,
swap, unmount, write, protect, reboot (the panel); CD to an image and U0 (the computer);
writes of the emulated drive. Hard: five records of what is mounted, raw pointers
between them, and writes that fail in the middle of a change. Correct when no write is
lost, nothing points at a deleted disk, and a read-only disk takes no change.

**OLED menu** (`OledMenu.cpp`). State: the view with cursor and offset, the views behind
it, the directory and its list, the fliplist, where Browser was opened from, the mounted
path. Operations: Back, Insert, Enter, a turn of the knob; the computer's CD, XS and
RESET as `Pi1551Oled.cpp` hands them on. Hard: views on the history refer to lists that
change while they are covered, backend calls fail in the middle of a change of view, and
the computer moves the medium behind the panel's back. Correct when the panel shows the
disk that is in the drive, its cursor is on a row, its lists agree with its mode, and no
history mounts what the computer has left.

**Drive session** (`main.cpp` 2336-2608 and 3109-3217, `pi1551_idle_sleep.h`). State: whether
a 1551 is emulated, the flag that lets the next start resume the 6502, the countdowns of
the panel and of a disk change, idle sleep. Operations: the emulation loop, its four
exits, the browse loop. Hard: requests, resets, keys and the decision to sleep in any
order; flags set by one exit are read by a later entry. Correct when the drive has a
disk, sleep ends and is shown, the computer is served, and only a session that is on is
resumed.

**UI snapshot** (`main.cpp` 536-614). State: a sequence number and the fields. Operations:
publish (core 1), read (core 0). Hard: no lock. Correct when it is an atomic register.

**Not modelled**, and why:

| Component | Why |
|---|---|
| Fast TCBM transfers (tcbm_commands.cpp 1458-1962) | the host's side is not in the repository |
| DOS commands other than scratch, wildcards | sequential calls of FatFS on names |
| Files inside a container (`cbm_diskimage.cpp`), the GCR codec and the builder of RAM images (`DiskImage.cpp`) | sequential algorithms on sectors; DiskMedia keeps a disk as the last write it took |
| 6502, TPI and mechanics (`m6502.cpp`, `m6523.cpp`, `Drive1551.cpp`) | emulation of hardware, cycle by cycle: the reference is the chip. The ROM that runs on them is external |
| Tape index (`IDX`), TAP parsing | data of TapePlayer |
| Command mailbox (main.cpp 252-300, 439-534) | dead in the 1551 build: `ServicePi1551UserInput()` returns at once when the menu is on |
| HDMI browser, screens (`FileBrowser.cpp`, `Screen*.cpp`) | presentation |
| Boot, options parsing, ROMs, RTC | sequential, before the other cores start |
| FatFS, USB (`uspi/`), `stb_image.h`, `lz.c`, eMMC | vendored or drivers; their results are nondeterministic in the models that call them |
| `Pi1541`, `Drive.cpp`, `iec_*`, `m6522`, `m8520`, `wd177x`, `Pi1581` | inherited, not part of the 1551 build |

The last three rows are most of the repository's lines, which is why the map covers a
small share of them.

## 2. Plan

| Order | Modules | Status |
|---|---|---|
| 1 | `PulseOwner` <- `TapePlayer` (+ `TapePlayerProofs`) | done |
| 2 | `SettingsStore` <- `SettingsFile` (+ `SettingsFileProofs`) | done |
| 3 | `KeyQueue` <- `OledHandoff` (+ `OledHandoffProofs`) | done |
| 4 | `ByteExchange` <- `TcbmLink` (+ `TcbmLinkProofs`) | done |
| 5 | `TcbmServer` (+ `TcbmServerProofs`), on top of the exchange that 4 proves | done |
| 6 | `DiskMedia` (+ `MediaProofs`) | done |
| 7 | `OledMenu`, which extends `DiskMedia` (+ `MediaProofs`) | done |
| 8 | `DriveSession` (+ `DriveSessionProofs`), which abstracts `DiskMedia` and `OledMenu` to what they do to the emulation | done |
| 9 | `StatusRegister` <- `UiSnapshot` (+ `UiSnapshotProofs`) | done |
| 10 | Proof of KeysInOrder, the refinement of `KeyQueue` (in `OledHandoffProofs`) | done |

An arrow reads "is implemented by": the abstract module is instantiated in the
detailed one with a refinement mapping and its `Spec` is a property of a run.

## 3. The modules and the code

### TapePlayer

One action is what one core does between two accesses to state that another core can
change in between. `CoreLoop` has nine places: `LoopTop`, `LookForEditor`, `Claim`,
`Recheck`, the tests ("gate"), the fetch, the wait, its check, the toggle; `WFE` uses
an event register that every `SEV` sets. A controller call goes through
`PausePlayback()` (set the flag, spin on `corePulseActive`), its edit in one step (core 2
and the interrupt are the only others that touch what it edits, and both are accounted
for), and `ResumePlayback()`. `Tick10ms` and `Stop` are split at the calls they make
of each other. The interrupt handler is two steps, so that `Stop()` can disarm it in
between; a store and the SEV that follows it are one step unless the SEV is early.
Time is counted in units of the tape. Half-waves are numbers; TAP decoding,
the IDX file, audio counters and the WRITE level are data. READ is two variables, the
level in memory and the pin, because core 2 and `Stop()` set both without a lock. What
`FinalizeRecordIndex()` decodes is any set of header positions: `Realigned` gives every
tape that its insertions can leave within the buffer.

`Pi1551Wake()` is a bare SEV: only a DSB in front of it would order it after the store it
announces (SpinLock.cpp:68 has one, Pi1551Platform.h:15 has not). `EarlySev` lets it reach
core 2 first, once per announcement; `missed` (history) says that the last one did.

`PulseOwner` is the promise: the array has at most one owner, and passes through
nobody. The mapping takes the controller that is past its spin, else core 2 between
its second look and the top of the loop.

`late` (history) marks a behaviour in which the interrupt handler wrote after
`Stop()` had disarmed it; properties that this breaks say so (section 6). `wait2.broken` marks a wait that was broken off by a flag which
was set again before the next line looked at it; `forced` (history) the time from a `Stop()`
that raised READ in a low half-wave, or from a recording, to the next seek, load or eject.
`WholeHalfWave` leaves both out (section 6); otherwise a tick of a half-wave only counts
when READ has the half-wave's level.

### SettingsFile

`SaveSettings()` is one action per FatFS call, each with its success and its failure,
and each failure with the file as it was or half-written. `PowerFails` is possible
everywhere. `EditOptions` and `RecoverOptions` are what the manual lets a user do
with the card. `SettingsStore` is the promise: one complete version replaces the
other in one step, with just the changed values merged in. The mapping shows
options.txt, or the backup while there is none.

### OledHandoff

A step is one access to shared memory. Release stores and acquire loads on ARMv8
(STLR/LDAR) are sequentially consistent among themselves, which is why interleaving
is the right model. A frame is the menu it shows, in two halves, so that a torn copy is
visible. Menus are numbered by changes; every second change looks like the one before
the last (`SameLook`), which is the case where comparing frames can go wrong.
`KeyQueue` is the promise of the ring: order, no duplicates, loss only when full; the
mapping includes the keys that the cores hold in their hands. `Service(true)` and the
deferred transitions it would queue are left out: no production code calls it. Dimming
is left out.

### TcbmLink

Both sides, one line access per step, with program counters named for what comes
next. The host is the KERNAL's byte routines. `Dio` gives what a reader can see: the
driver's byte, any byte if there are two drivers, $FF from the pull-ups if there is
none. The device's places follow `ReadTCBMCommandByte()`, `ReadTCBMDataByteBlocking()` and
`WriteSerialPortByteWithStatus()`. `PressReset` happens at any point. Assumptions, stated in
the module: a reset lasts until the device has seen it and the computer boots slower
than the device recovers; outside a reset the host does not stop for five seconds
inside an exchange. `ByteExchange` is the promise: call, reply, return, or a reset.

### TcbmServer

A step is one exchange, which is what `TcbmLink` proves it may be: code and byte (with
status) travel together, and the device's handler runs to the next poll. `Script` gives
what KERNAL and BASIC send for LOAD, SAVE, DIRECTORY, DS$, OPEN/PRINT# of the command
channel and a program that reads a file; `AfterStatus` gives what they do with the
status. STOP, a pause that outlasts the device's poll count, a read error of the card
and a host reset happen wherever they can. An exchange whose code the device accepts
and does not serve stays in `owed`.

Abstractions: names and messages are one value, the command sent is a scratch, a
transferred byte is a value of its own, the buffer holds two bytes instead of 4096.
A listing is captured into that buffer (tcbm_commands.cpp:904-910) and what does not fit is
dropped: `ListingSize` is how many of its lines do, each line one value, and `Captured` cuts
it. A directory whose reading fails in the middle is any part of it, chosen when it is
asked for (`found`); `Listing` is what is sent in either case.
What a closed channel still remembers (how it was opened), the command of channel 15,
and the data of a reader that a reset has cut off are not kept: nothing reads them
again. `f_write()` succeeds. An empty file reads as one CR, as the code does it, and
`want` says so. Codes that the modelled hosts do not send in a state (RECV to a channel
that is being read, a second TALK without UNTALK, SECOND in mid-read) are not offered.

### DiskMedia

A call of the kernel can fail in several ways, and its callers go on after a failure, so a
call is an operator that gives the set of its results: a flag and the kernel record it
leaves; `Then` goes on where the call before succeeded. `WriteAll` is what every change of
the medium does first (finish the files, flush the disk, sync the container). What a file
holds is the number of the last write it has taken, and `Cut` after a save that failed half
way: `DiskImage::Flush()` opens the file with FA_CREATE_ALWAYS. `newest` (history) is what the
computer wrote last. `Mount` keeps the order of the code: the new disk is read before the
old one is written. A track written at another density than the format's makes every
later save of a D64 fail (`odd`).

A copy in memory may lack what its file has. It may be `Torn`, read in part, as
`DiskCaddy::Insert()` does not look at what f_read() returns (DiskCaddy.cpp:174): a D64 then saves
the tracks it has and is cut, a G64 saves what it never read. It may have been read before the
same file, mounted under a name in another letter case, was flushed. Or `FastWrite`, a U0 block
write, may have changed the card's file behind it: the sector reader opens that file again
to write (cbm_diskimage.cpp:895) and again after it, which may fail. `stale` (history of a disk)
says that a copy is such a one, `overwritten` that it was changed and saved.

Simplifications: one disk in the caddy, as the 1551 build keeps it; `WriteD64()` writes what is
in memory, as its ignored conversion errors cannot arise without the codec; a D64 that was
saved short is not mounted again, as its size is no image's (`ValidMedia()`); a block write
changes its whole file to a new number, so that a part of one is not told apart.

### OledMenu

Core 1 runs each key and each command to its end outside the emulation, so each is one
action; a menu call is the set of its results, like a kernel call. A list is kept as the
directory and the filter it was read with. The views Settings, Status, Record, Seek, Disk,
NewImage and DateTime are left out: their rows change neither the medium nor the menu, or
are DiskMedia's own actions, and Back only returns from them. So are scrolling text and the
sound preview. `hostLeft` (history) says that the computer has left the medium and nobody has
chosen one since. A directory that cannot be read leaves the old list with the cursor of the
new view; Insert, which looks at the list without a clamp (OledMenu.cpp:517), then takes an
entry past its end, which is any entry that the list had. The very first directory is read,
as `Initialize()` runs before anything is mounted: the fallback to the root (line 70) is left out.

### DriveSession

One pass of the emulation loop is one step, with its exits in the order of the code: keys
when the countdown is over, sleep, a cycle, a trapped CD, a held RESET. Of the 6502 only
`idle`, `open` and `serving` are kept. Mounts, swaps and unmounts are what `DiskMedia` does to the
emulation; which key does what is `OledMenu`'s. The countdowns of a disk change (100000
passes) and of the panel (20000) are constants. `session` (history) is what became of the
6502's last start. The place `lost` is a jump through the null bus functions of a 6502 that
was never started.

A request of the computer is `asking`, a code on the bus that waits to be taken up, and then
`engaged`, an exchange that takes several rounds, of the 6502 or of the browse protocol, with keys
handled in between. Unmounting, inserting a disk, serving a container and a reset of the drive
set the bus and the browse protocol back or start the 6502 again (main.cpp:2911-2913, 2956,
2962): an exchange under way is `cut` by them, the computer is in mid-handshake with a drive that
knows nothing of it, and waits until it is reset or gets away by an edge it takes for the
right one. A request that is only asking is not cut: its code stays on the bus. A swap, a CD
that failed and a look at the menu resume the 6502 where it was in the exchange. What a drive that was set
back makes of the rest of a cut exchange is `TcbmLink`'s and `TcbmServer`'s. A RESET of the
computer that core 1 does not see, as it is busy with a key, leaves the 6502 waiting in an
exchange that the computer has left (`Deserted`); whether the ROM finds out is not in the
repository, so it may or may not.

The settings' sound preview, and transitions still pending after `Service(false)`, are left
out.

### UiSnapshot

Publisher and reader field by field, in any order; a field holds the number of the
publication that wrote it. `StatusRegister` is the promise, with
`edition <- sequence \div 2`: publishing is the step that makes the sequence even, reading the
one in which the loop ends.

## 4. The runs

| Run | Question | Instance, and why it is enough |
|---|---|---|
| `tape_safety` | Is the array exclusive, are indices valid, recordings inside the buffer and saved? | One controller calling all operations but eject, a motor option change and Stop of a player (the stop that ends a recording is there), one tape of one half-wave of two ticks, buffer of five: two headers are realigned, and a second one is refused at the end of the buffer. SEVs in order. Explored up to the first late interrupt, and of a tape of more than two half-waves core 2 plays no more than the first fetch; the view leaves out dead variables and the READ level. 1.5 million states. |
| `tape_live` | Are half-waves whole and at their level, do pauses end, does a tape run out? | All operations but recording, two half-waves, both values of both options, SEVs that come early. 118 000 states. |
| `settings` | Is a save atomic? | Two settings of two values: one changed, one kept, and every subset set in the file. The order of the calls does not depend on their number. |
| `oled` | Is the menu exclusive, are frames whole and in order, are keys handled, does the display catch up? | Ring of two slots (one key, so it wraps and fills), two keys, two changes: the second change looks like the start, which is where comparing frames can go wrong. 60 000 states. |
| `tcbm_link` | Does the handshake carry bytes? | Six bytes: the four codes themselves, 0 and $FF (what an idle bus shows), two statuses. |
| `tcbm_server` | Do whole operations work, in any sequence? | Two names, one three-byte file (an address and a byte, as the KERNAL needs), a buffer of two, so that a save writes in mid-transfer and at its end. The card starts with any set of those files; shorter and empty ones come from cut-off saves. Four lines of a listing fit the capture buffer: the listing of one file is whole, that of both is cut. One million states, three minutes; operations follow each other without bound. |
| `media` | Is no write lost, does nothing dangle? | One file of each format and a read-only one, the D64 under two names; two writes, one to be saved and one to be lost. A file may be read in part and written past its copy. Calls follow each other without bound. 118 000 states. |
| `oled_menu` | Do panel, lists and drive agree? | A disk and a container, a tape with its index, a list of both media and an empty one at the root, where a browser for tapes has no row; two views behind the one shown. The directory's list is longer than the screen. No directory fails to be read (`Unreadable = {}`): one that may takes longer than the five minutes of a run, and the proofs cover it. The view leaves out what the images hold, which is the question of `media`; a message drawn over the second view is not gone on from. 146 000 states. |
| `session` | Does the drive have a disk, does sleep end, is the computer served? | A disk change of two passes, the panel looked at every second pass, three keys, two resets: a key during a change, one during sleep and one more, also in mid-exchange. Requests without bound. 105 000 states. |
| `snapshot` | Is the snapshot an atomic register? | Three fields and three publications: a read is overtaken by two. |
| `server_save`, `session_resume` | Findings, below. | The same instances (no resets in the second). |

What the properties mean is said above each of them in the modules. Each was seen to
fail on a plausible mistake in the code (`mutants` in `PROJECT.json`): a second look
left out, a wait skipped, a lock not taken, a result not checked, a byte counted
short, a state left behind.

Deadlock is checked in the OLED, TCBM, media and snapshot runs. The tape, settings and
session runs may stop, when a user does nothing more or no call can be issued, and in the
session when the 6502 is lost.

### Fairness

- *Tape*: weak fairness of core 2, of the handler once entered, and of a call once
  begun. Cores are never preempted. No edge has to come, and nobody has to call, with one
  exception: strong fairness of `CallTick`, as the loops of main.cpp call `Tick10ms()` again and
  again (main.cpp:1031, 1065, 3056).
- *OLED*: weak fairness of each core, but not of key presses or host actions. Strong
  fairness where one core spins on a condition that recurs (`Settle`, `Drain`, the frame
  lock): a spin loop looks millions of times a second, a frame is drawn a few times.
  Strong fairness of the frame timers (`BeginDraw`, `LookDue`, and the browse frame
  that `Service()` renders when its time has come), which do run out.
- *Session*: weak fairness of core 1, which never stops. The computer and the user owe
  nothing: a reset may be held for ever, a key need not come, a computer whose exchange was cut need
not get away.
- *TCBM link*: weak fairness of both sides; a call or a reset need not come.
- *TCBM server*: weak fairness of the device's step on an offered exchange (the link's
  liveness) and of `Resume`: a user who holds a listing lets go of it some time.

## 5. What is proved

All for every value of the constants.

**Tape** (`TapePlayerProofs`). `TypeCorrect`. Under the assumption `OneEditor` (a single
controller), `HandshakeHolds`: `editing` is set from before the controller's spin to its
resume, `active` is set from before core 2's second look to the end of its section, and
not both own the array. The strengthening is needed because exclusion alone does not say why core 2 at
"recheck" will turn back. From it follow `ExclusivePulses`, `Implements` (the refinement of
`PulseOwner`), and with an invariant about index and count, `FetchesWithinTape`; from an
invariant about the buffer (how far index, count and the realignment of a recording go),
`StaysWithinBuffer`: an induction over the insertions is not needed, as the length of a spread
tape is the old one plus the number of positions. `HalfWavesWhole`: at every place of core 2
the part of the half-wave already played and the offset in memory add up, because the offset is
only written by the core that owns the array, and only a controller that has the array may
change it; and as long as `forced` is not set, memory and pin have the level of the index, or
core 2 is between the two stores of a toggle.
`SavedOnCard`: as long as no late interrupt has written, what is in memory is on the card, or
`unsaved` is set, or the controller is at a place where it is about to be set.
`OneEditor` is what the code does not always give (section 6).

**Settings** (`SettingsFileProofs`). `SaveInvariant`: how far a save has come says which
file holds the options; whatever only the backup holds is guarded by the temporary
file, whose presence refuses the next save. From it, `NeverTorn` and `SavesAtomically`
(the refinement of `SettingsStore`). Assumed: `SettingsAssumption`, and that a FatFS
directory update is atomic.

**OLED** (`OledHandoffProofs`). `HandoffInvariant` joins three parts: whose turn it is (each
place of core 0 in a live render against each place of core 1), where a frame can be
half-copied, and how old each frame is compared with the display. `MenuHasOneUser`,
`BrowseFramesFinish`, `FramesAreWhole`, `ScreenNeverGoesBack` and `TypesCorrect` follow, for a
ring of any size and any number of keys and changes. `KeysReachMenu` is the refinement of
`KeyQueue` (KeysInOrder). The queue is the key core 1 took, the ring, and the key core 0 is
storing; `RingOrder` says what either core knows of the ring between its look at the other's
index and the move of its own: that there still is room, and that the key it took still is
the first. Lemmas about indices modulo the size say what a store, a move of the write
index and a move of the read index do to the keys in the ring.
`CoresDoNotLockUp`: of the frame lock and the two wait loops of core 1, no core ever waits for
one that waits itself.

**TCBM link** (`TcbmLinkProofs`). `LinkInvariant` pairs every place of the device with the
places of the host where it can be, and with what the lines carry there; its parts
are the types, each side's own lines, the meeting of the two, and their agreement on
the call. Exclusion of the drivers is not inductive without the pairing: that DIO is
free when the host turns it round depends on which edge the device has seen.
`DriversApart` and `LinkExchangesBytes` (the refinement of `ByteExchange`) follow for any set of
bytes that has the codes, 0 and $FF in it (`LinkAssumption`).

**TCBM server** (`TcbmServerProofs`). Host and device do not see how far the other has come,
and what the device keeps in its channels (a name, a command, an open file) outlives the
operation that left it there. So none of the properties is inductive: that a read was whole
when it ends rests on what was in the channel when it began, and that on how the file was
named. `SituationsHold` proves `ServerInv`, which has three parts. `HostTyped`: types.
`Device`: types, only SAVE's channel is written to, and an open file belongs to the
transfer at hand or to a user who was cut off. `Situation`: one disjunct for every stretch
of every script (named, read, ended, saved, commanded, stopped, paused too long, reset); it
says at which exchange the host is, in which state the device then is, and what it has
ready, has given and has left. The proof takes each exchange in each situation to the
next one, under `ServerAssumption` (finitely many names, a buffer of at least one byte, and
codes, bytes and names that are told apart) and no bound on the length of files. From the
situation in which the script is over follow `ReadsAreWhole`, `SavesAreWhole`,
`FailuresAreTold`, `DeviceInStep` and `FilesAreClosed`; `ReadsAreAnswered` and `ServerTyped`
from the others.

**Media** (`MediaProofs`). `MediumSound`: the caddy is empty or holds a numbered disk of a
path; only an emulated format is in the drive; drive and sector reader hold the caddy's
disk; a container is read from the card; the disk of a read-only file is read-only.
`ReadOnlyStaysClean` is not inductive without the second and the last: switching write
protection off makes a program's disk writable, which is harmless because it never is in
the drive. One lemma per call says what any result of it leaves sound and not lost;
`DisksHeld`, `ReadOnlyClean` and `MediaTypes` follow for any card, and so does `WritesKept`
(NothingLost), whatever the names of the files: a file is as it should be on the card, or in a
copy with changes to save, unless a copy that is known to lack something was saved over it.
That is inductive only with the remark that a disk just read is current or `stale`, which
the step from the candidate to the disk in the drive needs.

**Menu** (`MediaProofs`, which goes on from the lemmas about the kernel's calls).
`MenuSound` is the inductive invariant: the kernel's record is sound; the menu has its
types; the disk in the drive is the one shown; a browser for tapes returns to Tape only;
the row that the encoder is on in Fliplist is in the list; and once the computer has left
a medium, none is mounted and neither the view, the history nor the way back of Browser is
a Fliplist. The last is what makes NoRemount inductive: Back mounts through the way back
and the encoder through Fliplist. The row in the list is what the encoder's next mount
rests on, and the return to Tape is what keeps a tape that is loaded from opening a Fliplist
that has been emptied. A lemma per menu call takes any result the kernel may give, also in
the middle of a change of view. `MenuTypes`, `MenuShowsDisk` (DiskAsShown) and `LeftForGood`
(NoRemount) follow for any card, directories, lists, automatic mount and depth of the history.
`ListMatchesMode` (ListAsMode) and `CursorShown` (CursorOnScreen) hold for any lists and any root
too, empty ones and directories that cannot be read included. The first rests on this: as
long as a medium is mounted the list is not empty in LIST or in Fliplist, and what empties the
list unmounts first. The second: a view is clamped whenever it is drawn, or a message is
pending, which `Render()` turns into Notice before anything is drawn; and a view on the history
is clamped when it comes back. `MenuAssumption` says that an entry has a
directory, that media and LST files are neither directories nor tapes, and that an LST names
a medium once, as `ReadList()` sees to it. `FilterAssumption`, that a filtered listing is a
list of entries, holds for every listing, by an induction that the provers cannot do; TLC
evaluates it.

**Session** (`DriveSessionProofs`). `SessionTyped`, `DriveHasDisk` and `SleepShown`: with the types,
NeverDriveless and IdleTold are inductive, for any lengths and any number of keys.
`BrokenByKeys`: an exchange is cut by a key alone, never by what the computer itself asked for, a
RESET, a failed CD or sleep; nobody is engaged while core 1 acts on a request or leaves a reset or a CD.
`SleepsOnlyIdle` is what DiskChangeEnds rests on: while the drive sleeps, no disk change is
under way, the 6502 waits with everything closed, and the medium is a D64.

**Snapshot** (`UiSnapshotProofs`). `ReadsWhole`: a field that the publication under way need not
write any more holds its number, and what a read that may still succeed has copied is of
the last publication. `IsRegister` is the refinement of `StatusRegister`, for any fields and
any number of publications.

**Only model-checked**: all liveness; what the session owes the computer.
What a recursive definition computes for every input is out of the prover's reach; no
module with proofs declares one.

## 6. Findings

With a run:

1. *SAVE takes another name* (`server_save`; tcbm_commands.cpp:567). The command of
   channel 0 replaces the name the KERNAL has just sent on channel 1: the save is
   rejected after boot and after a good LOAD, and goes to the wrong file after a LOAD
   of a missing one.
2. *A 6502 that was never started is resumed* (`session_resume`; main.cpp:2934). Two keys
   handled in one `Service()` that both mount emulated disks: the second takes the swap
   branch and sets `g_oledResumeCpu` before the emulation has begun. main.cpp:2386 wants an
   "active OLED session" for that.

Exceptions that properties state, each found by leaving the exception out:

- *A last half-wave is lost* (`SavedUnlessLate`; tape_player.cpp:157). The handler that was
  running when `Stop()` disarmed it appends after the save, and its unsaved mark is
  overwritten (docs/PI1551-TUI-SPEC.md:326).
- *A level out of phase* (`WholeHalfWave`; tape_player.cpp:160 and 167). `Stop()` raises READ
  whatever half-wave the tape is in, and keeps the position: after a Stop in a low half-wave,
  PLAY puts out its rest, and everything up to the next seek, inverted. A recording ends
  likewise. tape_player.cpp:408-412 says what that means: the KERNAL "sees mispaired waves".
- *A wake-up lost* (`TapeRunsOut`; tape_player.cpp:99 and 126). The SEV of PLAY overtakes the
  store it announces; core 2 looks, finds nothing to play and sleeps. With the motor always on
  the next `Tick10ms()` wakes it, otherwise nothing does until the motor changes.
- *Two cores edit the tape* (`PulsesExclusive`; tape_player.cpp:90). The pause flag is not a
  count: core 0's status hook and core 1's host reset release core 2 for each other
  (docs/PI1551-OLED-IMPLEMENTATION.md:25 and 30). With `Controllers = {core0, core1}` TLC
  finds it.
- *A held listing dies* (`ReadsAnswered`; tcbm_commands.cpp:435). The wait of "5s"
  (tcbm_commands.h:109) ends after 100000 polls, and the next read is accepted and never
  answered. `ReadsAnswered` and `OperationsEnd` also except a host that reads on after it
  was told of an end or an error: the KERNAL's LOAD does so for files of less than three
  bytes.
- `FilesClosed` excepts a channel whose user a reset, or STOP during SAVE, has cut off.
- *A session astray* (`HostServed`, `DiskChangeEnds`): the exception `Astray` is finding 2.
- *An empty LST empties a Fliplist that is shown* (`ListAsMode`; OledMenu.cpp:161). `XS:list`
  with a file that names no medium clears the list and the medium, but leaves the view:
  Fliplist is shown with no row but Menu, and Insert then sets LIST mode with an empty list
  (OledMenu.cpp:523). docs/PI1551-TUI-SPEC.md:121 wants Browser and `SOLO`, line 553 no "empty
  Fliplist view". The instance has such a list; without the words "with a medium mounted" TLC
  finds ListAsMode violated.
- *A save that undoes writes* (`NothingLost`, `overwritten`), in three ways: a U0 block write to
  a D64 that is being emulated changes the card's file, and the next flush writes the copy in
  memory over it (tcbm_commands.cpp:1898, DiskImage.cpp:390); a disk of which only a part could
  be read is mounted, and its flush cuts the file on the card (DiskCaddy.cpp:174); a file mounted
  over itself in another letter case comes back as it was before the flush (main.cpp:2925).
  Power loss between FA_CREATE_ALWAYS and the end of the write loses the old copy as well.
- *A listing that is short ends like a whole one* (`ReadsWhole`; tcbm_commands.cpp:904-910,
  commands_base.cpp:1114-1126). What does not fit the capture buffer is dropped, and a directory
  that cannot be read to its end is listed as far as it was; both end with EOI and no error.
  `ReadsWhole` therefore says of DIRECTORY that what was captured arrives whole.
- *An exchange broken off* (`HostServed`; main.cpp:2911-2913, 2956 and 2962). A key that unmounts,
  inserts or resets the drive in the middle of an exchange leaves the computer waiting for the
  rest until it is reset; nothing waits for the end of the exchange first. Likewise a
  RESET during a long key (`Deserted`).

Seen while modelling, not stated as a property:

- `Stop()` that only retries a save leaves PLAY pressed (tape_player.cpp:132;
  docs/PI1551-TUI-SPEC.md:325).
- docs/PI1551-OLED-IMPLEMENTATION.md:94 says a save without changes writes nothing,
  `SaveSettings()` always writes. The manual's `P` command seeks an open file, which TALK
  reopens from its start.
- Choosing an IDX clears the history, so that `..` and Back of Tape do nothing
  (OledMenu.cpp:140; USER-MANUAL.md:120). The history grows without end by
  Tape, Load TAP, Menu. Back from Load TAP at the root leaves the filtered list.
- CD to a disk that cannot be mounted, while a container is, ends the container's service
  and leaves it shown (commands_base.cpp:313-319; docs/PI1551-TUI-SPEC.md:172).
- A failed mount does not put the cursor back (docs/PI1551-OLED-IMPLEMENTATION.md:35-37);
  the checkpoint for that is only made in `Service(true)`.
- The drive's write-protect sensor is only read again after a disk change
  (Drive1551.cpp:474), not when the panel switches the protection (main.cpp:2997).
- A U0 read on a D64 that is being emulated is of the file on the card, not of the changed disk
  in memory (tcbm_commands.cpp:2072, 2090).
- A RESET held in the pass that trapped a CD replaces its exit reason
  (main.cpp:2542-2549): the browse mode is on with the disk still in the caddy and shown.
- Reset drive, or another ROM, right after a first mount in the same `Service()` calls the
  6502's bus functions before they are set (m6502.h:525; `ServiceCrash`).

## 7. Not modelled inside the modelled parts

- Tape: Ultimate-TAP parsing and index lookup, the IDX file, the test-only toggles.
- Settings: comments, line order and number formats; options read at boot only.
- OLED handoff: dimming; `Service(true)`, which no production code calls.
- Link: the fast handshake; the time-out of a host that stops inside an exchange for
  five seconds; a reset pulse that falls entirely into a card access.
- Server: fast transfers, files in containers, image selection and ROM traps, wildcards,
  all DOS commands but scratch, a full card.
- Media: the codec, new images, sharing of the container's buffer.
- Menu: the views named above, text that scrolls, date and time, a first directory that cannot
  be read.
- Session, in the browse mode: the time-outs of its exchanges, which are the server's.
- Session: chips and mechanics, ROM changes, transitions pending after `Service(false)`.
