# Meatloaf: TLA+ models, checks and proofs

Meatloaf is firmware for an ESP32 that plays the part of disk drives, printers and
other devices on the Commodore serial (IEC) bus and serves their files from flash, SD
card, disk images and network servers. This directory holds models of the parts whose
correctness depends on interleavings, on deferred work and on long sequences of legal
calls, the TLC configurations that check them, and TLAPS proofs about them. Paths below
are relative to the repository (`lib/...` is `src/lib/...` seen from here).

## 1. Inventory

| part | state it keeps | operations | hard because |
|---|---|---|---|
| bus handler, `lib/bus/iec/IECBusHandler.cpp` | `m_flags`, `m_inTask`, `m_enabled`, `m_currentDevice`, the CLK and DATA lines | `task()`, `handleATNSequence()`, `atnRequest()` from poll or interrupt, `begin()`, `end()`, RESET | an interrupt cuts into `task()` and into device callbacks; `end()` comes from the other core; 1 ms to answer ATN |
| file device, `lib/bus/iec/IECFileDevice.cpp` | `m_cmd`, `m_channel`, `m_opening`, `m_eoi`, one write buffer, a 2-byte read-ahead per channel, status buffer | `listen/unlisten/talk/untalk`, `canRead/read`, `canWrite/write`, `fileTask`, `reset` | commands are deferred; one command slot and one buffer serve all transactions |
| session broker, `lib/meatloaf/meat_session.h` | `session_repo`, per session `connected`, `io_active`, last activity | `obtain`, `find`, `add`, `dispose`, `clear`, `service` | decisions taken under a lock are used after network time-outs without it |
| session file cache, same file | `file_cache`, `cache_order` | `getCachedFile`, `cacheFile`, `clearFileCache` | two containers updated separately and without a lock; downloads take seconds between look-up and store |
| drive, `lib/device/iec/drive.cpp` | channel table with a buffer, a position and a block window each, status code, current directory, media | open/close/read/write/execute above the file device; block commands on "#" channels | four layers keep a position of their own and a command moves the lower ones |
| disk images, `lib/meatloaf/media/disk/d64.cpp` | BAM, directory, block chains, blocks claimed by each save under way | open for writing, write, close, rollback, scratch, recover | several image writes per operation, any of which can fail; power can go between two; other channels save at the same time |
| TNFS, `lib/TNFSlib/`, `lib/meatloaf/network/tnfs.cpp` | session, sequence number, handle table, per file three positions and a read cache | mount, open, read, write, seek, close; retry, fall-back to UDP, recovery of an expired session | lost and late datagrams, a WRITE sent twice, streams that share a mount |
| other network file systems, `lib/meatloaf/network/` | sockets, handles, positions | connect, open, read, seek, close | handle reuse (HTTP) |
| fast-load protocols, in `IECBusHandler.cpp` and `lib/bus/iec/protocol/` | protocol in progress, block buffer | `handleFastLoadProtocols`, `fastLoadRequest` | bit-level timing |
| host mode, `lib/bus/iec/IECHost.cpp` | the adapter as bus master | scan, load, save | the master's side of the same protocol |
| console and executor, `lib/console/` | current path, running command | line editing, command tasks, `iec sleep`/`iec wake` | runs beside the bus task, may stop it |
| web server, WebDAV, configuration, WiFi, telnet, Fuji devices | settings, connections | requests | little state of their own |

How they interact. One FreeRTOS task on core 1 (`bus_iec`, `lib/bus/iec/iec.cpp:83`)
calls `IECBusHandler::task()` in a loop. The handler calls the devices' callbacks; those
that may block (`canRead`, `canWrite`, `task`) run with `m_inTask` cleared, so the ATN
interrupt may act inside them; those that may not (`listen`, `unlisten`, `talk`,
`untalk`, `read`, `write`) only note what is to be done, which `IECFileDevice::fileTask()`
does later. Drives open streams, streams obtain sessions from the broker; the broker's
own task on core 0 disposes of sessions nobody uses. The console runs in tasks of its own
and calls into all of these.

What makes each part correct: the handler's flags, its current device and what the
devices were told agree, it answers ATN, keeps the answer and never drives an idle bus;
the file device hands the drive exactly the operations the computer asked for, in order;
the broker neither takes a session from its users nor keeps a dead or unused one; the
cache keeps to its limit; a file on an image
is there whole or not at all and shares no block with another; a stream on a TNFS server
reads the bytes of its file and writes each byte once; a byte of a direct-access channel
comes from, or goes to, the place the program's last command has selected.

`PROJECT.json` lists every component with its status and, under `hazards`, where each of
these can go wrong.

## 2. Modules

**`IECBusHandler`** - one action per stretch of `task()` that the interrupt can cut. `pc` is
the place in `task()`; `cpc` is the place in `end()` or `begin()`, called by the console;
`flags` is `m_flags` as a set of bit names; `clkLow`, `dataLow` are the lines this handler
pulls; `reg` is the register between the load and the store of `m_flags |= P_RESET`, the one
read-modify-write of `m_flags` made with the interrupt allowed and no callback in between.
`irq` is a pending falling edge; an edge whose interrupt finds `m_inTask` set is dropped, as
in the code. The master moves ATN and RESET at will, glitches included. Device callbacks
last as long as the stay at one value of `pc`. An ATN sequence is one step with one of the
results its byte loop can reach (`Addressed`): the primary address may be replaced by one
that agrees in the low four bits, UNLISTEN or UNTALK may follow, CLOSE bytes call `listen()`
on the way. A byte transfer, standard or JiffyDOS, either succeeds or fails and sets
`P_DONE`; each leaves the lines where the code's exits leave them. The RESET branch is four
steps, because `end()` may come between any two of them. `link` (what each device was last
told), `race` (which of the two RESET races has happened) and `slept` (whether the console
has touched the bus, and whether an `end()` overlapped the RESET branch) are history
variables. Left out: the microsecond timing, `pinCTRL`, host mode, `setActive`, fast-load
requests (Epyx, Final Cartridge, Action Replay), boards with a parallel cable (Dolphin,
SpeedDos and Hypra-Load code, `IECConfig.h:46`). The interrupt handler is one step. The GPIO
interrupt service is installed by `app_main` on core 0 (`src/main.cpp:238`) while the bus
task runs on core 1, so the handler normally runs beside `task()`, and a few instructions of
`task()` may fall between its test of `m_inTask` and its body; that overlap is not modelled.

**`IECFileDevice`** - the device under a driver that makes the callbacks the handler
makes. Bytes are identities (channel, number, EOI), so a byte that is lost, doubled or
written to another channel shows. `owed` is what the master has asked for and the derived
class has not been given; each call into the derived class must be the head of it
(`Give`), otherwise `wrong` is set. On the reading side the derived class serves files of
`0..MaxFileLen` bytes, may announce EOI with the last byte or later, and the master must
get the bytes in order with EOI on the last. `CanServeATN` is `m_canServeATN`; with it
`task()` runs between two ATN callbacks, without it `fileTask()` runs in
`canRead`/`canWrite`. Left out: the status channel, the blocks of the fast loaders, the
stripping of carriage returns from commands.

**`SessionBroker`** - clients (`client[c]`: obtain, open, busy, close) and the service
task (`svc`: collect, keep-alive, reconnect, remove). Session objects are reference
counted: `Referenced` is what some `shared_ptr` points to, and every step that drops a
reference ends in `Settle`, which destroys (and so disconnects) the unreferenced. The
mutex is held across steps only while the service task removes sessions. Idle time has
the three values the code distinguishes: fresh, past the grace period, past the
keep-alive interval. The session operations are those of TNFS (`network/tnfs.cpp`) and of
CSIP (`service/csip.cpp`), the `scheme` of a key, which differ in two ways that matter: a
keep-alive on a connected TNFS session cannot fail (`tnfs_getcwd()` asks nobody), one of
CSIP can; and `close()` of a TNFS stream returns at once when its session is disconnected,
without giving back its count (`closeDisconnected`).

**`SessionFileCache`** - the LRU cache of one session and the streams that fill it. The
bytes of a file play no part. The code takes no lock, so every call on `file_cache` or
`cache_order` is a step of its own. Two tasks inside the same container at once are
undefined behaviour, which the model does not go into.

**`FileStore`** - the abstract specification of a medium that files are saved on: a set of
named files and, per channel, what its client has sent. A save becomes visible whole in
one step or leaves no trace; a power cut loses the saves under way and nothing else.

**`D64Image`** - the write engine of `d64.cpp`. `image` is what is on the container: the
free blocks of the BAM, the link and the contents of every block. A handler (`task`) is the
sequence of its container writes, one step each, so a write may fail (`FaultPoints`) and
power may go (`CutPoints`) at each. A container handle may buffer its last write (`pend`,
stdio below `flash.cpp`); `Visible` is the image once all buffers are flushed, without a new
directory sector whose entry is not written yet. `stream[c].held` is `create_allocated`.
Which free block `findFreeBlock()` takes is left open. Handlers run one at a time, as on the
bus task; the console's `rm`, `mv` and `cp` and the DELETE of WebDAV write images from other
tasks, without a lock, and are not modelled. `acked` (saves reported as done) and `lost`
(blocks of saves a power cut interrupted) are history variables. `MCD64Image` adds the
symmetry of channels and names. `ImplementsFileStore` maps the directory, read back through
the block chains, to `files` (`StoreFiles`) and the blocks sent so far to `saving`
(`StoreSaving`).

**`TNFSClient`** - transactions of `tnfslib.cpp` (`stack`: the running one, with a MOUNT
above it when a session is recovered), the operations of the streams between which others
may run (`op`), the handle table (`slots`) with its read cache, and two queues of
messages. The server is not in the repository: it is marked external and assumed to
answer the sequence number it answered last with the same answer, which is what the
retries of the client rely on. UDP loses messages, TCP breaks and loses what is under way;
a message may be delayed past its time-out; both queues are first in, first out. A read of
the TCP connection takes up to 532 bytes whatever answers they belong to; without `Framed`
it may end inside an answer, and the pieces are taken for answers (`Torn`, `Cut`). The
history `allowed` says what each byte of a file may be by now.

**`DriveChannels`** - "#" channels of the drive. Four layers hold a position: the container
handle (`stream.cur`), the media stream (`stream.pos` and `size`, which is how a block
window is expressed), the channel's buffer (`handler.buf`, `position`) and the two bytes
`IECFileDevice` reads ahead (`ahead`). A byte is the offset it was read from. The history
`place`, `limit` is the pointer and the window a program's author would count with, and
`stale` counts the bytes of `ahead` that are from before the last command. The container may
refuse any seek; each command then leaves what the code has changed by that point. A
container read that fails returns no bytes (`MMediaStream` does not pass its error on, and
its own `_error` is only set when a file is written, so the error exit of
`readBufferData()`, `drive.cpp:403-406`, is not reached from a direct-access channel).
`Rules` is what the program takes care of (section 4).

**`IECBusHandlerProofs`, `IECFileDeviceProofs`, `SessionBrokerProofs`,
`DriveChannelsProofs`** - theorems and proofs, one module per
component. The proofs about `D64Image` are in three: **`D64StepProofs`** (what
`ChainFrom`, `SlotOrder` and `FirstSlot` compute, the inductive invariant, and what each
kind of write does to an image), **`D64ImageProofs`** (the actions and the invariants) and
**`D64StoreProofs`** (the refinement of `FileStore`, and the owners of allocated blocks).

Operators marked "Mutation" are deliberately wrong versions of the definition that
follows them, used to see that each property can fail.

## 3. Runs

Passing runs:

| run | instance | checks |
|---|---|---|
| `bus` | device 8, address 24 also sent; console sleeps and wakes; fair bus task | `TypeOK`, `RoleMatchesDevice`, `NoNullDevice`, `AtnHoldsData`, `IdleBusReleased`, `AsleepStaysQuiet`, `AtnAnswered` |
| `filedevice` | two data channels, buffer of 3, files up to 3 bytes, ATN served | `TypeOK`, `OperationsInOrder`, `AllCarriedOut`, `DeferredChannelValid` |
| `filedevice_polled` | one data channel, ATN not served, secondary after CLOSE | `BufferNotShared` |
| `broker` | 1 server, TNFS or CSIP, 2 clients, 2 session objects, failing network; fair service task and clock | `TypeOK`, `IoBalanced`, `DeadSessionLeaves`, `UnusedDisposed` |
| `d64` | 2 channels and a shell, 2 names, 3 file blocks, 2 directory sectors of one slot, 3 saves, one failing write or power cut, buffered handles or not | `TypeOK`, `NoSharedBlock`, `ChainsAllocated`, `NoOrphans`, `AckedOnDisk`, `ImplementsFileStore` |
| `tnfs` | 1 stream, file of 3 bytes, cache of 2, 2 tries, 4 sequence numbers, 5 operations, 2 troubles, 1 expired session | `TypeOK`, `ReadsTrue`, `WritesLand`, `Returns` |
| `tnfs_pair` | 2 streams on one mount, 7 operations, 1 trouble | `ReadsTrue`, `WritesLand` |
| `drive` | 1 channel, 2 blocks of 2 bytes, buffer of 3 bytes, one failing command in a row, all three rules | `TypeOK`, `ReadsInPlace`, `WritesInPlace`, `PositionsAgree` |

Runs that show where the code and its comments disagree (`findings` quotes both sides):

| run | shows |
|---|---|
| `broker_stale_list` | a session in use again is disposed of on a stale decision |
| `filecache_overlap` | two tasks that store a file at once leave more files in the cache than its limit |
| `d64_leak` | a failing write of a full block leaks the block claimed for the next |
| `drive_block_read` | B-R of a block behind the selected one fails: the count byte is read through the old window |

Bounds. The handler treats devices alike except through the low four bits of the address: 8
and 24 collide and 24 is not ours. Several devices of ours, and those that collide such as 4
and 20, are covered by the proofs, which are for any set. Everything else in `IECBusHandler`
is finite as it stands (380,000 states with the console). In `IECFileDevice` a buffer of 3
(two usable bytes) reaches empty, partly full, full and passed on in parts; files of up to
three bytes end before, at and behind the two-byte read-ahead; names and commands fit the
buffer (a longer command "will be cut off", `IECConfig.h:88`); `MaxOwed` bounds what a
device that cannot serve ATN may leave undone, and is not reached when it can; byte numbers
wrap at `BufferSize + 1`, more than can be pending at once. Two clients and one service task
are the parties of every race of the broker. Two session objects let both clients miss the
same key and let a client keep an object that was replaced under it; the third that can
exist, held by the list of the service task alone, is left to the proofs, which are for any
number (TLC finds no violation with three either, in ten times the states). Different keys
share nothing but the mutex and the repository map, and the proofs are for any number of
them. A cache of two under three paths lets two stores meet at the limit.
Three file blocks for files of up to two run out in the middle of a save, between two
concurrent saves and after a scratch; two directory sectors of one slot make every second
file extend the directory and the third find it full. A TNFS cache of two under a file of
three is refilled, crossed by a read and left behind by a seek; four sequence numbers wrap
within five operations with retries. In `DriveChannels` the buffer (512 bytes in the code)
holds more than a block (256) and less than the image, so it would hold bytes of the next
block if the window let it, and is refilled in the middle of an image; a block is as long as
the read-ahead, so that a command can find any part of it read ahead. `MaxFailures` is how
many commands may fail in a row; the next one that succeeds clears the count. Channels share
the status and nothing else, hence one channel.

Fairness. `bus`: weak fairness of the bus task, which owns a core at high priority and
whose callbacks return; none for the interrupt, whose edges may be dropped, and none for
the master. `broker`: weak fairness of the service task, which wakes every second and
whose network calls time out, and of the clock; none for the clients, whose leaving is
the premise of the property. `tnfs`: weak fairness of the tasks that run the streams and
their transactions, whose waits have a time-out, and of the server for a request that has
arrived and is not lost; losses, refusals and expiries are not fair, they are bounded by
`MaxTrouble`.

Deadlock is checked, except in `d64`, `d64_leak`, `tnfs` and `tnfs_pair`, where the bounds
on saves and operations end a behaviour.

## 4. Assumptions, and what the code does without them

Each assumption below is a constant of its module (or, for the race of the bus handler, an
exception spelled out in the property). Without it a listed property fails, and the failing
behaviour is one of the code.

- Bus handler. `m_flags |= P_RESET` (`IECBusHandler.cpp:4295`) is a load and a store with
  the ATN interrupt allowed between them; the store then loses `P_ATN` and DATA stays low on
  an idle bus. `IdleBusReleased` leaves out the behaviours in which this has happened
  (`race`). An ATN edge inside the RESET branch has its answer withdrawn two statements
  later, the exception of `AtnHoldsData`. `AfterClose`: a CLOSE byte sets `P_LISTENING` at
  once and `m_currentDevice` only at the end of the ATN sequence. With UNTALK after it
  (LISTEN 8, CLOSE, UNTALK) or an address of another device with the same low four bits
  (LISTEN 8, CLOSE, LISTEN 24) the role stays without a device, and `task()` dereferences
  NULL at line 4351. `NoNullDevice` and `RoleMatchesDevice` are about masters that do
  neither.
- Console. `end()` during a transfer leaves a line driven or a null device behind;
  `AsleepStaysQuiet` is about the calls of `task()` that start later, and the other
  properties of the bus about the time before the console first touches it. An `end()` that
  runs between `m_enabled = true` and `attachATNInterrupt()` of the RESET branch (lines 4311
  and 4312) leaves a sleeping bus whose interrupt answers the next ATN by pulling DATA;
  `AsleepStaysQuiet` leaves out an `end()` that overlaps the RESET branch (`slept`).
- File device. Without the ATN interrupt a deferred command can be overwritten by the next
  transaction, and a secondary address sent after CLOSE in its ATN sequence redirects the
  deferred CLOSE; `OperationsInOrder` and `DeferredChannelValid` are checked for a handler
  that serves ATN and a master that does not do this. In both cases `m_channel` may be 15
  when the CLOSE is carried out, and `fileTask()` writes past the end of `m_readBufferLen`
  (line 672).
- Broker. A stream that marks its session busy only after its file is open (`tnfs.cpp:681`)
  can find the session disconnected by then. Its `close()` does nothing on a disconnected
  session (`tnfs.cpp:685`, 613), so the count stays up for good. `IoBalanced` says what is
  left: a count is never too low, and exact for a session that the repository still hands
  out, which is where `isBusy()` is asked.
- D64, `OneAtATime`: with a container whose handles buffer, two channels do not see each
  other's BAM updates and are given the same block. The comment at `Points` in `D64Image`
  says for each point that a run leaves out what breaks there. `FaultPoints` of run `d64`
  leaves out the writes of the undoing itself (rollback, undoing a directory sector, freeing
  the blocks of a scratch), whose result the code ignores; the marking of a recovered or
  scratched entry and the reclaiming of blocks in pass 2 of a recovery, although the comment
  at `d64.cpp:986` says that "a recovery that cannot complete must leave the disk exactly as
  it found it"; the contents of a new directory sector (`d64.cpp:900`), after whose failure
  the directory stays linked to a sector that was never written; and the link block, whose
  failure is run `d64_leak`. `CutPoints` leaves out the middle of `scratchEntry()` and the
  last write of `SAVE"@:"`, where the blocks are free before the entry is gone, and the
  stretch between lines 866 and 900. A write that fails is reported at once; one that a
  buffer accepts and the flush fails to store is not modelled.
- TNFS, `Careful`: after a READ or WRITE without an answer the client's position is behind
  the server's until it seeks, and after a cache fill that failed half-way the loop of
  `tnfs_read()` (`tnfslib.cpp:484-529`) may never end, so `Returns` needs it too; after a
  CLOSE without an answer the entry stays in the table. `Framed`: every read of the TCP
  connection ends at the end of an answer. The code has nothing to ensure it
  (`tnfslib.cpp:1564`, `fnTcpClient.cpp:398`): when a request was sent again and two answers
  of 519 bytes are there, one read of 532 bytes ends inside the second, and what is left is
  parsed as the next packet. With `Framed = FALSE` and a single stream TLC finds in twenty
  steps a piece of an answer taken for the result of a WRITE (`WritesLand`). With answers
  fetched one by one as they come, or over UDP, the assumption holds. `OpenAlone`:
  `tnfs_open()` reserves its entry with handle number 0, and another stream whose handle is
  0 finds that entry. With two streams no session expires: after a remount the table holds
  numbers of the old session and the server gives them out again.
- Drive, three rules of a program, each needed by a property. `seeks`: between reading and
  writing it gives a block command. A write goes to where the stream is, which is a buffer
  ahead of the reader, and `MMediaStream::write()` does not count what it writes, so a read
  after it ends in the wrong place. `inside`: it writes no more than the rest of the block;
  nothing in the code stops a longer write. `checks`: after an error it selects a block
  before anything else. A B-R that fails has moved the stream already, and a seek refused at
  `drive.cpp:1614` comes after the new size was set at 1611, so that a B-P on the old block
  would read up to the end of the new one. Block commands may come at any time. They do not
  clear the two bytes `IECFileDevice` has read ahead (only the path through a virtual drive
  calls `clearReadBuffer`, `drive.cpp:1680-1697`): `ReadsInPlace` allows these bytes, and no
  others, before the new block. After F-P the window is the whole container, as
  `drive.cpp:1511-1514` and `drive.h:124-127` say; the comment above `positionChannel()`
  (`drive.cpp:1453-1455`: F-P "re-bases the block window onto the block containing that
  offset, so 'one block at a time' still holds") describes something else than its code.
  Besides: only a channel opened for writing is written to, the console leaves the channels
  alone, and no read of the container fails.

`linearBlock()` compares a sector with the number of sectors by `>`, so the block behind
the last one is accepted (`sectorByteOffset` of the model); a read there finds nothing.

## 5. Proofs

`IECBusHandlerProofs`, for any set of devices and addresses. Assumption `Orderly`: after a
CLOSE byte the master sends UNLISTEN or a secondary address (with UNTALK or another address
the theorems are false) and the console leaves the bus alone. None of the properties is
inductive by itself. The invariant `IInv` adds what links the cuts of `task()`: inside a
callback the role that led there is still set, since no interrupt touches a role (`PcRole`);
the register copy of `m_flags` holds the same roles, and a `P_ATN` only if `m_flags` has it
(`RegisterCopy`); in the RESET branch no role is left (`ResetClears`); and at every place
but the RESET branch a line is driven only for a role or an ATN, unless the store of
`P_RESET` has overwritten it (`DrivenForReason`, the general form of `IdleBusReleased`). One
lemma per section of `task()` shows that it keeps `IInv`; the ATN sequence is reduced to one
lemma about how it ends (`AfterATNIInv`). Results: `TypeCorrect`, `RoleAgreement`,
`NullSafety`, `AnswerHeld`, `IdleReleased`. `SleepIsQuiet` (`AsleepStaysQuiet`) needs no
assumption on master or console. Its invariant `SleepInv` says that while `m_enabled` is off
and no `end()` has overlapped the RESET branch the ATN interrupt is detached, but for one
statement of `end()` and one of `begin()`, and `task()` is not about to attach it
(`DisabledMeansDetached`); and that a bus the console has not touched is enabled
(`NeverMeansEnabled`), so that the RESET branch attaches nothing before the first `end()`.

`IECFileDeviceProofs`, for any channels, buffer size and file length. `BufferExclusive`
needs no assumption on handler or master: once `task()` has run after an ATN callback no
command is pending (`RanMeansDone`), or `canWrite()` has carried it out itself. With
`Served` (ATN is served, nothing follows CLOSE in its ATN sequence) `ChannelInRange` follows
from the invariant that `m_opening` belongs to a LISTEN in progress on a data channel, that
no command is pending beside it, and that the write buffer outside LISTEN belongs to a
pending command. `FileDeviceTypes`, `DeferredInOrder` (`OperationsInOrder`) and
`EverythingCarriedOut` (`AllCarriedOut`) need the account `FileInv`: for every phase of a
transaction it says what the device still owes, as a function of `m_cmd`, `m_channel`,
`m_eoi` and the write buffer - in a LISTEN with a name or a command nothing yet, and the
buffer is what was sent (`TextInv`); in a LISTEN with data one `write()` per byte of the
buffer (`DataInv`); in a LISTEN with CLOSE the CLOSE or nothing (`CloseInv`); after the
transaction what `m_cmd` stands for (`AfterInv`). On the reading side the read buffer of a
channel is exactly the bytes between what the master has got and the position of the
derived class (`ReadInv`), and a single byte is promised only at the end of the file
(`TalkInv`), which is what puts EOI on the right byte.

`SessionBrokerProofs`, for any keys and session objects and any finite set of clients.
`TypeCorrect`, `CountersBalanced` (`IoBalanced`: the busy counter of a session is at least
the number of clients with a stream open on it, and equal to it while the session is in the
repository) and `DeadLeave` (`DeadSessionLeaves`: a session
in the repository without connection is one the service task is about to remove or to
reconnect). The invariant `BrokerInv` adds that an object about to be created is nobody's
(`Fresh`), that two keys never share an object, not even through the service task's list
of sessions to ping (`Apart`), which lists are empty in which phase of `service()`
(`Phases`), that an object on its way into the repository is connected (`NewConnected`)
and, for every phase, on which list a session without connection is (`DeadListed`). The
counting needs `CountInv` beside it: a client holds the session of an entry under that
entry's key (`KeyKept`), a TNFS session in the repository is connected (`TnfsConnected`: only
a disposal disconnects it, so that a count can be lost only off the repository), and a new
object has counted nothing (`NewUnused`). Finiteness of the clients is needed for the
counting only.

`DriveChannelsProofs`, for any channels, image, block size and buffer size. Assumption
`Orderly`: the rules `seeks` and `checks`; only `ChannelTypes` (`TypeOK`: offsets stay on
the image, windows inside their block) needs `inside` as well. `ReadsRight`, `WritesRight`,
`PositionsRight` follow from the invariant `Inv`, which says per open channel that behind
the bytes from before the last command read-ahead and buffer hold the bytes behind the
pointer, in order and inside the window (`Buffered`); that, unless the last command failed,
the stream stands behind the last of them, and an end of file was latched at the end of the
window or of the container (`Following`); that the window of the program is the size of the
stream, which F-P must have restored (`Extent`); and that without a read since the last
command nothing is buffered and all that is read ahead is old. The lemmas follow one byte
through the layers: `RefillLoaded` for the channel's buffer, `ServeLoaded` for what it hands
on, `FillLoaded` for the read-ahead; `BecomesInv` reduces an action to the new values of its
channel.

`D64ImageProofs`, for any channels, names, geometry and numbers of blocks, saves and
troubles: `ImageTypes`, `BlocksNotShared` (`NoSharedBlock`), `ChainsStayAllocated`
(`ChainsAllocated`), `SavedStays` (`AckedOnDisk`). Assumption `Safe`, each part of which is a
window the code leaves open: power is not cut while a file is scratched (its blocks are free
before its entry is gone) nor while a linked directory sector is still unwritten; the write
that marks an entry deleted does not fail (`seekPath()` begins the new save whatever it
returned) and neither does the one that fills a new directory sector; a container whose
handles buffer is used by one channel at a time. All other writes may fail and power may go
at all other places, also at those the run leaves out for `NoOrphans`: a failing undo leaks
blocks, it never shares them.

The invariant `D64Inv` is `Good` of the image as `Visible` shows it. The image is `Sound`:
the directory ends, is allocated and is made of directory sectors; links of file blocks stay
among file blocks; no two files meet; every file but the one being scratched ends and is
allocated; every acknowledged save is there whole. Beside it the blocks of the saves under
way are allocated, linked and written in order, and apart from each other and from all
files (`SavesOK`, `Apart`), and the running handler finds what it relies on (`StepOK`: the
slot it is about to fill is still free, the sector it links is nobody's, what it frees is
its own). `PendOK` is about buffers: at most one handle holds a write, and the image
underneath it is sound wherever a cut may throw that write away. `NewLinked` relates the
image to `Visible` while the new directory sector is linked and not written. TLC has checked
`D64Inv` on the instance of run `d64`.

The argument is the same for every write: which chains does it pass through? A block
outside a chain changes nothing on it (`ChainSame`), so each action only has to show
that what it writes is outside every file, every other save and, but for directory writes,
the directory. That two chains which end and share no block stay so, and that a chain which
ends has no block twice, rests on counting: `walk` in `ChainFrom` is a recursive function
over sequences, cut off after as many steps as there are blocks; that it is well defined is
proved by induction over a set of lengths, and that a chain which ends is never cut by the
pigeonhole principle. The proofs needed `DirTrack # 75` (the fill pattern 0x4B 0x01, read as
a link, would otherwise name a directory sector; no geometry of the code has it).

`D64StoreProofs`. `ImageIsStore` is the refinement: under `Safe` the specification implies
`ImplementsFileStore`. Most container writes are stutters of the store, because they touch
blocks that no file and no directory sector uses, or BAM records, which a reader never sees
(`Keeps`). The others are one store step each: `Begin` starts a save, the write of a full
block is one more block sent (`LinkStore`), the entry makes the save visible in one step
(`EntryStore`), the mark of `scratchEntry()` deletes a file and that of `unscratchEntry()`
brings one back (`ClearStore`, `RestoreStore`), a failure ends the save without a trace
(`UndoAborts`). A power cut is the one step that needs more than `D64Inv`: what a buffer
holds is gone, so the image file underneath must already show the same files. That is the
invariant `Agree`: `SameStore(image, Visible)` wherever a handle holds a write made at a place
where power may go. `NobodyAssumption` keeps "no save" apart from the saves of the store.

`NothingOrphaned` (`NoOrphans`) assumes `NoLeak` beside `Safe`: the writes that give blocks
back or claim them for a recovery do not fail, nor does that of a full block. Each of them
really leaks in the code: the results of the first are ignored, and the block the full one
should link to is claimed but not yet in `create_allocated`. The instance of run `d64`
satisfies both. The invariant is `Clean`: every block is free, or accounted for by the BAM,
the directory, a file, a save, a cut, or the running handler itself (`Works`: the sector or
block it has just claimed, the chain it is recovering); a scratch and a rollback have given
back all that is no longer on their list (`FreeingOK`); a channel that carries an error has
no save left to finish, so that its CLOSE drops nothing (`ErrorOK`); and a recovery has
changed neither links nor contents when power goes (`Marked`), so that the blocks the cut
takes, read from the image file, are the ones it had claimed.

Only model-checked. Liveness (`AtnAnswered`, `UnusedDisposed`, `Returns`), which is outside
the prover's reach. `TNFSClient`: `TypeOK`, `ReadsTrue` and `WritesLand` rest on
one invariant that relates the position of the stream, of its entry and of the server's
descriptor to the contents of both queues: which of the requests under way the server has
carried out, and whose they are. For every value of the constants they are not true as they
stand. A sequence number comes round after `SeqNumbers` transactions, and the code bounds by
time and not by count how long a message may be under way; with several streams a CLOSE that
gets no answer, or a remount, leaves an entry whose handle the server may give out again.
The runs stay clear of these by their bounds (numbers come round, but with at most two
troubles no message is under way for that long; with two streams there is one trouble and no
session expires); theorems would have to assume them.

## 6. Plan

1. Proofs about `TNFSClient`, under assumptions on the age of messages and on unanswered
   CLOSEs.
2. The drive's file and directory channels, and the commands above the image (B-A, B-F,
   partitions, navigation); `DriveChannels` above `IECFileDevice` in one module.
3. `IECFileDevice` against an abstract queue of operations; the status channel; a master
   that leaves LISTEN open.
4. Fast-load requests as block transfers in `IECBusHandler`; `setActive`, `detachDevice`.
5. The console executor; TNFS directories; the HTTP streams.

Not modelled, beyond the plan: configuration, web server, WebDAV, drivers and vendored
code (more than nine tenths of the lines in the tree are third-party libraries: SQLite,
libarchive, zlib, JSON, image codecs); parsers of tape, cartridge and archive formats,
which are data layout with little state; the bit-level timing of the fast loaders, which
is outside what TLC can say anything about; host mode; of `D64Image` reading and
overwriting in place, subdirectories and the other geometries, which share the code paths
modelled; of `TNFSClient` create, append and truncate modes, SEEK_CUR and SEEK_END, files
that change their size, and directories. `PROJECT.json` says what is missing component by
component.
