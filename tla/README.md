# ARMSX2 core: a TLA+ verification project

ARMSX2 is a PlayStation 2 emulator (a fork of PCSX2 for ARM).  Its core runs the
PS2 on a handful of threads: the *EE thread* (CPU thread: EE, IOP, VIF, GIF, DMA
and the VM manager), the *GS thread* (MTGS, graphics), the *MTVU thread* (VU1,
optional) and a few I/O and worker threads.  What the threads of the core say to
each other goes through hand-written rings, semaphores and atomics, and that is what
this project models, checks and proves: no test of the repository exercises an
interleaving of them.

Run everything from this directory: `tlc -config X.cfg M` checks module `M`,
`tlapm MProofs.tla` checks its proofs.  `PROJECT.json` lists the runs, what each
definition models (`map`), the hazards with the properties that cover them, the
disagreements found, and the theorems.

## 1. Inventory

| Component (source) | State | Operations | Hard behaviours | What makes it correct |
|---|---|---|---|---|
| `WorkSema` (common/Threading.h, Semaphore.cpp) | one 32-bit word (dead / spinning / sleeping / running 0, N, flag "waits for empty"), two kernel semaphores | NotifyOfWork; CheckForWork, WaitForWork(WithSpin), Kill, Reset of the worker; WaitForEmpty(WithSpin) | a notifier between its fetch_add and its post; spin time-out against notification; death and revival under a waiter | no wake-up lost or left over; an empty wait is honest and answered once |
| `UserspaceSemaphore` (same files) | a counter, negative while threads are blocked, and a kernel semaphore | Post, Post(n), Wait, WaitWithSpin, TryWait | batch posts against takers in user space | it is a counting semaphore; nobody is stranded |
| MTGS (MTGS.cpp, MTGS.h) | ring of quadwords, ReadPos, WritePos; ring signal (enable, position, semaphore); vsync throttle (count, listener, semaphore); `s_sem_event`; CopyDataTally | send packets, GenericStall, PostVsyncStart, WaitGS, ResetGS; MainLoop; open, close, shutdown | full ring, two places that answer one request, a throttle with three variables, a reset that writes the other thread's variable | packets are executed in order, once, unharmed; stalls and waits end; frames are bounded |
| MTVU (MTVU.cpp, MTVU.h) | ring of words, read and write position; `semaEvent`; semaXGkick; vuCycles; interrupt flags, gsLabel, gsSignal | ExecuteVU, VifUnpack, Write*, ReserveSpace, WaitOnSize, WaitVU, Reset; ExecuteRingBuffer; Get_MTVUChanges | wrap with a NULL packet, stale read position, reset | no packet overwritten before it is executed; WaitVU drains; room comes |
| GIF unit (Gif_Unit.h/.cpp) | three paths with buffer, tag and packet state; fake packets; gsPackQueue; readAmount | TransferGSPacketData, Execute, Copy/Execute/FinishGSPacketMTVU, GetGSPacketMTVU | path 1 is written by MTVU, announced by the EE and executed by the GS thread | one announcement per program; no circular wait |
| GS back queue, job queue (GS/GSBackQueue.h, GSState.cpp, GSJobQueue.h) | SPSC rings with free-running cursors, draw and payload pools, a WorkSema, an exit flag | submit a record, acquire and rotate nodes, drain, stop; the back thread's loop | pools that come back through the ring they are used in; a drain that several objects share; exit with jobs pending | FIFO; a node is not written while a record waits for it, and released once; a drain leaves nothing |
| Disc readers (CDVD/ThreadedFileReader.cpp, InputIsoFile.cpp, CDVDdiscThread.cpp) | request (pointer, offset, size), cancelled, running, quit, eight cache buffers; the sector last read | ReadSync, BeginRead, FinishRead, Precache, Close; the read thread | completion published without the mutex; readahead into buffers that the other thread reads; new requests over old ones | a read returns the data asked for; no target is written after its call; every call returns |
| VM manager, save states (VMManager.cpp, SaveState.cpp) | VM state, zip threads | Initialize, SetState, Reset, Shutdown, DoSaveState | pauses and resets of the rings; zip threads that remove themselves | rings drained before their memory is read; a thread is joined or detached once |
| SIF, DMA, VIF, IPU, counters, devices | guest registers and FIFOs | event handlers on the EE thread | long sequences of guest accesses, no threads | FIFO counts, stall conditions |
| CPU cores, recompilers, GS renderers, SPU2/USB/DEV9 back ends, UI | | | | not concurrency; see section 7 |

How they interact: the EE thread is the one producer of both rings.  It *kicks* a
consumer (NotifyOfWork), *stalls* for room, and *waits for empty* (WaitGS,
WaitVU) before it reads or resets what the consumer owns.  Consumers answer
through the semaphores.  With MTVU on, MTVU hands GIF packets to the GS thread
(gsPackQueue, semaXGkick) and interrupts to the EE (atomics).

## 2. Modules

| Module | Models |
|---|---|
| `WorkQueue` | abstract: what `WorkSema` promises to a queue: work added, notified, done; a worker that parks only when what it was notified of is done; a waiter with a promise |
| `WorkEvent` | abstract: the word without bits and kernel semaphores: parked / running0 / runningN / dead, one waiter.  The rings are built on its actions |
| `WorkSema`, `MCWorkSema` | `WorkSema`, one action per atomic access |
| `WorkSemaProofs` | its inductive invariant, the safety of the refinement of `WorkQueue` and the refinement of `WorkEvent` |
| `UserspaceSemaphore`, `UserspaceSemaphoreProofs` | the counter and the kernel semaphore behind it |
| `MTGS`, `MTGSProofs` | the EE/GS ring, with `WorkEvent` for `s_sem_event` |
| `MTVURing`, `MTVURingProofs` | the EE/VU1 ring, with `WorkEvent` for `semaEvent` |
| `GifPath1`, `GifPath1Proofs` | the composition: EE, MTVU and GS thread around path 1's buffer, with `WorkEvent` twice |
| `MTVUSignals`, `MTVUSignalsProofs` | GS interrupts and labels from MTVU to the EE |
| `GSBackQueue`, `GSBackQueueProofs` | records and nodes between the MTGS thread and the GS back thread, with `WorkEvent` |
| `FileReader`, `FileReaderProofs` | the disc image reader and its read thread |

```
            WorkQueue      WorkEvent ---------+----------+----------+-----------+
                 ^            ^               | INSTANCE | INSTANCE | INSTANCE  | INSTANCE
    implements   |            | implements    v          v          v (twice)   v
                 +- WorkSema -+              MTGS     MTVURing   GifPath1   GSBackQueue
                       ^ EXTENDS
        MCWorkSema, WorkSemaProofs      UserspaceSemaphore, MTVUSignals, FileReader
```

### WorkSema

`state` is `m_state` with its real values, computed as a two's complement word
with `%` and `\div`; `sema` and `emptySema` are the kernel semaphores.  `wpc` is
where the worker is between two atomic accesses, `ppc[p]` where thread `p` is.
A compare-exchange loop whose new value depends on the word alone is the step
in which it succeeds.  The queue of the user is three counters per producer:
`pushed`, `notified`, `done`; `promise` is what was notified when WaitForEmpty
looked.  All three ways in which a worker looks for work are in one model, so
that a worker may mix them (MTGS does).  WaitForEmptyWithSpin differs from
WaitForEmpty only by looking several times first, which adds no step.

*Memory order.*  Every access to the word is a read-modify-write or a re-read of
it, and all properties relate the word to the kernel semaphores; the model is
sequentially consistent.  What release and acquire on the word mean for the
*contents* of the queues is not modelled.

### UserspaceSemaphore

Threads are symmetric, so they are counted: `blocked` in the kernel, `spinning`,
and `owed`, the kernel posts that threads inside Post have still to make.

### MTGS

A packet is `<<command, id>>` followed by its data slots, written to `ring` and
read back from it; `fifo` is the history of what was sent and not executed.  To
the ring a packet is a VSync (header and payload) or one slot long; the larger
data packets of the GIF paths use the code of the VSync.  `ee` and `gs` are the
places of the two threads between accesses that the other can observe.  A
request (`Request`) stands for every caller of a send path:

| `cmd` | in the code |
|---|---|
| GSPacket | packets without a kick: SendSimpleGSPacket, SendSimplePacket |
| AsyncCall | RunOnGSThread and other packets with one |
| Sync | a packet and a WaitGS: InitAndReadFIFO, Freeze |
| VSync | PostVsyncStart |
| WaitGS | WaitGS alone |
| Reset | ResetGS(true) of VMManager::Reset and Shutdown, after a WaitGS |
| BootReset | ResetGS(true) of VMManager::Initialize (hwReset), without one |

Between the WaitGS of VMManager::Reset and its ResetGS, HandleELFChange may tell
the host of the game, and FullscreenUI::GameChanged then sends an AsyncCall:
`Synced` goes on either way, with `cmd` GameChanged for that packet.

The look that finds the ring empty (`SeenEmpty`) and the safety valve behind the
loop (`RingValve`) are two steps.  Between them the EE may fill the ring, stall
and ask for a signal, and the valve answers it although there is no room:
`dangling` notes that, and the EE goes round its loop (`RingWait`, back to
`enable`).

A ResetGS that finds packets in the ring throws away their count and may send
ReadPos past WritePos (finding 2).  `astray` notes it; what follows such a reset is
modelled to the end of its own packet, and the EE asks for nothing more.

Two merges: the packet is written and published in one step (`Publish`), since
its slots are not the reader's until WritePos moves; and the GS thread's load
and store of ReadPos are one step (`AdvanceReadPos`), so the model has *fewer*
behaviours than the code when another thread writes ReadPos between them.  That
is only a ResetGS that finds packets in the ring, and finding 2 does not need it.

### MTVURing

`buffer` holds packets as words that name their packet; `pending` is the history
of packets written and not executed; `overrun` notes that the EE came round to a
reader at position 0.  The model ends there (`FindRoom` needs `~overrun`), because
from then on the reader takes data for commands.  ReserveSpace looks at the
reader's position once (`FindRoom`), and what it then writes, the NULL packet
(`Wrap`) or the packet (`Write`), is a step of its own, at whose time the reader
may be further on.  `Margin` is the 4KB safety net
of WaitOnSize; the assumption on `Sizes` says that a packet that may have to
wrap is not longer than the net.

The model also explains the FIXME at MTVU.cpp:221.  With packets longer than the
net (in particular without it) there is a second overrun: ReserveSpace goes
round while the reader is *ahead*, in the tail of the buffer, because it made
room for the NULL packet only; when the reader then follows it to position 0 the
positions are equal with everything pending.  The net removes this one, and
leaves the one of finding 3.

### GifPath1

With MTVU on, the EE counts a *fake packet* for each program it starts
(`ExecuteVU`) and sends the GS thread one `MTVUGSPacket` command for it (`Send`,
from Gif_Unit::Execute).  MTVU executes the program, copies what it kicks into
path 1's buffer (`XGKick`, `Copy`, `Realign`), and at its end adds to
readAmount, pushes the packet and posts semaXGkick (`AddReadAmount`,
`PushPacket`, `PostXGkick`).  The GS thread takes a unit of semaXGkick for each
command (`TryWait`, `WaitXGkick`) and transfers and pops the oldest packet.
When the buffer has no room, MTVU waits in the *weak* WaitGS (`WeakWait`,
`StartPacks`, `LockUnlock`, `PacketDone`) until the GS thread has popped a packet.

The two command rings, modelled in detail elsewhere, are a count of programs and
a short sequence of commands here.  A cell of the buffer holds the number of the
packet whose data it has, so that an overwrite is seen wherever it happens.
`Hold` and `Resume` stand for all that keeps Gif_Unit from executing path 1:
CanDoGif is false, or path 2 or 3 is inside a packet.

Three things that are so in the code, and that the properties except:

* Packets that were held when MTVU woke the GS thread come into the ring without
  waking it: finding 5.
* While packets are held, the three waits *can* close a circle: MTVU waits for
  the GS thread to pop a packet whose announcement the EE still holds, the GS
  thread sleeps, and an EE that then calls WaitVU never returns.  It takes
  programs that fill the buffer, which real ones hardly do with its 9 MB.
* VMManager::Reset with packets held throws away the packets, not the units of
  semaXGkick: the next program's command finds a unit without a packet
  ("MTVU: Expected gsPackQueue to have elements!", Gif_Unit.h:541).  The model
  ends there (`lost`).  Saving a state at that point trips "MTVU GS Pack Queue
  should be 0!" (Gif_Unit.cpp:203) in the same way.

TryWait is one step with reading the command, and the post one with
CommitReadPos, which no other thread here can tell apart.

### MTVUSignals

A label is a set of bits to write (its data under its mask) and `Merge` the one
operation on them.  `todo` is the copy of the flags with which Get_MTVUChanges
runs; every access to one of the three atomics is a step, and the steps between
them are the EE's own.  A SIGNAL is numbered so that an overwritten or repeated
one can be told.  `Reset` models VMManager::Reset at the point where MTVU is
idle: it clears the flags and *not* gsLabel or gsSignal, so a label that was
waiting is merged into the first LABEL of the next program (`leftover`).  A
SIGNAL that arrives while one is queued behind CSR.SIGNAL replaces it
(MTVU.cpp:370-376): `FireSignal` does so, and no property forbids it.  Left out:
IMR and the interrupts it masks, VPU_STAT, the value of CSR.FINISH, SIGNAL and
LABEL of paths 2 and 3, save states.

### GSBackQueue

`slots`, `head` and `tail` are the ring with cursors that count modulo 2^32
(`CursorMod`); `pending` is the history of records pushed and not executed.  The
pools are sequences of free nodes and a count of those made.  A draw node has a
version that the front changes when it writes it, and a draw record the version it
was made with.

A payload node has `Units` cells of one bit.  Its records refer to *slices*: a
transfer record has the cells from `start` to `end`, m_tr's cursors, and what they
held when it was made.  `Write` goes on appending to a node whose slices are queued
(a FlushWrite in mid-transfer queues what is there), and only the cursors keep what
it writes apart from what the back thread reads: "disjoint ranges, so front-appends
and back-reads never overlap" (GSBackQueue.h:120-126).  A new transfer goes back to
cell 0, so a node that records refer to is rotated away first
(`RotateTransferPayload`).  A readback uses the same buffer behind a drain, and a
savestate puts back cursors (`Restored`).  Whether the guest's XDIR allows the
front to write or read at a point is left open; the data of a readback are zeros;
and what a node holds that no record refers to is forgotten (`Forgotten`).

`lockstep` is either mode.  `then` is where the front goes on after a push or a drain.  The two-object split shares one channel, so one
front and one back thread are all there is; `JoinAndReopen` is GSreopen.

### FileReader

One chunk is one sector, a cache buffer a run of up to `Cap` of them, a target
the number of the sector in it.  `AllDone` is the loop of TryCachedRead that
decides whether a readahead is asked for.  m_mtx and m_condition are modelled with
their waiters; notify_one finds at most one, since each thread waits only for the
other.  What is read without the mutex is a step of its own: the
first look of FinishRead, the compare-exchange, the filling of a buffer, the
readahead.  Calls come from InputIsoFile, i.e. a read is not begun for the
sector that was read last, and (`Reissue` FALSE) one is finished before the next
is begun; CDVD.cpp does not always keep to that, which is finding 4.  Out-of-range
sectors, spurious wake-ups (which only add a look at a condition that is looked
at again), chunks of several sectors, and CancelRead, which has no caller, are left out.  A Precache with
a request pending would leave m_requestPtr set without a reader to clear it;
its only caller comes before any read (`Cancel` asks for `~inprogress`).

## 3. Runs

| Run | Module, cfg | Distinct states | Question |
|---|---|---|---|
| worksema | MCWorkSema, WorkSema.cfg | 20,885 | type, tokens, honesty, both refinements, progress |
| userspace_semaphore | UserspaceSemaphore | 336 | conservation and tokens, no stranded thread |
| mtgs_ring | MTGS, MTGS.cfg | 653,478 | order and integrity, signals, throttle, drains, progress |
| mtgs_vsync | MTGS, MTGSVsync.cfg | violation | finding 1 |
| mtgs_boot | MTGS, MTGSBoot.cfg | violation | finding 2 |
| mtvu_ring | MTVURing, MTVURing.cfg | 87,423 | integrity, drains, room |
| mtvu_overrun | MTVURing, MTVUOverrun.cfg | violation | finding 3 |
| gif_path1 | GifPath1, GifPath1.cfg | 928,386 | one announcement per program, integrity across wraps, no circular wait |
| mtvu_signals | MTVUSignals, MTVUSignals.cfg | 213,480 | labels arrive, SIGNALs in order, all handled |
| gs_back_queue | GSBackQueue, GSBackQueue.cfg | 1,020,553 | order, slices and nodes, drains and stop, progress |
| file_reader | FileReader, FileReader.cfg | 837,179 | right data, no late write, exclusion, calls return |
| file_reader_reissue | FileReader, FileReaderReissue.cfg | violation | finding 4 |

Bounds, and why they are enough:

* *worksema*: two producers, of which one waits for empty (the EE and MTVU as
  users of `s_sem_event`; the code allows one waiter), two items each: enough
  for a notification while another is owed, for work that arrives between each
  pair of steps of the worker, and for a second wait after a first.  `NotifyFits`
  bounds the notifications between two looks of the worker to 2^29.
* *userspace_semaphore*: five units, three threads: batches larger and smaller
  than the number of blocked threads.
* *mtgs_ring*: seven slots, a VSync of two, a stall that sleeps above two
  (`SpinThreshold`, 0x80 in the code), so that both kinds of stall, wraps inside
  a packet, a valve's answer on a full ring, and a frame over a limit of none occur.
  AsyncCall is not among its requests: to the ring it is a GSPacket that is over the
  tally, and GameChanged's comes with Reset.  `TallyLimit` 1
  makes both kicked and unkicked packets.  Ids are reused modulo 2; `fifo`
  compares whole packets, slot by slot, so two ids tell neighbours apart.
* *mtvu_ring*: ten words, packets of 1, 2 and 4 words, a net of 2: every packet
  may meet the end of the buffer, and a write a reader that has moved on since.
* *gif_path1*: a buffer of five cells with a limit of three, programs that kick up
  to two, three of them under way: packets wrap, cut off the end of the buffer and
  meet a reader behind and ahead of them.  Two held packets, and a command ring of
  one, so that every send may stall.  A stall wakes the GS thread, which is why the
  run does not meet finding 5.  With a command ring of two or three the states of
  this buffer are too many for five minutes; TLC has checked `NoCircularWait` there
  with programs that kick one cell, and buffers of two to four.  A program that kicks more than about half
  of the buffer would wait for its own packet; the assumption
  `2 * MaxProgram <= BuffLimit + 1` leaves it out.
* *mtvu_signals*: one label bit (with its two values and "keep": labels work bit
  by bit), SIGNAL numbers modulo three, FINISH for the interrupts that are one
  flag (the E and T bits add nothing but states; the proofs have them).
* *gs_back_queue*: two slots, cursors modulo four, one draw node and two payload
  nodes of two cells: the ring, the cursors and both pools run full and wrap, and a
  node is appended to while a slice of it is queued.
* *file_reader*: three sectors, two buffers of two: every buffer is evicted and
  filled again, and a readahead goes on into a second one.

Deadlock is checked in `FileReader`, `FileReaderReissue`, `GSBackQueue` and
`MTVUSignals`.  The other cfgs say CHECK_DEADLOCK FALSE: the EE need not ask for
anything, the threads may all be asleep with nothing to do, and counters are
bounded (in `MTGS` a reset that finds packets and the window of the vsync throttle
do stop the system; those are findings with runs of their own).  That nobody is
asleep *with* something to do is what SleepTokens, NotifiedWorkGetsDone, EEGoesOn,
UnitsReachWaiters, RoomComes, NoCircularWait, RaisedIsHandled, FrontGoesOn and
CallsReturn say.

Fairness: weak fairness of each thread's steps as a whole, i.e. the operating
system runs a thread that can run.  Nothing is assumed of *which* of its
alternatives a thread takes, and no fairness is put on requests, notifications,
deaths and revivals: programs need not ask.  In `WorkSema` the fairness of the
worker covers the spin loop, which leaves by one of two ways; the notifier that
owes a post makes it.  s_mtx_RingBufferBusy2 and m_mtx get no more than that: a
std::mutex is not fair, so nothing is claimed of a thread that another keeps
from the mutex for ever (MTVU's own progress in GifPath1 under an endless stream
of other commands).

## 4. What the properties say

* `SleepTokens`, `EmptyTokens` (WorkSema): the two sleeping threads are each
  represented by exactly one thing (a word, an owed post, a token).  These are
  exact counts, so a token too many is as much an error as one too few.
* `HonestEmpty`, `WaitGSDrains`, `WaitVUDrains`: what callers of a wait rely on.
  For MTGS and MTVU it is stated of the ring, where it needs the kick before the
  wait (WaitGS) or after each write (MTVU).
* `RingIntact` (MTGS), `PendingIntact` (MTVURing), `RingHoldsPending`
  (GSBackQueue): the consumer finds every packet whole and in order, and equal
  positions mean an empty ring, the ground of the consumers' loops.  In MTVURing
  that holds until an overrun (finding 3), in MTGS until a reset finds packets in
  the ring (finding 2).
* `RingSignalDiscipline`: while the EE waits for room there is exactly one of
  request and token, and nothing stays behind of a stall that is over.  On a ring
  that is long against its packets (section 6) the token comes with the room: the
  loop around `s_sem_OnRingReset.Wait()` goes round only for a stall that the safety
  valve answered, on the strength of a look at the ring from before the stall.
* `FramesBounded`: the EE may be one frame over the limit, because the vsync
  valve of a ring that was empty can answer a listener that came later; it never
  adds up.  A reset that finds packets loses the count.
* `EEGoesOn`: a stall for room and a WaitGS end, also a stall that goes round.
* `OnePacketPerProgram`: programs, fake packets, commands, packets in the queue
  and units of semaXGkick balance at every step of three threads.
* `PacketsIntact` (GifPath1): the slack that CopyGSPacketData and RealignPacket
  compute from readAmount alone is enough, across every wrap.
* `NoCircularWait`: EE in WaitVU, MTVU in the weak wait, GS thread on semaXGkick.
  Its way out, `Unheard` for ever, is finding 5 and nothing else.
* `LabelsArrive`: LBLID with what waits in gsLabel is what all labels make of
  it, and a label that waits has somebody to fetch it.
* `NoSilentOverwrite`, `SignalsInOrder`: the order "value, then flag" of both
  sides is what makes the error message for a double SIGNAL reliable; each step that
  takes a SIGNAL moves on to the next number, and no other step takes one, so none
  is taken twice or out of order.
* `RecordsIntact`, `NodesInOnePlace` (GSBackQueue): what a record refers to is
  not written before it is executed, though the front goes on writing the same node
  behind it; no node is leaked, or released twice.
* `NothingLeft`: a drain and a stop leave nothing pending or under way.
* `DataIsRight`, `NoLateWrite`, `DecompressorExclusive` (FileReader): the three
  things that make the reader usable from one thread while another runs.

## 5. Findings

1. *mtgs_vsync*: PostVsyncStart counts its frame before it raises the listener
   flag.  If the GS thread finishes all frames, passes both of its looks at the
   flag and sleeps in between, the EE sleeps for ever, with the safety valve
   that is to prevent it already behind it (MTGS.cpp:277-283, 619-631).  Raising
   the flag before the count closes the window at the price of a token that may
   be left over.
2. *mtgs_boot*: a VM that starts with the GS already open resets ReadPos from the
   EE thread while the GS thread may be inside an AsyncCall; the GS thread then
   adds the packet's size and passes WritePos (MTGS.cpp:213, 595-602).  VMManager::Reset
   is open to the same: its WaitGS (VMManager.cpp:1988) comes before HandleELFChange
   (1993), which by way of ReportGameChangeToHost (1414) has FullscreenUI::GameChanged
   send an AsyncCall (FullscreenUI.cpp:470) when an ELF was booted and the fullscreen
   UI is initialised, and hwReset (2003) finds it there.  TLC shows it in this run with
   Requests = {"Reset"}.
3. *mtvu_overrun*: a reader that has not left position 0 when the EE wraps
   (MTVU.cpp:219, 247-254).
4. *file_reader_reissue*: the compare-exchange that is to detect a new request
   compares targets, and every BeginRead has the same target.  A read that is
   begun over another one is marked as finished with the other one's data
   (ThreadedFileReader.cpp:86-89, InputIsoFile.cpp:88).  It takes a command that
   breaks off a read, or a loaded state, while the read thread is decompressing.

5. No run of its own: the weak wait wakes the GS thread once, before its loop
   (MTGS.cpp:658-676).  If the oldest packet is one that the GIF unit still holds,
   the GS thread finds no command for it and sleeps.  When the unit goes on, its
   commands come into the ring without a kick, since SendSimpleGSPacket kicks only
   behind 8192 quadwords (MTGS.cpp:882-890).  If the EE then calls WaitVU, or
   reserves room in the VU1 ring, before its next kick, it waits for MTVU, MTVU
   turns in its loop for the GS thread, and the GS thread sleeps.  The comments say
   "Let MTGS run to free up buffer space" (Gif_Unit.h:362).  It takes 8 MB of
   path 1 data held in the buffer, so it is rare.  TLC found it in GifPath1 without
   `Unheard` in NoCircularWait and with RingMax = 2 (half a minute with
   BuffSize = 2, BuffLimit = MaxProgram = 1).

Finding 1 is stated with MTVU off; with MTVU on, a SetEvent of that thread could
end the sleep by chance.

## 6. Proofs

Checked by TLAPS for every value of the constants (any number of producers and
items, threads and units, labels, ring, packet and pool sizes, sectors and
buffers):

| Module | Proved |
|---|---|
| `WorkSemaProofs` | `TypeCorrect`, `NoLostWakeup`, `OneEmptyToken`, `WaitForEmptyIsHonest`, from `Invariance`; `ImplementsSafely`, the safety part of the refinement of `WorkQueue`; `ImplementsEvent`, the refinement of `WorkEvent` in full |
| `UserspaceSemaphoreProofs` | `TypeCorrect`, `TokensAlwaysMatch`, `IsASemaphore`, `CountsItsUnits`, from `Invariance` |
| `MTGSProofs` | `TypeCorrect`, `Drains`; until a reset finds packets in the ring, `RingSafe`, `FramesSafe`; and on a ring that is long against its packets `SignalSafe` |
| `MTVURingProofs` | `TypeCorrect`, `PacketsIntact`, `Drains`, from `Invariant` |
| `GifPath1Proofs` | `ProgramsBalance`, `ResetFindsAllIdle`, from `IInv`; `TypeCorrect`, `PacketsSafe`, from `PackInv`; `WaitsSafe`, from `WaitInv` |
| `MTVUSignalsProofs` | `TypeCorrect`, `LabelsSafe`, `NoSilentOverwriteSafe`, `SignalsSafe` |
| `GSBackQueueProofs` | `TypeCorrect`, `RingSafe`, `DrainSafe`, `StopSafe`, `NothingIsLeft`, `RecordsSafe`, `NodesSafe` |
| `FileReaderProofs` | `TypeCorrect`, `DecompressorSafe`; where `Reissue` is FALSE, `DataSafe` and `NoLateWriteSafe` |

The arguments:

* *WorkSema.*  None of the four properties is inductive.  SleepTokens needs to
  know that the word is SLEEPING only while the worker is on its way to sleep
  (`WordMatchesWorker`).  HonestEmpty needs two more facts: that a word which
  says "nothing to do" is right (`NoWorkForgotten`), and that the post which ends
  a wait was made when the promise was kept or the worker dead (`WakeIsHonest`);
  `Counting` bounds the counters against each other.  The arithmetic of the word
  is done once, in lemmas about the operators (what adding 2 to a word does to
  its flag, its low bits and its sign), so that the steps reason about the word
  without integers.  The refinement of WorkEvent uses the same invariant: a word
  is a notified one either by its low bits or, where SPINNING + 2 has become
  RUNNING_0, by the place of the worker that has not acknowledged it yet, and an
  answer is the unit of the kernel semaphore or the post still in the worker's
  hands.  WorkEvent states no fairness, so nothing of it is left to TLC; the
  modules of the rings, which use its actions, rest on a proved step.
* *UserspaceSemaphore.*  Conservation of units with the exact count of kernel
  tokens; `NeverOverdrawn` follows by arithmetic.
* *MTGS.*  `Ring` says that the packets of `fifo` lie one behind the other from
  ReadPos to WritePos: there are offsets `off`, the lengths summed up, at which the
  ring holds them (`Laid`).  The offsets are less than the ring's size, so the
  positions modulo that size tell them apart (`OneDistance`), and the room that
  FreeRoom computes is what is left (`Room`).  A packet published into more room
  than it needs overwrites nobody's slots and does not close the ring
  (`PublishRing`); one that is done leaves the others in place (`ReleaseRing`).
  `Drained` follows the event as in MTVURing.  A reset that finds packets ends all of
  this (`astray`); what is proved beyond it, for types, signals and WaitGS, is
  invariant without the ring.  The room that comes with a signal
  rests on `Promised`: free room and what the request still waits for are together
  enough, although a packet that was finished just before the request was made may
  be counted for it, RingSignal reading SignalRingEnable after AdvanceReadPos.  It
  speaks of stalls that the valve has not answered (`~dangling`); one that it has
  starts again from position 0, where the next packet done answers it, with room or
  without.
  That makes the theorem depend on the ring being long (`RingIsLong`): on a ring of
  7 slots with packets of 4, TLC finds a token that comes a packet too early, which
  costs the EE one more turn of its loop.  The code's ring of 2^19 slots is long
  against every packet it sends through a stall of that kind up to 2^16 slots.
  FramesBounded is not inductive: it says nothing of the frames while the GS thread
  is about to end a wait.  `FrameCount` adds that there, at its valve and at the
  signal behind a frame, no frame is over the queue but the one in the EE's hands
  (`Allowed`), and that none is when the token is there.
* *MTVURing.*  PendingIntact only looks at one packet and the next, which says
  nothing of a write that would reach over several.  The inductive invariant adds
  where all of them are: they lie in one lap of the buffer, between the reader and
  the writer (`Behind`, `AheadOf`, `Ordered`), or in two with one NULL packet
  between them and the writer behind the reader (`OneNull`, `Laps`).  From that,
  `RoomIsApart`: where WaitOnSize finds room, the words written are nobody's, and
  ReserveSpace never goes round with the reader ahead (the use of the assumption
  that a packet which may wrap is not longer than the net).  The room that was
  found stays there while the reader moves on and the write is still to come (`RoomStays`).  `Idle` says
  that an idle event means nothing is due or a notification is about to come, from which
  the drain follows.
* *GifPath1.*  The two balances are inductive but for three steps.  Popping a packet
  and finishing a command need `InHand`: what the GS thread is busy with is the
  first command of the ring, and one of path 1.  The reset empties one side of
  both balances, so that the other must be empty too: `ProgramsDrained` and
  `CommandsDrained` follow the two events through WaitVU and WaitGS, where the
  second event also gets the notifications of MTVU's weak waits.  Where the reset
  finds a unit of semaXGkick the model ends, and the balance with it (`lost`).
  Counting commands in a sequence is done once, in lemmas about Append and Tail.
  For the buffer, the packets get positions `T` in the stream of all that was ever
  kicked (`Stream`), where a part cut off the end of the buffer counts as read.  A
  packet's position less its offset is the base of its lap (`Base`), and two packets
  are on one lap, one behind the other, or on two that are at least BuffLimit apart
  (`Behind`).  readAmount is the distance from the reader's position to the last
  one, so the slack that CanCopy and CanRealign compute from it bounds what may still
  be read, on this lap and on the one before, and a copy and a move overwrite neither.
  `Numbers` has the bounds, and `End` says that a model that ended at a reset has
  nothing left to read.
  NoMutualWait needs what each thread that waits relies on (`Told`, `VUAnswers`,
  `GSAnswers`, `StallHeard`): programs are known to MTVU, answers and notifications
  are under way.  That MTVU waits for room only behind a packet is arithmetic
  (`RoomWhenRead`), with `CutIsShort` for the part cut off; then a unit of semaXGkick
  is there for that packet, by the balance above, so the GS thread does not wait.
* *MTVUSignals.*  `LabelInv` couples the labels that wait with the flag or the
  thread that is about to raise or to fetch it; `SignalInv` says which number the
  EE has taken at every place of the two threads.
* *GSBackQueue.*  `Counted` ties the two cursors, modulo their width, to the
  length of `pending`, and `Held` the slots between them to its records;
  `EventFollows` says that an idle event means an empty ring and a back thread
  off the records, from which a drain and a stop are safe.  For the nodes,
  `DrawSide` and `PayloadSide` count the places of each (pool, records, the hands of
  the front) and say that each record finds its version in its node.  A draw node is
  released by the record that names it.  A payload node is released by a record of
  its own, so the invariant has the order: the node of a transfer is the front's
  current one, or its release lies behind the transfer in the ring (`Kept`); and a
  node that is counted once has no second release (`ReleasedOnce`).  `Hands` says what the front holds at each of its places.
  Within a node the order is that of the cursors: every transfer in the ring of the
  node that is written lies below `start` (`Behind`), and the front writes from `end`
  on.
* *FileReader.*  `Places` relates the mutex and m_running to the places of the two
  threads, which gives exclusion.  For the data: `Ranges` (each buffer holds what
  its bounds say), `Owned` (whose target the read thread writes), `Asked` (what it
  was asked for is what the request says, which fails when a read is begun over
  another), `Kept` (what the thread is about to deliver stays in its buffer) and
  `Counted` (one block is counted once).

Assumptions: those of the modules' ASSUMEs (sizes are positive naturals, the
waiter is one of the producers, CursorMod is a multiple of RingSize, at least
three SIGNAL numbers), RingIsLong where stated (MTGS), and NotifyFits,
a guard of WorkSema.

Only model-checked: liveness (NotifiedWorkGetsDone and the liveness half of
ImplementsWorkQueue, UnitsReachWaiters, EEGoesOn, RoomComes, NoCircularWait,
RaisedIsHandled, FrontGoesOn, CallsReturn): fairness and ENABLED are outside the
prover's reach.  Every other property of the runs is proved, under the conditions
named above.

## 7. Not modelled, and why

* Opening, closing and shutting down the GS and MTVU threads: what GSopen and the
  window system decide, once per session.
* GSJobQueue: an SPSC ring of the boost library with the WorkSema that is
  modelled; its exit drops jobs, which its one long-lived user means.
* The GIF unit's paths 2 and 3 and their arbitration, VIF, DMA, SIF, IPU, counters
  and the devices: sequential code over guest state whose properties are those of
  the PS2, not of this program.
* What a command, a VU program, a device or a renderer computes: data.
* CPU cores and recompilers: code generation.
* Save-state files and their zip threads, host I/O, UI, settings, input,
  recording, audio output.
* SynchronousMTGS (a debugging mode of development builds).

## 8. Plan

What would add most, in order:

1. A run of its own for finding 5.
2. The lifecycle of the GS thread: StartThread, WaitForOpen (also failing),
   WaitForClose, ShutdownThread against ThreadEntryPoint, with WorkEvent's Kill
   and Reset.
3. The zip threads of VMManager, which take themselves out of the list that
   WaitForSaveStateFlush joins.
4. The audio stream's ring between the CPU thread and the host's callback.
