------------------------------ MODULE GifPath1 ------------------------------
(***************************************************************************)
(* Path 1 of the GIF unit under MTVU: the EE thread starts VU1 programs    *)
(* and announces one packet for each (pcsx2/MTVU.cpp, Gif_Unit.h), the     *)
(* MTVU thread executes them and writes what they kick to the buffer of    *)
(* path 1, and the GS thread (pcsx2/MTGS.cpp) reads it from there.         *)
(*                                                                         *)
(* The two command rings are a count and a sequence here (MTVURing and     *)
(* MTGS have them in detail), their WorkSemas are WorkEvent.  A cell of    *)
(* the buffer has the number of the packet whose data it holds, counted    *)
(* from the oldest that the GS thread is not through with.                 *)
(***************************************************************************)
EXTENDS Integers, Sequences, FiniteSets

CONSTANTS
  BuffSize, BuffLimit,  \* of the path's buffer (9 MB, and 1 MB + 1 KB less)
  MaxProgram,   \* most that one program kicks
  MaxPrograms,  \* bound: programs started, and not through the GS thread
  MaxHeld,      \* bound: packets not announced when the GIF unit stalls
  RingMax       \* commands that the EE/GS ring holds

\* A program kicks less than half of the buffer (it has thousands of cycles, the
\* buffer megabytes).
ASSUME GifPath1Assumption ==
  /\ {BuffSize, BuffLimit, MaxProgram, MaxPrograms, MaxHeld, RingMax} \subseteq Nat \ {0}
  /\ BuffLimit + MaxProgram <= BuffSize
  /\ 2 * MaxProgram <= BuffLimit + 1

VARIABLES
  programs,             \* in the VU1 ring, the one that runs included
  vuEvent, vuFlag, vuToken,   \* semaEvent
  fifo, gsEvent, gsFlag, gsToken,   \* the EE/GS ring, s_sem_event
  ee, cmd, then,        \* the EE thread, what it sends, where it goes on
  fakePackets, hold,    \* hold: the GIF unit cannot execute path 1 now
  vu, total, want, start,   \* the MTVU thread, in a program, a copy, a wait
  buffer, curSize, curOffset, gsPack,
  readAmount, queue,    \* queue: gsPackQueue
  xgkick,               \* semaXGkick
  gs, mutex,            \* the GS thread, s_mtx_RingBufferBusy2
  lost                  \* history: has a reset left a token without its packet?

VUEvent == INSTANCE WorkEvent
             WITH event <- vuEvent, emptyFlag <- vuFlag, emptyToken <- vuToken
GSEvent == INSTANCE WorkEvent
             WITH event <- gsEvent, emptyFlag <- gsFlag, emptyToken <- gsToken

vuEventVars == <<vuEvent, vuFlag, vuToken>>
gsEventVars == <<gsEvent, gsFlag, gsToken>>
eeVars == <<ee, cmd, then, fakePackets, hold, lost>>
vuVars == <<vu, total, want, start>>
packVars == <<buffer, curSize, curOffset, gsPack>>
sharedVars == <<readAmount, queue, xgkick>>
gsVars == <<gs, mutex>>
vars == <<programs, fifo, vuEventVars, gsEventVars, eeVars, vuVars, packVars,
          sharedVars, gsVars>>

-----------------------------------------------------------------------------
\* Data that nobody needs any more.
Junk == 0
Cells == 0..(BuffSize - 1)

\* read is what the GS thread has to count as read beside the size: the end of
\* the buffer, left out.
Pack(offset) == [offset |-> offset, size |-> 0, read |-> 0]
Extent(p) == p.offset..(p.offset + p.size - 1)

Init ==
  /\ programs = 0 /\ fifo = <<>>
  /\ VUEvent!Init /\ GSEvent!Init
  /\ ee = "run" /\ cmd = "none" /\ then = "run"
  /\ fakePackets = 0 /\ hold = FALSE /\ lost = FALSE
  /\ vu = "look" /\ total = 0 /\ want = 0 /\ start = 0
  /\ buffer = [i \in Cells |-> Junk] /\ curSize = 0 /\ curOffset = 0
  /\ gsPack = Pack(0)
  /\ readAmount = 0 /\ queue = <<>> /\ xgkick = 0
  /\ gs = "look" /\ mutex = "free"

-----------------------------------------------------------------------------
(* The EE thread.                                                          *)

GoTo(place) ==
  /\ ee' = place
  /\ IF place = "run" THEN cmd' = "none" /\ then' = "run" ELSE UNCHANGED <<cmd, then>>

\* ExecuteVU: the program is in the ring, and a packet to be announced.
ExecuteVU ==
  /\ ee = "run"
  /\ programs + Len(queue) < MaxPrograms
  /\ hold => fakePackets < MaxHeld
  /\ programs' = programs + 1
  /\ fakePackets' = fakePackets + 1
  /\ cmd' = "path1" /\ then' = "kickVU"
  /\ ee' = IF hold THEN "kickVU" ELSE "send"
  /\ UNCHANGED <<fifo, hold, lost, vuEventVars, gsEventVars, vuVars, packVars,
                 sharedVars, gsVars>>

\* Any other command, with a kick (without one it waits as those of path 1 do).
SendOther ==
  /\ ee = "run"
  /\ cmd' = "other" /\ then' = "kickGS"
  /\ ee' = "send"
  /\ UNCHANGED <<programs, fifo, fakePackets, hold, lost, vuEventVars,
                 gsEventVars, vuVars, packVars, sharedVars, gsVars>>

\* SendSimplePacket when there is room.  Gif_Unit::Execute goes on until no fake
\* packet is left.
Send ==
  /\ ee \in {"send", "stall"}
  /\ Len(fifo) < RingMax
  /\ fifo' = Append(fifo, cmd)
  /\ IF cmd = "path1"
       THEN /\ fakePackets' = fakePackets - 1
            /\ GoTo(IF fakePackets = 1 THEN then ELSE "send")
       ELSE GoTo(then) /\ UNCHANGED fakePackets
  /\ UNCHANGED <<programs, hold, lost, vuEventVars, gsEventVars,
                 vuVars, packVars, sharedVars, gsVars>>

\* GenericStall, when there is none: the GS thread is kicked and waited for.
GenericStall ==
  /\ ee = "send"
  /\ Len(fifo) = RingMax
  /\ GSEvent!NotifyOfWork
  /\ ee' = "stall"
  /\ UNCHANGED <<programs, fifo, cmd, then, fakePackets, hold, lost,
                 vuEventVars, vuVars, packVars, sharedVars, gsVars>>

\* Defect: the program is not announced to the MTVU thread.
KickForgotten ==
  /\ ee = "kickVU"
  /\ GoTo("run")
  /\ UNCHANGED <<programs, fifo, fakePackets, hold, lost, vuEventVars,
                 gsEventVars, vuVars, packVars, sharedVars, gsVars>>

KickStart ==
  /\ ee = "kickVU"
  /\ VUEvent!NotifyOfWork
  /\ GoTo("run")
  /\ UNCHANGED <<programs, fifo, fakePackets, hold, lost, gsEventVars,
                 vuVars, packVars, sharedVars, gsVars>>

SetEvent ==
  /\ ee = "kickGS"
  /\ GSEvent!NotifyOfWork
  /\ GoTo("run")
  /\ UNCHANGED <<programs, fifo, fakePackets, hold, lost, vuEventVars,
                 vuVars, packVars, sharedVars, gsVars>>

\* CanDoGif is false (the guest reads from the GS, pauses the GIF, or a second
\* SIGNAL waits), or path 2 or 3 is inside a packet.
Hold ==
  /\ ee = "run" /\ ~hold
  /\ hold' = TRUE
  /\ UNCHANGED <<programs, fifo, ee, cmd, then, fakePackets, lost, vuEventVars,
                 gsEventVars, vuVars, packVars, sharedVars, gsVars>>

\* Gif_Unit::Execute, when that is over.
Resume ==
  /\ ee = "run" /\ hold
  /\ hold' = FALSE
  /\ IF fakePackets > 0
       THEN ee' = "send" /\ cmd' = "path1" /\ then' = "run"
       ELSE UNCHANGED <<ee, cmd, then>>
  /\ UNCHANGED <<programs, fifo, fakePackets, lost, vuEventVars, gsEventVars,
                 vuVars, packVars, sharedVars, gsVars>>

\* WaitVU, alone or before a reset.
WaitVU(why) ==
  /\ ee = "run"
  /\ \/ VUEvent!IsIdle /\ ee' = why /\ UNCHANGED <<then, vuEventVars>>
     \/ VUEvent!WaitForEmpty /\ ee' = "vuWait" /\ then' = why
  /\ UNCHANGED <<programs, fifo, cmd, fakePackets, hold, lost, gsEventVars,
                 vuVars, packVars, sharedVars, gsVars>>

VUWake ==
  /\ ee = "vuWait"
  /\ VUEvent!EmptyWake
  /\ GoTo(then)
  /\ UNCHANGED <<programs, fifo, fakePackets, hold, lost, gsEventVars,
                 vuVars, packVars, sharedVars, gsVars>>

\* WaitGS, alone ("run" goes on) or before a reset.
WaitGS ==
  /\ ee \in {"run", "syncGS"}
  /\ then' = (IF ee = "run" THEN "run" ELSE "reset")
  /\ GSEvent!NotifyOfWork
  /\ ee' = "emptyGS"
  /\ UNCHANGED <<programs, fifo, cmd, fakePackets, hold, lost, vuEventVars,
                 vuVars, packVars, sharedVars, gsVars>>

WaitForEmpty ==
  /\ ee = "emptyGS"
  /\ \/ GSEvent!IsIdle /\ GoTo(then) /\ UNCHANGED gsEventVars
     \/ GSEvent!WaitForEmpty /\ ee' = "gsWait" /\ UNCHANGED <<cmd, then>>
  /\ UNCHANGED <<programs, fifo, fakePackets, hold, lost, vuEventVars,
                 vuVars, packVars, sharedVars, gsVars>>

GSWake ==
  /\ ee = "gsWait"
  /\ GSEvent!EmptyWake
  /\ GoTo(then)
  /\ UNCHANGED <<programs, fifo, fakePackets, hold, lost, vuEventVars,
                 vuVars, packVars, sharedVars, gsVars>>

\* VMManager::Reset: the GIF unit loses packets that are held, semaXGkick keeps
\* their tokens.  The model ends when that happens.
Reset ==
  /\ ee = "reset"
  /\ fakePackets' = 0 /\ hold' = FALSE
  /\ buffer' = [i \in Cells |-> Junk] /\ curSize' = 0 /\ curOffset' = 0
  /\ gsPack' = Pack(0)
  /\ readAmount' = 0 /\ queue' = <<>>
  /\ lost' = (xgkick > 0)
  /\ GoTo(IF xgkick > 0 THEN "end" ELSE "run")
  /\ UNCHANGED <<programs, fifo, vuEventVars, gsEventVars, vuVars,
                 xgkick, gsVars>>

-----------------------------------------------------------------------------
(* The MTVU thread: its loop, and the end of a program.                    *)

WaitForWork ==
  /\ \/ vu = "look" /\ VUEvent!IdleLook("parked") /\ vu' = "parked"
     \/ vu \in {"look", "parked"} /\ VUEvent!BusyLook /\ vu' = "drain"
  /\ UNCHANGED <<programs, fifo, gsEventVars, eeVars, total, want, start,
                 packVars, sharedVars, gsVars>>

ReadTag ==
  /\ vu = "drain"
  /\ vu' = IF programs > 0 THEN "run" ELSE "look"
  /\ UNCHANGED <<programs, fifo, vuEventVars, gsEventVars, eeVars, total,
                 want, start, packVars, sharedVars, gsVars>>

\* The program ends, FinishGSPacketMTVU: the amount first, ...
AddReadAmount ==
  /\ vu = "run"
  /\ readAmount' = readAmount + gsPack.size + gsPack.read
  /\ vu' = "push"
  /\ UNCHANGED <<programs, fifo, vuEventVars, gsEventVars, eeVars, total,
                 want, start, packVars, queue, xgkick, gsVars>>

\* ... then the packet, ...
PushPacket ==
  /\ vu = "push"
  /\ queue' = Append(queue, gsPack)
  /\ gsPack' = Pack(curOffset)
  /\ total' = 0
  /\ vu' = "post"
  /\ UNCHANGED <<programs, fifo, vuEventVars, gsEventVars, eeVars, want,
                 start, buffer, curSize, curOffset, readAmount, xgkick, gsVars>>

\* Defect: a packet without data is not announced.
PostIfAny ==
  /\ vu = "post"
  /\ xgkick' = IF queue # <<>> /\ queue[Len(queue)].size = 0
               THEN xgkick ELSE xgkick + 1
  /\ programs' = programs - 1
  /\ vu' = "drain"
  /\ UNCHANGED <<fifo, vuEventVars, gsEventVars, eeVars, total, want,
                 start, packVars, readAmount, queue, gsVars>>

\* ... then semaXGkick, and CommitReadPos, of which only this thread can tell.
PostXGkick ==
  /\ vu = "post"
  /\ xgkick' = xgkick + 1
  /\ programs' = programs - 1
  /\ vu' = "drain"
  /\ UNCHANGED <<fifo, vuEventVars, gsEventVars, eeVars, total, want,
                 start, packVars, readAmount, queue, gsVars>>

-----------------------------------------------------------------------------
(* The MTVU thread: XGKICK.                                                *)

\* Defect: what is copied and not gone through is forgotten.
XGKickOver(n) ==
  /\ vu \in {"run", "part"}
  /\ total + n <= MaxProgram
  /\ want' = n /\ total' = total + n
  /\ vu' = IF curOffset + n > BuffSize THEN "realign" ELSE "copy"
  /\ UNCHANGED <<programs, fifo, vuEventVars, gsEventVars, eeVars, start,
                 packVars, sharedVars, gsVars>>

\* A kick, or one of the two parts of one that wraps around VU1's memory.
XGKick(n) ==
  /\ vu \in {"run", "part"}
  /\ total + n <= MaxProgram
  /\ want' = n /\ total' = total + n
  /\ vu' = IF curSize + n > BuffSize THEN "realign" ELSE "copy"
  /\ UNCHANGED <<programs, fifo, vuEventVars, gsEventVars, eeVars, start,
                 packVars, sharedVars, gsVars>>

Unread == readAmount + gsPack.read
Offset == curOffset - gsPack.size

\* ExecuteGSPacketMTVU: the tags are gone through, to the end.
Execute(pack, copied) ==
  /\ gsPack' = [pack EXCEPT !.size = @ + (curSize - curOffset) + copied]
  /\ curOffset' = curSize'
  /\ vu' = "run"

\* RealignPacket has the room, at the front, to which the packet can go, ...
CanRealign ==
  LET toAdd == curSize - Offset
      intersect == IF toAdd > Offset THEN toAdd - Offset ELSE 0
  IN  Offset - Unread >= toAdd - intersect

\* ... and moves it there.
Realign ==
  /\ vu = "realign"
  /\ CanRealign
  /\ buffer' = [i \in Cells |->
                  IF i < curSize - Offset THEN buffer[Offset + i]
                  ELSE IF i \in Offset..(curSize - 1) THEN Junk ELSE buffer[i]]
  /\ curSize' = curSize - Offset
  /\ LET moved == [gsPack EXCEPT !.offset = 0,
                     !.read = @ + IF Offset < BuffLimit THEN BuffLimit - Offset ELSE 0]
     IN  IF want > 0
           THEN curOffset' = gsPack.size /\ gsPack' = moved /\ vu' = "copy"
           ELSE Execute(moved, 0)
  /\ UNCHANGED <<programs, fifo, vuEventVars, gsEventVars, eeVars, total, want,
                 start, sharedVars, gsVars>>

\* Defect: the read position may be anywhere behind the write position.
CopyAtOnce == TRUE

\* The GS thread reads behind this packet, or far enough ahead of it.
CanCopy ==
  LET readPos == Offset - Unread
  IN  readPos >= 0 \/ BuffLimit + readPos > curSize + want

\* CopyGSPacketData; ExecuteGSPacketMTVU comes with the last part of a kick.
Copy ==
  /\ vu = "copy"
  /\ CanCopy
  /\ buffer' = [i \in Cells |->
                  IF i \in curSize..(curSize + want - 1)
                  THEN Len(queue) + 1 ELSE buffer[i]]
  /\ curSize' = curSize + want
  /\ want' = 0
  /\ \/ total < MaxProgram /\ vu' = "part" /\ UNCHANGED <<curOffset, gsPack>>
     \/ IF curOffset > BuffLimit
          THEN vu' = "realign" /\ UNCHANGED <<curOffset, gsPack>>
          ELSE Execute(gsPack, want)
  /\ UNCHANGED <<programs, fifo, vuEventVars, gsEventVars, eeVars, total, start,
                 sharedVars, gsVars>>

-----------------------------------------------------------------------------
(* The MTVU thread: the weak wait.                                         *)

MustWait == (vu = "realign" /\ ~CanRealign) \/ (vu = "copy" /\ ~CanCopy)

\* Gif_MTGS_Wait: WaitGS, weak.  SetEvent, ...
WeakWait ==
  /\ MustWait
  /\ GSEvent!NotifyOfWork
  /\ vu' = "pending"
  /\ UNCHANGED <<programs, fifo, vuEventVars, eeVars, total, want, start,
                 packVars, sharedVars, gsVars>>

\* ... the test after which the room is looked at again, ...
Back == IF want = 0 \/ curSize + want > BuffSize THEN "realign" ELSE "copy"

\* ... at once when nothing is pending, ...
StartPacks ==
  /\ vu = "pending"
  /\ IF queue = <<>>
       THEN vu' = Back /\ UNCHANGED start
       ELSE vu' = "lock" /\ start' = Len(queue)
  /\ UNCHANGED <<programs, fifo, vuEventVars, gsEventVars, eeVars, total,
                 want, packVars, sharedVars, gsVars>>

\* ... and otherwise when the GS thread has popped a packet, ...
PacketDone ==
  /\ vu = "check"
  /\ IF Len(queue) = start
       THEN vu' = "lock" /\ UNCHANGED start
       ELSE vu' = Back /\ start' = 0
  /\ UNCHANGED <<programs, fifo, vuEventVars, gsEventVars, eeVars, total,
                 want, packVars, sharedVars, gsVars>>

\* ... which it can only have done since it last gave up the mutex.
LockUnlock ==
  /\ vu = "lock"
  /\ mutex = "free"
  /\ vu' = "check"
  /\ UNCHANGED <<programs, fifo, vuEventVars, gsEventVars, eeVars, total,
                 want, start, packVars, sharedVars, gsVars>>

-----------------------------------------------------------------------------
(* The GS thread, MainLoop.                                                *)

\* WaitForWork, without the mutex.
GSWaitForWork ==
  /\ \/ gs = "look" /\ GSEvent!IdleLook("parked") /\ gs' = "parked"
     \/ gs \in {"look", "parked"} /\ GSEvent!BusyLook /\ gs' = "lock"
  /\ UNCHANGED <<programs, fifo, vuEventVars, eeVars, vuVars, packVars,
                 sharedVars, mutex>>

Lock ==
  /\ \/ gs = "lock" /\ gs' = "drain"
     \/ gs = "relock" /\ gs' = "transfer"
  /\ mutex = "free"
  /\ mutex' = "gs"
  /\ UNCHANGED <<programs, fifo, vuEventVars, gsEventVars, eeVars, vuVars,
                 packVars, sharedVars>>

\* The ring is empty, or the next command needs nothing.
ReadCommand ==
  /\ gs = "drain"
  /\ \/ fifo = <<>> /\ gs' = "look" /\ mutex' = "free"
     \/ /\ fifo # <<>> /\ Head(fifo) = "other"
        /\ gs' = "advance" /\ UNCHANGED mutex
  /\ UNCHANGED <<programs, fifo, vuEventVars, gsEventVars, eeVars, vuVars,
                 packVars, sharedVars>>

IsPath1 == gs = "drain" /\ fifo # <<>> /\ Head(fifo) = "path1"

\* The next one is of path 1: semaXGkick.TryWait, ...
TryWait ==
  /\ IsPath1
  /\ IF xgkick > 0
       THEN xgkick' = xgkick - 1 /\ gs' = "transfer" /\ UNCHANGED mutex
       ELSE gs' = "wait" /\ mutex' = "free" /\ UNCHANGED xgkick
  /\ UNCHANGED <<programs, fifo, vuEventVars, gsEventVars, eeVars, vuVars,
                 packVars, readAmount, queue>>

\* ... or WaitWithSpin, without the mutex.
WaitXGkick ==
  /\ gs = "wait"
  /\ xgkick > 0
  /\ xgkick' = xgkick - 1
  /\ gs' = "relock"
  /\ UNCHANGED <<programs, fifo, vuEventVars, gsEventVars, eeVars, vuVars,
                 packVars, readAmount, queue, mutex>>

\* The packet's data have been read.
Transfer ==
  /\ gs = "transfer"
  /\ queue # <<>>
  /\ buffer' = [i \in Cells |-> IF buffer[i] = 1 THEN Junk ELSE buffer[i]]
  /\ readAmount' = readAmount - Head(queue).size - Head(queue).read
  /\ gs' = "pop"
  /\ UNCHANGED <<programs, fifo, vuEventVars, gsEventVars, eeVars, vuVars,
                 curSize, curOffset, gsPack, queue, xgkick, mutex>>

\* "Should be done last, for proper Gif_MTGS_Wait()"
PopGSPacketMTVU ==
  /\ gs = "pop"
  /\ queue' = Tail(queue)
  /\ buffer' = [i \in Cells |->
                  IF buffer[i] = Junk THEN Junk ELSE buffer[i] - 1]
  /\ gs' = "advance"
  /\ UNCHANGED <<programs, fifo, vuEventVars, gsEventVars, eeVars, vuVars,
                 curSize, curOffset, gsPack, readAmount, xgkick, mutex>>

\* s_ReadPos moves on.
AdvanceReadPos ==
  /\ gs = "advance"
  /\ fifo' = Tail(fifo)
  /\ gs' = "drain"
  /\ UNCHANGED <<programs, vuEventVars, gsEventVars, eeVars, vuVars, packVars,
                 sharedVars, mutex>>

-----------------------------------------------------------------------------
\* What the EE has begun and goes on with.
EEStep ==
  \/ Send \/ GenericStall \/ KickStart \/ SetEvent
  \/ VUWake \/ (ee = "syncGS" /\ WaitGS) \/ WaitForEmpty \/ GSWake \/ Reset

VUStep ==
  \/ WaitForWork \/ ReadTag
  \/ (\E n \in 1..MaxProgram : XGKick(n))
  \/ Realign \/ Copy
  \/ WeakWait \/ StartPacks \/ LockUnlock \/ PacketDone
  \/ AddReadAmount \/ PushPacket \/ PostXGkick

GSStep ==
  \/ GSWaitForWork \/ Lock \/ ReadCommand
  \/ TryWait \/ WaitXGkick \/ Transfer \/ PopGSPacketMTVU \/ AdvanceReadPos

Next ==
  \/ ExecuteVU \/ SendOther \/ Hold \/ Resume \/ WaitGS
  \/ \E why \in {"run", "syncGS"} : WaitVU(why)
  \/ EEStep \/ VUStep \/ GSStep

\* The three threads run when they can; the EE need not begin anything.
Spec ==
  Init /\ [][Next]_vars /\ WF_vars(EEStep) /\ WF_vars(VUStep) /\ WF_vars(GSStep)

-----------------------------------------------------------------------------
(* Properties.                                                             *)

Packs ==
  [offset : Cells \cup {BuffSize}, size : 0..MaxProgram, read : 0..BuffLimit]

\* Every variable has its type, and nothing is written behind the buffer ("Gif
\* Path Buffer Overflow!") or read before it is there.
TypeOK ==
  /\ programs \in 0..MaxPrograms /\ fakePackets \in 0..MaxPrograms
  /\ fifo \in Seq({"path1", "other"}) /\ Len(fifo) <= RingMax
  /\ {vuEvent, gsEvent} \subseteq {"parked", "running0", "runningN"}
  /\ {vuFlag, gsFlag, hold, lost} \subseteq BOOLEAN
  /\ {vuToken, gsToken} \subseteq {0, 1}
  /\ buffer \in [Cells -> 0..MaxPrograms]
  /\ 0 <= curOffset /\ curOffset <= curSize /\ curSize <= BuffSize
  /\ gsPack \in Packs /\ queue \in Seq(Packs)
  /\ readAmount >= 0 /\ xgkick >= 0
  /\ total \in 0..MaxProgram /\ want \in 0..MaxProgram
  /\ start \in 0..MaxPrograms

Count(c) == Cardinality({k \in DOMAIN fifo : fifo[k] = c})
One(condition) == IF condition THEN 1 ELSE 0

\* "Expected gsPackQueue to have elements!": each packet in the queue has its
\* token, posted, taken or about to be posted; and each program, its packet
\* pushed or not, exactly one announcement that the GS thread is not through
\* with.  Only a reset with packets held breaks it.
OnePacketPerProgram ==
  ~lost =>
    /\ Len(queue) = xgkick + One(gs \in {"relock", "transfer", "pop"})
                    + One(vu = "post")
    /\ fakePackets + Count("path1") - One(gs = "advance" /\ Head(fifo) = "path1")
       = Len(queue) + programs - One(vu = "post")

Holds(p, number) == \A i \in Extent(p) : buffer[i] = number

\* The GS thread finds in the buffer what the program kicked, however often
\* the packets behind it wrapped around; and so does the program itself.
PacketsIntact ==
  /\ \A k \in DOMAIN queue : (k = 1 /\ gs = "pop") \/ Holds(queue[k], k)
  /\ Holds(gsPack, Len(queue) + 1)

\* The GS thread sleeps, and the MTVU thread waits for it to finish a packet: the
\* packets' commands were held when that thread woke it (SetEvent of the weak wait),
\* and came into the ring after it had found nothing there.
Unheard == vu \in {"lock", "check"} /\ Len(queue) = start /\ fifo # <<>> /\ gsEvent = "parked"

\* The EE does not wait for ever: not in a circle of WaitVU, WaitGS or a full
\* ring with the weak wait and with semaXGkick -- unless packets are held, of
\* programs before which another one cannot end, or were held for too long.
NoCircularWait ==
  (ee \notin {"run", "end"} /\ ~(hold /\ fakePackets > 0))
    ~> (ee \in {"run", "end"} \/ []Unheard)
=============================================================================
