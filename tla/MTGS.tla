-------------------------------- MODULE MTGS --------------------------------
(***************************************************************************)
(* The command ring between the EE (CPU) thread and the GS thread          *)
(* (pcsx2/MTGS.cpp): the EE writes packets at WritePos, the GS thread      *)
(* executes them at ReadPos, and the EE stalls on a full ring, on too many *)
(* queued frames, and on WaitGS.                                           *)
(*                                                                         *)
(* Each access to a variable that both threads use is a step, except that  *)
(* accesses the other thread cannot observe between are one step.  The     *)
(* WorkSema s_sem_event is module WorkEvent, which WorkSema is shown to    *)
(* implement; the two UserspaceSemaphores are counters.                    *)
(* MTVU is off: the EE is the only thread that calls SetEvent.             *)
(***************************************************************************)
EXTENDS Integers, Sequences, FiniteSets

CONSTANTS
  RingBufferSize,   \* slots (quadwords) in the ring
  VsyncPayload,     \* slots of a VSync packet after its header
  SpinThreshold,    \* GenericStall sleeps for more than this, else spins
  TallyLimit,       \* CopyDataTally above which a send wakes the GS thread
  Weights,          \* what a GS packet adds to the tally for its size
  VsyncQueueSize,   \* EmuConfig.GS.VsyncQueueSize
  IdMod,            \* packets are numbered modulo this
  Requests          \* what the EE may ask for

VARIABLES
  \* shared by the two threads
  ring,                 \* RingBuffer.m_Ring; a slot nobody may read is Free
  ReadPos, WritePos,
  SignalRingEnable, SignalRingPosition, OnRingReset,   \* the full-ring signal
  QueuedFrameCount, VsyncSignalListener, VsyncSem,     \* the vsync throttle
  event, emptyFlag, emptyToken,                        \* s_sem_event
  \* the EE thread
  ee, cmd, CopyDataTally, nextId,
  \* the GS thread
  gs, got,              \* the packet it executes
  \* history
  fifo,                 \* packets sent and not yet executed, in order
  dangling,             \* the safety valve has answered the EE's stall
  astray                \* a ResetGS has found packets in the ring

posVars == <<ring, ReadPos, WritePos>>
signalVars == <<SignalRingEnable, SignalRingPosition, OnRingReset>>
vsyncVars == <<QueuedFrameCount, VsyncSignalListener, VsyncSem>>
eventVars == <<event, emptyFlag, emptyToken>>
eeVars == <<ee, cmd, CopyDataTally, nextId>>
gsVars == <<gs, got>>
history == <<fifo, dangling, astray>>
Event == INSTANCE WorkEvent

vars == <<posVars, signalVars, vsyncVars, eventVars, eeVars, gsVars, history>>

-----------------------------------------------------------------------------
(* Packets and positions.                                                  *)

\* What the EE may ask for.  GSPacket stands for every packet sent without a
\* kick, AsyncCall for those with one, Sync for those whose sender waits for the
\* GS at once (InitAndReadFIFO, Freeze).  WaitGS alone sends nothing; Reset is
\* a VM's that runs or shuts down, BootReset that of a VM that starts.
AllRequests ==
  {"GSPacket", "AsyncCall", "Sync", "VSync", "WaitGS", "Reset", "BootReset"}

\* To the ring a packet is a VSync or one slot long.
Commands == {"VSync", "Simple"}

Command(r) == IF r = "VSync" THEN "VSync" ELSE "Simple"

ASSUME MTGSAssumption ==
  /\ RingBufferSize \in Nat /\ VsyncPayload \in Nat \ {0}
  /\ VsyncPayload + 1 < RingBufferSize
  /\ SpinThreshold \in Nat /\ TallyLimit \in Nat
  /\ Weights \subseteq Nat
  /\ VsyncQueueSize \in Nat
  /\ IdMod \in Nat \ {0}
  /\ Requests \subseteq AllRequests

Free == <<"free", 0>>

Packet(c, id) ==
  [i \in 1..(IF c = "VSync" THEN VsyncPayload + 1 ELSE 1) |->
     IF i = 1 THEN <<c, id>> ELSE <<"data", id>>]

PacketSize(r) == IF r = "VSync" THEN VsyncPayload + 1 ELSE 1

Advance(pos, n) == (pos + n) % RingBufferSize

FreeRoom(read) ==
  IF WritePos < read THEN read - WritePos
                     ELSE RingBufferSize - (WritePos - read)

\* The slots a packet of n slots at pos occupies.
Span(pos, n) == {Advance(pos, i) : i \in 0..(n - 1)}

\* The packet the reader makes of what it finds at pos.
PacketAt(pos) ==
  [i \in 1..PacketSize(ring[pos][1]) |-> ring[Advance(pos, i - 1)]]

Init ==
  /\ ring = [i \in 0..(RingBufferSize - 1) |-> Free]
  /\ ReadPos = 0 /\ WritePos = 0
  /\ SignalRingEnable = FALSE /\ SignalRingPosition = 0 /\ OnRingReset = 0
  /\ QueuedFrameCount = 0 /\ VsyncSignalListener = FALSE /\ VsyncSem = 0
  /\ Event!Init
  /\ ee = "run" /\ cmd = "none" /\ CopyDataTally = 0 /\ nextId = 0
  /\ gs = "look" /\ got = <<>>
  /\ fifo = <<>> /\ dangling = FALSE /\ astray = FALSE

-----------------------------------------------------------------------------
(* The EE thread.                                                          *)

\* SetEvent: NotifyOfWork, and the tally starts again.
SetEvent ==
  /\ Event!NotifyOfWork
  /\ CopyDataTally' = 0

\* The EE goes on, or is done with the request.
EEGo(pc) ==
  /\ ee' = pc
  /\ cmd' = IF pc = "run" THEN "none" ELSE cmd

EESet(pc) == EEGo(pc) /\ UNCHANGED <<CopyDataTally, nextId>>

EEKick(pc) ==
  /\ SetEvent
  /\ EEGo(pc)
  /\ UNCHANGED <<nextId, posVars, signalVars, vsyncVars, gsVars, history>>

\* A reset that found packets in the ring is the last request that is followed.
Request(r) ==
  /\ ee = "run" /\ ~astray
  /\ cmd' = r
  /\ ee' = CASE r \in {"WaitGS", "Reset"} -> "syncKick"
             [] r = "BootReset" -> "clear"
             [] OTHER -> "stall"
  /\ UNCHANGED <<CopyDataTally, nextId, posVars, signalVars, vsyncVars,
                 eventVars, gsVars, history>>

\* GenericStall, before its loops.  SignalRingPosition is read by the GS thread
\* only while SignalRingEnable is set, which it is not here.
StallPoint(size) ==
  LET someDone == (RingBufferSize - FreeRoom(ReadPos)) \div 4
  IN IF someDone < size + 1 THEN size + 1 ELSE someDone

\* Defect: the room may be filled to the last slot.
StallFillsRing ==
  /\ ee = "stall"
  /\ FreeRoom(ReadPos) >= PacketSize(cmd)
  /\ EESet("publish")
  /\ UNCHANGED <<posVars, signalVars, vsyncVars, eventVars, gsVars, history>>

Stall ==
  /\ ee = "stall"
  /\ LET size == PacketSize(cmd) IN
     \/ /\ FreeRoom(ReadPos) > size
        /\ EESet("publish")
        /\ UNCHANGED SignalRingPosition
     \/ /\ FreeRoom(ReadPos) <= size
        /\ StallPoint(size) > SpinThreshold
        /\ SignalRingPosition' = StallPoint(size)
        /\ EESet("enable")
     \/ /\ FreeRoom(ReadPos) <= size
        /\ StallPoint(size) <= SpinThreshold
        /\ EESet("spinKick")
        /\ UNCHANGED SignalRingPosition
  /\ UNCHANGED <<SignalRingEnable, OnRingReset, posVars, vsyncVars, eventVars,
                 gsVars, history>>

StallEnable ==
  /\ ee = "enable"
  /\ SignalRingEnable' = TRUE
  /\ EESet("stallKick")
  /\ UNCHANGED <<SignalRingPosition, OnRingReset, posVars, vsyncVars, eventVars,
                 gsVars, history>>

\* Defect: the GS thread is not woken.
StallKickForgotten ==
  /\ ee = "stallKick"
  /\ EESet("ringWait")
  /\ UNCHANGED <<posVars, signalVars, vsyncVars, eventVars, gsVars, history>>

StallKick == ee = "stallKick" /\ EEKick("ringWait")

\* s_sem_OnRingReset.Wait(), and the look at ReadPos that follows it: without
\* room the EE asks again, at the position where the count has come to.
RingWait ==
  /\ ee = "ringWait"
  /\ OnRingReset > 0
  /\ OnRingReset' = OnRingReset - 1
  /\ IF FreeRoom(ReadPos) > PacketSize(cmd)
       THEN EESet("publish") /\ dangling' = FALSE
       ELSE EESet("enable") /\ UNCHANGED dangling
  /\ UNCHANGED <<SignalRingEnable, SignalRingPosition, posVars, vsyncVars,
                 eventVars, gsVars, fifo, astray>>

SpinKick == ee = "spinKick" /\ EEKick("spin")

Spin ==
  /\ ee = "spin"
  /\ FreeRoom(ReadPos) > PacketSize(cmd)
  /\ EESet("publish")
  /\ UNCHANGED <<posVars, signalVars, vsyncVars, eventVars, gsVars, history>>

\* Where the EE goes when its packet is in the ring.
AfterPublish(tally) ==
  CASE cmd \in {"VSync", "AsyncCall", "GameChanged", "Reset"} -> "kick"
    [] cmd = "Sync" -> "syncKick"
    [] cmd = "GSPacket" -> IF tally > TallyLimit THEN "kick" ELSE "run"

\* The packet is written behind WritePos, where the GS thread does not look,
\* and then published by one store: SendDataPacket, _FinishSimplePacket.
Publish ==
  /\ ee = "publish"
  /\ LET p == Packet(Command(cmd), nextId) IN
     /\ ring' = [i \in DOMAIN ring |->
                   IF i \in Span(WritePos, Len(p))
                   THEN p[((i - WritePos) % RingBufferSize) + 1] ELSE ring[i]]
     /\ WritePos' = Advance(WritePos, Len(p))
     /\ fifo' = Append(fifo, p)
  /\ nextId' = (nextId + 1) % IdMod
  /\ \E w \in IF cmd = "GSPacket" THEN Weights ELSE {0} :
       /\ CopyDataTally' = CopyDataTally + w
                             + (IF cmd = "VSync" THEN VsyncPayload ELSE 1)
       /\ EEGo(AfterPublish(CopyDataTally'))
  /\ UNCHANGED <<ReadPos, signalVars, vsyncVars, eventVars, gsVars, dangling,
                 astray>>

\* A vsync always kicks: SendDataPacket when the tally is over the limit, else
\* PostVsyncStart, since the packet itself has left the tally above zero.
AfterKick ==
  CASE cmd = "VSync" -> "count"
    [] cmd = "GameChanged" -> "clear"
    [] OTHER -> "run"

Kick == ee = "kick" /\ EEKick(AfterKick)

\* Defect: one frame too many.
CountFrameTooLong ==
  /\ ee = "count"
  /\ QueuedFrameCount' = QueuedFrameCount + 1
  /\ EESet(IF QueuedFrameCount <= VsyncQueueSize THEN "run" ELSE "listen")
  /\ UNCHANGED <<VsyncSignalListener, VsyncSem, posVars, signalVars, eventVars,
                 gsVars, history>>

\* PostVsyncStart: the throttle.
CountFrame ==
  /\ ee = "count"
  /\ QueuedFrameCount' = QueuedFrameCount + 1
  /\ EESet(IF QueuedFrameCount < VsyncQueueSize THEN "run" ELSE "listen")
  /\ UNCHANGED <<VsyncSignalListener, VsyncSem, posVars, signalVars, eventVars,
                 gsVars, history>>

Listen ==
  /\ ee = "listen"
  /\ VsyncSignalListener' = TRUE
  /\ EESet("vsyncWait")
  /\ UNCHANGED <<QueuedFrameCount, VsyncSem, posVars, signalVars, eventVars,
                 gsVars, history>>

VsyncWait ==
  /\ ee = "vsyncWait"
  /\ VsyncSem > 0
  /\ VsyncSem' = VsyncSem - 1
  /\ EESet("run")
  /\ UNCHANGED <<QueuedFrameCount, VsyncSignalListener, posVars, signalVars,
                 eventVars, gsVars, history>>

\* Defect: packets that were sent without a kick are not announced.
SyncKickForgotten ==
  /\ ee = "syncKick"
  /\ EESet("empty")
  /\ UNCHANGED <<posVars, signalVars, vsyncVars, eventVars, gsVars, history>>

\* WaitGS (not the weak wait of MTVU): SetEvent, then WaitForEmpty.
SyncKick == ee = "syncKick" /\ EEKick("empty")

WaitForEmpty ==
  /\ ee = "empty"
  /\ \/ Event!IsIdle /\ EESet("synced") /\ UNCHANGED eventVars
     \/ Event!WaitForEmpty /\ EESet("emptyWait")
  /\ UNCHANGED <<posVars, signalVars, vsyncVars, gsVars, history>>

EmptyWake ==
  /\ ee = "emptyWait"
  /\ Event!EmptyWake
  /\ EESet("synced")
  /\ UNCHANGED <<posVars, signalVars, vsyncVars, gsVars, history>>

\* WaitGS has returned to its caller.  A reset goes on to ResetGS at once
\* (VMManager::Shutdown; VMManager::Reset where no ELF was booted or the
\* fullscreen UI is not there), or sends the call of FullscreenUI::GameChanged
\* first, through HandleELFChange.
Synced ==
  /\ ee = "synced"
  /\ \/ cmd # "Reset" /\ EESet("run")
     \/ cmd = "Reset" /\ EESet("clear")
     \/ /\ cmd = "Reset"
        /\ ee' = "stall" /\ cmd' = "GameChanged"
        /\ UNCHANGED <<CopyDataTally, nextId>>
  /\ UNCHANGED <<posVars, signalVars, vsyncVars, eventVars, gsVars, history>>

\* ResetGS(true); then the Reset packet is sent and kicked.  What is in the ring
\* is dropped, and a packet the GS thread is in moves ReadPos past WritePos.
ResetGS ==
  /\ ee = "clear"
  /\ ReadPos' = WritePos
  /\ fifo' = <<>>
  /\ astray' = (astray \/ fifo # <<>>)
  /\ QueuedFrameCount' = 0
  /\ VsyncSignalListener' = FALSE
  /\ ee' = "stall" /\ cmd' = "Reset"
  /\ UNCHANGED <<ring, WritePos, VsyncSem, signalVars, eventVars, gsVars,
                 CopyDataTally, nextId, dangling>>

-----------------------------------------------------------------------------
(* The GS thread, MainLoop.                                                *)

GSSet(pc) == gs' = pc /\ UNCHANGED got

\* While the VM is paused the GS thread may run idle: it looks, and goes on to
\* the ring whatever the answer.
CheckForWork ==
  /\ gs = "look"
  /\ Event!IdleLook("running0") \/ Event!BusyLook
  /\ GSSet("drain")
  /\ UNCHANGED <<posVars, signalVars, vsyncVars, eeVars, history>>

WaitForWork ==
  /\ gs = "look"
  /\ \/ Event!IdleLook("parked") /\ GSSet("asleep")
     \/ Event!BusyLook /\ GSSet("drain")
  /\ UNCHANGED <<posVars, signalVars, vsyncVars, eeVars, history>>

Awake ==
  /\ gs = "asleep"
  /\ Event!BusyLook
  /\ GSSet("drain")
  /\ UNCHANGED <<posVars, signalVars, vsyncVars, eeVars, history>>

\* The packet at ReadPos; while gs = "exec" the GS thread executes it.
ReadPacket ==
  /\ gs = "drain"
  /\ ReadPos # WritePos
  /\ got' = PacketAt(ReadPos)
  /\ gs' = IF ring[ReadPos][1] = "VSync" THEN "vsync" ELSE "exec"
  /\ UNCHANGED <<posVars, signalVars, vsyncVars, eventVars, eeVars, history>>

VsyncDone ==
  /\ gs = "vsync"
  /\ QueuedFrameCount' = QueuedFrameCount - 1
  /\ GSSet("vsyncSignal")
  /\ UNCHANGED <<VsyncSignalListener, VsyncSem, posVars, signalVars, eventVars,
                 eeVars, history>>

\* Defect: the listener is read, not exchanged.
SignalVsyncTwice ==
  /\ VsyncSem' = IF VsyncSignalListener THEN VsyncSem + 1 ELSE VsyncSem
  /\ UNCHANGED <<VsyncSignalListener, QueuedFrameCount>>

\* if (s_VsyncSignalListener.exchange(false)) s_sem_Vsync.Post()
SignalVsync ==
  /\ VsyncSignalListener' = FALSE
  /\ VsyncSem' = IF VsyncSignalListener THEN VsyncSem + 1 ELSE VsyncSem
  /\ UNCHANGED QueuedFrameCount

VsyncSignal ==
  /\ gs = "vsyncSignal"
  /\ SignalVsync
  /\ GSSet("exec")
  /\ UNCHANGED <<posVars, signalVars, eventVars, eeVars, history>>

\* The packet is done.  The position is read again, not the one the packet was
\* found at.  Its slots are free from here.
AdvanceReadPos ==
  /\ gs = "exec"
  /\ ReadPos' = Advance(ReadPos, Len(got))
  /\ ring' = [i \in DOMAIN ring |->
                IF i \in Span(ReadPos, Len(got)) THEN Free ELSE ring[i]]
  /\ fifo' = IF fifo # <<>> /\ Head(fifo) = got THEN Tail(fifo) ELSE fifo
  /\ GSSet("signal")
  /\ UNCHANGED <<WritePos, signalVars, vsyncVars, eventVars, eeVars, dangling,
                 astray>>

\* fetch_sub returns the old position: the signal is one packet late.  The EE
\* is in ringWait, or about to be, for as long as SignalRingEnable is set.
RingSignal ==
  /\ gs = "signal"
  /\ \/ /\ ~SignalRingEnable
        /\ UNCHANGED signalVars
     \/ /\ SignalRingEnable
        /\ SignalRingPosition' = SignalRingPosition - Len(got)
        /\ IF SignalRingPosition <= 0
             THEN SignalRingEnable' = FALSE /\ OnRingReset' = OnRingReset + 1
             ELSE UNCHANGED <<SignalRingEnable, OnRingReset>>
  /\ gs' = "drain" /\ got' = <<>>
  /\ UNCHANGED <<posVars, vsyncVars, eventVars, eeVars, history>>

\* The ring is seen empty: the loop is left, and the EE may fill the ring and
\* ask for a signal before the valve is reached.
SeenEmpty ==
  /\ gs = "drain"
  /\ ReadPos = WritePos
  /\ GSSet("ringValve")
  /\ UNCHANGED <<posVars, signalVars, vsyncVars, eventVars, eeVars, history>>

\* Defect: the request is read, not exchanged.
RingValveTwice ==
  /\ gs = "ringValve"
  /\ IF SignalRingEnable
       THEN /\ SignalRingPosition' = 0 /\ OnRingReset' = OnRingReset + 1
            /\ dangling' = TRUE
       ELSE UNCHANGED <<SignalRingPosition, OnRingReset, dangling>>
  /\ GSSet("valve")
  /\ UNCHANGED <<SignalRingEnable, posVars, vsyncVars, eventVars, eeVars, fifo,
                 astray>>

\* The safety valve, first for the ring then for the vsync.  An EE that waits
\* for the ring does not look at the position before it has the token.
RingValve ==
  /\ gs = "ringValve"
  /\ SignalRingEnable' = FALSE
  /\ IF SignalRingEnable
       THEN /\ SignalRingPosition' = 0 /\ OnRingReset' = OnRingReset + 1
            /\ dangling' = TRUE
       ELSE UNCHANGED <<SignalRingPosition, OnRingReset, dangling>>
  /\ GSSet("valve")
  /\ UNCHANGED <<posVars, vsyncVars, eventVars, eeVars, fifo, astray>>

VsyncValve ==
  /\ gs = "valve"
  /\ SignalVsync
  /\ GSSet("look")
  /\ UNCHANGED <<posVars, signalVars, eventVars, eeVars, history>>

-----------------------------------------------------------------------------
EEStep ==
  \/ Stall \/ StallEnable \/ StallKick \/ RingWait \/ SpinKick \/ Spin
  \/ Publish \/ Kick \/ CountFrame \/ Listen \/ VsyncWait
  \/ SyncKick \/ WaitForEmpty \/ EmptyWake \/ Synced \/ ResetGS

GSStep ==
  \/ CheckForWork \/ WaitForWork \/ Awake \/ ReadPacket \/ VsyncDone
  \/ VsyncSignal \/ AdvanceReadPos \/ RingSignal
  \/ SeenEmpty \/ RingValve \/ VsyncValve

Next == (\E r \in Requests : Request(r)) \/ EEStep \/ GSStep

\* Both threads run when they can; the EE need not ask for anything.
Spec == Init /\ [][Next]_vars /\ WF_vars(EEStep) /\ WF_vars(GSStep)

-----------------------------------------------------------------------------
(* Properties.                                                             *)

Stalled == ee \in {"enable", "stallKick", "ringWait", "spinKick", "spin"}
Executing == gs \in {"exec", "vsync", "vsyncSignal"}
Frames(s) == Cardinality({k \in DOMAIN s : s[k][1][1] = "VSync"})

\* Every variable has its type and the semaphores never hold two units.
TypeOK ==
  /\ ring \in [0..(RingBufferSize - 1) ->
                 (Commands \cup {"data", "free"}) \X (0..(IdMod - 1))]
  /\ ReadPos \in 0..(RingBufferSize - 1)
  /\ WritePos \in 0..(RingBufferSize - 1)
  /\ SignalRingEnable \in BOOLEAN
  /\ SignalRingPosition \in Int
  /\ OnRingReset \in 0..1
  /\ QueuedFrameCount \in Int
  /\ VsyncSignalListener \in BOOLEAN
  /\ VsyncSem \in 0..1
  /\ event \in {"parked", "running0", "runningN"}
  /\ emptyFlag \in BOOLEAN
  /\ emptyToken \in 0..1
  /\ ee \in {"run", "stall", "enable", "stallKick", "ringWait", "spinKick",
             "spin", "publish", "kick", "count", "listen", "vsyncWait",
             "syncKick", "empty", "emptyWait", "synced", "clear"}
  /\ cmd \in AllRequests \cup {"GameChanged", "none"}
  /\ CopyDataTally \in Nat
  /\ nextId \in 0..(IdMod - 1)
  /\ gs \in {"look", "asleep", "drain", "exec", "vsync", "vsyncSignal",
             "signal", "ringValve", "valve"}
  /\ dangling \in BOOLEAN /\ astray \in BOOLEAN

\* The GS thread executes what was sent, in order, once, and unharmed: no slot
\* of a packet is overwritten before it is read, and no slot is read as a
\* packet that is not one.
ExecutesWhatWasSent == Executing => fifo # <<>> /\ got = Head(fifo)

\* "when m_ReadPos == m_WritePos, the fifo is empty": a full ring never looks
\* empty, and nothing sent is skipped.
EmptyMeansEmpty == ReadPos = WritePos => fifo = <<>>

\* The ring keeps what it holds and shows that it does, as long as no reset has
\* found packets in it.
RingIntact == ~astray => ExecutesWhatWasSent /\ EmptyMeansEmpty

\* The signal for a stalled EE: while it waits there is exactly one of the
\* request and the token, and when it has the token the assertion behind the
\* loop holds.  With the token there is the room, at once: the loop around
\* s_sem_OnRingReset.Wait goes round only for a stall that the safety valve has
\* answered ("Dangling RingSignal on empty buffer!"), after a look at the ring
\* from before the stall.  When the EE does not wait nothing stays behind,
\* request or token, that could end the next stall early.
RingSignalDiscipline ==
  /\ ee \in {"stallKick", "ringWait"}
       => OnRingReset = IF SignalRingEnable THEN 0 ELSE 1
  /\ ee \notin {"stallKick", "ringWait"} => ~SignalRingEnable /\ OnRingReset = 0
  /\ OnRingReset = 1 => SignalRingPosition <= 0
  /\ OnRingReset = 1 /\ ~dangling /\ ~astray
       => FreeRoom(ReadPos) > PacketSize(cmd)

\* The throttle: the EE never runs on with more than one frame over what the
\* queue allows.  (It may have that one: a vsync valve that belongs to an empty
\* ring can end a wait for frames sent since.  It never adds up.)  The count
\* is the number of frames sent and not shown, but while the EE is between its
\* packet and its count, and no wake-up is left for a later frame.  A reset
\* that finds packets in the ring loses the count.
FramesBounded ==
  LET shown == gs \in {"vsyncSignal", "exec"} /\ got[1][1] = "VSync"
      toShow == Frames(fifo) - (IF shown THEN 1 ELSE 0)
      uncounted == IF ee \in {"kick", "count"} /\ cmd = "VSync" THEN 1 ELSE 0
  IN /\ ee = "run" /\ ~astray => toShow <= VsyncQueueSize + 1
     /\ ~astray => QueuedFrameCount = toShow - uncounted
     /\ ee # "vsyncWait" => VsyncSem = 0

\* WaitGS returns with everything executed that was sent before it: its callers
\* read GS memory, write save states and reset on that.
WaitGSDrains == ee = "synced" => fifo = <<>>

\* A stalled EE gets its room.
StallEnds == Stalled ~> ee = "publish"

\* WaitGS returns.
WaitGSReturns ==
  ee \in {"empty", "emptyWait"} ~> ee \notin {"empty", "emptyWait"}

\* The EE sleeps for the GS thread only for a time, for room or for idleness.
EEGoesOn == StallEnds /\ WaitGSReturns

\* The comment at the safety valve: "this ensures the EEcore won't sleep the
\* eternity".  Nobody is left to wake an EE whose GS thread sleeps.
NoEternalSleep ==
  ~ /\ ee = "vsyncWait" /\ VsyncSem = 0
    /\ gs = "asleep" /\ event = "parked"
=============================================================================
