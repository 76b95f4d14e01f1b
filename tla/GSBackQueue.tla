---------------------------- MODULE GSBackQueue ----------------------------
(***************************************************************************)
(* The queue through which the MTGS thread (the front, which parses GS     *)
(* registers) has the GS back thread execute transfers and draws           *)
(* (pcsx2/GS/GSBackQueue.h; PushRecord, the node pools and the back        *)
(* thread's loop in pcsx2/GS/GSState.h and GSState.cpp).                   *)
(*                                                                         *)
(* A record refers to a node that holds its vertices or the data of its    *)
(* transfer; the nodes come back through free rings, which are sequences   *)
(* here.  A draw node has a version; a payload node has cells, and is the  *)
(* set of those that hold 1.  The front's writing changes them, and their  *)
(* release clears them, so that a record shows whether it finds what it    *)
(* was made with.  The WorkSema is module WorkEvent.                       *)
(*                                                                         *)
(* XDIR, by which the guest turns writing and reading on and off, is left  *)
(* open: the front may write and read wherever the cursors of m_tr let it. *)
(***************************************************************************)
EXTENDS Integers, Sequences, FiniteSets

CONSTANTS
  RingSize,     \* slots of the record ring (512)
  CursorMod,    \* the cursors count modulo this (2^32)
  MaxDraw,      \* kMaxDrawNodes (64)
  MaxPayload,   \* kMaxPayloadNodes (8)
  Units         \* cells of a payload node (4 MB)

ASSUME GSBackQueueAssumption ==
  /\ RingSize \in Nat \ {0} /\ MaxDraw \in Nat \ {0} /\ MaxPayload \in Nat \ {0}
  /\ Units \in Nat \ {0}
  /\ CursorMod \in Nat /\ CursorMod % RingSize = 0 /\ CursorMod > RingSize

VARIABLES
  slots, head, tail,      \* the ring
  drawFree, drawArena,    \* free draw nodes, and how many there are
  payloadFree, payloadArena,
  draws, payloads,        \* what each node holds
  event, emptyFlag, emptyToken,   \* sema
  lockstep,               \* m_back_lockstep
  front, then, rec,       \* the MTGS thread, where it goes on, its record
  current, referenced,    \* m_tr_payload_node, m_tr_payload_referenced
  start, end, total, write,       \* m_tr: queued so far, staged so far
  back, exit,             \* the back thread, m_back_thread_exit
  pending                 \* history: records pushed, not executed, in order

Event == INSTANCE WorkEvent

eventVars == <<event, emptyFlag, emptyToken>>
ringVars == <<slots, head, tail, pending>>
drawVars == <<drawFree, drawArena, draws>>
payloadVars == <<payloadFree, payloadArena, payloads>>
nodeVars == <<drawVars, payloadVars>>
trVars == <<start, end, total, write>>
stageVars == <<current, referenced, trVars>>
frontVars == <<front, then, rec, stageVars>>
vars == <<ringVars, nodeVars, eventVars, lockstep, frontVars, back, exit>>

-----------------------------------------------------------------------------
Record(type, node, version) ==
  [type |-> type, node |-> node, version |-> version]

\* A transfer refers to a slice of the node that is staged into.
Transfer(from, to, held) ==
  [type |-> "transfer", node |-> current, cells |-> from..(to - 1),
   held |-> held \cap (from..(to - 1))]

\* Move, ClutLoad and PcrtcSync carry all they need.
Other == Record("other", 0, 0)
NoRecord == Record("none", 0, 0)

Init ==
  /\ slots = [i \in 0..(RingSize - 1) |-> NoRecord] /\ head = 0 /\ tail = 0
  /\ drawFree = <<>> /\ drawArena = 0 /\ draws = [n \in 1..MaxDraw |-> 0]
  \* AdoptTransferBuffer
  /\ payloadFree = <<>> /\ payloadArena = 1
  /\ payloads = [n \in 1..MaxPayload |-> {}]
  /\ Event!Init
  /\ lockstep \in BOOLEAN
  /\ front = "run" /\ then = "run" /\ rec = NoRecord
  /\ current = 1 /\ referenced = FALSE
  /\ start = 0 /\ end = 0 /\ total = 0 /\ write = FALSE
  /\ back = "look" /\ exit = FALSE
  /\ pending = <<>>

-----------------------------------------------------------------------------
(* The front: records.                                                     *)

\* A record is ready; its push comes, and then what follows.
Ready(r, next) ==
  /\ rec' = r /\ then' = next
  /\ front' = "push"

SubmitOther ==
  /\ front = "run"
  /\ Ready(Other, "run")
  /\ UNCHANGED <<ringVars, nodeVars, eventVars, lockstep, stageVars,
                 back, exit>>

MayGrow == drawArena < MaxDraw

\* Defect: the node stays in the free ring.
DrawFromTheFreeRing ==
  /\ front = "run"
  /\ drawFree # <<>>
  /\ draws' = [draws EXCEPT ![Head(drawFree)] = 1 - @]
  /\ Ready(Record("draw", Head(drawFree), draws'[Head(drawFree)]), "run")
  /\ UNCHANGED <<drawFree, drawArena, ringVars, payloadVars, eventVars,
                 lockstep, stageVars, back, exit>>

\* FlushPrim, with the node that AcquireDrawNode recycles ...
DrawRecycled ==
  /\ front \in {"run", "acquireDraw"}
  /\ drawFree # <<>>
  /\ drawFree' = Tail(drawFree)
  /\ draws' = [draws EXCEPT ![Head(drawFree)] = 1 - @]
  /\ Ready(Record("draw", Head(drawFree), draws'[Head(drawFree)]), "run")
  /\ UNCHANGED <<drawArena, ringVars, payloadVars, eventVars, lockstep,
                 stageVars, back, exit>>

\* ... or makes ...
DrawFresh ==
  /\ front \in {"run", "acquireDraw"}
  /\ drawFree = <<>>
  /\ MayGrow
  /\ drawArena' = drawArena + 1
  /\ draws' = [draws EXCEPT ![drawArena + 1] = 1]
  /\ Ready(Record("draw", drawArena + 1, 1), "run")
  /\ UNCHANGED <<drawFree, ringVars, payloadVars, eventVars, lockstep,
                 stageVars, back, exit>>

\* ... or has to wait for (the back thread's release lets it go on).
DrawWaits ==
  /\ front = "run"
  /\ drawFree = <<>>
  /\ ~MayGrow
  /\ front' = "acquireDraw"
  /\ UNCHANGED <<ringVars, nodeVars, eventVars, lockstep, then, rec, stageVars,
                 back, exit>>

-----------------------------------------------------------------------------
(* The front: transfers.                                                   *)

Unflushed == write /\ start < end

\* What a node holds that no record refers to does not matter.
Forgotten == payloads' = [payloads EXCEPT ![current] = {}]

InitTransfer == start' = 0 /\ end' = 0 /\ total' = 0 /\ write' \in BOOLEAN

\* Defect: the buffer that records refer to is staged into again.
NeverRotate ==
  /\ front = "run"
  /\ ~Unflushed
  /\ InitTransfer
  /\ UNCHANGED <<ringVars, nodeVars, eventVars, lockstep, front, then, rec,
                 current, referenced, back, exit>>

\* TRXDIR, after its FlushWrite: a buffer that records refer to goes behind them
\* in the ring.
RotateTransferPayload ==
  /\ front = "run"
  /\ ~Unflushed
  /\ \/ /\ referenced
        /\ Ready(Record("release", current, 0), "acquirePayload")
        /\ UNCHANGED <<trVars, payloads>>
     \/ /\ ~referenced
        /\ InitTransfer
        /\ Forgotten
        /\ UNCHANGED <<front, then, rec>>
  /\ UNCHANGED <<current, referenced, payloadFree, payloadArena, ringVars,
                 drawVars, eventVars, lockstep, back, exit>>

AcquirePayloadNode ==
  /\ front = "acquirePayload"
  /\ \/ /\ payloadFree # <<>>
        /\ current' = Head(payloadFree) /\ payloadFree' = Tail(payloadFree)
        /\ UNCHANGED payloadArena
     \/ /\ payloadFree = <<>>
        /\ payloadArena < MaxPayload
        /\ payloadArena' = payloadArena + 1 /\ current' = payloadArena + 1
        /\ UNCHANGED payloadFree
  /\ referenced' = FALSE
  /\ InitTransfer
  /\ front' = "run" /\ then' = "run"
  /\ UNCHANGED <<payloads, ringVars, drawVars, eventVars, lockstep, rec, back,
                 exit>>

\* The front changes the cells from one cursor to the other.
Staged(from, to) ==
  payloads' = [payloads EXCEPT
    ![current] = (@ \ (from..(to - 1))) \cup ((from..(to - 1)) \ @)]

\* The slice up to the cursor becomes a record.
Submit(to) ==
  /\ Ready(Transfer(start, to, payloads'[current]), "run")
  /\ start' = to
  /\ referenced' = TRUE

\* FlushWrite: what is staged and not queued.  The transfer goes on behind it.
FlushWrite ==
  /\ front = "run"
  /\ Unflushed
  /\ UNCHANGED <<end, total, write, current, ringVars, nodeVars, eventVars,
                 lockstep, back, exit>>
  /\ Submit(end)

\* Write appends, to a buffer of which slices may be queued; when it is all
\* there, or comes in one piece, the rest is queued at once.
Write ==
  /\ front = "run"
  /\ total' \in IF total = 0 THEN 1..Units ELSE {total}
  /\ end' \in (end + 1)..total'
  /\ Staged(end, end')
  /\ IF end' = total' /\ (write \/ end = 0)
       THEN Submit(end')
       ELSE UNCHANGED <<front, then, rec, start, referenced>>
  /\ UNCHANGED <<write, current, payloadFree, payloadArena, ringVars, drawVars,
                 eventVars, lockstep, back, exit>>

\* A readback goes through the same buffer, when the queue is drained (its data
\* are zeros) ...
InitReadFIFO ==
  /\ front = "drained"
  /\ total = 0
  /\ total' \in 1..Units
  /\ payloads' = [payloads EXCEPT ![current] = @ \ (0..(total' - 1))]
  /\ front' = "run" /\ then' = "run"
  /\ UNCHANGED <<start, end, write, current, referenced, rec, payloadFree,
                 payloadArena, ringVars, drawVars, eventVars, lockstep, back,
                 exit>>

\* ... and is read from it, perhaps in mid-transfer, or behind a flush of its
\* own.
Read ==
  /\ front = "run"
  /\ total # 0
  /\ end' \in (end + 1)..total
  /\ UNCHANGED <<start, total, write, current, referenced, front, then, rec,
                 ringVars, nodeVars, eventVars, lockstep, back, exit>>

\* The cursors that a savestate holds, whose making has flushed the transfer.
Restored ==
  /\ total' \in 0..Units /\ end' \in 0..total' /\ start' \in {0, end'}
  /\ write' \in BOOLEAN /\ (write' => start' = end')

Defrost ==
  /\ front = "drained"
  /\ Restored
  /\ Forgotten
  /\ front' = "run" /\ then' = "run"
  /\ UNCHANGED <<current, referenced, rec, payloadFree, payloadArena,
                 ringVars, drawVars, eventVars, lockstep, back, exit>>

-----------------------------------------------------------------------------
(* The front: PushRecord, DrainBackQueue, StopBackThread.                  *)

\* The cursors wrap around, and so does their difference.
Inc(cursor) == IF cursor = CursorMod - 1 THEN 0 ELSE cursor + 1
Distance(from, to) == IF to >= from THEN to - from ELSE to - from + CursorMod

Size == Distance(head, tail)

\* Defect: full one slot too late.
FullTooLate == Size = RingSize + 1

IsFull == Size = RingSize

\* Defect: the producer's cursor wraps with the ring.
PushMasked ==
  /\ front = "push"
  /\ ~IsFull
  /\ slots' = [slots EXCEPT ![tail % RingSize] = rec]
  /\ tail' = (tail + 1) % RingSize
  /\ pending' = Append(pending, rec)
  /\ rec' = NoRecord
  /\ front' = "notify"
  /\ UNCHANGED <<head, nodeVars, eventVars, lockstep, then, stageVars,
                 back, exit>>

\* Defect: only lockstep, which waits, also notifies.
PushQuietly ==
  /\ front = "push"
  /\ ~IsFull
  /\ slots' = [slots EXCEPT ![tail % RingSize] = rec]
  /\ tail' = Inc(tail)
  /\ pending' = Append(pending, rec)
  /\ rec' = NoRecord
  /\ front' = IF lockstep THEN "notify" ELSE then
  /\ UNCHANGED <<head, nodeVars, eventVars, lockstep, then, stageVars,
                 back, exit>>

\* While the ring is full the front yields.
Push ==
  /\ front = "push"
  /\ ~IsFull
  /\ slots' = [slots EXCEPT ![tail % RingSize] = rec]
  /\ tail' = Inc(tail)
  /\ pending' = Append(pending, rec)
  /\ rec' = NoRecord
  /\ front' = "notify"
  /\ UNCHANGED <<head, nodeVars, eventVars, lockstep, then, stageVars,
                 back, exit>>

\* NotifyOfWork, and in lockstep WaitForEmptyWithSpin.
Notify ==
  /\ front = "notify"
  /\ Event!NotifyOfWork
  /\ front' = IF lockstep THEN "drain" ELSE then
  /\ UNCHANGED <<ringVars, nodeVars, lockstep, then, rec, stageVars,
                 back, exit>>

\* Defect: the drain is keyed on the object's own lockstep flag.
DrainInLockstep(next) ==
  /\ front = "run"
  /\ front' = (IF lockstep THEN "drain" ELSE next) /\ then' = next
  /\ UNCHANGED <<ringVars, nodeVars, eventVars, lockstep, rec, stageVars, back,
                 exit>>

\* DrainBackQueue before the front reads or changes what the back thread uses,
\* and before it stops it.
DrainBackQueue(next) ==
  /\ front = "run"
  /\ front' = "drain" /\ then' = next
  /\ UNCHANGED <<ringVars, nodeVars, eventVars, lockstep, rec, stageVars, back,
                 exit>>

WaitForEmpty ==
  /\ front = "drain"
  /\ \/ Event!IsIdle /\ front' = then /\ UNCHANGED eventVars
     \/ Event!WaitForEmpty /\ front' = "emptyWait"
  /\ UNCHANGED <<ringVars, nodeVars, lockstep, then, rec, stageVars,
                 back, exit>>

EmptyWake ==
  /\ front = "emptyWait"
  /\ Event!EmptyWake
  /\ front' = then
  /\ UNCHANGED <<ringVars, nodeVars, lockstep, then, rec, stageVars,
                 back, exit>>

\* A vsync is presented, local memory read, the state saved, the device changed.
Drained ==
  /\ front = "drained"
  /\ front' = "run" /\ then' = "run"
  /\ UNCHANGED <<ringVars, nodeVars, eventVars, lockstep, rec, stageVars, back,
                 exit>>

SetExit ==
  /\ front = "stop"
  /\ exit' = TRUE
  /\ front' = "stopNotify"
  /\ UNCHANGED <<ringVars, nodeVars, eventVars, lockstep, then, rec, stageVars,
                 back>>

StopNotify ==
  /\ front = "stopNotify"
  /\ Event!NotifyOfWork
  /\ front' = "join"
  /\ UNCHANGED <<ringVars, nodeVars, lockstep, then, rec, stageVars,
                 back, exit>>

\* The thread is joined; GSreopen then makes a new GSState, with a channel and
\* a thread of its own, into which it loads what the old one saved.
JoinAndReopen ==
  /\ front = "join" /\ back = "done"
  /\ slots' = [i \in 0..(RingSize - 1) |-> NoRecord] /\ head' = 0 /\ tail' = 0
  /\ drawFree' = <<>> /\ drawArena' = 0 /\ draws' = [n \in 1..MaxDraw |-> 0]
  /\ payloadFree' = <<>> /\ payloadArena' = 1
  /\ payloads' = [n \in 1..MaxPayload |-> {}]
  /\ event' = "running0" /\ emptyFlag' = FALSE /\ emptyToken' = 0
  /\ lockstep' \in BOOLEAN
  /\ front' = "run" /\ then' = "run" /\ rec' = NoRecord
  /\ current' = 1 /\ referenced' = FALSE /\ Restored
  /\ back' = "look" /\ exit' = FALSE
  /\ pending' = <<>>

-----------------------------------------------------------------------------
(* The back thread: BackThreadLoop.                                        *)

WaitForWork ==
  /\ back = "look"
  /\ \/ Event!IdleLook("parked") /\ back' = "parked"
     \/ Event!BusyLook /\ back' = "check"
  /\ UNCHANGED <<ringVars, nodeVars, lockstep, frontVars, exit>>

Awake ==
  /\ back = "parked"
  /\ Event!BusyLook
  /\ back' = "check"
  /\ UNCHANGED <<ringVars, nodeVars, lockstep, frontVars, exit>>

CheckExit ==
  /\ back = "check"
  /\ back' = IF exit THEN "done" ELSE "drain"
  /\ UNCHANGED <<ringVars, nodeVars, eventVars, lockstep, frontVars, exit>>

Peek ==
  /\ back = "drain"
  /\ back' = IF head # tail THEN "exec" ELSE "look"
  /\ UNCHANGED <<ringVars, nodeVars, eventVars, lockstep, frontVars, exit>>

Oldest == slots[head % RingSize]

\* ExecRecordSlot: the record's work, and then its node goes back.
ExecRecordSlot ==
  /\ back = "exec"
  /\ \/ /\ Oldest.type = "draw"
        /\ drawFree' = Append(drawFree, Oldest.node)
        /\ draws' = [draws EXCEPT ![Oldest.node] = 0]
        /\ UNCHANGED <<drawArena, payloadVars>>
     \/ /\ Oldest.type = "release"
        /\ payloadFree' = Append(payloadFree, Oldest.node)
        /\ payloads' = [payloads EXCEPT ![Oldest.node] = {}]
        /\ UNCHANGED <<payloadArena, drawVars>>
     \/ /\ Oldest.type \notin {"draw", "release"}
        /\ UNCHANGED nodeVars
  /\ pending' = Tail(pending)
  /\ back' = "pop"
  /\ UNCHANGED <<slots, head, tail, eventVars, lockstep, frontVars, exit>>

\* The slot is the front's again.
Pop ==
  /\ back = "pop"
  /\ slots' = [slots EXCEPT ![head % RingSize] = NoRecord]
  /\ head' = Inc(head)
  /\ back' = "drain"
  /\ UNCHANGED <<tail, pending, nodeVars, eventVars, lockstep, frontVars,
                 exit>>

-----------------------------------------------------------------------------
\* What the front has begun and goes on with.
FrontStep ==
  \/ front = "acquireDraw" /\ DrawRecycled
  \/ AcquirePayloadNode \/ Push \/ Notify
  \/ WaitForEmpty \/ EmptyWake \/ Drained \/ SetExit \/ StopNotify
  \/ JoinAndReopen

BackStep == WaitForWork \/ Awake \/ CheckExit \/ Peek \/ ExecRecordSlot \/ Pop

Next ==
  \/ SubmitOther \/ DrawRecycled \/ DrawFresh \/ DrawWaits
  \/ RotateTransferPayload \/ FlushWrite \/ Write \/ InitReadFIFO \/ Read
  \/ Defrost
  \/ \E next \in {"drained", "stop"} : DrainBackQueue(next)
  \/ FrontStep
  \/ BackStep

\* Both threads run when they can; the front need not begin anything.
Spec == Init /\ [][Next]_vars /\ WF_vars(FrontStep) /\ WF_vars(BackStep)

-----------------------------------------------------------------------------
(* Properties.                                                             *)

Cells == 0..(Units - 1)

Records ==
  {NoRecord, Other}
  \cup [type : {"draw"}, node : 1..MaxDraw, version : {0, 1}]
  \cup [type : {"release"}, node : 1..MaxPayload, version : {0}]
  \cup [type : {"transfer"}, node : 1..MaxPayload, cells : SUBSET Cells,
        held : SUBSET Cells]

RingTypeOK ==
  /\ slots \in [0..(RingSize - 1) -> Records]
  /\ head \in 0..(CursorMod - 1) /\ tail \in 0..(CursorMod - 1)
  /\ Size <= RingSize
  /\ pending \in Seq(Records)

NodeTypeOK ==
  /\ drawFree \in Seq(1..MaxDraw) /\ payloadFree \in Seq(1..MaxPayload)
  /\ drawArena \in 0..MaxDraw /\ payloadArena \in 1..MaxPayload
  /\ draws \in [1..MaxDraw -> {0, 1}]
  /\ payloads \in [1..MaxPayload -> SUBSET Cells]

ThreadTypeOK ==
  /\ event \in {"parked", "running0", "runningN"}
  /\ emptyFlag \in BOOLEAN /\ emptyToken \in {0, 1}
  /\ lockstep \in BOOLEAN /\ exit \in BOOLEAN
  /\ front \in {"run", "acquireDraw", "acquirePayload", "push", "notify",
                "drain", "emptyWait", "drained", "stop", "stopNotify",
                "join"}
  /\ then \in {"run", "acquirePayload", "drained", "stop"}
  /\ back \in {"look", "parked", "check", "drain", "exec", "pop", "done"}

TransferTypeOK ==
  /\ total \in 0..Units /\ end \in 0..total /\ start \in 0..end
  /\ write \in BOOLEAN

\* Every variable has its type, the ring never holds more than its slots, and
\* what is queued of a transfer is staged.
TypeOK ==
  /\ RingTypeOK /\ NodeTypeOK /\ ThreadTypeOK /\ TransferTypeOK
  /\ rec \in Records /\ current \in 1..MaxPayload /\ referenced \in BOOLEAN

\* The slot that has been executed and not popped holds up the ring only.
InRing == IF back = "pop" THEN Inc(head) ELSE head

\* Records are executed in the order of their push, each once, across the wrap
\* of the cursors: the ring holds exactly those that are due.
RingHoldsPending ==
  /\ Distance(InRing, tail) = Len(pending)
  /\ \A k \in DOMAIN pending : slots[(InRing + k - 1) % RingSize] = pending[k]

\* And each finds in its node what it was made with, although the front goes on
\* writing the payload node: "disjoint ranges, so front-appends and back-reads
\* never overlap", and at the next transfer another node ("the pending TRANSFER
\* records keep reading the old node").
RecordsIntact ==
  \A k \in DOMAIN pending :
    /\ pending[k].type = "draw" =>
         draws[pending[k].node] = pending[k].version
    /\ pending[k].type = "transfer" =>
         payloads[pending[k].node] \cap pending[k].cells = pending[k].held

\* Every node is in one place: free, or in one record that is to release it, or
\* in the front's hands.  None is leaked and none is released twice.
NodesInOnePlace ==
  /\ \A n \in 1..drawArena :
       Cardinality({k \in DOMAIN drawFree : drawFree[k] = n})
       + Cardinality({k \in DOMAIN pending :
                        pending[k].type = "draw" /\ pending[k].node = n})
       + (IF rec.type = "draw" /\ rec.node = n THEN 1 ELSE 0) = 1
  /\ \A n \in 1..payloadArena :
       Cardinality({k \in DOMAIN payloadFree : payloadFree[k] = n})
       + Cardinality({k \in DOMAIN pending :
                        pending[k].type = "release" /\ pending[k].node = n})
       + (IF n = current /\ then # "acquirePayload" THEN 1 ELSE 0)
       + (IF rec.type = "release" /\ rec.node = n THEN 1 ELSE 0) = 1

\* Where a drain returns nothing is pending, and the back thread is off the
\* records, the nodes and the device.
DrainMeansIdle ==
  front \in {"drained", "stop"} =>
    pending = <<>> /\ head = tail /\ back \notin {"exec", "pop"}

\* The loop looks at the exit flag before it looks at the ring: nothing is left
\* there when it does leave.
StopLosesNothing == back = "done" => pending = <<>> /\ head = tail

\* Where the queue is drained or stopped, nothing is left in it or under way.
NothingLeft == DrainMeansIdle /\ StopLosesNothing

\* The front is held up by the ring, by a pool or by a drain only for a time;
\* so the pools, of which every node may be in the ring, do not deadlock.
FrontGoesOn == front # "run" ~> front = "run"
=============================================================================
