------------------------- MODULE GSBackQueueProofs -------------------------
(***************************************************************************)
(* Proofs about GSBackQueue, for rings and pools of every size: types,     *)
(* that the ring holds what is due across every wrap of the cursors, that  *)
(* a drain or a stop finds everything executed, that no node is lost or    *)
(* given out twice and that a record finds what was written for it.        *)
(***************************************************************************)
EXTENDS GSBackQueue, SequenceTheorems, FiniteSetTheorems, TLAPS

-----------------------------------------------------------------------------
(* Remainders.                                                             *)

LEMMA Division ==
  ASSUME NEW n \in Int, n > 0, NEW a \in Int
  PROVE  a = (a \div n) * n + (a % n) /\ a \div n \in Int /\ a % n \in 0..(n - 1)
<1>1. a = (a \div n) * n + (a % n)
  OBVIOUS
<1>2. a \div n \in Int /\ a % n \in 0..(n - 1)
  OBVIOUS
<1> QED
  BY <1>1, <1>2

LEMMA Quotient ==
  ASSUME NEW n \in Nat \ {0}, NEW a \in Nat
  PROVE  a % n \in 0..(n - 1) /\ \E q \in Int : a = q * n + (a % n)
<1>1. n \in Int /\ n > 0 /\ a \in Int
  OBVIOUS
<1> QED
  BY <1>1, Division

LEMMA Remainder ==
  ASSUME NEW n \in Nat \ {0}, NEW a \in Nat, NEW q \in Int,
         NEW r \in 0..(n - 1), a = q * n + r
  PROVE  a % n = r
OBVIOUS

LEMMA Multiple ==
  ASSUME NEW n \in Nat \ {0}, NEW x \in Int
  PROVE  (x > 0 => x * n >= n) /\ (x <= 0 => x * n <= 0)
OBVIOUS

\* Fewer than n apart, never the same slot.
LEMMA Apart ==
  ASSUME NEW n \in Nat \ {0}, NEW a \in Nat, NEW d \in 1..(n - 1)
  PROVE  (a + d) % n # a % n
<1>1. PICK p \in Int : a = p * n + (a % n)
  BY Quotient
<1>2. a + d \in Nat
  OBVIOUS
<1>3. PICK q \in Int : a + d = q * n + ((a + d) % n)
  BY <1>2, Quotient
<1>4. a % n \in Int
  BY Quotient
<1>5. (a + d) % n = a % n => d = (q - p) * n
  BY <1>1, <1>3, <1>4
<1> QED
  BY <1>5, Multiple

\* A wrap by a multiple of n keeps the slot.
LEMMA Wraps ==
  ASSUME NEW n \in Nat \ {0}, NEW a \in Nat, NEW m \in Nat, m % n = 0
  PROVE  (a + m) % n = a % n
<1> DEFINE r == a % n
<1>1. PICK p \in Int : a = p * n + r
  BY Quotient
<1>2. PICK q \in Int : m = q * n + (m % n)
  BY Quotient
<1>3. r \in 0..(n - 1)
  BY Quotient
<1>4. m = q * n
  BY <1>2
<1> HIDE DEF r
<1>5. (p * n + r) + q * n = (p + q) * n + r
  BY <1>3
<1>6. a + m = (p + q) * n + r
  BY <1>1, <1>4, <1>5
<1>7. p + q \in Int /\ a + m \in Nat
  OBVIOUS
<1> QED
  BY <1>3, <1>6, <1>7, Remainder DEF r

-----------------------------------------------------------------------------
(* Cursors.                                                                *)

\* What is assumed of the constants, but for the divisibility.
LEMMA Constants ==
  /\ RingSize \in Nat \ {0} /\ MaxDraw \in Nat \ {0} /\ MaxPayload \in Nat \ {0}
  /\ Units \in Nat \ {0}
  /\ CursorMod \in Nat /\ CursorMod > RingSize
BY GSBackQueueAssumption

LEMMA SlotIndex ==
  ASSUME NEW cursor \in 0..(CursorMod - 1)
  PROVE  cursor % RingSize \in 0..(RingSize - 1)
BY Constants

LEMMA CursorTypes ==
  ASSUME NEW from \in 0..(CursorMod - 1), NEW to \in 0..(CursorMod - 1)
  PROVE  /\ Inc(to) \in 0..(CursorMod - 1)
         /\ Distance(from, to) \in 0..(CursorMod - 1)
         /\ Distance(from, to) = 0 <=> from = to
BY Constants DEF Inc, Distance

LEMMA Produce ==
  ASSUME NEW from \in 0..(CursorMod - 1), NEW to \in 0..(CursorMod - 1),
         Distance(from, to) < RingSize
  PROVE  Distance(from, Inc(to)) = Distance(from, to) + 1
BY Constants DEF Inc, Distance

LEMMA Consume ==
  ASSUME NEW from \in 0..(CursorMod - 1), NEW to \in 0..(CursorMod - 1),
         from # to
  PROVE  Distance(Inc(from), to) = Distance(from, to) - 1
BY Constants DEF Inc, Distance

LEMMA CursorWraps ==
  ASSUME NEW a \in Nat
  PROVE  (a + CursorMod) % RingSize = a % RingSize
<1>1. /\ RingSize \in Nat \ {0} /\ CursorMod \in Nat
      /\ CursorMod % RingSize = 0
  BY GSBackQueueAssumption
<1> QED
  BY <1>1, Wraps

\* The slot that comes n after one is that of the cursor n further on ...
LEMMA SlotAt ==
  ASSUME NEW from \in 0..(CursorMod - 1), NEW to \in 0..(CursorMod - 1)
  PROVE  (from + Distance(from, to)) % RingSize = to % RingSize
<1>1. CASE to >= from
  BY <1>1 DEF Distance
<1>2. CASE to < from
  <2>1. from + Distance(from, to) = to + CursorMod
    BY <1>2, Constants DEF Distance
  <2>2. (to + CursorMod) % RingSize = to % RingSize
    BY CursorWraps
  <2> QED
    BY <2>1, <2>2
<1> QED
  BY <1>1, <1>2

\* ... also where the cursor wraps.
LEMMA SlotAfter ==
  ASSUME NEW cursor \in 0..(CursorMod - 1), NEW k \in Nat \ {0}
  PROVE  (Inc(cursor) + k - 1) % RingSize = (cursor + k) % RingSize
<1>1. CASE cursor # CursorMod - 1
  <2>1. Inc(cursor) + k - 1 = cursor + k
    BY <1>1, Constants DEF Inc
  <2> QED
    BY <2>1
<1>2. CASE cursor = CursorMod - 1
  <2>1. cursor + k = (k - 1) + CursorMod /\ k - 1 \in Nat
    BY <1>2, Constants
  <2>2. Inc(cursor) + k - 1 = k - 1
    BY <1>2, <2>1 DEF Inc
  <2>3. ((k - 1) + CursorMod) % RingSize = (k - 1) % RingSize
    BY <2>1, CursorWraps
  <2> QED
    BY <2>1, <2>2, <2>3
<1> QED
  BY <1>1, <1>2

-----------------------------------------------------------------------------
(* Records.                                                                *)

LEMMA RecordTypes ==
  /\ NoRecord \in Records /\ Other \in Records
  /\ \A n \in 1..MaxDraw, v \in {0, 1} : Record("draw", n, v) \in Records
  /\ \A n \in 1..MaxPayload : Record("release", n, 0) \in Records
BY DEF Records, Record

LEMMA SliceType ==
  ASSUME NEW from \in 0..Units, NEW to \in 0..Units
  PROVE  from..(to - 1) \subseteq Cells
BY Constants DEF Cells

LEMMA TransferType ==
  ASSUME current \in 1..MaxPayload,
         NEW from \in 0..Units, NEW to \in 0..Units, NEW held
  PROVE  Transfer(from, to, held) \in Records
<1> DEFINE cells == from..(to - 1)
<1>1. cells \in SUBSET Cells /\ held \cap cells \in SUBSET Cells
  BY SliceType
<1> HIDE DEF cells
<1>2. [type |-> "transfer", node |-> current, cells |-> cells,
       held |-> held \cap cells] \in Records
  BY <1>1 DEF Records
<1> QED
  BY <1>2 DEF Transfer, cells

LEMMA RecordNodes ==
  ASSUME NEW r \in Records
  PROVE  /\ r.type = "draw" => r.node \in 1..MaxDraw
         /\ r.type = "release" => r.node \in 1..MaxPayload
BY DEF Records, Record, NoRecord, Other

-----------------------------------------------------------------------------
(* The invariant.                                                          *)

\* The cursors count what is pending.
Counted ==
  /\ Distance(InRing, tail) = Len(pending)
  /\ back \in {"exec", "pop"} => head # tail

\* Nothing is left to do: the back thread sleeps, or is about to.
Nothing == pending = <<>> /\ head = tail

\* What is pushed is noticed, or about to be.
Noticed ==
  \/ Nothing
  \/ event = "runningN"
  \/ back \in {"check", "drain", "exec", "pop"}
  \/ front = "notify"

\* The event follows the back thread; only a drain asks to be answered.
EventFollows ==
  /\ back = "parked" => event \in {"parked", "runningN"}
  /\ event = "parked" => back = "parked"
  /\ emptyFlag => front = "emptyWait"
  /\ emptyToken = 1 =>
       front = "emptyWait" /\ ~emptyFlag /\ event = "parked" /\ Nothing

\* Where the front is after a drain, and while it stops the thread.
AfterDrain ==
  /\ front \in {"push", "notify"} => then \in {"run", "acquirePayload"}
  /\ front \in {"drained", "stop", "stopNotify"} => event = "parked" /\ Nothing
  /\ front = "join" => Nothing /\ back \in {"parked", "check", "done"}
  /\ exit <=> front \in {"stopNotify", "join"}
  /\ back = "done" => front = "join"

IInv == TypeOK /\ Counted /\ Noticed /\ EventFollows /\ AfterDrain

LEMMA InitIInv == Init => IInv
<1> SUFFICES ASSUME Init PROVE IInv
  OBVIOUS
<1>1. RingTypeOK
  <2>1. slots \in [0..(RingSize - 1) -> Records]
    BY RecordTypes DEF Init
  <2>2. Size <= RingSize
    BY Constants DEF Init, Size, Distance
  <2>3. pending \in Seq(Records)
    BY EmptySeq DEF Init
  <2>4. head \in 0..(CursorMod - 1) /\ tail \in 0..(CursorMod - 1)
    BY Constants DEF Init
  <2> QED
    BY <2>1, <2>2, <2>3, <2>4 DEF RingTypeOK
<1>2. NodeTypeOK
  BY EmptySeq, Constants DEF Init, NodeTypeOK
<1>3. ThreadTypeOK
  <2>1. /\ event = "running0" /\ emptyFlag = FALSE /\ emptyToken = 0
        /\ lockstep \in BOOLEAN /\ exit = FALSE
        /\ front = "run" /\ then = "run" /\ back = "look"
    BY DEF Init, Event!Init
  <2> QED
    BY <2>1 DEF ThreadTypeOK
<1>4. rec \in Records /\ current \in 1..MaxPayload
  BY RecordTypes, Constants DEF Init
<1>5. referenced \in BOOLEAN
  BY DEF Init
<1>6. Counted
  BY Constants DEF Init, Counted, InRing, Distance
<1>7. Noticed /\ EventFollows /\ AfterDrain
  BY DEF Init, Event!Init, Noticed, EventFollows, AfterDrain, Nothing
<1>8. TransferTypeOK
  <2>1. total = 0 /\ end = 0 /\ start = 0
    BY DEF Init
  <2>2. write \in BOOLEAN
    BY DEF Init
  <2>3. Units \in Nat
    BY Constants
  <2> QED
    BY <2>1, <2>2, <2>3 DEF TransferTypeOK
<1> QED
  BY <1>1, <1>2, <1>3, <1>4, <1>5, <1>6, <1>7, <1>8 DEF IInv, TypeOK

LEMMA Flip ==
  ASSUME NEW S, NEW f \in [S -> {0, 1}], NEW n \in S
  PROVE  [f EXCEPT ![n] = 1 - @] \in [S -> {0, 1}]
OBVIOUS

LEMMA StagedType ==
  ASSUME payloads \in [1..MaxPayload -> SUBSET Cells], current \in 1..MaxPayload,
         NEW from \in 0..Units, NEW to \in 0..Units, Staged(from, to)
  PROVE  payloads' \in [1..MaxPayload -> SUBSET Cells]
<1> DEFINE cells == from..(to - 1)
           new == (payloads[current] \ cells) \cup (cells \ payloads[current])
<1>1. cells \subseteq Cells
  BY SliceType
<1>2. new \in SUBSET Cells
  BY <1>1
<1>3. payloads' = [payloads EXCEPT ![current] = new]
  BY DEF Staged
<1> HIDE DEF new
<1> QED
  BY <1>2, <1>3

\* The steps of the front on its transfer.
Transfers ==
  \/ RotateTransferPayload \/ AcquirePayloadNode \/ FlushWrite \/ Write
  \/ InitReadFIFO \/ Read \/ Defrost

\* A step of the front that ends in a push changes its nodes and its record.
LEMMA Submits ==
  ASSUME IInv,
         SubmitOther \/ DrawRecycled \/ DrawFresh \/ DrawWaits
           \/ Transfers
  PROVE  IInv'
<1> DEFINE Own == rec \in Records /\ current \in 1..MaxPayload
<1> USE DEF ringVars, drawVars, payloadVars, nodeVars, eventVars, stageVars,
        trVars, Ready
<1>1. /\ UNCHANGED <<ringVars, eventVars, lockstep, back, exit>>
      /\ front \in {"run", "acquireDraw", "acquirePayload", "drained"}
      /\ front' \in {"run", "push", "acquireDraw"}
      /\ then' \in {then, "run", "acquirePayload"}
      /\ front' = "push" => then' \in {"run", "acquirePayload"}
  BY DEF SubmitOther, DrawRecycled, DrawFresh, DrawWaits, Transfers,
     RotateTransferPayload, AcquirePayloadNode, FlushWrite, Write, Submit,
     InitReadFIFO, Read, Defrost
<1>2. RingTypeOK'
  BY <1>1 DEF IInv, TypeOK, RingTypeOK, Size
<1>3. ThreadTypeOK'
  BY <1>1 DEF IInv, TypeOK, ThreadTypeOK
<1>4. (Counted /\ Noticed /\ EventFollows /\ AfterDrain)'
  BY <1>1 DEF IInv, Counted, Noticed, EventFollows, AfterDrain, Nothing, InRing
<1>5. NodeTypeOK' /\ Own' /\ TransferTypeOK'
  <2> USE DEF IInv, TypeOK, NodeTypeOK, TransferTypeOK
  <2>1. CASE SubmitOther
    BY <2>1, RecordTypes DEF SubmitOther
  <2>2. CASE DrawRecycled
    <3>1. /\ Head(drawFree) \in 1..MaxDraw /\ drawFree' \in Seq(1..MaxDraw)
      BY <2>2, HeadTailProperties DEF DrawRecycled
    <3>2. draws' \in [1..MaxDraw -> {0, 1}]
      BY <2>2, <3>1, Flip DEF DrawRecycled
    <3>3. rec' \in Records
      BY <2>2, <3>1, <3>2, RecordTypes DEF DrawRecycled
    <3> QED
      BY <2>2, <3>1, <3>2, <3>3 DEF DrawRecycled
  <2>3. CASE DrawFresh
    <3>1. /\ drawArena' \in 0..MaxDraw /\ drawArena + 1 \in 1..MaxDraw
      BY <2>3, Constants DEF DrawFresh, MayGrow
    <3>2. draws' \in [1..MaxDraw -> {0, 1}]
      BY <2>3 DEF DrawFresh
    <3>3. rec' \in Records
      BY <2>3, <3>1, RecordTypes DEF DrawFresh
    <3> QED
      BY <2>3, <3>1, <3>2, <3>3 DEF DrawFresh
  <2>4. CASE DrawWaits
    BY <2>4 DEF DrawWaits
  <2>5. CASE RotateTransferPayload
    <3>1. payloads' \in [1..MaxPayload -> SUBSET Cells]
      BY <2>5 DEF RotateTransferPayload, Forgotten
    <3>2. rec' \in Records
      BY <2>5, RecordTypes DEF RotateTransferPayload
    <3> QED
      BY <2>5, <3>1, <3>2, Constants DEF RotateTransferPayload, InitTransfer
  <2>6. CASE AcquirePayloadNode
    <3>1. CASE payloadFree # <<>>
      <4>1. payloadFree' = Tail(payloadFree) /\ current' = Head(payloadFree)
            /\ payloadArena' = payloadArena
        BY <2>6, <3>1 DEF AcquirePayloadNode
      <4>2. /\ Head(payloadFree) \in 1..MaxPayload
            /\ Tail(payloadFree) \in Seq(1..MaxPayload)
        BY <3>1, HeadTailProperties
      <4> QED
        BY <2>6, <4>1, <4>2, Constants DEF AcquirePayloadNode, InitTransfer
    <3>2. CASE payloadFree = <<>>
      BY <2>6, <3>2, Constants DEF AcquirePayloadNode, InitTransfer
    <3> QED
      BY <3>1, <3>2
  <2>7. CASE FlushWrite
    <3>1. rec' = Transfer(start, end, payloads'[current]) /\ start' = end
      BY <2>7 DEF FlushWrite, Submit
    <3>2. rec' \in Records
      BY SMTT(60), <3>1, TransferType, Constants
    <3> QED
      BY <2>7, <3>1, <3>2 DEF FlushWrite
  <2>8. CASE Write
    <3>1. total' \in 0..Units /\ end' \in 0..total' /\ end \in 0..end'
      BY <2>8, Constants DEF Write
    <3>2. payloads' \in [1..MaxPayload -> SUBSET Cells]
      BY <2>8, <3>1, StagedType, Constants DEF Write
    <3>3. CASE end' = total' /\ (write \/ end = 0)
      <4>1. rec' = Transfer(start, end', payloads'[current]) /\ start' = end'
        BY <2>8, <3>3 DEF Write, Submit
      <4>2. rec' \in Records
        BY <3>1, <4>1, TransferType, Constants
      <4> QED
        BY <2>8, <3>1, <3>2, <4>1, <4>2 DEF Write
    <3>4. CASE ~(end' = total' /\ (write \/ end = 0))
      BY <2>8, <3>1, <3>2, <3>4 DEF Write
    <3> QED
      BY <3>3, <3>4
  <2>9. CASE InitReadFIFO
    <3>1. payloads' \in [1..MaxPayload -> SUBSET Cells]
      BY <2>9 DEF InitReadFIFO
    <3> QED
      BY <2>9, <3>1, Constants DEF InitReadFIFO
  <2>10. CASE Read
    BY <2>10, Constants DEF Read
  <2>11. CASE Defrost
    <3>1. payloads' \in [1..MaxPayload -> SUBSET Cells]
      BY <2>11 DEF Defrost, Forgotten
    <3>2. TransferTypeOK'
      BY <2>11, Constants DEF Defrost, Restored
    <3> QED
      BY <2>11, <3>1, <3>2 DEF Defrost
  <2> QED
    BY <2>1, <2>2, <2>3, <2>4, <2>5, <2>6, <2>7, <2>8, <2>9, <2>10, <2>11
       DEF Transfers
<1>6. referenced' \in BOOLEAN
  BY DEF IInv, TypeOK, SubmitOther, DrawRecycled, DrawFresh, DrawWaits, Transfers,
     RotateTransferPayload, AcquirePayloadNode, FlushWrite, Write, Submit,
     InitReadFIFO, Read, Defrost
<1> QED
  BY <1>2, <1>3, <1>4, <1>5, <1>6 DEF IInv, TypeOK

LEMMA Pushes ==
  ASSUME IInv, Push
  PROVE  IInv'
<1>1. /\ head \in 0..(CursorMod - 1) /\ tail \in 0..(CursorMod - 1)
      /\ Distance(head, tail) \in 0..(RingSize - 1)
  <2>1. /\ head \in 0..(CursorMod - 1) /\ tail \in 0..(CursorMod - 1)
        /\ Distance(head, tail) <= RingSize /\ Distance(head, tail) # RingSize
    BY DEF IInv, TypeOK, RingTypeOK, Push, Size, IsFull
  <2>2. Distance(head, tail) \in 0..(CursorMod - 1)
    BY <2>1, CursorTypes
  <2> QED
    BY <2>1, <2>2, Constants
<1>2. tail' = Inc(tail) /\ head' = head /\ tail' \in 0..(CursorMod - 1)
  BY <1>1, CursorTypes DEF Push
<1>3. Distance(head', tail') = Distance(head, tail) + 1
  BY <1>1, <1>2, Produce, Constants
<1>4. pending' \in Seq(Records) /\ Len(pending') = Len(pending) + 1
  BY AppendProperties DEF Push, IInv, TypeOK, RingTypeOK
<1>5. RingTypeOK'
  <2>1. slots' \in [0..(RingSize - 1) -> Records]
    BY <1>1, SlotIndex DEF Push, IInv, TypeOK, RingTypeOK
  <2>2. Size' <= RingSize
    BY <1>1, <1>3, Constants DEF Size
  <2> QED
    BY <1>1, <1>2, <1>4, <2>1, <2>2 DEF RingTypeOK
<1>6. NodeTypeOK'
  BY DEF Push, IInv, TypeOK, NodeTypeOK, nodeVars, drawVars, payloadVars
<1>7. ThreadTypeOK'
  BY DEF Push, IInv, TypeOK, ThreadTypeOK, eventVars
<1>8. (/\ rec \in Records /\ current \in 1..MaxPayload /\ referenced \in BOOLEAN
        /\ TransferTypeOK)'
  BY RecordTypes DEF Push, IInv, TypeOK, TransferTypeOK, stageVars, trVars
<1>9. Counted'
  <2>1. head' # tail'
    BY <1>1, <1>2, <1>3, CursorTypes
  <2>2. Distance(InRing, tail) < RingSize /\ InRing \in 0..(CursorMod - 1)
    <3>1. CASE back = "pop"
      <4>1. InRing = Inc(head) /\ head # tail
        BY <3>1 DEF IInv, InRing, Counted
      <4>2. Distance(Inc(head), tail) = Distance(head, tail) - 1
        BY <1>1, <4>1, Consume
      <4> QED
        BY <1>1, <4>1, <4>2, CursorTypes, Constants
    <3>2. CASE back # "pop"
      BY <1>1, <3>2, Constants DEF InRing
    <3> QED
      BY <3>1, <3>2
  <2>3. InRing' = InRing
    BY DEF Push, InRing
  <2>4. Distance(InRing, tail)' = Distance(InRing, tail) + 1
    BY <1>1, <1>2, <2>2, <2>3, Produce
  <2> QED
    BY <1>4, <2>1, <2>4 DEF Counted, IInv
<1>10. (Noticed /\ EventFollows /\ AfterDrain)'
  BY DEF Push, IInv, Noticed, EventFollows, AfterDrain, Nothing, eventVars
<1> QED
  BY <1>5, <1>6, <1>7, <1>8, <1>9, <1>10 DEF IInv, TypeOK

\* A step of the front that only moves it on, or waits.
LEMMA Waits ==
  ASSUME IInv,
         Notify \/ (\E next \in {"drained", "stop"} : DrainBackQueue(next))
           \/ WaitForEmpty \/ EmptyWake \/ Drained \/ SetExit \/ StopNotify
  PROVE  IInv'
<1>1. UNCHANGED <<ringVars, nodeVars, lockstep, rec, stageVars, back>>
  BY DEF Notify, DrainBackQueue, WaitForEmpty, EmptyWake, Drained, SetExit,
     StopNotify
<1>2. RingTypeOK' /\ Counted'
  BY <1>1 DEF IInv, TypeOK, RingTypeOK, Size, Counted, InRing, ringVars
<1>3. NodeTypeOK' /\ (rec \in Records)' /\ (current \in 1..MaxPayload)'
      /\ (referenced \in BOOLEAN)' /\ TransferTypeOK'
  BY <1>1 DEF IInv, TypeOK, NodeTypeOK, TransferTypeOK, nodeVars, drawVars,
     payloadVars, stageVars, trVars
<1>4. (ThreadTypeOK /\ Noticed /\ EventFollows /\ AfterDrain)'
  <2> USE DEF IInv, TypeOK, ThreadTypeOK, ringVars, eventVars, Noticed,
          EventFollows, AfterDrain, Nothing
  <2>1. CASE Notify
    <3>1. /\ event' = "runningN" /\ emptyFlag' = emptyFlag
          /\ emptyToken' = emptyToken /\ front = "notify"
          /\ front' \in {"drain", then} /\ then' = then /\ exit' = exit
      BY <2>1 DEF Notify, Event!NotifyOfWork, Event!emptyVars
    <3>2. ~emptyFlag /\ emptyToken = 0
      BY <3>1
    <3>3. front' # "drained" /\ front' # "stop"
      <4>1. then \in {"run", "acquirePayload"}
        BY <3>1
      <4> QED
        BY <3>1, <4>1
    <3> QED
      BY <1>1, <3>1, <3>2, <3>3
  <2>2. CASE \E next \in {"drained", "stop"} : DrainBackQueue(next)
    BY <1>1, <2>2 DEF DrainBackQueue
  <2>3. CASE WaitForEmpty
    <3>1. CASE Event!IsIdle /\ front' = then /\ UNCHANGED eventVars
      BY <1>1, <2>3, <3>1 DEF WaitForEmpty, Event!IsIdle
    <3>2. CASE Event!WaitForEmpty /\ front' = "emptyWait"
      BY <1>1, <2>3, <3>2 DEF WaitForEmpty, Event!WaitForEmpty
    <3> QED
      BY <2>3, <3>1, <3>2 DEF WaitForEmpty
  <2>4. CASE EmptyWake
    BY <1>1, <2>4 DEF EmptyWake, Event!EmptyWake
  <2>5. CASE Drained
    BY <1>1, <2>5 DEF Drained
  <2>6. CASE SetExit
    BY <1>1, <2>6 DEF SetExit
  <2>7. CASE StopNotify
    BY <1>1, <2>7 DEF StopNotify, Event!NotifyOfWork, Event!emptyVars
  <2> QED
    BY <2>1, <2>2, <2>3, <2>4, <2>5, <2>6, <2>7
<1> QED
  BY <1>2, <1>3, <1>4 DEF IInv, TypeOK

LEMMA Reopens ==
  ASSUME IInv, JoinAndReopen
  PROVE  IInv'
<1>1. RingTypeOK'
  <2>1. slots' \in [0..(RingSize - 1) -> Records]
    BY RecordTypes DEF JoinAndReopen
  <2>2. Size' <= RingSize
    BY Constants DEF JoinAndReopen, Size, Distance
  <2>3. pending' \in Seq(Records)
    BY EmptySeq DEF JoinAndReopen
  <2>4. head' \in 0..(CursorMod - 1) /\ tail' \in 0..(CursorMod - 1)
    BY Constants DEF JoinAndReopen
  <2> QED
    BY <2>1, <2>2, <2>3, <2>4 DEF RingTypeOK
<1>2. NodeTypeOK'
  BY EmptySeq, Constants DEF JoinAndReopen, NodeTypeOK
<1>3. ThreadTypeOK'
  BY DEF JoinAndReopen, ThreadTypeOK
<1>4. (rec \in Records /\ current \in 1..MaxPayload)'
  BY RecordTypes, Constants DEF JoinAndReopen
<1>5. (referenced \in BOOLEAN)' /\ TransferTypeOK'
  <2>1. TransferTypeOK'
    BY Constants DEF JoinAndReopen, Restored, TransferTypeOK
  <2> QED
    BY <2>1 DEF JoinAndReopen
<1>6. Counted'
  BY Constants DEF JoinAndReopen, Counted, InRing, Distance
<1>7. (Noticed /\ EventFollows /\ AfterDrain)'
  BY DEF JoinAndReopen, Noticed, EventFollows, AfterDrain, Nothing
<1> QED
  BY <1>1, <1>2, <1>3, <1>4, <1>5, <1>6, <1>7 DEF IInv, TypeOK

\* A step of the back thread that leaves the records alone.
LEMMA Looks ==
  ASSUME IInv, WaitForWork \/ Awake \/ CheckExit \/ Peek
  PROVE  IInv'
<1>1. /\ UNCHANGED <<ringVars, nodeVars, lockstep, frontVars, exit>>
      /\ back \in {"look", "parked", "check", "drain"}
      /\ back' \in {"look", "parked", "check", "drain", "done", "exec"}
  BY DEF WaitForWork, Awake, CheckExit, Peek
<1>2. RingTypeOK'
  BY <1>1 DEF IInv, TypeOK, RingTypeOK, Size, ringVars
<1>3. NodeTypeOK' /\ (rec \in Records)' /\ (current \in 1..MaxPayload)'
      /\ (referenced \in BOOLEAN)' /\ TransferTypeOK'
  BY <1>1 DEF IInv, TypeOK, NodeTypeOK, TransferTypeOK, nodeVars, drawVars,
     payloadVars, frontVars, stageVars, trVars
<1>4. Counted'
  <2>1. UNCHANGED <<head, tail, pending, InRing>>
    BY <1>1 DEF ringVars, InRing
  <2>2. back' = "exec" => head # tail
    BY DEF WaitForWork, Awake, CheckExit, Peek
  <2> QED
    BY <1>1, <2>1, <2>2 DEF IInv, Counted
<1>5. (ThreadTypeOK /\ Noticed /\ EventFollows /\ AfterDrain)'
  <2> USE <1>1 DEF IInv, TypeOK, ThreadTypeOK, ringVars, eventVars, frontVars,
          Noticed, EventFollows, AfterDrain, Nothing
  <2>1. CASE WaitForWork
    <3>1. CASE Event!IdleLook("parked") /\ back' = "parked"
      <4>1. event = "running0" /\ event' = "parked" /\ emptyFlag' = FALSE
        BY <3>1 DEF Event!IdleLook, Event!Answer
      <4>2. /\ emptyFlag => emptyToken' = emptyToken + 1
            /\ ~emptyFlag => emptyToken' = emptyToken
        BY <3>1 DEF Event!IdleLook, Event!Answer
      <4>3. emptyToken = 0
        BY <4>1
      <4>4. emptyToken' \in {0, 1} /\ (emptyToken' = 1 => emptyFlag)
        BY <4>2, <4>3
      <4>5. Nothing \/ front = "notify"
        BY <2>1, <4>1 DEF WaitForWork
      <4> QED
        BY <2>1, <3>1, <4>1, <4>4, <4>5
    <3>2. CASE Event!BusyLook /\ back' = "check"
      BY <2>1, <3>2 DEF WaitForWork, Event!BusyLook, Event!emptyVars
    <3> QED
      BY <2>1, <3>1, <3>2 DEF WaitForWork
  <2>2. CASE Awake
    BY <2>2 DEF Awake, Event!BusyLook, Event!emptyVars
  <2>3. CASE CheckExit
    BY <2>3 DEF CheckExit
  <2>4. CASE Peek
    <3>1. head = tail => pending = <<>>
      <4>1. Distance(head, tail) = Len(pending) /\ head \in 0..(CursorMod - 1)
            /\ tail \in 0..(CursorMod - 1) /\ pending \in Seq(Records)
        BY <2>4 DEF Peek, Counted, InRing, RingTypeOK
      <4> QED
        BY <4>1, CursorTypes, EmptySeq
    <3> QED
      BY <2>4, <3>1 DEF Peek
  <2> QED
    BY <2>1, <2>2, <2>3, <2>4
<1> QED
  BY <1>2, <1>3, <1>4, <1>5 DEF IInv, TypeOK

LEMMA Executes ==
  ASSUME IInv, ExecRecordSlot
  PROVE  IInv'
<1>1. /\ UNCHANGED <<slots, head, tail, eventVars, lockstep, frontVars, exit>>
      /\ back = "exec" /\ back' = "pop" /\ pending' = Tail(pending)
  BY DEF ExecRecordSlot
<1>2. /\ head \in 0..(CursorMod - 1) /\ tail \in 0..(CursorMod - 1)
      /\ head # tail /\ pending \in Seq(Records)
      /\ Len(pending) = Distance(head, tail)
  BY <1>1 DEF IInv, TypeOK, RingTypeOK, Counted, InRing
<1>3. pending # <<>>
  BY <1>2, CursorTypes, EmptySeq
<1>4. pending' \in Seq(Records) /\ Len(pending') = Len(pending) - 1
  BY <1>1, <1>2, <1>3, HeadTailProperties
<1>5. RingTypeOK'
  BY <1>1, <1>4 DEF IInv, TypeOK, RingTypeOK, Size
<1>6. Counted'
  BY <1>1, <1>2, <1>4, Consume DEF Counted, InRing
<1>7. NodeTypeOK'
  <2>1. Oldest \in Records
    BY <1>2, SlotIndex DEF Oldest, IInv, TypeOK, RingTypeOK
  <2> USE DEF IInv, TypeOK, NodeTypeOK, drawVars, payloadVars, nodeVars
  <2>2. CASE Oldest.type = "draw"
    <3>1. Oldest.node \in 1..MaxDraw
      BY <2>1, <2>2, RecordNodes
    <3>2. /\ drawFree' = Append(drawFree, Oldest.node)
          /\ draws' = [draws EXCEPT ![Oldest.node] = 0]
          /\ UNCHANGED <<drawArena, payloadFree, payloadArena, payloads>>
      BY <2>2 DEF ExecRecordSlot
    <3>3. drawFree' \in Seq(1..MaxDraw)
      BY <3>1, <3>2, AppendProperties
    <3> QED
      BY <3>1, <3>2, <3>3
  <2>3. CASE Oldest.type = "release"
    <3>1. Oldest.node \in 1..MaxPayload
      BY <2>1, <2>3, RecordNodes
    <3>2. /\ payloadFree' = Append(payloadFree, Oldest.node)
          /\ payloads' = [payloads EXCEPT ![Oldest.node] = {}]
          /\ UNCHANGED <<payloadArena, drawFree, drawArena, draws>>
      BY <2>3 DEF ExecRecordSlot
    <3>3. payloadFree' \in Seq(1..MaxPayload)
      BY <3>1, <3>2, AppendProperties
    <3> QED
      BY <3>1, <3>2, <3>3
  <2>4. CASE Oldest.type \notin {"draw", "release"}
    BY <2>4 DEF ExecRecordSlot
  <2> QED
    BY <2>2, <2>3, <2>4
<1>8. (ThreadTypeOK /\ Noticed /\ EventFollows /\ AfterDrain)'
  BY <1>1, <1>2
     DEF IInv, TypeOK, ThreadTypeOK, Noticed, EventFollows, AfterDrain, Nothing,
         eventVars, frontVars
<1>9. TransferTypeOK'
  BY <1>1 DEF IInv, TypeOK, TransferTypeOK, frontVars, stageVars, trVars
<1> QED
  BY <1>1, <1>5, <1>6, <1>7, <1>8, <1>9 DEF IInv, TypeOK, frontVars, stageVars

LEMMA Pops ==
  ASSUME IInv, Pop
  PROVE  IInv'
<1>1. /\ UNCHANGED <<tail, pending, nodeVars, eventVars, lockstep, frontVars,
                     exit>>
      /\ back = "pop" /\ back' = "drain" /\ head' = Inc(head)
  BY DEF Pop
<1>2. /\ head \in 0..(CursorMod - 1) /\ tail \in 0..(CursorMod - 1)
      /\ head # tail /\ Distance(head, tail) <= RingSize
  BY <1>1 DEF IInv, TypeOK, RingTypeOK, Counted, Size
<1>3. RingTypeOK'
  <2>1. /\ slots' \in [0..(RingSize - 1) -> Records]
        /\ head' \in 0..(CursorMod - 1)
    BY <1>2, SlotIndex, CursorTypes, RecordTypes
       DEF Pop, IInv, TypeOK, RingTypeOK
  <2>2. Size' <= RingSize
    BY <1>1, <1>2, Consume, CursorTypes, Constants DEF Size
  <2> QED
    BY <1>1, <2>1, <2>2 DEF RingTypeOK, IInv, TypeOK
<1>4. Counted'
  BY <1>1 DEF IInv, Counted, InRing
<1>5. NodeTypeOK' /\ (rec \in Records)' /\ (current \in 1..MaxPayload)'
      /\ (referenced \in BOOLEAN)' /\ TransferTypeOK'
  BY <1>1 DEF IInv, TypeOK, NodeTypeOK, TransferTypeOK, nodeVars, drawVars,
     payloadVars, frontVars, stageVars, trVars
<1>6. (ThreadTypeOK /\ Noticed /\ EventFollows /\ AfterDrain)'
  BY <1>1, <1>2
     DEF IInv, TypeOK, ThreadTypeOK, Noticed, EventFollows, AfterDrain, Nothing,
         eventVars, frontVars
<1> QED
  BY <1>3, <1>4, <1>5, <1>6 DEF IInv, TypeOK

LEMMA NextIInv ==
  ASSUME IInv, [Next]_vars
  PROVE  IInv'
<1>1. CASE UNCHANGED vars
  <2> USE <1>1 DEF vars, ringVars, drawVars, payloadVars, nodeVars, eventVars,
          frontVars, stageVars, trVars, IInv, TypeOK
  <2>1. RingTypeOK' /\ Counted'
    BY DEF RingTypeOK, Size, Counted, InRing
  <2>2. NodeTypeOK' /\ (rec \in Records)' /\ (current \in 1..MaxPayload)'
    BY DEF NodeTypeOK
  <2>3. ThreadTypeOK' /\ (referenced \in BOOLEAN)' /\ TransferTypeOK'
    BY DEF ThreadTypeOK, TransferTypeOK
  <2>4. (Noticed /\ EventFollows /\ AfterDrain)'
    BY DEF Noticed, EventFollows, AfterDrain, Nothing
  <2> QED
    BY <2>1, <2>2, <2>3, <2>4
<1> QED
  BY <1>1, Submits, Pushes, Waits, Reopens, Looks, Executes, Pops
     DEF Next, FrontStep, BackStep, Transfers

-----------------------------------------------------------------------------
(* The ring's content.                                                     *)

\* The k-th of the records that are due is in the k-th slot from the head.
Held == \A k \in DOMAIN pending : slots[(InRing + k - 1) % RingSize] = pending[k]

LEMMA HeldByPush ==
  ASSUME IInv, Held, Push
  PROVE  Held'
<1>1. /\ InRing' = InRing /\ pending' = Append(pending, rec)
      /\ slots' = [slots EXCEPT ![tail % RingSize] = rec]
  BY DEF Push, InRing
<1>2. /\ tail \in 0..(CursorMod - 1) /\ pending \in Seq(Records)
      /\ InRing \in 0..(CursorMod - 1) /\ Distance(InRing, tail) = Len(pending)
      /\ slots \in [0..(RingSize - 1) -> Records]
  BY CursorTypes DEF IInv, TypeOK, RingTypeOK, InRing, Counted
<1>3. Len(pending) < RingSize
  <2>1. Distance(head, tail) < RingSize /\ Distance(head, tail) \in Nat
    <3>1. /\ head \in 0..(CursorMod - 1) /\ tail \in 0..(CursorMod - 1)
          /\ Distance(head, tail) <= RingSize /\ Distance(head, tail) # RingSize
      BY DEF Push, IsFull, Size, IInv, TypeOK, RingTypeOK
    <3>2. Distance(head, tail) \in 0..(CursorMod - 1)
      BY <3>1, CursorTypes
    <3> QED
      BY <3>1, <3>2, Constants
  <2>2. CASE back = "pop"
    <3>1. head # tail /\ InRing = Inc(head) /\ head \in 0..(CursorMod - 1)
      BY <2>2 DEF IInv, Counted, InRing, TypeOK, RingTypeOK
    <3> QED
      BY <1>2, <2>1, <3>1, Consume, Constants
  <2>3. CASE back # "pop"
    BY <1>2, <2>1, <2>3 DEF InRing
  <2> QED
    BY <2>2, <2>3
<1>4. tail % RingSize = (InRing + Len(pending)) % RingSize
  BY <1>2, SlotAt
<1> SUFFICES ASSUME NEW k \in DOMAIN pending'
             PROVE  slots'[(InRing + k - 1) % RingSize] = pending'[k]
  BY <1>1 DEF Held
<1>5. k \in 1..(Len(pending) + 1) /\ Len(pending) \in Nat
  BY <1>1, <1>2, AppendProperties, LenProperties
<1>6. CASE k = Len(pending) + 1
  <2>1. pending'[k] = rec
    BY <1>1, <1>2, <1>6, AppendProperties
  <2>2. InRing + k - 1 = InRing + Len(pending)
    BY <1>2, <1>5, <1>6, Constants
  <2> QED
    BY <1>1, <1>2, <1>4, <2>1, <2>2, SlotIndex
<1>7. CASE k \in 1..Len(pending)
  <2>1. pending'[k] = pending[k] /\ k \in DOMAIN pending
    BY <1>1, <1>2, <1>7, AppendProperties, LenProperties
  <2>2. (InRing + k - 1) % RingSize # tail % RingSize
    <3> DEFINE a == InRing + k - 1
               d == Len(pending) - k + 1
    <3>1. InRing \in Nat /\ Len(pending) \in Nat /\ k \in 1..Len(pending)
      BY <1>2, <1>5, <1>7, Constants
    <3>2. /\ a \in Nat /\ d \in 1..(RingSize - 1)
          /\ a + d = InRing + Len(pending)
      BY <1>3, <3>1, Constants
    <3> HIDE DEF a, d
    <3>3. (a + d) % RingSize # a % RingSize
      BY <3>2, Apart, Constants
    <3> QED
      BY <1>4, <3>2, <3>3 DEF a
  <2>3. slots'[(InRing + k - 1) % RingSize] = slots[(InRing + k - 1) % RingSize]
    <3>1. InRing + k - 1 \in Nat
      BY <1>2, <1>5, Constants
    <3>2. (InRing + k - 1) % RingSize \in 0..(RingSize - 1)
      BY <3>1, Quotient, Constants
    <3> QED
      BY <1>1, <1>2, <2>2, <3>2
  <2> QED
    BY <2>1, <2>3 DEF Held
<1> QED
  BY <1>5, <1>6, <1>7

LEMMA HeldByExec ==
  ASSUME IInv, Held, ExecRecordSlot
  PROVE  Held'
<1>1. /\ slots' = slots /\ InRing = head /\ InRing' = Inc(head)
      /\ pending' = Tail(pending)
  BY DEF ExecRecordSlot, InRing
<1>2. /\ head \in 0..(CursorMod - 1) /\ tail \in 0..(CursorMod - 1)
      /\ head # tail /\ pending \in Seq(Records)
      /\ Len(pending) = Distance(head, tail)
  BY <1>1 DEF IInv, TypeOK, RingTypeOK, Counted, InRing, ExecRecordSlot
<1>3. pending # <<>>
  BY <1>2, CursorTypes, EmptySeq
<1> SUFFICES ASSUME NEW k \in DOMAIN pending'
             PROVE  slots[(Inc(head) + k - 1) % RingSize] = pending'[k]
  BY <1>1 DEF Held
<1>4. /\ k \in Nat \ {0} /\ k + 1 \in DOMAIN pending
      /\ pending'[k] = pending[k + 1]
  BY <1>1, <1>2, <1>3, HeadTailProperties, LenProperties
<1>5. slots[(head + (k + 1) - 1) % RingSize] = pending[k + 1]
  BY <1>1, <1>4 DEF Held
<1>6. head + (k + 1) - 1 = head + k
  BY <1>2, <1>4, Constants
<1> QED
  BY <1>2, <1>4, <1>5, <1>6, SlotAfter

LEMMA HeldByPop ==
  ASSUME IInv, Held, Pop
  PROVE  Held'
<1>1. /\ InRing = Inc(head) /\ InRing' = Inc(head) /\ pending' = pending
      /\ slots' = [slots EXCEPT ![head % RingSize] = NoRecord]
  BY DEF Pop, InRing
<1>2. /\ head \in 0..(CursorMod - 1) /\ tail \in 0..(CursorMod - 1)
      /\ head # tail /\ pending \in Seq(Records)
      /\ Len(pending) = Distance(Inc(head), tail)
      /\ Distance(head, tail) <= RingSize
      /\ slots \in [0..(RingSize - 1) -> Records]
  BY <1>1 DEF IInv, TypeOK, RingTypeOK, Size, Counted, InRing, Pop
<1>3. Len(pending) <= RingSize - 1
  <2>1. Distance(Inc(head), tail) = Distance(head, tail) - 1
    BY <1>2, Consume
  <2>2. Distance(head, tail) \in 0..(CursorMod - 1)
    BY <1>2, CursorTypes
  <2> QED
    BY <1>2, <2>1, <2>2, Constants
<1> SUFFICES ASSUME NEW k \in DOMAIN pending
             PROVE  slots'[(Inc(head) + k - 1) % RingSize] = pending[k]
  BY <1>1 DEF Held
<1>4. k \in 1..(RingSize - 1) /\ k \in Nat \ {0} /\ head \in Nat
  BY <1>2, <1>3, LenProperties, Constants
<1>5. (Inc(head) + k - 1) % RingSize = (head + k) % RingSize
  BY <1>2, <1>4, SlotAfter
<1>6. (head + k) % RingSize # head % RingSize
  BY <1>4, Apart, Constants
<1>7. slots[(Inc(head) + k - 1) % RingSize] = pending[k]
  BY <1>1 DEF Held
<1>8. (head + k) % RingSize \in 0..(RingSize - 1)
  <2>1. head + k \in Nat
    BY <1>4
  <2> QED
    BY <2>1, Quotient, Constants
<1> QED
  BY <1>1, <1>2, <1>5, <1>6, <1>7, <1>8

LEMMA NextHeld ==
  ASSUME IInv, Held, [Next]_vars
  PROVE  Held'
<1>1. CASE JoinAndReopen
  <2>1. DOMAIN pending' = {}
    BY <1>1 DEF JoinAndReopen
  <2> QED
    BY <2>1 DEF Held
<1>2. ASSUME UNCHANGED ringVars, back # "pop", back' # "pop"
      PROVE  Held'
  BY <1>2 DEF Held, InRing, ringVars
<1>3. ASSUME UNCHANGED <<ringVars, back>>
      PROVE  Held'
  BY <1>3 DEF Held, InRing, ringVars
<1>4. CASE WaitForWork \/ Awake \/ CheckExit \/ Peek
  BY <1>2, <1>4 DEF WaitForWork, Awake, CheckExit, Peek
<1>5. CASE UNCHANGED vars
  BY <1>3, <1>5 DEF vars
<1>6. CASE SubmitOther \/ DrawRecycled \/ DrawFresh \/ DrawWaits \/ Transfers
  BY <1>3, <1>6 DEF SubmitOther, DrawRecycled, DrawFresh, DrawWaits, Transfers,
     RotateTransferPayload, AcquirePayloadNode, FlushWrite, Write, InitReadFIFO,
     Read, Defrost
<1>7. CASE \/ Notify \/ \E next \in {"drained", "stop"} : DrainBackQueue(next)
           \/ WaitForEmpty \/ EmptyWake \/ Drained \/ SetExit \/ StopNotify
  BY <1>3, <1>7 DEF Notify, DrainBackQueue, WaitForEmpty, EmptyWake, Drained,
     SetExit, StopNotify
<1> QED
  BY <1>1, <1>4, <1>5, <1>6, <1>7, HeldByPush, HeldByExec, HeldByPop
     DEF Next, FrontStep, BackStep, Transfers

-----------------------------------------------------------------------------
(* What follows.                                                           *)

LEMMA Inductive == Spec => [](IInv /\ Held)
<1>1. Init => IInv /\ Held
  BY InitIInv DEF Init, Held
<1>2. IInv /\ Held /\ [Next]_vars => (IInv /\ Held)'
  BY NextIInv, NextHeld
<1> QED
  BY <1>1, <1>2, PTL DEF Spec

\* Every variable keeps its type; the ring is never over its slots.
THEOREM TypeCorrect == Spec => []TypeOK
<1>1. IInv => TypeOK
  BY DEF IInv
<1> QED
  BY <1>1, Inductive, PTL

\* A drain returns to an idle back thread.
THEOREM DrainSafe == Spec => []DrainMeansIdle
<1>1. IInv => DrainMeansIdle
  BY DEF IInv, DrainMeansIdle, AfterDrain, EventFollows, Nothing
<1> QED
  BY <1>1, Inductive, PTL

\* The back thread leaves nothing behind.
THEOREM StopSafe == Spec => []StopLosesNothing
<1>1. IInv => StopLosesNothing
  BY DEF IInv, StopLosesNothing, AfterDrain, Nothing
<1> QED
  BY <1>1, Inductive, PTL

\* Neither a drain nor the end of the back thread leaves anything behind.
THEOREM NothingIsLeft == Spec => []NothingLeft
BY DrainSafe, StopSafe, PTL DEF NothingLeft

\* Every record is executed once, in the order of the pushes: at each wrap of
\* the cursors the ring holds what is due and where the back thread will look.
THEOREM RingSafe == Spec => []RingHoldsPending
<1>1. IInv /\ Held => RingHoldsPending
  BY DEF IInv, Counted, Held, RingHoldsPending
<1> QED
  BY <1>1, Inductive, PTL

-----------------------------------------------------------------------------
(* Counting the elements of a sequence that belong to a set.               *)

Where(s, S) == {k \in DOMAIN s : s[k] \in S}
Occ(s, S) == Cardinality(Where(s, S))
One(condition) == IF condition THEN 1 ELSE 0

LEMMA OccFinite ==
  ASSUME NEW T, NEW s \in Seq(T), NEW S
  PROVE  IsFiniteSet(Where(s, S)) /\ Occ(s, S) \in Nat
<1>1. Where(s, S) \subseteq 1..Len(s) /\ Len(s) \in Nat
  BY DEF Where
<1>2. IsFiniteSet(1..Len(s))
  BY <1>1, FS_Interval
<1>3. IsFiniteSet(Where(s, S))
  BY <1>1, <1>2, FS_Subset
<1> QED
  BY <1>3, FS_CardinalityType DEF Occ

LEMMA OccNone ==
  ASSUME NEW T, NEW s \in Seq(T), NEW S, \A k \in DOMAIN s : s[k] \notin S
  PROVE  Occ(s, S) = 0
<1>1. Where(s, S) = {}
  BY DEF Where
<1> QED
  BY <1>1, FS_EmptySet DEF Occ

LEMMA OccSome ==
  ASSUME NEW T, NEW s \in Seq(T), NEW S, NEW k \in DOMAIN s, s[k] \in S
  PROVE  Occ(s, S) >= 1
<1>1. k \in Where(s, S)
  BY DEF Where
<1> QED
  BY <1>1, OccFinite, FS_EmptySet DEF Occ

LEMMA OccTwo ==
  ASSUME NEW T, NEW s \in Seq(T), NEW S,
         NEW k \in DOMAIN s, NEW j \in DOMAIN s, k # j, s[k] \in S, s[j] \in S
  PROVE  Occ(s, S) >= 2
<1> DEFINE both == {k} \cup {j}
           c == Cardinality(both)
           m == Cardinality(Where(s, S))
<1>1. both \subseteq Where(s, S)
  BY DEF Where
<1>2. IsFiniteSet(Where(s, S)) /\ m \in Nat
  BY OccFinite DEF Occ
<1>3. c <= m
  BY <1>1, <1>2, FS_Subset
<1>4. c = Cardinality({k}) + 1 /\ Cardinality({k}) = 1
  BY FS_AddElement, FS_Singleton
<1> HIDE DEF both, c, m
<1>5. m >= 2
  <2>1. c = 2
    BY ONLY <1>4
  <2> QED
    BY ONLY <2>1, <1>2, <1>3
<1> QED
  BY <1>5 DEF Occ, m

LEMMA OccAppend ==
  ASSUME NEW T, NEW s \in Seq(T), NEW e \in T, NEW S
  PROVE  Occ(Append(s, e), S) = Occ(s, S) + One(e \in S)
<1> DEFINE n == Len(s) + 1
<1>1. n \notin Where(s, S)
  BY DEF Where
<1>2. IsFiniteSet(Where(s, S)) /\ Cardinality(Where(s, S)) \in Nat
  BY OccFinite DEF Occ
<1>3. CASE e \in S
  <2>1. Where(Append(s, e), S) = Where(s, S) \cup {n}
    BY <1>3 DEF Where
  <2>2. Cardinality(Where(s, S) \cup {n}) = Cardinality(Where(s, S)) + 1
    BY <1>1, <1>2, FS_AddElement
  <2> QED
    BY <1>3, <2>1, <2>2 DEF Occ, One
<1>4. CASE e \notin S
  <2>1. Where(Append(s, e), S) = Where(s, S)
    BY <1>4 DEF Where
  <2> QED
    BY <1>2, <1>4, <2>1 DEF Occ, One
<1> QED
  BY <1>3, <1>4

\* Those of the tail are those of the rest, one place earlier.
LEMMA OccTail ==
  ASSUME NEW T, NEW s \in Seq(T), NEW S, s # <<>>
  PROVE  Occ(Tail(s), S) = Occ(s, S) - One(Head(s) \in S)
<1> DEFINE rest == Where(s, S) \ {1}
           f == [k \in Where(Tail(s), S) |-> k + 1]
<1>1. /\ Tail(s) \in Seq(T) /\ Len(s) \in Nat /\ Len(s) >= 1
      /\ Len(Tail(s)) = Len(s) - 1
      /\ \A k \in 1..(Len(s) - 1) : Tail(s)[k] = s[k + 1]
      /\ Head(s) = s[1]
  OBVIOUS
<1>2. /\ Where(Tail(s), S) = {k \in 1..(Len(s) - 1) : s[k + 1] \in S}
      /\ Where(s, S) = {k \in 1..Len(s) : s[k] \in S}
  BY <1>1 DEF Where
<1>3. \A k \in Where(Tail(s), S) : k \in Int /\ k + 1 \in rest
  BY <1>1, <1>2
<1>4. ASSUME NEW m \in rest
      PROVE  m - 1 \in Where(Tail(s), S) /\ m \in Int /\ (m - 1) + 1 = m
  <2>1. m \in 1..Len(s) /\ m # 1 /\ s[m] \in S
    BY <1>2
  <2>2. m - 1 \in 1..(Len(s) - 1) /\ (m - 1) + 1 = m
    BY <1>1, <2>1
  <2> QED
    BY <1>2, <2>1, <2>2
<1>5. f \in Bijection(Where(Tail(s), S), rest)
  <2>1. f \in [Where(Tail(s), S) -> rest]
    BY <1>3
  <2>2. ASSUME NEW a \in Where(Tail(s), S), NEW b \in Where(Tail(s), S),
               f[a] = f[b]
        PROVE  a = b
    <3>1. a + 1 = b + 1 /\ a \in Int /\ b \in Int
      BY <1>3, <2>2
    <3> QED
      BY <3>1
  <2>3. ASSUME NEW m \in rest PROVE \E k \in Where(Tail(s), S) : f[k] = m
    BY <1>4
  <2> HIDE DEF f, rest
  <2> QED
    BY <2>1, <2>2, <2>3 DEF Bijection, Injection, Surjection, IsInjective
<1> HIDE DEF f
<1>6. /\ IsFiniteSet(Where(Tail(s), S))
      /\ IsFiniteSet(Where(s, S)) /\ Cardinality(Where(s, S)) \in Nat
  BY <1>1, OccFinite DEF Occ
<1>7. Cardinality(rest) = Cardinality(Where(Tail(s), S))
  <2>1. ExistsBijection(Where(Tail(s), S), rest)
    BY <1>5 DEF ExistsBijection
  <2> QED
    BY <1>6, <2>1, FS_Bijection
<1>8. CASE Head(s) \in S
  <2>1. 1 \in Where(s, S)
    BY <1>1, <1>2, <1>8
  <2>2. Cardinality(rest) = Cardinality(Where(s, S)) - 1
    BY <1>6, <2>1, FS_RemoveElement
  <2> QED
    BY <1>7, <1>8, <2>2 DEF One, Occ
<1>9. CASE Head(s) \notin S
  <2>1. rest = Where(s, S)
    BY <1>1, <1>2, <1>9
  <2>2. One(Head(s) \in S) = 0
    BY <1>9 DEF One
  <2>3. Occ(Tail(s), S) = Occ(s, S)
    BY <1>7, <2>1 DEF Occ
  <2> QED
    BY <1>6, <2>2, <2>3 DEF Occ
<1> QED
  BY <1>8, <1>9

-----------------------------------------------------------------------------
(* Draw nodes.                                                             *)

Named(r, type, n) == r.type = type /\ r.node = n
Naming(type, n) == {r \in Records : Named(r, type, n)}

\* In how many places node n is, as NodesInOnePlace counts them.
DrawPlaces(n) ==
  Occ(drawFree, {n}) + Occ(pending, Naming("draw", n))
    + One(rec.type = "draw" /\ rec.node = n)

\* A record finds its node, made and as it was written.
FindsDraw(r) ==
  r.type = "draw" => r.node \in 1..drawArena /\ draws[r.node] = r.version

DrawSide ==
  /\ \A k \in DOMAIN drawFree : drawFree[k] <= drawArena
  /\ \A k \in DOMAIN pending : FindsDraw(pending[k])
  /\ FindsDraw(rec)
  /\ \A n \in 1..drawArena : DrawPlaces(n) = 1

\* What TypeOK says of the nodes and records.
Typed ==
  /\ pending \in Seq(Records) /\ rec \in Records
  /\ drawFree \in Seq(1..MaxDraw) /\ payloadFree \in Seq(1..MaxPayload)
  /\ drawArena \in 0..MaxDraw /\ payloadArena \in 1..MaxPayload
  /\ draws \in [1..MaxDraw -> {0, 1}]
  /\ payloads \in [1..MaxPayload -> SUBSET Cells]
  /\ current \in 1..MaxPayload /\ referenced \in BOOLEAN
  /\ end \in Nat /\ start \in 0..end

LEMMA TypedNodes == IInv => Typed
BY Constants DEF IInv, TypeOK, RingTypeOK, NodeTypeOK, TransferTypeOK, Typed

LEMMA NamingDisjoint ==
  /\ \A n, m : n # m => Naming("draw", n) \cap Naming("draw", m) = {}
  /\ \A n, m : n # m => Naming("release", n) \cap Naming("release", m) = {}
BY DEF Naming, Named

\* What the counts of a node say of its places.
LEMMA DrawCounts ==
  ASSUME Typed, NEW n
  PROVE  /\ Occ(drawFree, {n}) \in Nat
         /\ Occ(pending, Naming("draw", n)) \in Nat
         /\ \A k \in DOMAIN drawFree : drawFree[k] = n => Occ(drawFree, {n}) >= 1
         /\ \A k \in DOMAIN pending : Named(pending[k], "draw", n)
              => Occ(pending, Naming("draw", n)) >= 1
         /\ \A j, k \in DOMAIN pending :
              j # k /\ Named(pending[j], "draw", n) /\ Named(pending[k], "draw", n)
                => Occ(pending, Naming("draw", n)) >= 2
<1>1. drawFree \in Seq(1..MaxDraw) /\ pending \in Seq(Records)
  BY DEF Typed
<1>2. \A k \in DOMAIN pending : pending[k] \in Records
  BY <1>1
<1>3. Occ(drawFree, {n}) \in Nat
  BY <1>1, OccFinite
<1>4. Occ(pending, Naming("draw", n)) \in Nat
  BY <1>1, OccFinite
<1>5. ASSUME NEW k \in DOMAIN drawFree, drawFree[k] = n
      PROVE  Occ(drawFree, {n}) >= 1
  BY <1>1, <1>5, OccSome
<1>6. ASSUME NEW k \in DOMAIN pending, Named(pending[k], "draw", n)
      PROVE  Occ(pending, Naming("draw", n)) >= 1
  BY <1>1, <1>2, <1>6, OccSome DEF Naming
<1>7. ASSUME NEW j \in DOMAIN pending, NEW k \in DOMAIN pending, j # k,
             Named(pending[j], "draw", n), Named(pending[k], "draw", n)
      PROVE  Occ(pending, Naming("draw", n)) >= 2
  BY <1>1, <1>2, <1>7, OccTwo DEF Naming
<1> QED
  BY <1>3, <1>4, <1>5, <1>6, <1>7

\* A node that is free is in no record.
LEMMA FreeDraw ==
  ASSUME Typed, DrawSide, drawFree # <<>>
  PROVE  /\ Head(drawFree) \in 1..drawArena /\ Head(drawFree) \in 1..MaxDraw
         /\ \A k \in DOMAIN pending : ~Named(pending[k], "draw", Head(drawFree))
<1>1. /\ drawFree \in Seq(1..MaxDraw)
      /\ 1 \in DOMAIN drawFree /\ drawFree[1] = Head(drawFree)
      /\ drawArena \in Nat
  BY Constants DEF Typed
<1>2. Head(drawFree) \in 1..drawArena /\ Head(drawFree) \in 1..MaxDraw
  <2>1. Head(drawFree) \in 1..MaxDraw
    BY <1>1, HeadTailProperties
  <2>2. drawFree[1] <= drawArena
    BY <1>1 DEF DrawSide
  <2> QED
    BY <1>1, <2>1, <2>2, Constants
<1>3. /\ DrawPlaces(Head(drawFree)) = 1
      /\ One(rec.type = "draw" /\ rec.node = Head(drawFree)) \in {0, 1}
  BY <1>2 DEF DrawSide, One
<1>4. Occ(pending, Naming("draw", Head(drawFree))) = 0
  BY <1>1, <1>3, DrawCounts DEF DrawPlaces
<1>5. ASSUME NEW k \in DOMAIN pending, Named(pending[k], "draw", Head(drawFree))
      PROVE  FALSE
  <2>1. Occ(pending, Naming("draw", Head(drawFree))) >= 1
    BY <1>5, DrawCounts
  <2> QED
    BY <1>4, <2>1
<1> QED
  BY <1>2, <1>5

LEMMA DrawSideOfRecycled ==
  ASSUME Typed, DrawSide, rec = NoRecord, DrawRecycled
  PROVE  DrawSide'
<1> DEFINE n == Head(drawFree)
<1>1. /\ drawFree # <<>> /\ drawFree' = Tail(drawFree)
      /\ draws' = [draws EXCEPT ![n] = 1 - @]
      /\ rec' = Record("draw", n, draws'[n])
      /\ UNCHANGED <<pending, drawArena>>
  BY DEF DrawRecycled, Ready, ringVars
<1>2. /\ n \in 1..drawArena /\ n \in 1..MaxDraw
      /\ \A k \in DOMAIN pending : ~Named(pending[k], "draw", n)
  BY <1>1, FreeDraw
<1>3. /\ drawFree \in Seq(1..MaxDraw) /\ drawArena \in 0..MaxDraw
      /\ draws \in [1..MaxDraw -> {0, 1}]
  BY DEF Typed
<1> HIDE DEF n
<1>4. \A k \in DOMAIN drawFree' : drawFree'[k] <= drawArena'
  <2>1. ASSUME NEW k \in DOMAIN Tail(drawFree)
        PROVE  k + 1 \in DOMAIN drawFree /\ Tail(drawFree)[k] = drawFree[k + 1]
    BY <1>1, <1>3
  <2> QED
    BY <1>1, <2>1 DEF DrawSide
<1>5. ASSUME NEW k \in DOMAIN pending' PROVE FindsDraw(pending[k])'
  <2>1. FindsDraw(pending[k]) /\ ~Named(pending[k], "draw", n)
    BY <1>1, <1>2 DEF DrawSide
  <2> QED
    BY <1>1, <1>3, <2>1 DEF FindsDraw, Named
<1>6. FindsDraw(rec)'
  BY <1>1, <1>2 DEF FindsDraw, Record
<1>7. ASSUME NEW m \in 1..drawArena' PROVE DrawPlaces(m)' = 1
  <2>1. DrawPlaces(m) = 1
    BY <1>1, <1>7 DEF DrawSide
  <2>2. Occ(Tail(drawFree), {m}) = Occ(drawFree, {m}) - One(n \in {m})
    BY <1>1, <1>3, OccTail DEF n
  <2>3. One(rec.type = "draw" /\ rec.node = m) = 0
    BY DEF One, NoRecord, Record
  <2>4. One(rec.type = "draw" /\ rec.node = m)' = One(n \in {m})
    BY <1>1 DEF One, Record
  <2>5. One(n \in {m}) \in Nat
    BY DEF One
  <2> QED
    BY <1>1, <2>1, <2>2, <2>3, <2>4, <2>5, DrawCounts DEF DrawPlaces
<1> QED
  BY <1>4, <1>5, <1>6, <1>7 DEF DrawSide

LEMMA DrawSideOfFresh ==
  ASSUME Typed, DrawSide, rec = NoRecord, DrawFresh
  PROVE  DrawSide'
<1> DEFINE n == drawArena + 1
<1>1. /\ drawFree = <<>> /\ drawFree' = <<>> /\ drawArena' = n
      /\ draws' = [draws EXCEPT ![n] = 1]
      /\ rec' = Record("draw", n, 1)
      /\ pending' = pending /\ drawArena < MaxDraw
  BY DEF DrawFresh, MayGrow, Ready, ringVars
<1>2. /\ drawArena \in 0..MaxDraw /\ draws \in [1..MaxDraw -> {0, 1}]
      /\ pending \in Seq(Records) /\ MaxDraw \in Nat
  BY Constants DEF Typed
<1>3. n \in 1..MaxDraw /\ n \notin 1..drawArena /\ 1..n = (1..drawArena) \cup {n}
  BY <1>1, <1>2
<1>4. \A k \in DOMAIN drawFree' : drawFree'[k] <= drawArena'
  BY <1>1
<1>5. \A k \in DOMAIN pending : FindsDraw(pending[k]) /\ ~Named(pending[k], "draw", n)
  BY <1>3 DEF DrawSide, FindsDraw, Named
<1> HIDE DEF n
<1>6. ASSUME NEW k \in DOMAIN pending' PROVE FindsDraw(pending[k])'
  BY <1>1, <1>2, <1>3, <1>5 DEF FindsDraw, Named
<1>7. FindsDraw(rec)'
  BY <1>1, <1>2, <1>3 DEF FindsDraw, Record
<1>8. ASSUME NEW m \in 1..drawArena' PROVE DrawPlaces(m)' = 1
  <2>1. One(rec.type = "draw" /\ rec.node = m) = 0
    BY DEF One, NoRecord, Record
  <2>2. CASE m = n
    <3>1. Occ(pending, Naming("draw", n)) = 0
      BY <1>2, <1>5, OccNone DEF Naming
    <3>2. Occ(<<>>, {n}) = 0
      <4>1. <<>> \in Seq({}) /\ DOMAIN <<>> = {}
        OBVIOUS
      <4> QED
        BY <4>1, OccNone
    <3>3. One(rec.type = "draw" /\ rec.node = m)' = 1
      BY <1>1, <2>2 DEF One, Record
    <3> QED
      BY <1>1, <2>2, <3>1, <3>2, <3>3 DEF DrawPlaces
  <2>3. CASE m # n
    <3>1. DrawPlaces(m) = 1
      BY <1>1, <1>3, <2>3 DEF DrawSide
    <3>2. One(rec.type = "draw" /\ rec.node = m)' = 0
      BY <1>1, <2>3 DEF One, Record
    <3> QED
      BY <1>1, <2>1, <3>1, <3>2 DEF DrawPlaces
  <2> QED
    BY <2>2, <2>3
<1> QED
  BY <1>4, <1>6, <1>7, <1>8 DEF DrawSide

\* The front's record goes to the end of the ring.
LEMMA DrawSideOfPush ==
  ASSUME Typed, DrawSide, Push
  PROVE  DrawSide'
<1>1. /\ pending' = Append(pending, rec) /\ rec' = NoRecord
      /\ UNCHANGED <<drawFree, drawArena, draws>>
  BY DEF Push, nodeVars, drawVars
<1>2. pending \in Seq(Records) /\ rec \in Records
  BY DEF Typed
<1>3. \A k \in DOMAIN drawFree' : drawFree'[k] <= drawArena'
  BY <1>1 DEF DrawSide
<1>4. ASSUME NEW k \in DOMAIN pending' PROVE FindsDraw(pending[k])'
  <2>1. pending'[k] = rec \/ (k \in DOMAIN pending /\ pending'[k] = pending[k])
    BY <1>1, <1>2
  <2>2. FindsDraw(pending'[k])
    BY <2>1 DEF DrawSide
  <2> QED
    BY <1>1, <2>2 DEF FindsDraw
<1>5. FindsDraw(rec)'
  BY <1>1 DEF FindsDraw, NoRecord, Record
<1>6. ASSUME NEW n \in 1..drawArena' PROVE DrawPlaces(n)' = 1
  <2> DEFINE c == One(rec \in Naming("draw", n))
  <2>1. DrawPlaces(n) = 1
    BY <1>1, <1>6 DEF DrawSide
  <2>2. Occ(pending', Naming("draw", n)) = Occ(pending, Naming("draw", n)) + c
    BY <1>1, <1>2, OccAppend
  <2>3. One(rec.type = "draw" /\ rec.node = n) = c
    BY <1>2 DEF One, Naming, Named
  <2>4. One(rec.type = "draw" /\ rec.node = n)' = 0
    BY <1>1 DEF One, NoRecord, Record
  <2>5. c \in Nat
    BY DEF One
  <2> HIDE DEF c
  <2> QED
    BY <1>1, <2>1, <2>2, <2>3, <2>4, <2>5, DrawCounts DEF DrawPlaces
<1> QED
  BY <1>3, <1>4, <1>5, <1>6 DEF DrawSide

\* The record that is executed is the oldest that is pending.
LEMMA OldestIsFirst ==
  ASSUME IInv, Held, ExecRecordSlot
  PROVE  /\ pending # <<>> /\ Oldest = Head(pending)
         /\ 1 \in DOMAIN pending /\ Oldest = pending[1]
<1>1. back = "exec" /\ InRing = head
  BY DEF ExecRecordSlot, InRing
<1>2. /\ head \in 0..(CursorMod - 1) /\ tail \in 0..(CursorMod - 1)
      /\ head # tail /\ pending \in Seq(Records)
      /\ Len(pending) = Distance(head, tail)
  BY <1>1 DEF IInv, TypeOK, RingTypeOK, Counted
<1>3. pending # <<>> /\ 1 \in DOMAIN pending /\ pending[1] = Head(pending)
  <2>1. pending # <<>>
    BY <1>2, CursorTypes, EmptySeq
  <2> QED
    BY <1>2, <2>1
<1>4. slots[(head + 1 - 1) % RingSize] = pending[1]
  BY <1>1, <1>3 DEF Held
<1>5. head + 1 - 1 = head
  BY <1>2, Constants
<1> QED
  BY <1>3, <1>4, <1>5 DEF Oldest

\* A draw's node is free again, any other record is none of a draw.
LEMMA DrawSideOfExec ==
  ASSUME IInv, Held, DrawSide, ExecRecordSlot
  PROVE  DrawSide'
<1> DEFINE r == Head(pending)
<1>0. Typed
  BY TypedNodes
<1>1. /\ pending' = Tail(pending) /\ rec' = rec /\ drawArena' = drawArena
      /\ r.type = "draw" => /\ drawFree' = Append(drawFree, r.node)
                            /\ draws' = [draws EXCEPT ![r.node] = 0]
      /\ r.type # "draw" => UNCHANGED <<drawFree, draws>>
  BY OldestIsFirst DEF ExecRecordSlot, nodeVars, drawVars, frontVars
<1>2. /\ pending \in Seq(Records) /\ pending # <<>> /\ r = pending[1]
      /\ 1 \in DOMAIN pending
      /\ drawFree \in Seq(1..MaxDraw) /\ drawArena \in 0..MaxDraw
      /\ draws \in [1..MaxDraw -> {0, 1}] /\ rec \in Records
  BY <1>0, OldestIsFirst DEF Typed
<1>3. r \in Records /\ FindsDraw(r)
  BY <1>2 DEF DrawSide
<1>4. ASSUME NEW k \in DOMAIN pending'
      PROVE  /\ k + 1 \in DOMAIN pending /\ pending'[k] = pending[k + 1]
             /\ k + 1 # 1
  BY <1>1, <1>2
<1> HIDE DEF r
<1>5. \A k \in DOMAIN drawFree' : drawFree'[k] <= drawArena'
  <2>1. CASE r.type = "draw"
    <3>1. r.node \in 1..drawArena /\ r.node \in 1..MaxDraw
      BY <1>2, <1>3, <2>1, RecordNodes DEF FindsDraw
    <3> QED
      BY SMTT(60), <1>1, <1>2, <2>1, <3>1 DEF DrawSide
  <2>2. CASE r.type # "draw"
    BY <1>1, <2>2 DEF DrawSide
  <2> QED
    BY <2>1, <2>2
\* No other record refers to a draw's node.
<1>6. ASSUME r.type = "draw"
      PROVE  /\ ~Named(rec, "draw", r.node)
             /\ \A k \in DOMAIN pending : k # 1 => ~Named(pending[k], "draw", r.node)
  <2>1. r.node \in 1..drawArena /\ DrawPlaces(r.node) = 1
    BY <1>3, <1>6 DEF FindsDraw, DrawSide
  <2>2. Named(pending[1], "draw", r.node)
    BY <1>2, <1>6 DEF Named
  <2>3. Occ(pending, Naming("draw", r.node)) >= 1
    BY <1>0, <1>2, <2>2, DrawCounts
  <2>4. One(rec.type = "draw" /\ rec.node = r.node) \in {0, 1}
    BY DEF One
  <2>5. /\ Occ(pending, Naming("draw", r.node)) = 1
        /\ One(rec.type = "draw" /\ rec.node = r.node) = 0
    BY <1>0, <2>1, <2>3, <2>4, DrawCounts DEF DrawPlaces
  <2>6. ~Named(rec, "draw", r.node)
    BY <2>5 DEF One, Named
  <2>7. ASSUME NEW k \in DOMAIN pending, k # 1, Named(pending[k], "draw", r.node)
        PROVE  FALSE
    <3>1. Occ(pending, Naming("draw", r.node)) >= 2
      BY <1>0, <1>2, <2>2, <2>7, DrawCounts
    <3> QED
      BY <2>5, <3>1
  <2> QED
    BY <2>6, <2>7
<1>d. ASSUME NEW q, FindsDraw(q), r.type = "draw" => ~Named(q, "draw", r.node)
      PROVE  q.type = "draw" => q.node \in 1..drawArena' /\ draws'[q.node] = q.version
  <2> SUFFICES ASSUME q.type = "draw"
               PROVE  q.node \in 1..drawArena' /\ draws'[q.node] = q.version
    OBVIOUS
  <2>1. /\ q.node \in 1..drawArena /\ q.node \in 1..MaxDraw
        /\ draws[q.node] = q.version
    BY <1>2, <1>d, Constants DEF FindsDraw
  <2>2. draws'[q.node] = draws[q.node]
    BY <1>1, <1>2, <1>d, <2>1 DEF Named
  <2> QED
    BY <1>1, <2>1, <2>2
<1>7. ASSUME NEW k \in DOMAIN pending' PROVE FindsDraw(pending[k])'
  <2>1. /\ FindsDraw(pending'[k])
        /\ r.type = "draw" => ~Named(pending'[k], "draw", r.node)
    BY <1>4, <1>6 DEF DrawSide
  <2> QED
    BY <1>d, <2>1 DEF FindsDraw
<1>8. FindsDraw(rec)'
  <2>1. FindsDraw(rec) /\ (r.type = "draw" => ~Named(rec, "draw", r.node))
    BY <1>6 DEF DrawSide
  <2> QED
    BY <1>1, <1>d, <2>1 DEF FindsDraw
<1>9. ASSUME NEW n \in 1..drawArena' PROVE DrawPlaces(n)' = 1
  <2> DEFINE c == One(r \in Naming("draw", n))
  <2>1. DrawPlaces(n) = 1
    BY <1>1, <1>9 DEF DrawSide
  <2>2. Occ(pending', Naming("draw", n)) = Occ(pending, Naming("draw", n)) - c
    BY <1>1, <1>2, OccTail DEF r
  <2>3. Occ(drawFree', {n}) = Occ(drawFree, {n}) + c
    <3>1. CASE r.type = "draw"
      <4>1. r.node \in 1..MaxDraw
        BY <1>3, <3>1, RecordNodes
      <4>2. One(r.node \in {n}) = c
        BY <1>3, <3>1 DEF One, Naming, Named
      <4>3. drawFree \in Seq(1..MaxDraw)
        BY <1>2
      <4>4. \A T : drawFree \in Seq(T) /\ r.node \in T
                    => Occ(Append(drawFree, r.node), {n})
                       = Occ(drawFree, {n}) + One(r.node \in {n})
        BY OccAppend, Zenon
      <4>5. Occ(Append(drawFree, r.node), {n})
            = Occ(drawFree, {n}) + One(r.node \in {n})
        BY <4>1, <4>3, <4>4, Zenon
      <4> QED
        BY <1>1, <3>1, <4>2, <4>5
    <3>2. CASE r.type # "draw"
      <4>1. c = 0
        BY <3>2 DEF One, Naming, Named
      <4> QED
        BY <1>0, <1>1, <3>2, <4>1, DrawCounts
    <3> QED
      BY <3>1, <3>2
  <2>4. c \in Nat /\ One(rec.type = "draw" /\ rec.node = n) \in Nat
    BY DEF One
  <2> HIDE DEF c
  <2> QED
    BY <1>0, <1>1, <2>1, <2>2, <2>3, <2>4, DrawCounts DEF DrawPlaces
<1> QED
  BY <1>5, <1>7, <1>8, <1>9 DEF DrawSide

\* Steps of the front that take no draw node.
LEMMA DrawSideKept ==
  ASSUME DrawSide, UNCHANGED <<drawFree, drawArena, draws, pending>>,
         rec' = rec \/ (rec.type # "draw" /\ rec'.type # "draw")
  PROVE  DrawSide'
<1>1. FindsDraw(rec)'
  BY DEF DrawSide, FindsDraw
<1>2. ASSUME NEW n \in 1..drawArena' PROVE DrawPlaces(n)' = 1
  <2>1. One(rec.type = "draw" /\ rec.node = n)'
        = One(rec.type = "draw" /\ rec.node = n)
    BY DEF One
  <2>2. DrawPlaces(n) = 1
    BY <1>2 DEF DrawSide
  <2> QED
    BY <2>1, <2>2 DEF DrawPlaces
<1>3. \A k \in DOMAIN pending' : FindsDraw(pending[k])'
  BY DEF DrawSide, FindsDraw
<1> QED
  BY <1>1, <1>2, <1>3 DEF DrawSide

-----------------------------------------------------------------------------
(* The front's hands: its record, and the payload node it stages into.     *)

Hands ==
  /\ front # "push" => rec = NoRecord
  /\ then = "acquirePayload" =>
       front \in {"push", "notify", "drain", "emptyWait", "acquirePayload"}
  /\ front = "acquirePayload" => then = "acquirePayload"
  /\ rec.type = "release" => then = "acquirePayload" /\ rec.node = current
  /\ rec.type = "transfer" =>
       then # "acquirePayload" /\ rec.node = current /\ referenced

LEMMA NextHands ==
  ASSUME IInv, Hands, [Next]_vars
  PROVE  Hands'
<1> USE DEF Hands, NoRecord, Record, stageVars
<1>1. CASE SubmitOther
  BY <1>1 DEF SubmitOther, Ready, Other
<1>2. CASE DrawRecycled
  BY <1>2 DEF DrawRecycled, Ready
<1>3. CASE DrawFresh
  BY <1>3 DEF DrawFresh, Ready
<1>4. CASE DrawWaits
  BY <1>4 DEF DrawWaits
<1>5. CASE RotateTransferPayload
  BY <1>5 DEF RotateTransferPayload, Ready
<1>6. CASE AcquirePayloadNode
  BY <1>6 DEF AcquirePayloadNode
<1>7. CASE FlushWrite \/ Write
  BY <1>7 DEF FlushWrite, Write, Submit, Ready, Transfer
<1>8. CASE InitReadFIFO \/ Read \/ Defrost
  BY <1>8 DEF InitReadFIFO, Read, Defrost
<1>9. CASE Push
  BY <1>9 DEF Push
<1>10. CASE Notify
  BY <1>10 DEF Notify, IInv, AfterDrain
<1>11. ASSUME NEW next \in {"drained", "stop"}, DrainBackQueue(next)
       PROVE  Hands'
  BY <1>11 DEF DrainBackQueue
<1>12. CASE WaitForEmpty \/ EmptyWake \/ Drained \/ SetExit \/ StopNotify
  BY <1>12 DEF WaitForEmpty, EmptyWake, Drained, SetExit, StopNotify, IInv,
     TypeOK, ThreadTypeOK
<1>13. CASE JoinAndReopen
  BY <1>13 DEF JoinAndReopen
<1>14. CASE BackStep \/ UNCHANGED vars
  BY <1>14 DEF BackStep, WaitForWork, Awake, CheckExit, Peek, ExecRecordSlot,
     Pop, vars, frontVars
<1> QED
  BY <1>1, <1>2, <1>3, <1>4, <1>5, <1>6, <1>7, <1>8, <1>9, <1>10, <1>11,
     <1>12, <1>13, <1>14 DEF Next, FrontStep

-----------------------------------------------------------------------------
(* Payload nodes.                                                          *)

PayloadPlaces(n) ==
  Occ(payloadFree, {n}) + Occ(pending, Naming("release", n))
    + One(n = current /\ then # "acquirePayload")
    + One(rec.type = "release" /\ rec.node = n)

\* The front's own buffer, or one whose release comes after the k-th record.
Kept(n, k) ==
  \/ n = current /\ referenced /\ then # "acquirePayload"
  \/ Named(rec, "release", n)
  \/ \E j \in DOMAIN pending : j > k /\ Named(pending[j], "release", n)

\* A transfer finds its data as they were staged.
FindsPayload(r) ==
  r.type = "transfer" => payloads[r.node] \cap r.cells = r.held

\* Of the buffer that is written, the transfers hold what is before the cursor.
Behind(r) ==
  r.type = "transfer" /\ r.node = current /\ then # "acquirePayload" =>
    r.cells \subseteq 0..(start - 1)

PayloadSide ==
  /\ \A k \in DOMAIN payloadFree : payloadFree[k] <= payloadArena
  /\ \A k \in DOMAIN pending :
       pending[k].type \in {"transfer", "release"} =>
         pending[k].node \in 1..payloadArena
  /\ current \in 1..payloadArena
  /\ \A k \in DOMAIN pending :
       /\ FindsPayload(pending[k])
       /\ Behind(pending[k])
       /\ pending[k].type = "transfer" => Kept(pending[k].node, k)
  /\ FindsPayload(rec) /\ Behind(rec)
  /\ \A n \in 1..payloadArena : PayloadPlaces(n) = 1

LEMMA PayloadCounts ==
  ASSUME Typed, NEW n
  PROVE  /\ Occ(payloadFree, {n}) \in Nat
         /\ Occ(pending, Naming("release", n)) \in Nat
         /\ One(n = current /\ then # "acquirePayload") \in {0, 1}
         /\ One(rec.type = "release" /\ rec.node = n) \in {0, 1}
         /\ \A k \in DOMAIN payloadFree :
              payloadFree[k] = n => Occ(payloadFree, {n}) >= 1
         /\ \A k \in DOMAIN pending : Named(pending[k], "release", n)
              => Occ(pending, Naming("release", n)) >= 1
         /\ \A j, k \in DOMAIN pending :
              j # k /\ Named(pending[j], "release", n) /\ Named(pending[k], "release", n)
                => Occ(pending, Naming("release", n)) >= 2
<1>1. payloadFree \in Seq(1..MaxPayload) /\ pending \in Seq(Records)
  BY DEF Typed
<1>2. \A k \in DOMAIN pending : pending[k] \in Records
  BY <1>1
<1>3. Occ(payloadFree, {n}) \in Nat
  BY <1>1, OccFinite
<1>4. Occ(pending, Naming("release", n)) \in Nat
  BY <1>1, OccFinite
<1>5. ASSUME NEW k \in DOMAIN payloadFree, payloadFree[k] = n
      PROVE  Occ(payloadFree, {n}) >= 1
  BY <1>1, <1>5, OccSome
<1>6. ASSUME NEW k \in DOMAIN pending, Named(pending[k], "release", n)
      PROVE  Occ(pending, Naming("release", n)) >= 1
  BY <1>1, <1>2, <1>6, OccSome DEF Naming
<1>7. ASSUME NEW j \in DOMAIN pending, NEW k \in DOMAIN pending, j # k,
             Named(pending[j], "release", n), Named(pending[k], "release", n)
      PROVE  Occ(pending, Naming("release", n)) >= 2
  BY <1>1, <1>2, <1>7, OccTwo DEF Naming
<1>8. /\ One(n = current /\ then # "acquirePayload") \in {0, 1}
      /\ One(rec.type = "release" /\ rec.node = n) \in {0, 1}
  BY DEF One
<1> QED
  BY <1>3, <1>4, <1>5, <1>6, <1>7, <1>8

\* A node in the front's hands, or free, or released by a record: nowhere else.
LEMMA ReleasedOnce ==
  ASSUME Typed, PayloadSide, NEW n \in 1..payloadArena
  PROVE  /\ n = current /\ then # "acquirePayload" =>
              ~Named(rec, "release", n)
              /\ \A k \in DOMAIN pending : ~Named(pending[k], "release", n)
         /\ \A i \in DOMAIN payloadFree : payloadFree[i] = n =>
              ~Named(rec, "release", n)
              /\ \A k \in DOMAIN pending : ~Named(pending[k], "release", n)
         /\ \A k \in DOMAIN pending : Named(pending[k], "release", n) =>
              /\ ~(n = current /\ then # "acquirePayload")
              /\ ~Named(rec, "release", n)
              /\ \A j \in DOMAIN pending : j # k => ~Named(pending[j], "release", n)
<1> DEFINE a == Occ(payloadFree, {n})
           b == Occ(pending, Naming("release", n))
           c == One(n = current /\ then # "acquirePayload")
           d == One(rec.type = "release" /\ rec.node = n)
<1>1. a \in Nat /\ b \in Nat /\ c \in {0, 1} /\ d \in {0, 1} /\ a + b + c + d = 1
  BY PayloadCounts DEF PayloadSide, PayloadPlaces
<1>2. /\ (n = current /\ then # "acquirePayload") => c = 1
      /\ Named(rec, "release", n) => d = 1
  BY DEF One, Named
<1>3. ASSUME NEW k \in DOMAIN pending, Named(pending[k], "release", n)
      PROVE  b >= 1
  BY <1>3, PayloadCounts
<1>4. ASSUME NEW k \in DOMAIN pending, Named(pending[k], "release", n),
             NEW j \in DOMAIN pending, j # k, Named(pending[j], "release", n)
      PROVE  b >= 2
  BY <1>4, PayloadCounts
<1>5. ASSUME NEW i \in DOMAIN payloadFree, payloadFree[i] = n
      PROVE  a >= 1
  BY <1>5, PayloadCounts
<1> HIDE DEF a, b, c, d
<1>6. ASSUME n = current, then # "acquirePayload"
      PROVE  /\ ~Named(rec, "release", n)
             /\ \A k \in DOMAIN pending : ~Named(pending[k], "release", n)
  BY <1>1, <1>2, <1>3, <1>6
<1>7. ASSUME NEW i \in DOMAIN payloadFree, payloadFree[i] = n
      PROVE  /\ ~Named(rec, "release", n)
             /\ \A k \in DOMAIN pending : ~Named(pending[k], "release", n)
  <2>1. a >= 1
    BY <1>5, <1>7
  <2> QED
    BY <1>1, <1>2, <1>3, <2>1
<1>8. ASSUME NEW k \in DOMAIN pending, Named(pending[k], "release", n)
      PROVE  /\ ~(n = current /\ then # "acquirePayload")
             /\ ~Named(rec, "release", n)
             /\ \A j \in DOMAIN pending : j # k => ~Named(pending[j], "release", n)
  <2>1. b >= 1
    BY <1>3, <1>8
  <2>2. /\ ~(n = current /\ then # "acquirePayload")
        /\ ~Named(rec, "release", n)
    BY <1>1, <1>2, <2>1
  <2>3. ASSUME NEW j \in DOMAIN pending, j # k, Named(pending[j], "release", n)
        PROVE  FALSE
    <3>1. b >= 2
      BY <1>4, <1>8, <2>3
    <3> QED
      BY <1>1, <3>1
  <2> QED
    BY <2>2, <2>3
<1> QED
  BY <1>6, <1>7, <1>8

\* A step that leaves the payloads alone and neither takes nor makes a record
\* of theirs.
LEMMA PayloadSideKept ==
  ASSUME PayloadSide,
         UNCHANGED <<payloadFree, payloadArena, payloads, pending, current,
                     referenced, start>>,
         then = "acquirePayload" <=> then' = "acquirePayload",
         rec' = rec \/ (rec.type \notin {"transfer", "release"}
                        /\ rec'.type \notin {"transfer", "release"})
  PROVE  PayloadSide'
<1>1. ASSUME NEW n
      PROVE  /\ PayloadPlaces(n)' = PayloadPlaces(n)
             /\ Named(rec, "release", n)' <=> Named(rec, "release", n)
  BY DEF PayloadPlaces, Named, One
<1>2. (FindsPayload(rec) /\ Behind(rec))'
  BY DEF PayloadSide, FindsPayload, Behind
<1>3. ASSUME NEW k \in DOMAIN pending'
      PROVE  /\ (FindsPayload(pending[k]) /\ Behind(pending[k]))'
             /\ pending'[k].type = "transfer" => Kept(pending[k].node, k)'
  BY <1>1 DEF PayloadSide, FindsPayload, Behind, Kept
<1>4. \A n \in 1..payloadArena' : PayloadPlaces(n)' = 1
  BY <1>1 DEF PayloadSide
<1> QED
  BY <1>2, <1>3, <1>4 DEF PayloadSide

\* A node that is free, new, or in the front's hands and not referred to, is in
\* no transfer.
LEMMA InNoTransfer ==
  ASSUME Typed, PayloadSide, rec = NoRecord, NEW n,
         \/ n = current /\ then # "acquirePayload" /\ ~referenced
         \/ then = "acquirePayload" /\ \E i \in DOMAIN payloadFree : payloadFree[i] = n
         \/ n \notin 1..payloadArena,
         NEW k \in DOMAIN pending, pending[k].type = "transfer"
  PROVE  pending[k].node # n
<1> SUFFICES ASSUME pending[k].node = n PROVE FALSE
  OBVIOUS
<1>1. n \in 1..payloadArena /\ Kept(n, k)
  BY DEF PayloadSide
<1>2. \A m : ~Named(rec, "release", m)
  BY DEF Named, NoRecord, Record
<1>3. PICK j \in DOMAIN pending : Named(pending[j], "release", n)
  BY <1>1, <1>2 DEF Kept
<1>4. \/ n = current /\ then # "acquirePayload"
      \/ \E i \in DOMAIN payloadFree : payloadFree[i] = n
  BY <1>1
<1> QED
  BY <1>1, <1>3, <1>4, ReleasedOnce

\* Where nothing is pending, only the places are left to show.
LEMMA PayloadSideDrained ==
  ASSUME PayloadSide, pending = <<>>, rec = NoRecord,
         UNCHANGED <<payloadFree, payloadArena, pending, current, rec>>,
         then # "acquirePayload", then' # "acquirePayload"
  PROVE  PayloadSide'
<1>1. DOMAIN pending' = {}
  OBVIOUS
<1>2. (FindsPayload(rec) /\ Behind(rec))'
  BY DEF FindsPayload, Behind, NoRecord, Record
<1>3. ASSUME NEW n \in 1..payloadArena' PROVE PayloadPlaces(n)' = 1
  <2>1. PayloadPlaces(n)' = PayloadPlaces(n)
    BY DEF PayloadPlaces, One
  <2> QED
    BY <2>1 DEF PayloadSide
<1> QED
  BY <1>1, <1>2, <1>3 DEF PayloadSide

\* The node leaves the front's hands with the record that releases it.
LEMMA PayloadSideOfRotate ==
  ASSUME Typed, PayloadSide, Hands, RotateTransferPayload
  PROVE  PayloadSide'
<1>1. /\ UNCHANGED <<payloadFree, payloadArena, pending, current, referenced>>
      /\ rec = NoRecord /\ then # "acquirePayload"
  BY DEF RotateTransferPayload, Hands, ringVars
<1>2. CASE ~referenced
  <2>1. /\ UNCHANGED <<rec, then>>
        /\ payloads' = [payloads EXCEPT ![current] = {}]
    BY <1>2 DEF RotateTransferPayload, Forgotten
  <2>2. (FindsPayload(rec) /\ Behind(rec))'
    BY <1>1, <2>1 DEF FindsPayload, Behind, NoRecord, Record
  <2>3. ASSUME NEW k \in DOMAIN pending'
        PROVE  /\ (FindsPayload(pending[k]) /\ Behind(pending[k]))'
               /\ pending'[k].type = "transfer" => Kept(pending[k].node, k)'
    <3>1. pending[k].type = "transfer" => pending[k].node # current
      BY <1>1, <1>2, InNoTransfer
    <3>2. pending[k].type = "transfer" =>
            /\ payloads'[pending[k].node] = payloads[pending[k].node]
            /\ Kept(pending[k].node, k)
      BY <1>1, <2>1, <3>1 DEF PayloadSide, Typed
    <3>3. pending[k].type = "transfer" => Kept(pending[k].node, k)'
      BY <1>1, <2>1, <3>2 DEF Kept, Named
    <3> QED
      BY <1>1, <2>1, <3>1, <3>2, <3>3 DEF PayloadSide, FindsPayload, Behind
  <2>4. ASSUME NEW n \in 1..payloadArena' PROVE PayloadPlaces(n)' = 1
    <3>1. PayloadPlaces(n)' = PayloadPlaces(n)
      BY <1>1, <2>1 DEF PayloadPlaces, One
    <3> QED
      BY <1>1, <3>1 DEF PayloadSide
  <2> QED
    BY <1>1, <2>2, <2>3, <2>4 DEF PayloadSide
<1>3. CASE referenced
  <2>1. /\ rec' = Record("release", current, 0) /\ then' = "acquirePayload"
        /\ payloads' = payloads
    BY <1>3 DEF RotateTransferPayload, Ready
  <2>2. (FindsPayload(rec) /\ Behind(rec))'
    BY <2>1 DEF FindsPayload, Behind, Record
  <2>3. ASSUME NEW k \in DOMAIN pending'
        PROVE  /\ (FindsPayload(pending[k]) /\ Behind(pending[k]))'
               /\ pending'[k].type = "transfer" => Kept(pending[k].node, k)'
    <3>1. (FindsPayload(pending[k]) /\ Behind(pending[k]))'
      BY <1>1, <2>1 DEF PayloadSide, FindsPayload, Behind
    <3>2. ASSUME pending'[k].type = "transfer"
          PROVE  Kept(pending[k].node, k)'
      <4>1. Kept(pending[k].node, k)
        BY <1>1, <3>2 DEF PayloadSide
      <4>2. \A n : ~Named(rec, "release", n)
        BY <1>1 DEF Named, NoRecord, Record
      <4> QED
        BY <1>1, <2>1, <4>1, <4>2 DEF Kept, Named, Record
    <3> QED
      BY <3>1, <3>2
  <2>4. ASSUME NEW n \in 1..payloadArena' PROVE PayloadPlaces(n)' = 1
    <3>1. PayloadPlaces(n) = 1
      BY <1>1 DEF PayloadSide
    <3>2. /\ One(rec.type = "release" /\ rec.node = n) = 0
          /\ One(n = current /\ then # "acquirePayload")' = 0
          /\ One(rec.type = "release" /\ rec.node = n)'
             = One(n = current /\ then # "acquirePayload")
      BY <1>1, <2>1 DEF One, Record, NoRecord
    <3> QED
      BY <1>1, <3>1, <3>2, PayloadCounts DEF PayloadPlaces
  <2> QED
    BY <1>1, <2>2, <2>3, <2>4 DEF PayloadSide
<1> QED
  BY <1>2, <1>3

\* A free node, or a new one, comes into the front's hands.
LEMMA PayloadSideOfAcquire ==
  ASSUME Typed, PayloadSide, Hands, AcquirePayloadNode
  PROVE  PayloadSide'
<1>1. /\ UNCHANGED <<payloads, pending, rec>>
      /\ rec = NoRecord /\ then = "acquirePayload" /\ then' = "run"
  BY DEF AcquirePayloadNode, Hands, ringVars
<1>2. /\ payloadFree \in Seq(1..MaxPayload) /\ payloadArena \in 1..MaxPayload
      /\ pending \in Seq(Records) /\ MaxPayload \in Nat
  BY Constants DEF Typed
<1>3. \A n : ~Named(rec, "release", n) /\ ~Named(rec, "release", n)'
  BY <1>1 DEF Named, NoRecord, Record
<1>4. (FindsPayload(rec) /\ Behind(rec))'
  BY <1>1 DEF FindsPayload, Behind, NoRecord, Record
<1>5. ASSUME NEW k \in DOMAIN pending'
      PROVE  /\ (FindsPayload(pending[k]) /\ Behind(pending[k]))'
             /\ pending'[k].type = "transfer" => Kept(pending[k].node, k)'
  <2>1. (FindsPayload(pending[k]) /\ Behind(pending[k]))'
    <3>1. pending[k].type = "transfer" => pending[k].node # current'
      <4>1. CASE payloadFree # <<>>
        <5>1. 1 \in DOMAIN payloadFree /\ payloadFree[1] = current'
          BY <1>2, <4>1 DEF AcquirePayloadNode
        <5> QED
          BY <1>1, <5>1, InNoTransfer
      <4>2. CASE payloadFree = <<>>
        <5>1. current' \notin 1..payloadArena
          BY <1>2, <4>2 DEF AcquirePayloadNode
        <5> QED
          BY <1>1, <5>1, InNoTransfer
      <4> QED
        BY <4>1, <4>2
    <3> QED
      BY <1>1, <3>1 DEF PayloadSide, FindsPayload, Behind
  <2>2. ASSUME pending'[k].type = "transfer"
        PROVE  Kept(pending[k].node, k)'
    <3>1. Kept(pending[k].node, k)
      BY <1>1, <2>2 DEF PayloadSide
    <3> QED
      BY <1>1, <1>3, <3>1 DEF Kept
  <2> QED
    BY <2>1, <2>2
<1>6. ASSUME NEW n PROVE /\ One(n = current /\ then # "acquirePayload") = 0
                         /\ One(rec.type = "release" /\ rec.node = n) = 0
                         /\ One(rec.type = "release" /\ rec.node = n)' = 0
                         /\ One(n = current /\ then # "acquirePayload")'
                            = One(current' = n)
  BY <1>1 DEF One, Record, NoRecord
<1>7. CASE payloadFree # <<>>
  <2>1. /\ current' = Head(payloadFree) /\ payloadFree' = Tail(payloadFree)
        /\ payloadArena' = payloadArena
    BY <1>7 DEF AcquirePayloadNode
  <2>2. current' \in 1..payloadArena'
    <3>1. Head(payloadFree) \in 1..MaxPayload /\ Head(payloadFree) = payloadFree[1]
          /\ 1 \in DOMAIN payloadFree
      BY <1>2, <1>7, HeadTailProperties
    <3> QED
      BY <1>2, <2>1, <3>1 DEF PayloadSide
  <2>3. \A k \in DOMAIN payloadFree' : payloadFree'[k] <= payloadArena'
    <3>1. ASSUME NEW k \in DOMAIN Tail(payloadFree)
          PROVE  k + 1 \in DOMAIN payloadFree /\ Tail(payloadFree)[k] = payloadFree[k + 1]
      BY <1>2, <1>7
    <3> QED
      BY <2>1, <3>1 DEF PayloadSide
  <2>4. ASSUME NEW n \in 1..payloadArena' PROVE PayloadPlaces(n)' = 1
    <3>1. PayloadPlaces(n) = 1
      BY <2>1 DEF PayloadSide
    <3>2. Occ(payloadFree', {n}) = Occ(payloadFree, {n}) - One(Head(payloadFree) \in {n})
      BY <1>2, <1>7, <2>1, OccTail
    <3> DEFINE c == One(current' = n)
    <3>3. One(Head(payloadFree) \in {n}) = c /\ c \in Nat
      BY <2>1 DEF One
    <3>4. /\ Occ(payloadFree, {n}) \in Nat
          /\ Occ(pending, Naming("release", n)) \in Nat
      BY PayloadCounts
    <3>5. Occ(payloadFree, {n}) + Occ(pending, Naming("release", n)) = 1
      <4>1. PayloadPlaces(n) = Occ(payloadFree, {n})
                               + Occ(pending, Naming("release", n)) + 0 + 0
        BY <1>1 DEF PayloadPlaces, One, Record, NoRecord
      <4> QED
        BY <3>1, <3>4, <4>1
    <3>6. PayloadPlaces(n)'
          = (Occ(payloadFree, {n}) - c) + Occ(pending, Naming("release", n)) + c + 0
      BY <1>1, <1>6, <3>2, <3>3 DEF PayloadPlaces
    <3> HIDE DEF c
    <3> QED
      BY <3>3, <3>4, <3>5, <3>6
  <2>5. \A k \in DOMAIN pending' :
          pending'[k].type \in {"transfer", "release"} =>
            pending'[k].node \in 1..payloadArena'
    BY <1>1, <2>1 DEF PayloadSide
  <2> QED
    BY <1>4, <1>5, <2>2, <2>3, <2>4, <2>5 DEF PayloadSide
<1>8. CASE payloadFree = <<>>
  <2>1. /\ current' = payloadArena + 1 /\ payloadFree' = <<>>
        /\ payloadArena' = payloadArena + 1
    BY <1>8 DEF AcquirePayloadNode
  <2>2. current' \in 1..payloadArena' /\ 1..payloadArena' = (1..payloadArena) \cup {current'}
    BY <1>2, <2>1
  <2>3. \A k \in DOMAIN payloadFree' : payloadFree'[k] <= payloadArena'
    BY <2>1
  <2>4. ASSUME NEW n \in 1..payloadArena' PROVE PayloadPlaces(n)' = 1
    <3>1. CASE n = current'
      <4>1. Occ(pending, Naming("release", n)) = 0
        <5>1. n \notin 1..payloadArena
          BY <1>2, <2>1, <3>1
        <5>2. \A k \in DOMAIN pending : pending[k] \notin Naming("release", n)
          BY <5>1 DEF PayloadSide, Naming, Named
        <5> QED
          BY <1>2, <5>2, OccNone
      <4>2. Occ(<<>>, {n}) = 0
        <5>1. <<>> \in Seq({}) /\ DOMAIN <<>> = {}
          OBVIOUS
        <5> QED
          BY <5>1, OccNone
      <4>3. One(current' = n) = 1
        BY <3>1 DEF One
      <4> QED
        BY <1>1, <1>6, <2>1, <4>1, <4>2, <4>3 DEF PayloadPlaces
    <3>2. CASE n # current'
      <4>1. PayloadPlaces(n) = 1
        BY <2>2, <3>2 DEF PayloadSide
      <4>2. One(current' = n) = 0
        BY <3>2 DEF One
      <4> QED
        BY <1>1, <1>6, <1>8, <2>1, <4>1, <4>2 DEF PayloadPlaces
    <3> QED
      BY <3>1, <3>2
  <2>5. \A k \in DOMAIN pending' :
          pending'[k].type \in {"transfer", "release"} =>
            pending'[k].node \in 1..payloadArena'
    BY <1>1, <2>2 DEF PayloadSide
  <2> QED
    BY <1>4, <1>5, <2>2, <2>3, <2>4, <2>5 DEF PayloadSide
<1> QED
  BY <1>7, <1>8

\* A slice is before the cursor, and what is appended behind it.
LEMMA PayloadSideOfWrite ==
  ASSUME Typed, PayloadSide, Hands, Write \/ FlushWrite
  PROVE  PayloadSide'
<1>1. /\ UNCHANGED <<payloadFree, payloadArena, pending, current>>
      /\ rec = NoRecord /\ then # "acquirePayload" /\ then' \in {then, "run"}
      /\ \/ rec' = rec /\ start' = start
         \/ /\ rec' = Transfer(start, end', payloads'[current])
            /\ start' = end' /\ referenced'
      /\ referenced => referenced'
      /\ payloads' = payloads \/ Staged(end, end')
      /\ end' = end \/ end' \in (end + 1)..total'
  BY DEF Write, FlushWrite, Submit, Ready, Hands, ringVars, nodeVars, payloadVars
<1>2. /\ payloads \in [1..MaxPayload -> SUBSET Cells] /\ current \in 1..MaxPayload
      /\ payloadArena \in 1..MaxPayload /\ MaxPayload \in Nat
      /\ end \in Nat /\ start \in 0..end
  BY Constants DEF Typed
<1>3. \A n : ~Named(rec, "release", n) /\ ~Named(rec, "release", n)'
  BY <1>1 DEF Named, NoRecord, Record, Transfer
<1>4. end' \in Nat /\ end' >= end /\ start' \in Nat /\ start' >= start
  BY <1>1, <1>2
<1>5. (FindsPayload(rec) /\ Behind(rec))'
  <2>1. CASE rec' = rec
    BY <1>1, <2>1 DEF FindsPayload, Behind, NoRecord, Record
  <2>2. CASE rec' = Transfer(start, end', payloads'[current]) /\ start' = end'
    <3>1. /\ rec'.node = current' /\ rec'.cells = start..(start' - 1)
          /\ rec'.held = payloads'[current] \cap rec'.cells
      BY <1>1, <2>2 DEF Transfer
    <3> QED
      BY <1>1, <1>2, <1>4, <3>1 DEF FindsPayload, Behind
  <2> QED
    BY <1>1, <2>1, <2>2
<1>6. ASSUME NEW k \in DOMAIN pending, pending[k].type = "transfer"
      PROVE  (FindsPayload(pending[k]) /\ Behind(pending[k]) /\ Kept(pending[k].node, k))'
  <2> DEFINE n == pending[k].node
             cells == pending[k].cells
  <2>1. /\ Kept(n, k) /\ n \in 1..payloadArena
        /\ payloads[n] \cap cells = pending[k].held
        /\ n = current => cells \subseteq 0..(start - 1)
    BY <1>1, <1>6 DEF PayloadSide, FindsPayload, Behind
  <2>2. Kept(n, k)'
    BY <1>1, <1>3, <2>1 DEF Kept
  <2>3. n = current => cells \subseteq 0..(start' - 1)
    BY <1>2, <1>4, <2>1
  <2>4. payloads'[n] \cap cells = payloads[n] \cap cells
    <3>1. CASE payloads' = payloads \/ n # current
      BY <1>1, <1>2, <2>1, <3>1 DEF Staged
    <3>2. CASE Staged(end, end') /\ n = current
      <4> DEFINE new == end..(end' - 1)
      <4>1. cells \cap new = {}
        BY <1>2, <2>1, <3>2
      <4>2. payloads'[n] = (payloads[n] \ new) \cup (new \ payloads[n])
        BY <1>2, <3>2 DEF Staged
      <4> HIDE DEF new, cells, n
      <4> QED
        BY <4>1, <4>2
    <3> QED
      BY <1>1, <3>1, <3>2
  <2> QED
    BY <1>1, <2>1, <2>2, <2>3, <2>4 DEF FindsPayload, Behind
<1>7. ASSUME NEW n \in 1..payloadArena' PROVE PayloadPlaces(n)' = 1
  <2>1. PayloadPlaces(n)' = PayloadPlaces(n)
    BY <1>1, <1>3 DEF PayloadPlaces, One, Named
  <2> QED
    BY <1>1, <2>1 DEF PayloadSide
<1>8. ASSUME NEW k \in DOMAIN pending'
      PROVE  /\ (FindsPayload(pending[k]) /\ Behind(pending[k]))'
             /\ pending'[k].type = "transfer" => Kept(pending[k].node, k)'
  <2>1. CASE pending[k].type = "transfer"
    BY <1>1, <1>6, <2>1
  <2>2. CASE pending[k].type # "transfer"
    BY <1>1, <2>2 DEF FindsPayload, Behind
  <2> QED
    BY <2>1, <2>2
<1> QED
  BY <1>1, <1>5, <1>7, <1>8 DEF PayloadSide

\* A readback's data go to the buffer, and a savestate's cursors to m_tr, when
\* the queue is drained; a FIFO read leaves it as it is.
LEMMA PayloadSideOfRead ==
  ASSUME IInv, PayloadSide, Hands, InitReadFIFO \/ Read \/ Defrost
  PROVE  PayloadSide'
<1>1. CASE Read
  BY <1>1, PayloadSideKept DEF Read, ringVars, nodeVars, payloadVars
<1>2. CASE InitReadFIFO \/ Defrost
  <2>1. /\ UNCHANGED <<payloadFree, payloadArena, pending, current, rec>>
        /\ front = "drained" /\ then' = "run"
    BY <1>2 DEF InitReadFIFO, Defrost, ringVars
  <2>2. pending = <<>> /\ rec = NoRecord /\ then # "acquirePayload"
    BY <2>1 DEF IInv, AfterDrain, Nothing, Hands
  <2> QED
    BY <2>1, <2>2, PayloadSideDrained
<1> QED
  BY <1>1, <1>2

LEMMA PayloadSideOfPush ==
  ASSUME Typed, PayloadSide, Hands, Push
  PROVE  PayloadSide'
<1>1. /\ pending' = Append(pending, rec) /\ rec' = NoRecord
      /\ UNCHANGED <<payloadFree, payloadArena, payloads, current, referenced,
                     start, then>>
  BY DEF Push, nodeVars, payloadVars, stageVars, trVars
<1>2. pending \in Seq(Records) /\ rec \in Records
  BY DEF Typed
<1>3. /\ DOMAIN pending' = DOMAIN pending \cup {Len(pending) + 1}
      /\ \A k \in DOMAIN pending : pending'[k] = pending[k] /\ k < Len(pending) + 1
      /\ pending'[Len(pending) + 1] = rec
  BY <1>1, <1>2
<1>4. (FindsPayload(rec) /\ Behind(rec))'
  BY <1>1 DEF FindsPayload, Behind, NoRecord, Record
<1>5. ASSUME NEW k \in DOMAIN pending'
      PROVE  /\ (FindsPayload(pending[k]) /\ Behind(pending[k]))'
             /\ pending'[k].type = "transfer" => Kept(pending[k].node, k)'
             /\ pending'[k].type \in {"transfer", "release"} =>
                  pending'[k].node \in 1..payloadArena'
  <2>1. CASE k \in DOMAIN pending
    <3>1. /\ (FindsPayload(pending[k]) /\ Behind(pending[k]))'
          /\ pending'[k] = pending[k]
          /\ pending'[k].type \in {"transfer", "release"} =>
               pending'[k].node \in 1..payloadArena'
      BY <1>1, <1>3, <2>1 DEF PayloadSide, FindsPayload, Behind
    <3>2. ASSUME pending[k].type = "transfer"
          PROVE  Kept(pending[k].node, k)'
      <4>1. Kept(pending[k].node, k)
        BY <2>1, <3>2 DEF PayloadSide
      <4>2. CASE pending[k].node = current /\ referenced /\ then # "acquirePayload"
        BY <1>1, <3>1, <4>2 DEF Kept
      <4>3. CASE Named(rec, "release", pending[k].node)
        BY <1>3, <2>1, <3>1, <4>3 DEF Kept
      <4>4. CASE \E j \in DOMAIN pending : j > k /\ Named(pending[j], "release", pending[k].node)
        BY <1>3, <3>1, <4>4 DEF Kept
      <4> QED
        BY <4>1, <4>2, <4>3, <4>4 DEF Kept
    <3> QED
      BY <3>1, <3>2
  <2>2. CASE k = Len(pending) + 1
    <3>1. pending'[k] = rec
      BY <1>3, <2>2
    <3> QED
      BY <1>1, <3>1 DEF PayloadSide, FindsPayload, Behind, Kept, Hands
  <2> QED
    BY <1>3, <2>1, <2>2
<1>6. ASSUME NEW n \in 1..payloadArena' PROVE PayloadPlaces(n)' = 1
  <2> DEFINE c == One(rec \in Naming("release", n))
  <2>1. PayloadPlaces(n) = 1
    BY <1>1 DEF PayloadSide
  <2>2. Occ(pending', Naming("release", n)) = Occ(pending, Naming("release", n)) + c
    BY <1>1, <1>2, OccAppend
  <2>3. /\ One(rec.type = "release" /\ rec.node = n) = c
        /\ One(rec.type = "release" /\ rec.node = n)' = 0
        /\ One(n = current /\ then # "acquirePayload")'
           = One(n = current /\ then # "acquirePayload")
    BY <1>1, <1>2 DEF One, Naming, Named, NoRecord, Record
  <2>4. c \in Nat
    BY DEF One
  <2> HIDE DEF c
  <2> QED
    BY <1>1, <2>1, <2>2, <2>3, <2>4, PayloadCounts DEF PayloadPlaces
<1> QED
  BY <1>1, <1>4, <1>5, <1>6 DEF PayloadSide

\* A released node is free again; the transfers that are left have other nodes.
LEMMA PayloadSideOfExec ==
  ASSUME IInv, Held, PayloadSide, Hands, ExecRecordSlot
  PROVE  PayloadSide'
<1> DEFINE r == Head(pending)
<1>0. Typed
  BY TypedNodes
<1>1. /\ pending' = Tail(pending)
      /\ UNCHANGED <<rec, payloadArena, current, referenced, start, then>>
      /\ r.type = "release" => /\ payloadFree' = Append(payloadFree, r.node)
                               /\ payloads' = [payloads EXCEPT ![r.node] = {}]
      /\ r.type # "release" => UNCHANGED <<payloadFree, payloads>>
  BY OldestIsFirst DEF ExecRecordSlot, nodeVars, payloadVars, frontVars, stageVars,
     trVars
<1>2. /\ pending \in Seq(Records) /\ pending # <<>> /\ r = pending[1]
      /\ 1 \in DOMAIN pending
      /\ payloadFree \in Seq(1..MaxPayload) /\ payloadArena \in 1..MaxPayload
      /\ payloads \in [1..MaxPayload -> SUBSET Cells] /\ rec \in Records
      /\ MaxPayload \in Nat
  BY <1>0, OldestIsFirst, Constants DEF Typed
<1>3. r \in Records /\ (r.type = "release" => r.node \in 1..payloadArena)
  BY <1>2 DEF PayloadSide
<1>4. ASSUME NEW k \in DOMAIN pending'
      PROVE  /\ k + 1 \in DOMAIN pending /\ pending'[k] = pending[k + 1]
             /\ k + 1 # 1 /\ k \in Nat
  BY <1>1, <1>2
<1>5. ASSUME NEW j \in DOMAIN pending, j # 1
      PROVE  /\ j - 1 \in DOMAIN pending' /\ pending'[j - 1] = pending[j]
             /\ j \in Nat
  BY <1>1, <1>2, <1>5
<1> HIDE DEF r
<1>6. \A k \in DOMAIN payloadFree' : payloadFree'[k] <= payloadArena'
  <2>1. CASE r.type = "release"
    <3>1. r.node \in 1..payloadArena /\ r.node \in 1..MaxPayload
      BY <1>2, <1>3, <2>1
    <3>2. /\ payloadFree' = Append(payloadFree, r.node)
          /\ payloadArena' = payloadArena
          /\ \A k \in DOMAIN payloadFree : payloadFree[k] <= payloadArena
      BY <1>1, <2>1 DEF PayloadSide
    <3>3. ASSUME NEW k \in DOMAIN payloadFree'
          PROVE  payloadFree'[k] <= payloadArena
      <4>1. DOMAIN payloadFree' = 1..(Len(payloadFree) + 1)
        BY <1>2, <3>1, <3>2
      <4>2. CASE k = Len(payloadFree) + 1
        <5>1. payloadFree'[k] = r.node
          BY <1>2, <3>1, <3>2, <4>2
        <5> QED
          BY <3>1, <5>1
      <4>3. CASE k \in 1..Len(payloadFree)
        <5>1. payloadFree'[k] = payloadFree[k] /\ k \in DOMAIN payloadFree
          BY <1>2, <3>1, <3>2, <4>3
        <5> QED
          BY <3>2, <5>1
      <4> QED
        BY <1>2, <3>3, <4>1, <4>2, <4>3
    <3> QED
      BY <3>2, <3>3
  <2>2. CASE r.type # "release"
    BY <1>1, <2>2 DEF PayloadSide
  <2> QED
    BY <2>1, <2>2
<1>7. ASSUME r.type = "release"
      PROVE  /\ ~(r.node = current /\ then # "acquirePayload")
             /\ ~Named(rec, "release", r.node)
             /\ \A j \in DOMAIN pending : j # 1 => ~Named(pending[j], "release", r.node)
  BY <1>0, <1>2, <1>3, <1>7, ReleasedOnce DEF Named
<1>8. ASSUME NEW q, q.type = "transfer" => q.node \in 1..payloadArena,
             FindsPayload(q), r.type = "release" /\ q.type = "transfer" => q.node # r.node
      PROVE  q.type = "transfer" => payloads'[q.node] \cap q.cells = q.held
  <2> SUFFICES ASSUME q.type = "transfer"
               PROVE  payloads'[q.node] \cap q.cells = q.held
    OBVIOUS
  <2>1. q.node \in 1..MaxPayload /\ payloads[q.node] \cap q.cells = q.held
    BY <1>2, <1>8 DEF FindsPayload
  <2>2. payloads'[q.node] = payloads[q.node]
    BY <1>1, <1>2, <1>8, <2>1
  <2> QED
    BY <2>1, <2>2
<1>9. ASSUME NEW k \in DOMAIN pending'
      PROVE  /\ (FindsPayload(pending[k]) /\ Behind(pending[k]))'
             /\ pending'[k].type = "transfer" => Kept(pending[k].node, k)'
             /\ pending'[k].type \in {"transfer", "release"} =>
                  pending'[k].node \in 1..payloadArena'
  <2> DEFINE q == pending[k + 1]
  <2>1. /\ pending'[k] = q
        /\ FindsPayload(q) /\ Behind(q)
        /\ q.type \in {"transfer", "release"} => q.node \in 1..payloadArena
        /\ q.type = "transfer" => Kept(q.node, k + 1)
    BY <1>4 DEF PayloadSide
  <2> HIDE DEF q
  <2>2. ASSUME q.type = "transfer"
        PROVE  Kept(q.node, k + 1) /\ (r.type = "release" => q.node # r.node)
    <3>1. Kept(q.node, k + 1)
      BY <2>1, <2>2
    <3>2. ASSUME NEW j \in DOMAIN pending, j > k + 1 PROVE j # 1
      BY <1>4, <3>2
    <3> QED
      BY <1>7, <3>1, <3>2 DEF Kept
  <2>3. (FindsPayload(pending[k]) /\ Behind(pending[k]))'
    BY <1>1, <1>8, <2>1, <2>2 DEF FindsPayload, Behind
  <2>4. ASSUME q.type = "transfer"
        PROVE  \/ q.node = current /\ referenced /\ then # "acquirePayload"
               \/ Named(rec, "release", q.node)
               \/ \E j \in DOMAIN pending' : j > k /\ Named(pending'[j], "release", q.node)
    <3>1. ASSUME NEW j \in DOMAIN pending, j > k + 1, Named(pending[j], "release", q.node)
          PROVE  \E i \in DOMAIN pending' : i > k /\ Named(pending'[i], "release", q.node)
      <4>1. j # 1 /\ j - 1 > k
        BY <1>4, <1>5, <3>1
      <4>2. j - 1 \in DOMAIN pending' /\ Named(pending'[j - 1], "release", q.node)
        BY <1>5, <3>1, <4>1
      <4> QED
        BY <4>1, <4>2
    <3> QED
      BY <2>2, <2>4, <3>1 DEF Kept
  <2>5. q.type = "transfer" => Kept(pending[k].node, k)'
    BY <1>1, <2>1, <2>4 DEF Kept, Named
  <2> QED
    BY <1>1, <2>1, <2>3, <2>5
<1>10. (FindsPayload(rec) /\ Behind(rec))'
  <2>1. /\ FindsPayload(rec) /\ Behind(rec)
        /\ rec.type = "transfer" =>
             rec.node \in 1..payloadArena /\ (r.type = "release" => rec.node # r.node)
    BY <1>7 DEF PayloadSide, Hands
  <2> QED
    BY <1>1, <1>8, <2>1 DEF FindsPayload, Behind
<1>11. ASSUME NEW n \in 1..payloadArena' PROVE PayloadPlaces(n)' = 1
  <2> DEFINE c == One(r \in Naming("release", n))
  <2>1. PayloadPlaces(n) = 1
    BY <1>1 DEF PayloadSide
  <2>2. Occ(pending', Naming("release", n)) = Occ(pending, Naming("release", n)) - c
    BY <1>1, <1>2, OccTail DEF r
  <2>3. Occ(payloadFree', {n}) = Occ(payloadFree, {n}) + c
    <3>1. CASE r.type = "release"
      <4>1. r.node \in 1..MaxPayload
        BY <1>3, <3>1, RecordNodes
      <4>2. One(r.node \in {n}) = c
        BY <1>3, <3>1 DEF One, Naming, Named
      <4>3. Occ(Append(payloadFree, r.node), {n})
            = Occ(payloadFree, {n}) + One(r.node \in {n})
        BY <1>2, <4>1, OccAppend
      <4> QED
        BY <1>1, <3>1, <4>2, <4>3
    <3>2. CASE r.type # "release"
      <4>1. c = 0
        BY <3>2 DEF One, Naming, Named
      <4> QED
        BY <1>0, <1>1, <3>2, <4>1, PayloadCounts
    <3> QED
      BY <3>1, <3>2
  <2>4. c \in Nat
    BY DEF One
  <2>5. /\ One(n = current /\ then # "acquirePayload")'
           = One(n = current /\ then # "acquirePayload")
        /\ One(rec.type = "release" /\ rec.node = n)'
           = One(rec.type = "release" /\ rec.node = n)
    BY <1>1 DEF One
  <2> HIDE DEF c
  <2> QED
    BY <1>0, <1>1, <2>1, <2>2, <2>3, <2>4, <2>5, PayloadCounts DEF PayloadPlaces
<1>12. current' \in 1..payloadArena'
  BY <1>1 DEF PayloadSide
<1> QED
  BY <1>6, <1>9, <1>10, <1>11, <1>12 DEF PayloadSide

-----------------------------------------------------------------------------
\* Where every node is, and that each record finds its own.
Nodes == Hands /\ DrawSide /\ PayloadSide

LEMMA InitNodes == Init => Nodes
<1> SUFFICES ASSUME Init PROVE Nodes
  OBVIOUS
<1> USE DEF Init, NoRecord, Record
<1>1. \A S : Occ(<<>>, S) = 0
  <2>1. <<>> \in Seq({}) /\ DOMAIN <<>> = {}
    OBVIOUS
  <2> QED
    BY <2>1, OccNone
<1>2. Hands
  BY DEF Hands
<1>3. DrawSide
  BY DEF DrawSide, FindsDraw
<1>4. PayloadSide
  <2>1. ASSUME NEW n \in 1..payloadArena PROVE PayloadPlaces(n) = 1
    BY <1>1, <2>1 DEF PayloadPlaces, One
  <2> QED
    BY <2>1 DEF PayloadSide, FindsPayload, Behind
<1> QED
  BY <1>2, <1>3, <1>4 DEF Nodes

\* A new GSState starts as the first one did.
LEMMA NodesReopened == JoinAndReopen => Nodes'
<1> SUFFICES ASSUME JoinAndReopen PROVE Nodes'
  OBVIOUS
<1> USE DEF JoinAndReopen, NoRecord, Record
<1>1. \A S : Occ(<<>>, S) = 0
  <2>1. <<>> \in Seq({}) /\ DOMAIN <<>> = {}
    OBVIOUS
  <2> QED
    BY <2>1, OccNone
<1>2. Hands'
  BY DEF Hands
<1>3. DrawSide'
  BY DEF DrawSide, FindsDraw
<1>4. PayloadSide'
  <2>1. ASSUME NEW n \in 1..payloadArena' PROVE PayloadPlaces(n)' = 1
    BY <1>1, <2>1 DEF PayloadPlaces, One
  <2> QED
    BY <2>1 DEF PayloadSide, FindsPayload, Behind
<1> QED
  BY <1>2, <1>3, <1>4 DEF Nodes

LEMMA NextNodes ==
  ASSUME IInv, Held, Nodes, [Next]_vars
  PROVE  Nodes'
<1>1. Typed /\ Hands /\ DrawSide /\ PayloadSide
  BY TypedNodes DEF Nodes
<1>2. Hands'
  BY <1>1, NextHands
<1> USE DEF NoRecord, Record
<1>3. CASE DrawRecycled \/ DrawFresh
  <2>1. /\ UNCHANGED <<payloadFree, payloadArena, payloads, pending, current,
                       referenced, start>>
        /\ rec = NoRecord /\ rec'.type = "draw"
        /\ then # "acquirePayload" /\ then' = "run"
    BY <1>1, <1>3 DEF DrawRecycled, DrawFresh, Ready, Hands, ringVars, payloadVars,
       stageVars, trVars
  <2>2. PayloadSide'
    BY <1>1, <2>1, PayloadSideKept
  <2>3. DrawSide'
    BY <1>1, <1>3, <2>1, DrawSideOfRecycled, DrawSideOfFresh
  <2> QED
    BY <1>2, <2>2, <2>3 DEF Nodes
<1>4. CASE Transfers
  <2>1. /\ UNCHANGED <<drawFree, drawArena, draws, pending>>
        /\ rec' = rec \/ (rec = NoRecord /\ rec'.type \in {"release", "transfer"})
    BY <1>1, <1>4 DEF Transfers, RotateTransferPayload, AcquirePayloadNode,
       FlushWrite, Write, Submit, InitReadFIFO, Read, Defrost, Ready, Transfer,
       Hands, ringVars, nodeVars, drawVars
  <2>2. DrawSide'
    BY <1>1, <2>1, DrawSideKept
  <2>3. PayloadSide'
    BY <1>1, <1>4, PayloadSideOfRotate, PayloadSideOfAcquire, PayloadSideOfWrite,
       PayloadSideOfRead DEF Transfers
  <2> QED
    BY <1>2, <2>2, <2>3 DEF Nodes
<1>5. CASE Push
  BY <1>1, <1>2, <1>5, DrawSideOfPush, PayloadSideOfPush DEF Nodes
<1>6. CASE ExecRecordSlot
  BY <1>1, <1>2, <1>6, DrawSideOfExec, PayloadSideOfExec DEF Nodes
<1>7. CASE JoinAndReopen
  BY <1>7, NodesReopened
\* The others leave the nodes and the records where they are.
<1>8. ASSUME UNCHANGED <<nodeVars, pending, stageVars>>,
             rec' = rec \/ (rec = NoRecord /\ rec' = Other),
             then = "acquirePayload" <=> then' = "acquirePayload"
      PROVE  Nodes'
  <2>1. /\ UNCHANGED <<drawFree, drawArena, draws, pending>>
        /\ UNCHANGED <<payloadFree, payloadArena, payloads, current, referenced,
                       start>>
        /\ rec' = rec \/ (rec.type = "none" /\ rec'.type = "other")
    BY <1>8 DEF nodeVars, drawVars, payloadVars, stageVars, trVars, Other
  <2>2. DrawSide'
    BY <1>1, <2>1, DrawSideKept
  <2>3. PayloadSide'
    BY <1>1, <1>8, <2>1, PayloadSideKept
  <2> QED
    BY <1>2, <2>2, <2>3 DEF Nodes
<1>9. CASE SubmitOther
  <2>1. rec = NoRecord /\ then # "acquirePayload"
    BY <1>1, <1>9 DEF SubmitOther, Hands
  <2> QED
    BY <1>8, <1>9, <2>1 DEF SubmitOther, Ready, ringVars
<1>10. ASSUME NEW next \in {"drained", "stop"}, DrainBackQueue(next)
       PROVE  Nodes'
  <2>1. then # "acquirePayload"
    BY <1>1, <1>10 DEF DrainBackQueue, Hands
  <2> QED
    BY <1>8, <1>10, <2>1 DEF DrainBackQueue, ringVars
<1>11. CASE DrawWaits \/ Notify \/ WaitForEmpty \/ EmptyWake \/ Drained
            \/ SetExit \/ StopNotify
  BY <1>1, <1>8, <1>11 DEF Hands, DrawWaits, Notify, WaitForEmpty, EmptyWake, Drained,
     SetExit, StopNotify, ringVars
<1>12. CASE WaitForWork \/ Awake \/ CheckExit \/ Peek \/ Pop \/ UNCHANGED vars
  BY <1>8, <1>12 DEF WaitForWork, Awake, CheckExit, Peek, Pop, ringVars,
     frontVars, vars
<1> QED
  BY <1>3, <1>4, <1>5, <1>6, <1>7, <1>9, <1>10, <1>11, <1>12
     DEF Next, FrontStep, BackStep, Transfers

LEMMA InductiveNodes == Spec => [](IInv /\ Nodes)
<1>1. Init => IInv /\ Held /\ Nodes
  BY InitIInv, InitNodes DEF Init, Held
<1>2. IInv /\ Held /\ Nodes /\ [Next]_vars => (IInv /\ Held /\ Nodes)'
  BY NextIInv, NextHeld, NextNodes
<1> QED
  BY <1>1, <1>2, PTL DEF Spec

\* A record finds its vertices or its data as the front left them, however the
\* nodes are recycled and the transfer buffers rotated.
THEOREM RecordsSafe == Spec => []RecordsIntact
<1>1. Nodes => RecordsIntact
  BY DEF Nodes, DrawSide, PayloadSide, FindsDraw, FindsPayload, RecordsIntact
<1> QED
  BY <1>1, InductiveNodes, PTL

\* No node is leaked, and none is released twice.
THEOREM NodesSafe == Spec => []NodesInOnePlace
<1>1. ASSUME IInv, Nodes PROVE NodesInOnePlace
  <2>1. Typed
    BY <1>1, TypedNodes
  <2>2. \A k \in DOMAIN pending : pending[k] \in Records
    BY <2>1 DEF Typed
  <2>3. ASSUME NEW n, NEW type
        PROVE  /\ Occ(pending, Naming(type, n))
                  = Cardinality({k \in DOMAIN pending :
                                   pending[k].type = type /\ pending[k].node = n})
               /\ Occ(drawFree, {n}) = Cardinality({k \in DOMAIN drawFree : drawFree[k] = n})
               /\ Occ(payloadFree, {n})
                  = Cardinality({k \in DOMAIN payloadFree : payloadFree[k] = n})
    <3>1. /\ Where(pending, Naming(type, n))
             = {k \in DOMAIN pending : pending[k].type = type /\ pending[k].node = n}
          /\ Where(drawFree, {n}) = {k \in DOMAIN drawFree : drawFree[k] = n}
          /\ Where(payloadFree, {n}) = {k \in DOMAIN payloadFree : payloadFree[k] = n}
      BY <2>2 DEF Where, Naming, Named
    <3> QED
      BY <3>1 DEF Occ
  <2>4. \A n \in 1..drawArena : DrawPlaces(n) = 1
    BY <1>1 DEF Nodes, DrawSide
  <2>5. \A n \in 1..payloadArena : PayloadPlaces(n) = 1
    BY <1>1 DEF Nodes, PayloadSide
  <2>6. ASSUME NEW n \in 1..drawArena
        PROVE  Cardinality({k \in DOMAIN drawFree : drawFree[k] = n})
               + Cardinality({k \in DOMAIN pending :
                                pending[k].type = "draw" /\ pending[k].node = n})
               + (IF rec.type = "draw" /\ rec.node = n THEN 1 ELSE 0) = 1
    <3>1. DrawPlaces(n) = 1
      BY <2>4
    <3>2. /\ Occ(drawFree, {n})
                = Cardinality({k \in DOMAIN drawFree : drawFree[k] = n})
          /\ Occ(pending, Naming("draw", n))
                = Cardinality({k \in DOMAIN pending :
                                 pending[k].type = "draw" /\ pending[k].node = n})
      BY ZenonT(60), <2>3
    <3>3. One(rec.type = "draw" /\ rec.node = n)
            = IF rec.type = "draw" /\ rec.node = n THEN 1 ELSE 0
      BY Zenon DEF One
    <3> HIDE DEF One, Occ, Naming
    <3> QED
      BY <3>1, <3>2, <3>3, Zenon DEF DrawPlaces
  <2>7. ASSUME NEW n \in 1..payloadArena
        PROVE  Cardinality({k \in DOMAIN payloadFree : payloadFree[k] = n})
               + Cardinality({k \in DOMAIN pending :
                                pending[k].type = "release" /\ pending[k].node = n})
               + (IF n = current /\ then # "acquirePayload" THEN 1 ELSE 0)
               + (IF rec.type = "release" /\ rec.node = n THEN 1 ELSE 0) = 1
    <3>1. PayloadPlaces(n) = 1
      BY <2>5
    <3>2. /\ Occ(payloadFree, {n})
                = Cardinality({k \in DOMAIN payloadFree : payloadFree[k] = n})
          /\ Occ(pending, Naming("release", n))
                = Cardinality({k \in DOMAIN pending :
                                 pending[k].type = "release" /\ pending[k].node = n})
      BY ZenonT(60), <2>3
    <3>3. /\ One(rec.type = "release" /\ rec.node = n)
                = IF rec.type = "release" /\ rec.node = n THEN 1 ELSE 0
          /\ One(n = current /\ then # "acquirePayload")
                = IF n = current /\ then # "acquirePayload" THEN 1 ELSE 0
      BY Zenon DEF One
    <3> HIDE DEF One, Occ, Naming
    <3> QED
      BY <3>1, <3>2, <3>3, Zenon DEF PayloadPlaces
  <2> QED
    BY <2>6, <2>7, Zenon DEF NodesInOnePlace
<1> QED
  BY <1>1, InductiveNodes, PTL
=============================================================================
