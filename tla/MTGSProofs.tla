----------------------------- MODULE MTGSProofs -----------------------------
(***************************************************************************)
(* The EE/GS ring, for every size of the ring and of a frame's packet: the *)
(* GS thread executes what was sent, WaitGS drains, a stalled EE gets its  *)
(* signal when it has its room, and no other, and the EE never runs ahead  *)
(* of the frames that are shown by more than the queue and one.            *)
(*                                                                         *)
(* A reset that finds packets in the ring (astray) breaks what is said of  *)
(* the ring and of the count of frames, and is a run of its own; types,    *)
(* signals and WaitGS are proved for those too.                            *)
(***************************************************************************)
EXTENDS MTGS, FiniteSetTheorems, TLAPS

-----------------------------------------------------------------------------
(* Positions.                                                              *)

LEMMA Constants ==
  /\ RingBufferSize \in Nat /\ VsyncPayload \in Nat /\ VsyncPayload >= 1
  /\ RingBufferSize > VsyncPayload + 1
  /\ IdMod \in Nat /\ IdMod > 0
  BY MTGSAssumption

LEMMA Remainder ==
  ASSUME NEW n \in Nat, n > 0, NEW a \in Int, NEW q \in Int,
         NEW r \in 0..(n - 1), a = q * n + r
  PROVE  a % n = r
  OBVIOUS

LEMMA AdvanceIs ==
  ASSUME NEW p \in 0..(RingBufferSize - 1), NEW m \in 0..(RingBufferSize - 1)
  PROVE  /\ Advance(p, m) = IF p + m < RingBufferSize THEN p + m
                                                     ELSE p + m - RingBufferSize
         /\ Advance(p, m) \in 0..(RingBufferSize - 1)
<1> DEFINE N == RingBufferSize
<1>0. N \in Nat /\ N > 0
  BY Constants
<1>1. CASE p + m < N
  <2>1. p + m = 0 * N + (p + m) /\ p + m \in 0..(N - 1) /\ p + m \in Int /\ 0 \in Int
    BY <1>0, <1>1
  <2>2. (p + m) % N = p + m
    BY ONLY <1>0, <2>1, Remainder
  <2> QED
    BY <1>1, <2>1, <2>2 DEF Advance
<1>2. CASE ~(p + m < N)
  <2>1. /\ p + m = 1 * N + (p + m - N) /\ p + m - N \in 0..(N - 1)
        /\ p + m \in Int /\ 1 \in Int
    BY <1>0, <1>2
  <2>2. (p + m) % N = p + m - N
    BY ONLY <1>0, <2>1, Remainder
  <2> QED
    BY <1>2, <2>1, <2>2 DEF Advance
<1> QED
  BY <1>1, <1>2

\* How far ahead of p a position is.
LEMMA BackIs ==
  ASSUME NEW p \in 0..(RingBufferSize - 1), NEW m \in 0..(RingBufferSize - 1)
  PROVE  (Advance(p, m) - p) % RingBufferSize = m
<1> DEFINE N == RingBufferSize
<1>0. N \in Nat /\ N > 0
  BY Constants
<1>1. Advance(p, m) = p + m \/ Advance(p, m) = p + m - N
  BY AdvanceIs
<1>2. PICK d : d = Advance(p, m) - p
  OBVIOUS
<1>3. d \in Int /\ m \in 0..(N - 1) /\ (d = m \/ d = m - N)
  BY <1>0, <1>1, <1>2
<1>4. CASE d = m
  <2>1. d = 0 * N + m /\ 0 \in Int
    BY <1>0, <1>4
  <2> QED
    BY ONLY <1>0, <1>2, <1>3, <2>1, Remainder
<1>5. CASE d = m - N
  <2>1. d = (-1) * N + m /\ -1 \in Int
    BY <1>0, <1>5
  <2>2. d % N = m
    BY ONLY <1>0, <1>3, <2>1, Remainder
  <2> QED
    BY <1>2, <2>2
<1> QED
  BY <1>3, <1>4, <1>5

\* Different distances, different positions.
LEMMA OneDistance ==
  ASSUME NEW p \in 0..(RingBufferSize - 1),
         NEW m \in 0..(RingBufferSize - 1), NEW n \in 0..(RingBufferSize - 1),
         Advance(p, m) = Advance(p, n)
  PROVE  m = n
  BY BackIs

LEMMA AdvanceTwice ==
  ASSUME NEW p \in 0..(RingBufferSize - 1), NEW m \in 0..(RingBufferSize - 1),
         NEW n \in 0..(RingBufferSize - 1), m + n < RingBufferSize
  PROVE  Advance(Advance(p, m), n) = Advance(p, m + n)
<1> DEFINE N == RingBufferSize
<1>1. N \in Nat /\ m + n \in 0..(N - 1)
  BY Constants
<1>2. PICK r \in 0..(N - 1) : r = Advance(p, m)
  BY AdvanceIs
<1>3. r = IF p + m < N THEN p + m ELSE p + m - N
  BY <1>2, AdvanceIs
<1>4. Advance(r, n) = IF r + n < N THEN r + n ELSE r + n - N
  BY <1>2, AdvanceIs
<1>5. Advance(p, m + n) = IF p + (m + n) < N THEN p + (m + n) ELSE p + (m + n) - N
  BY <1>1, AdvanceIs
<1>6. Advance(r, n) = Advance(p, m + n)
  BY <1>1, <1>3, <1>4, <1>5
<1> QED
  BY <1>2, <1>6

-----------------------------------------------------------------------------
(* Packets.                                                                *)

Ids == 0..(IdMod - 1)
Slots == (Commands \cup {"data", "free"}) \X Ids
Packets == {Packet(c, id) : c \in Commands, id \in Ids}

LEMMA PacketIs ==
  ASSUME NEW c \in Commands, NEW id \in Ids
  PROVE  /\ Packet(c, id) \in Seq(Slots)
         /\ Len(Packet(c, id)) = PacketSize(c)
         /\ PacketSize(c) \in 1..(VsyncPayload + 1)
         /\ Packet(c, id)[1] = <<c, id>>
<1> DEFINE n == PacketSize(c)
<1>1. n \in 1..(VsyncPayload + 1)
  BY Constants DEF PacketSize
<1>2. Packet(c, id) = [i \in 1..n |-> IF i = 1 THEN <<c, id>> ELSE <<"data", id>>]
  BY DEF Packet, PacketSize
<1>3. \A i \in 1..n : (IF i = 1 THEN <<c, id>> ELSE <<"data", id>>) \in Slots
  BY DEF Slots
<1> HIDE DEF n
<1>4. Packet(c, id) \in [1..n -> Slots]
  BY <1>2, <1>3
<1>5. n \in Nat /\ 1 \in 1..n
  BY <1>1, Constants
<1>6. Packet(c, id) \in Seq(Slots)
  BY <1>4, <1>5
<1>7. Len(Packet(c, id)) = n
  BY <1>4, <1>5, <1>6
<1>8. Packet(c, id)[1] = <<c, id>>
  BY <1>2, <1>5
<1> QED
  BY <1>1, <1>6, <1>7, <1>8 DEF n

LEMMA PacketFacts ==
  ASSUME NEW p \in Packets
  PROVE  /\ p \in Seq(Slots) /\ p \in [1..Len(p) -> Slots]
         /\ Len(p) \in 1..(VsyncPayload + 1) /\ Len(p) \in Nat /\ Len(p) >= 1
         /\ PacketSize(p[1][1]) = Len(p)
<1>1. PICK c \in Commands, id \in Ids : p = Packet(c, id)
  BY DEF Packets
<1>2. p \in Seq(Slots) /\ Len(p) = PacketSize(c) /\ p[1] = <<c, id>>
      /\ PacketSize(c) \in 1..(VsyncPayload + 1)
  BY <1>1, PacketIs
<1>3. p \in [1..Len(p) -> Slots]
  BY <1>2
<1> QED
  BY <1>2, <1>3, Constants

-----------------------------------------------------------------------------
(* The ring: where each packet lies.                                       *)

Positions ==
  /\ ring \in [0..(RingBufferSize - 1) -> Slots]
  /\ ReadPos \in 0..(RingBufferSize - 1)
  /\ WritePos \in 0..(RingBufferSize - 1)

Last == Len(fifo) + 1

\* off[k] is how far the k-th packet is ahead of the reader, off[Last] how far
\* the writer is.
Laid(off) ==
  /\ off \in [1..Last -> 0..(RingBufferSize - 1)]
  /\ off[1] = 0
  /\ \A k \in 1..Len(fifo) : off[k + 1] = off[k] + Len(fifo[k])
  /\ \A i, j \in 1..Last : i < j => off[i] + Len(fifo[i]) <= off[j]
  /\ WritePos = Advance(ReadPos, off[Last])
  /\ \A k \in 1..Len(fifo) : \A i \in 1..Len(fifo[k]) :
       ring[Advance(ReadPos, off[k] + (i - 1))] = fifo[k][i]

Ring == fifo \in Seq(Packets) /\ \E off : Laid(off)

LEMMA FifoFacts ==
  ASSUME Ring
  PROVE  /\ Len(fifo) \in Nat
         /\ fifo = <<>> <=> Len(fifo) = 0
         /\ \A k \in 1..Len(fifo) : /\ fifo[k] \in Packets
                                    /\ Len(fifo[k]) \in 1..(VsyncPayload + 1)
                                    /\ Len(fifo[k]) \in Nat /\ Len(fifo[k]) >= 1
<1>1. Len(fifo) \in Nat /\ (fifo = <<>> <=> Len(fifo) = 0)
      /\ \A k \in 1..Len(fifo) : fifo[k] \in Packets
  BY DEF Ring
<1> QED
  BY <1>1, PacketFacts

LEMMA Room ==
  ASSUME Positions, Ring, NEW off, Laid(off)
  PROVE  /\ off[Last] \in 0..(RingBufferSize - 1)
         /\ FreeRoom(ReadPos) = RingBufferSize - off[Last]
         /\ ReadPos = WritePos <=> fifo = <<>>
<1>1. /\ ReadPos \in 0..(RingBufferSize - 1) /\ WritePos \in 0..(RingBufferSize - 1)
      /\ Len(fifo) \in Nat /\ 1 \in 1..Last /\ Last \in 1..Last /\ Last \in Nat
  BY FifoFacts DEF Positions, Last
<1>2. off[Last] \in 0..(RingBufferSize - 1) /\ off[1] = 0
      /\ WritePos = Advance(ReadPos, off[Last])
  BY <1>1 DEF Laid
<1>3. WritePos = IF ReadPos + off[Last] < RingBufferSize
                 THEN ReadPos + off[Last] ELSE ReadPos + off[Last] - RingBufferSize
  BY <1>1, <1>2, AdvanceIs
<1>4. FreeRoom(ReadPos) = RingBufferSize - off[Last]
  <2>1. PICK d \in 0..(RingBufferSize - 1) : d = off[Last]
    BY <1>2
  <2>2. CASE ReadPos + d < RingBufferSize
    <3>1. WritePos = ReadPos + d /\ ~(WritePos < ReadPos)
      BY <1>1, <1>3, <2>1, <2>2
    <3>2. FreeRoom(ReadPos) = RingBufferSize - (WritePos - ReadPos)
      BY <3>1 DEF FreeRoom
    <3> QED
      BY <1>1, <2>1, <3>1, <3>2, Constants
  <2>3. CASE ~(ReadPos + d < RingBufferSize)
    <3>1. WritePos = ReadPos + d - RingBufferSize /\ WritePos < ReadPos
      BY <1>1, <1>3, <2>1, <2>3, Constants
    <3>2. FreeRoom(ReadPos) = ReadPos - WritePos
      BY <3>1 DEF FreeRoom
    <3> QED
      BY SMTT(30), <1>1, <2>1, <3>1, <3>2, Constants
  <2> QED
    BY <2>2, <2>3
<1>5. ReadPos = WritePos <=> off[Last] = 0
  BY <1>1, <1>2, <1>3, Constants
<1>6. off[Last] = 0 <=> fifo = <<>>
  <2>1. CASE fifo = <<>>
    BY <1>2, <2>1, FifoFacts DEF Last
  <2>2. CASE fifo # <<>>
    <3>1. Len(fifo) >= 1 /\ 1 < Last /\ Len(fifo[1]) >= 1 /\ Len(fifo[1]) \in Nat
      BY <1>1, <2>2, FifoFacts DEF Last
    <3>2. off[1] + Len(fifo[1]) <= off[Last]
      BY <1>1, <3>1 DEF Laid
    <3> QED
      BY <1>2, <2>2, <3>1, <3>2
  <2> QED
    BY <2>1, <2>2
<1> QED
  BY <1>2, <1>4, <1>5, <1>6

\* Every slot of a packet is behind the writer.
LEMMA SlotIs ==
  ASSUME Positions, Ring, NEW off, Laid(off),
         NEW k \in 1..Len(fifo), NEW i \in 1..Len(fifo[k])
  PROVE  /\ off[k] \in Nat /\ off[k] + (i - 1) \in 0..(RingBufferSize - 1)
         /\ off[k] + (i - 1) < off[Last]
         /\ k > 1 => off[k] + (i - 1) >= Len(fifo[1])
<1>1. /\ Len(fifo) \in Nat /\ k \in 1..Last /\ 1 \in 1..Last /\ Last \in 1..Last
      /\ k < Last /\ Len(fifo[k]) \in Nat /\ 1 \in 1..Len(fifo) /\ Len(fifo[1]) \in Nat
  BY FifoFacts DEF Last
<1>2. off[k] \in 0..(RingBufferSize - 1) /\ off[Last] \in 0..(RingBufferSize - 1)
      /\ off[1] = 0
  BY <1>1 DEF Laid
<1>3. off[k] + Len(fifo[k]) <= off[Last]
  BY <1>1 DEF Laid
<1>4. k > 1 => off[1] + Len(fifo[1]) <= off[k]
  BY <1>1 DEF Laid
<1>5. i \in Int /\ 1 <= i /\ i <= Len(fifo[k])
  BY <1>1
<1>6. off[k] + (i - 1) < off[Last]
  BY SMTT(30), <1>1, <1>2, <1>3, <1>5, Constants
<1>7. off[k] + (i - 1) \in 0..(RingBufferSize - 1)
  BY <1>2, <1>5, <1>6, Constants
<1>8. k > 1 => off[k] + (i - 1) >= Len(fifo[1])
  BY <1>1, <1>2, <1>4, <1>5, Constants
<1> QED
  BY <1>2, <1>6, <1>7, <1>8

\* A packet more.
LEMMA PublishRing ==
  ASSUME Positions, Ring, NEW p \in Packets, fifo' = Append(fifo, p),
         Len(p) < FreeRoom(ReadPos), ReadPos' = ReadPos,
         WritePos' = Advance(WritePos, Len(p)),
         ring' = [i \in DOMAIN ring |->
                    IF i \in Span(WritePos, Len(p))
                    THEN p[((i - WritePos) % RingBufferSize) + 1] ELSE ring[i]]
  PROVE  Ring'
<1> DEFINE N == RingBufferSize
<1>1. PICK off : Laid(off)
  BY DEF Ring
<1>2. PICK L \in Nat : L = Len(fifo)
  BY FifoFacts
<1>3. PICK n \in Nat : n = Len(p) /\ n >= 1
  BY PacketFacts
<1>4. PICK d \in 0..(N - 1) : d = off[Last] /\ d + n < N
  BY <1>1, <1>3, Room, Constants
<1>5. /\ Last = L + 1 /\ N \in Nat
      /\ ReadPos \in 0..(N - 1) /\ WritePos \in 0..(N - 1)
      /\ WritePos = Advance(ReadPos, d) /\ DOMAIN ring = 0..(N - 1)
  BY <1>1, <1>2, <1>4, Constants DEF Last, Laid, Positions
<1>6. /\ off \in [1..(L + 1) -> 0..(N - 1)] /\ off[1] = 0 /\ off[L + 1] = d
      /\ \A k \in 1..L : off[k + 1] = off[k] + Len(fifo[k])
      /\ \A i, j \in 1..(L + 1) : i < j => off[i] + Len(fifo[i]) <= off[j]
  BY <1>1, <1>2, <1>4, <1>5 DEF Laid
<1>7. /\ fifo' \in Seq(Packets) /\ Len(fifo') = L + 1
      /\ \A k \in 1..L : fifo'[k] = fifo[k]
      /\ fifo'[L + 1] = p
  BY <1>2 DEF Ring
<1>0. N \in Nat /\ n \in Nat /\ n >= 1 /\ d \in Nat /\ d + n < N /\ L \in Nat
  BY <1>2, <1>3, <1>4, <1>5
<1> DEFINE o == [k \in 1..(L + 2) |-> IF k <= L + 1 THEN off[k] ELSE d + n]
<1>8. /\ o \in [1..(L + 2) -> 0..(N - 1)]
      /\ \A k \in 1..(L + 1) : o[k] = off[k]
      /\ o[L + 2] = d + n
  BY SMTT(30), <1>3, <1>4, <1>5, <1>6
<1> HIDE DEF o
<1>9. \A k \in 1..(L + 1) : o[k + 1] = o[k] + Len(fifo'[k])
  <2> SUFFICES ASSUME NEW k \in 1..(L + 1) PROVE o[k + 1] = o[k] + Len(fifo'[k])
    OBVIOUS
  <2>1. CASE k \in 1..L
    <3>1. k + 1 \in 1..(L + 1)
      BY <1>0, <2>1
    <3> QED
      BY <1>6, <1>7, <1>8, <2>1, <3>1
  <2>2. CASE k = L + 1
    <3>1. k + 1 = L + 2
      BY <1>0, <2>2
    <3> QED
      BY <1>3, <1>6, <1>7, <1>8, <2>2, <3>1
  <2>3. k \in 1..L \/ k = L + 1
    BY <1>0
  <2> QED
    BY <2>1, <2>2, <2>3
<1>10. \A i, j \in 1..(L + 2) : i < j => o[i] + Len(fifo'[i]) <= o[j]
  <2> SUFFICES ASSUME NEW i \in 1..(L + 2), NEW j \in 1..(L + 2), i < j
               PROVE  o[i] + Len(fifo'[i]) <= o[j]
    OBVIOUS
  <2>1. i \in 1..(L + 1)
    OBVIOUS
  <2>2. CASE j <= L + 1
    <3>1. i \in 1..L /\ j \in 1..(L + 1)
      BY <2>2
    <3> QED
      BY SMTT(30), <1>6, <1>7, <1>8, <3>1
  <2>3. CASE j = L + 2 /\ i = L + 1
    BY <1>3, <1>6, <1>7, <1>8, <2>3
  <2>4. CASE j = L + 2 /\ i \in 1..L
    <3>1. off[i] + Len(fifo[i]) <= off[L + 1] /\ off[i] \in Nat /\ Len(fifo[i]) \in Nat
      <4>1. i \in 1..(L + 1) /\ L + 1 \in 1..(L + 1) /\ i < L + 1
        BY <1>0, <2>4
      <4>2. off[i] \in 0..(N - 1) /\ off[i] + Len(fifo[i]) <= off[L + 1]
        BY <1>6, <4>1
      <4>3. Len(fifo[i]) \in Nat
        BY <1>2, <2>4, FifoFacts
      <4> QED
        BY <1>0, <4>2, <4>3
    <3>2. o[i] = off[i] /\ fifo'[i] = fifo[i]
      BY <1>7, <1>8, <2>1, <2>4
    <3>3. o[j] = d + n /\ off[L + 1] = d
      BY <1>6, <1>8, <2>4
    <3>4. o[i] + Len(fifo'[i]) = off[i] + Len(fifo[i])
      BY <3>2
    <3>5. off[i] + Len(fifo[i]) <= d /\ d <= d + n /\ off[i] + Len(fifo[i]) \in Nat
      BY <1>0, <3>1, <3>3
    <3>6. off[i] + Len(fifo[i]) <= d + n
      BY <1>0, <3>5
    <3> QED
      BY <3>3, <3>4, <3>6
  <2>5. j <= L + 1 \/ (j = L + 2 /\ i = L + 1) \/ (j = L + 2 /\ i \in 1..L)
    BY <1>0, <2>1
  <2> QED
    BY <2>2, <2>3, <2>4, <2>5
<1>11. WritePos' = Advance(ReadPos', o[L + 2])
  BY SMTT(30), <1>3, <1>4, <1>5, <1>8, AdvanceTwice
<1>12. ASSUME NEW k \in 1..(L + 1), NEW i \in 1..Len(fifo'[k])
       PROVE  ring'[Advance(ReadPos', o[k] + (i - 1))] = fifo'[k][i]
  <2>1. CASE k \in 1..L
    <3>1. i \in 1..Len(fifo[k]) /\ o[k] = off[k] /\ fifo'[k] = fifo[k]
      BY <1>7, <1>8, <1>12, <2>1
    <3>2. PICK m \in 0..(N - 1) : m = off[k] + (i - 1) /\ m < d
      BY <1>1, <1>2, <1>4, <2>1, <3>1, SlotIs
    <3>3. ring[Advance(ReadPos, m)] = fifo[k][i]
      BY <1>1, <1>2, <2>1, <3>1, <3>2 DEF Laid
    <3>4. Advance(ReadPos, m) \in 0..(N - 1)
      BY <1>5, AdvanceIs
    <3>5. Advance(ReadPos, m) \notin Span(WritePos, n)
      <4>1. ASSUME NEW j \in 0..(n - 1), Advance(ReadPos, m) = Advance(WritePos, j)
            PROVE  FALSE
        <5>1. j \in 0..(N - 1) /\ d + j \in 0..(N - 1) /\ d + j < N
          BY <1>0
        <5>2. Advance(WritePos, j) = Advance(ReadPos, d + j)
          BY <1>5, <5>1, AdvanceTwice
        <5>3. m = d + j
          BY <1>5, <4>1, <5>1, <5>2, OneDistance
        <5> QED
          BY <3>2, <5>1, <5>3
      <4> QED
        BY <4>1 DEF Span
    <3> QED
      BY <1>3, <1>5, <3>1, <3>2, <3>3, <3>4, <3>5
  <2>2. CASE k = L + 1
    <3>1. fifo'[k] = p /\ o[k] = d /\ i \in 1..n
      BY <1>3, <1>6, <1>7, <1>8, <1>12, <2>2
    <3>2. PICK j \in 0..(N - 1) : j = i - 1 /\ d + j < N /\ j \in 0..(n - 1)
      BY SMTT(30), <1>0, <3>1
    <3>3. PICK x \in 0..(N - 1) : x = Advance(WritePos, j) /\ x = Advance(ReadPos, d + j)
      <4>1. Advance(WritePos, j) \in 0..(N - 1)
        BY <1>5, AdvanceIs
      <4>2. Advance(WritePos, j) = Advance(ReadPos, d + j)
        BY <1>5, <3>2, AdvanceTwice
      <4> QED
        BY <4>1, <4>2
    <3>4. x \in Span(WritePos, n)
      BY <3>2, <3>3 DEF Span
    <3>5. ring'[x] = p[((x - WritePos) % N) + 1]
      BY <1>3, <1>5, <3>4
    <3>6. (x - WritePos) % N = j
      BY <1>5, <3>3, BackIs
    <3>7. j + 1 = i
      BY <3>1, <3>2
    <3> QED
      BY <3>1, <3>2, <3>3, <3>5, <3>6, <3>7
  <2> QED
    BY <1>2, <2>1, <2>2
<1>13. Laid(o)'
  <2>1. Last' = L + 2 /\ Len(fifo)' = L + 1
    BY <1>7 DEF Last
  <2>2. o[1] = 0
    BY <1>6, <1>8
  <2> QED
    BY ZenonT(60), <1>7, <1>8, <1>9, <1>10, <1>11, <1>12, <2>1, <2>2 DEF Laid
<1> QED
  BY <1>7, <1>13 DEF Ring

\* A packet less.
LEMMA ReleaseRing ==
  ASSUME Positions, Ring, fifo # <<>>, fifo' = Tail(fifo),
         NEW n, n = Len(fifo[1]),
         ReadPos' = Advance(ReadPos, n), WritePos' = WritePos,
         ring' = [i \in DOMAIN ring |->
                    IF i \in Span(ReadPos, n) THEN Free ELSE ring[i]]
  PROVE  /\ Ring'
         /\ n \in 1..(RingBufferSize - 1)
         /\ FreeRoom(ReadPos)' = FreeRoom(ReadPos) + n
<1> DEFINE N == RingBufferSize
<1>1. PICK off : Laid(off)
  BY DEF Ring
<1>2. PICK L \in Nat : L = Len(fifo) /\ L >= 1
  BY FifoFacts
<1>3. /\ Last = L + 1 /\ N \in Nat /\ ReadPos \in 0..(N - 1)
      /\ DOMAIN ring = 0..(N - 1)
  BY <1>2, Constants DEF Last, Positions
<1>4. /\ off \in [1..(L + 1) -> 0..(N - 1)] /\ off[1] = 0
      /\ \A k \in 1..L : off[k + 1] = off[k] + Len(fifo[k])
      /\ \A i, j \in 1..(L + 1) : i < j => off[i] + Len(fifo[i]) <= off[j]
      /\ WritePos = Advance(ReadPos, off[L + 1])
  BY <1>1, <1>2, <1>3 DEF Laid
<1>5. n \in Nat /\ n >= 1 /\ \A k \in 2..(L + 1) : off[k] >= n
  <2>1. n \in Nat /\ n >= 1
    BY <1>2, FifoFacts
  <2>2. \A k \in 2..(L + 1) : off[1] + Len(fifo[1]) <= off[k]
    BY <1>2, <1>4
  <2> QED
    BY <1>4, <2>1, <2>2
<1>6. PICK d \in 0..(N - 1) : d = off[L + 1] /\ d >= n
  BY <1>2, <1>4, <1>5
<1>0. /\ N \in Nat /\ n \in Nat /\ n >= 1 /\ d \in Nat /\ d < N /\ L \in Nat /\ L >= 1
      /\ n <= d /\ n \in 0..(N - 1) /\ d - n \in 0..(N - 1) /\ n + (d - n) = d
  BY SMTT(60), <1>2, <1>3, <1>5, <1>6
<1>7. /\ fifo' \in Seq(Packets) /\ Len(fifo') = L - 1
      /\ \A k \in 1..(L - 1) : fifo'[k] = fifo[k + 1]
  BY <1>2 DEF Ring
<1> DEFINE o == [k \in 1..L |-> off[k + 1] - n]
<1>8. /\ o \in [1..L -> 0..(N - 1)]
      /\ \A k \in 1..L : o[k] = off[k + 1] - n
  <2>1. ASSUME NEW k \in 1..L PROVE off[k + 1] - n \in 0..(N - 1)
    <3>1. k + 1 \in 1..(L + 1) /\ k + 1 \in 2..(L + 1)
      BY <1>0
    <3>2. off[k + 1] \in 0..(N - 1) /\ off[k + 1] >= n
      BY <1>4, <1>5, <3>1
    <3> QED
      BY SMTT(30), <1>0, <3>2
  <2> QED
    BY <2>1
<1> HIDE DEF o
<1>9. o[1] = 0
  BY <1>2, <1>4, <1>5, <1>8
<1>10. \A k \in 1..(L - 1) : o[k + 1] = o[k] + Len(fifo'[k])
  <2> SUFFICES ASSUME NEW k \in 1..(L - 1) PROVE o[k + 1] = o[k] + Len(fifo'[k])
    OBVIOUS
  <2>1. k \in 1..L /\ k + 1 \in 1..L /\ k + 1 \in 1..(L + 1) /\ (k + 1) + 1 \in 1..(L + 1)
    BY <1>0
  <2>2. off[(k + 1) + 1] = off[k + 1] + Len(fifo[k + 1])
    BY <1>4, <2>1
  <2>3. off[k + 1] \in Nat /\ Len(fifo[k + 1]) \in Nat
    <3>1. off[k + 1] \in 0..(N - 1)
      BY <1>4, <2>1
    <3>2. Len(fifo[k + 1]) \in Nat
      BY <1>2, <2>1, FifoFacts
    <3> QED
      BY <3>1, <3>2
  <2>4. o[k + 1] = off[(k + 1) + 1] - n /\ o[k] = off[k + 1] - n
    BY <1>8, <2>1
  <2> QED
    BY SMTT(30), <1>0, <1>7, <2>2, <2>3, <2>4
<1>11. \A i, j \in 1..L : i < j => o[i] + Len(fifo'[i]) <= o[j]
  <2> SUFFICES ASSUME NEW i \in 1..L, NEW j \in 1..L, i < j
               PROVE  o[i] + Len(fifo'[i]) <= o[j]
    OBVIOUS
  <2>1. /\ i + 1 \in 1..L /\ i + 1 \in 1..(L + 1) /\ j + 1 \in 1..(L + 1)
        /\ i + 1 < j + 1 /\ i \in 1..(L - 1)
    BY <1>0
  <2>2. off[i + 1] + Len(fifo[i + 1]) <= off[j + 1]
    BY <1>4, <2>1
  <2>3. off[i + 1] \in Nat /\ off[j + 1] \in Nat /\ Len(fifo[i + 1]) \in Nat
    <3>1. off[i + 1] \in 0..(N - 1) /\ off[j + 1] \in 0..(N - 1)
      BY <1>4, <2>1
    <3>2. Len(fifo[i + 1]) \in Nat
      BY <1>2, <2>1, FifoFacts
    <3> QED
      BY <3>1, <3>2
  <2>4. o[i] = off[i + 1] - n /\ o[j] = off[j + 1] - n /\ fifo'[i] = fifo[i + 1]
    BY <1>7, <1>8, <2>1
  <2>5. PICK a \in Nat, b \in Nat, c \in Nat :
          a = off[i + 1] /\ b = off[j + 1] /\ c = Len(fifo[i + 1])
    BY <2>3
  <2>6. a + c <= b /\ o[i] = a - n /\ o[j] = b - n /\ n \in Nat
    BY <1>0, <2>2, <2>4, <2>5
  <2>7. (a - n) + c <= b - n
    BY ONLY a \in Nat, b \in Nat, c \in Nat, <2>6
  <2> QED
    BY <2>4, <2>5, <2>6, <2>7
<1>12. WritePos' = Advance(ReadPos', o[L])
  <2>1. o[L] = d - n /\ L \in 1..L
    BY <1>0, <1>6, <1>8
  <2>2. Advance(Advance(ReadPos, n), d - n) = Advance(ReadPos, n + (d - n))
    BY <1>3, <1>0, AdvanceTwice
  <2> QED
    BY <1>4, <1>6, <1>0, <2>1, <2>2
<1>13. ASSUME NEW k \in 1..(L - 1), NEW i \in 1..Len(fifo'[k])
       PROVE  ring'[Advance(ReadPos', o[k] + (i - 1))] = fifo'[k][i]
  <2>1. /\ k + 1 \in 1..Len(fifo) /\ k + 1 > 1 /\ k \in 1..L
        /\ fifo'[k] = fifo[k + 1] /\ i \in 1..Len(fifo[k + 1])
    BY <1>2, <1>0, <1>7, <1>13
  <2>2. PICK m \in 0..(N - 1) : m = off[k + 1] + (i - 1) /\ m >= n
    BY <1>1, <2>1, SlotIs
  <2>3. ring[Advance(ReadPos, m)] = fifo[k + 1][i]
    BY <1>1, <2>1, <2>2 DEF Laid
  <2>4. Advance(ReadPos, m) \in 0..(N - 1)
    BY <1>3, AdvanceIs
  <2>5. Advance(ReadPos, m) \notin Span(ReadPos, n)
    <3>1. ASSUME NEW j \in 0..(n - 1), Advance(ReadPos, m) = Advance(ReadPos, j)
          PROVE  FALSE
      <4>1. j \in 0..(N - 1) /\ j < n
        BY SMTT(30), <1>0
      <4>2. m = j
        BY <1>3, <3>1, <4>1, OneDistance
      <4> QED
        BY <1>0, <2>2, <4>1, <4>2
    <3> QED
      BY <3>1 DEF Span
  <2>6. o[k] + (i - 1) = m - n
    <3>1. o[k] = off[k + 1] - n /\ off[k + 1] \in Nat /\ i \in Int
      <4>1. k + 1 \in 1..(L + 1)
        BY <1>0
      <4>2. off[k + 1] \in 0..(N - 1)
        BY <1>4, <4>1
      <4>3. o[k] = off[k + 1] - n
        BY <1>8, <2>1
      <4> QED
        BY <2>1, <4>2, <4>3
    <3>2. PICK a \in Nat : a = off[k + 1]
      BY <3>1
    <3>3. m = a + (i - 1) /\ o[k] = a - n /\ n \in Nat
      BY <1>0, <2>2, <3>1, <3>2
    <3>4. (a - n) + (i - 1) = m - n
      BY <3>1, <3>2, <3>3
    <3> QED
      BY <3>3, <3>4
  <2>7. Advance(ReadPos', m - n) = Advance(ReadPos, m)
    <3>1. m - n \in 0..(N - 1) /\ n + (m - n) = m /\ m < N
      <4>1. N \in Nat /\ n \in Nat /\ m \in 0..(N - 1) /\ m >= n
        BY <1>0, <2>2
      <4> QED
        BY ONLY <4>1
    <3>2. Advance(Advance(ReadPos, n), m - n) = Advance(ReadPos, n + (m - n))
      BY SMTT(30), <1>3, <1>0, <3>1, AdvanceTwice
    <3> QED
      BY <3>1, <3>2
  <2> QED
    BY <1>3, <2>1, <2>3, <2>4, <2>5, <2>6, <2>7
<1>14. Laid(o)'
  <2>1. Last' = L /\ Len(fifo)' = L - 1
    BY <1>7, <1>0 DEF Last
  <2> QED
    BY ZenonT(60), <1>7, <1>8, <1>9, <1>10, <1>11, <1>12, <1>13, <2>1 DEF Laid
<1>15. Ring'
  BY <1>7, <1>14 DEF Ring
<1>16. FreeRoom(ReadPos)' = FreeRoom(ReadPos) + n
  <2>1. FreeRoom(ReadPos) = N - d
    BY <1>1, <1>3, <1>6, Room
  <2>2. ReadPos' \in 0..(N - 1)
    BY <1>3, <1>0, AdvanceIs
  <2>3. WritePos = IF ReadPos + d < N THEN ReadPos + d ELSE ReadPos + d - N
    BY <1>3, <1>4, <1>6, AdvanceIs
  <2>4. ReadPos' = IF ReadPos + n < N THEN ReadPos + n ELSE ReadPos + n - N
    BY <1>3, <1>0, AdvanceIs
  <2>5. FreeRoom(ReadPos)' = IF WritePos < ReadPos' THEN ReadPos' - WritePos
                                                    ELSE N - (WritePos - ReadPos')
    BY DEF FreeRoom
  <2>6. FreeRoom(ReadPos)' = N - (d - n)
    <3>1. /\ N \in Nat /\ n \in Nat /\ n >= 1 /\ d \in Nat /\ d < N /\ n <= d
          /\ ReadPos \in 0..(N - 1)
      BY <1>3, <1>0
    <3>2. CASE ReadPos + n < N
      <4>1. ReadPos' = ReadPos + n
        BY <2>4, <3>2
      <4>2. CASE ReadPos + d < N
        <5>1. WritePos = ReadPos + d /\ ~(WritePos < ReadPos')
          BY <2>3, <3>1, <4>1, <4>2
        <5> QED
          BY <2>5, <3>1, <4>1, <5>1
      <4>3. CASE ~(ReadPos + d < N)
        <5>1. WritePos = ReadPos + d - N /\ WritePos < ReadPos'
          BY <2>3, <3>1, <4>1, <4>3
        <5> QED
          BY <2>5, <3>1, <4>1, <5>1
      <4> QED
        BY <4>2, <4>3
    <3>3. CASE ~(ReadPos + n < N)
      <4>1. /\ ReadPos' = ReadPos + n - N /\ WritePos = ReadPos + d - N
            /\ ~(WritePos < ReadPos')
        BY <2>3, <2>4, <3>1, <3>3
      <4> QED
        BY <2>5, <3>1, <4>1
    <3> QED
      BY <3>2, <3>3
  <2> QED
    BY <1>0, <2>1, <2>6
<1> QED
  BY <1>15, <1>16, <1>0

-----------------------------------------------------------------------------
(* The invariant.                                                          *)

\* The GS thread, and the packet in its hands.
InPlace ==
  /\ gs \in {"look", "asleep", "drain", "exec", "vsync", "vsyncSignal",
             "signal", "ringValve", "valve"}
  /\ Executing \/ gs = "signal" => Len(got) \in 1..(VsyncPayload + 1)

\* The EE thread.
Places ==
  /\ ee \in {"run", "stall", "enable", "stallKick", "ringWait", "spinKick",
             "spin", "publish", "kick", "count", "listen", "vsyncWait",
             "syncKick", "empty", "emptyWait", "synced", "clear"}
  /\ cmd \in AllRequests \cup {"GameChanged", "none"}
  /\ CopyDataTally \in Nat /\ nextId \in Ids /\ QueuedFrameCount \in Int
  /\ ee \in {"stall", "enable", "stallKick", "ringWait", "spinKick", "spin", "publish"}
       => cmd \notin {"none", "WaitGS", "BootReset"}

\* The answer to a wait for empty, once and only for who waits.
Events ==
  /\ event \in {"parked", "running0", "runningN"}
  /\ emptyFlag \in BOOLEAN /\ emptyToken \in 0..1
  /\ event = "parked" => gs = "asleep"
  /\ emptyFlag => ee = "emptyWait" /\ emptyToken = 0
  /\ emptyToken = 1 => ee = "emptyWait"

\* The request or the token, and only for an EE that is about to wait.
Signals ==
  /\ SignalRingEnable \in BOOLEAN /\ SignalRingPosition \in Int
  /\ OnRingReset \in 0..1
  /\ ee \in {"stallKick", "ringWait"} => OnRingReset = IF SignalRingEnable THEN 0 ELSE 1
  /\ ee \notin {"stallKick", "ringWait"} => ~SignalRingEnable /\ OnRingReset = 0
  /\ OnRingReset = 1 => SignalRingPosition <= 0

\* Likewise for the throttle.
Throttle ==
  /\ VsyncSignalListener \in BOOLEAN /\ VsyncSem \in 0..1
  /\ VsyncSignalListener => ee = "vsyncWait" /\ VsyncSem = 0
  /\ VsyncSem = 1 => ee = "vsyncWait"

\* What no reset disturbs.
Always ==
  /\ Positions /\ InPlace /\ Places /\ Events /\ Signals /\ Throttle
  /\ dangling \in BOOLEAN /\ astray \in BOOLEAN

\* What the GS thread has in hand is the first of what is due.
InHand ==
  /\ Executing => fifo # <<>> /\ got = Head(fifo)
  /\ gs = "signal" => got \in Packets

\* The EE has its room.
Roomy == ee = "publish" => FreeRoom(ReadPos) > PacketSize(cmd)

Working == gs \in {"drain", "exec", "vsync", "vsyncSignal", "signal"}

\* Nothing is due where the worker is idle and the EE has said all there is.
Drained ==
  /\ ee \in {"empty", "emptyWait"} /\ fifo # <<>> => event = "runningN" \/ Working
  /\ ee = "synced" \/ emptyToken = 1 => fifo = <<>>

IInv ==
  /\ Positions /\ InPlace /\ Places /\ Events /\ Signals /\ Throttle
  /\ Ring /\ InHand /\ Roomy /\ Drained

LEMMA TypesFollow == Always => TypeOK
  BY DEF Always, TypeOK, Positions, InPlace, Places, Events, Signals, Throttle, Slots, Ids

LEMMA HeadFacts ==
  ASSUME Ring, fifo # <<>>
  PROVE  /\ Head(fifo) = fifo[1] /\ Head(fifo) \in Packets
         /\ Len(Head(fifo)) \in 1..(VsyncPayload + 1)
<1>1. Len(fifo) \in Nat /\ Len(fifo) >= 1 /\ 1 \in 1..Len(fifo)
  BY FifoFacts
<1>2. Head(fifo) = fifo[1]
  BY DEF Ring
<1> QED
  BY <1>1, <1>2, FifoFacts

LEMMA RoomIs ==
  ASSUME Positions, Ring
  PROVE  /\ FreeRoom(ReadPos) \in 1..RingBufferSize
         /\ ReadPos = WritePos <=> fifo = <<>>
         /\ fifo = <<>> => FreeRoom(ReadPos) = RingBufferSize
<1>1. PICK off : Laid(off)
  BY DEF Ring
<1>2. /\ off[Last] \in 0..(RingBufferSize - 1)
      /\ FreeRoom(ReadPos) = RingBufferSize - off[Last]
      /\ ReadPos = WritePos <=> fifo = <<>>
  BY <1>1, Room
<1>3. FreeRoom(ReadPos) \in 1..RingBufferSize
  BY <1>2, Constants
<1>4. fifo = <<>> => FreeRoom(ReadPos) = RingBufferSize
  <2>1. ReadPos \in 0..(RingBufferSize - 1)
    BY DEF Positions
  <2>2. fifo = <<>> => WritePos = ReadPos /\ ~(WritePos < ReadPos)
    BY <1>2, <2>1
  <2> QED
    BY <2>1, <2>2, Constants DEF FreeRoom
<1> QED
  BY <1>2, <1>3, <1>4

\* The GS thread finds the first packet where it is.
LEMMA PacketAtReader ==
  ASSUME Positions, Ring, fifo # <<>>
  PROVE  PacketAt(ReadPos) = Head(fifo) /\ ring[ReadPos][1] = Head(fifo)[1][1]
<1> DEFINE N == RingBufferSize
           p == Head(fifo)
<1>1. PICK off : Laid(off)
  BY DEF Ring
<1>2. /\ p = fifo[1] /\ p \in Packets /\ 1 \in 1..Len(fifo) /\ off[1] = 0
      /\ ReadPos \in 0..(N - 1)
  BY <1>1, HeadFacts, FifoFacts DEF Laid, Positions
<1>3. p \in [1..Len(p) -> Slots] /\ Len(p) \in Nat /\ Len(p) >= 1
      /\ PacketSize(p[1][1]) = Len(p)
  BY <1>2, PacketFacts
<1> HIDE DEF p
<1>4. ASSUME NEW i \in 1..Len(p) PROVE ring[Advance(ReadPos, i - 1)] = p[i]
  <2>1. ring[Advance(ReadPos, off[1] + (i - 1))] = fifo[1][i]
    BY <1>1, <1>2 DEF Laid
  <2>2. off[1] + (i - 1) = i - 1
    BY <1>2, <1>3
  <2> QED
    BY <1>2, <2>1, <2>2
<1>5. Advance(ReadPos, 0) = ReadPos
  <2>1. 0 \in 0..(N - 1) /\ ReadPos + 0 = ReadPos /\ ReadPos < N
    BY <1>2, Constants
  <2> QED
    BY <1>2, <2>1, AdvanceIs
<1>6. ring[ReadPos] = p[1]
  <2>1. 1 \in 1..Len(p) /\ 1 - 1 = 0
    BY <1>3
  <2>2. ring[Advance(ReadPos, 1 - 1)] = p[1]
    BY <1>4, <2>1
  <2> QED
    BY <1>5, <2>1, <2>2
<1>7. PacketAt(ReadPos) = [i \in 1..Len(p) |-> ring[Advance(ReadPos, i - 1)]]
  BY <1>3, <1>6 DEF PacketAt
<1>8. PacketAt(ReadPos) = [i \in 1..Len(p) |-> p[i]]
  BY <1>4, <1>7
<1> QED
  BY <1>3, <1>6, <1>8 DEF p

-----------------------------------------------------------------------------
(* The steps, conjunct by conjunct.                                        *)

LEMMA RingStands ==
  ASSUME Ring, ring' = ring, ReadPos' = ReadPos, WritePos' = WritePos, fifo' = fifo
  PROVE  Ring' /\ FreeRoom(ReadPos)' = FreeRoom(ReadPos)
<1>1. PICK off : Laid(off)
  BY DEF Ring
<1>2. Laid(off)'
  BY <1>1 DEF Laid, Last
<1> QED
  BY <1>2 DEF Ring, FreeRoom

\* What Publish makes.
LEMMA ToPublish ==
  ASSUME IInv, Publish
  PROVE  /\ Command(cmd) \in Commands /\ nextId \in Ids
         /\ Packet(Command(cmd), nextId) \in Packets
         /\ Len(Packet(Command(cmd), nextId)) = PacketSize(cmd)
         /\ Len(Packet(Command(cmd), nextId)) < FreeRoom(ReadPos)
<1>1. Command(cmd) \in Commands /\ nextId \in Ids /\ PacketSize(Command(cmd)) = PacketSize(cmd)
  BY DEF IInv, Places, Command, Commands, PacketSize
<1>2. Packet(Command(cmd), nextId) \in Packets
  BY <1>1 DEF Packets
<1>3. Len(Packet(Command(cmd), nextId)) = PacketSize(cmd)
  BY <1>1, PacketIs
<1>4. PacketSize(cmd) < FreeRoom(ReadPos)
  BY Constants, RoomIs DEF IInv, Roomy, Publish, PacketSize
<1> QED
  BY <1>1, <1>2, <1>3, <1>4

\* The first packet is done.
LEMMA FirstDone ==
  ASSUME IInv, AdvanceReadPos
  PROVE  /\ fifo # <<>> /\ got = fifo[1] /\ got \in Packets
         /\ Len(got) \in 1..(VsyncPayload + 1)
         /\ fifo' = Tail(fifo)
         /\ Ring' /\ FreeRoom(ReadPos)' = FreeRoom(ReadPos) + Len(got)
         /\ ReadPos' \in 0..(RingBufferSize - 1)
<1>1. /\ fifo # <<>> /\ got = Head(fifo) /\ got = fifo[1] /\ got \in Packets
      /\ Len(got) \in 1..(VsyncPayload + 1)
  BY HeadFacts DEF IInv, InHand, Executing, AdvanceReadPos
<1>2. /\ fifo' = Tail(fifo) /\ ReadPos' = Advance(ReadPos, Len(got))
      /\ WritePos' = WritePos
      /\ ring' = [i \in DOMAIN ring |->
                    IF i \in Span(ReadPos, Len(got)) THEN Free ELSE ring[i]]
  BY <1>1 DEF AdvanceReadPos
<1>3. Ring' /\ FreeRoom(ReadPos)' = FreeRoom(ReadPos) + Len(got)
      /\ Len(got) \in 1..(RingBufferSize - 1)
  BY <1>1, <1>2, ReleaseRing DEF IInv
<1>4. ReadPos' \in 0..(RingBufferSize - 1)
  BY <1>2, <1>3, AdvanceIs, Constants DEF IInv, Positions
<1> QED
  BY <1>1, <1>2, <1>3, <1>4

\* A reset that finds nothing due changes nothing.
LEMMA ResetIsIdle ==
  ASSUME IInv, ResetGS, ~astray'
  PROVE  /\ fifo = <<>> /\ fifo' = fifo /\ ring' = ring
         /\ ReadPos' = ReadPos /\ WritePos' = WritePos /\ ~Executing
<1>1. fifo = <<>>
  BY DEF ResetGS
<1>2. ReadPos = WritePos
  BY <1>1, RoomIs DEF IInv
<1>3. ~Executing
  BY <1>1 DEF IInv, InHand
<1> QED
  BY <1>1, <1>2, <1>3 DEF ResetGS

\* Where the EE goes on.
LEMMA Onward ==
  ASSUME Places, Positions
  PROVE  /\ ee = "publish" => \A t : AfterPublish(t) \in {"kick", "syncKick", "run"}
         /\ \A n \in Nat : StallPoint(n) \in Int /\ StallPoint(n) >= n + 1
         /\ PacketSize(cmd) \in 1..(VsyncPayload + 1) /\ PacketSize(cmd) \in Nat
<1>1. ee = "publish" => \A t : AfterPublish(t) \in {"kick", "syncKick", "run"}
  BY DEF Places, AfterPublish, AllRequests
<1>2. \A n \in Nat : StallPoint(n) \in Int /\ StallPoint(n) >= n + 1
  <2>1. FreeRoom(ReadPos) \in Int
    BY Constants DEF Positions, FreeRoom
  <2>2. PICK d \in Int : d = (RingBufferSize - FreeRoom(ReadPos)) \div 4
    BY <2>1, Constants
  <2> QED
    BY <2>2 DEF StallPoint
<1>3. PacketSize(cmd) \in 1..(VsyncPayload + 1) /\ PacketSize(cmd) \in Nat
  BY Constants DEF PacketSize
<1> QED
  BY <1>1, <1>2, <1>3

\* The ring changes in three steps only.
LEMMA Elsewhere ==
  ASSUME [Next]_vars, ~Publish, ~AdvanceReadPos, ~ResetGS
  PROVE  ring' = ring /\ ReadPos' = ReadPos /\ WritePos' = WritePos /\ fifo' = fifo
<1> USE DEF posVars, history, EESet, EEKick, GSSet
<1>1. ASSUME NEW r \in Requests, Request(r) PROVE UNCHANGED <<posVars, fifo>>
  BY <1>1 DEF Request
<1>2. CASE EEStep
  BY <1>2 DEF EEStep, Stall, StallEnable, StallKick, RingWait, SpinKick, Spin,
              Kick, CountFrame, Listen, VsyncWait, SyncKick, WaitForEmpty, EmptyWake,
              Synced
<1>3. CASE GSStep
  BY <1>3 DEF GSStep, CheckForWork, WaitForWork, Awake, ReadPacket, VsyncDone,
              VsyncSignal, RingSignal, SeenEmpty, RingValve, VsyncValve
<1>4. CASE UNCHANGED vars
  BY <1>4 DEF vars
<1> QED
  BY <1>1, <1>2, <1>3, <1>4 DEF Next

LEMMA NextRing ==
  ASSUME IInv, [Next]_vars, ~astray'
  PROVE  Ring'
<1>1. CASE Publish
  <2> DEFINE p == Packet(Command(cmd), nextId)
  <2>1. p \in Packets /\ Len(p) < FreeRoom(ReadPos) /\ Positions /\ Ring
    BY <1>1, ToPublish DEF IInv
  <2>2. /\ fifo' = Append(fifo, p) /\ ReadPos' = ReadPos
        /\ WritePos' = Advance(WritePos, Len(p))
        /\ ring' = [i \in DOMAIN ring |->
                      IF i \in Span(WritePos, Len(p))
                      THEN p[((i - WritePos) % RingBufferSize) + 1] ELSE ring[i]]
    BY <1>1 DEF Publish
  <2> HIDE DEF p
  <2> QED
    BY <2>1, <2>2, PublishRing
<1>2. CASE AdvanceReadPos
  BY <1>2, FirstDone
<1>3. CASE ResetGS
  BY <1>3, ResetIsIdle, RingStands DEF IInv
<1>4. CASE ~Publish /\ ~AdvanceReadPos /\ ~ResetGS
  BY <1>4, Elsewhere, RingStands DEF IInv
<1> QED
  BY <1>1, <1>2, <1>3, <1>4

LEMMA NextPositions ==
  ASSUME Always, [Next]_vars
  PROVE  Positions'
<1>0. Positions
  BY DEF Always
<1>1. CASE Publish
  <2> DEFINE p == Packet(Command(cmd), nextId)
  <2>1. p \in [1..Len(p) -> Slots] /\ Len(p) \in Nat /\ Len(p) < RingBufferSize
    <3>1. Command(cmd) \in Commands /\ nextId \in Ids
      BY DEF Always, Places, Command, Commands
    <3>2. p \in Packets
      BY <3>1 DEF Packets
    <3>3. p \in [1..Len(p) -> Slots] /\ Len(p) \in 1..(VsyncPayload + 1)
      BY <3>2, PacketFacts
    <3> HIDE DEF p
    <3> QED
      BY <3>3, Constants
  <2>2. WritePos' = Advance(WritePos, Len(p)) /\ ReadPos' = ReadPos
        /\ ring' = [i \in DOMAIN ring |->
                      IF i \in Span(WritePos, Len(p))
                      THEN p[((i - WritePos) % RingBufferSize) + 1] ELSE ring[i]]
    BY <1>1 DEF Publish
  <2> HIDE DEF p
  <2>3. WritePos' \in 0..(RingBufferSize - 1)
    BY <1>0, <2>1, <2>2, AdvanceIs, Constants DEF Positions
  <2>4. ASSUME NEW i \in Span(WritePos, Len(p))
        PROVE  p[((i - WritePos) % RingBufferSize) + 1] \in Slots
    <3>1. PICK j \in 0..(Len(p) - 1) : i = Advance(WritePos, j)
      BY DEF Span
    <3>2. j \in 0..(RingBufferSize - 1) /\ WritePos \in 0..(RingBufferSize - 1)
      BY <1>0, <2>1, <3>1, Constants DEF Positions
    <3>3. (i - WritePos) % RingBufferSize = j
      BY <3>1, <3>2, BackIs
    <3>4. j + 1 \in 1..Len(p)
      BY <2>1, <3>1
    <3> QED
      BY <2>1, <3>3, <3>4
  <2> QED
    BY <1>0, <2>2, <2>3, <2>4 DEF Positions
<1>2. CASE AdvanceReadPos
  <2>1. Free \in Slots
    BY Constants DEF Free, Slots, Ids
  <2>2. ReadPos' \in 0..(RingBufferSize - 1) /\ WritePos' = WritePos
    <3>1. gs = "exec" /\ Len(got) \in 0..(RingBufferSize - 1)
      BY <1>2, Constants DEF AdvanceReadPos, Always, InPlace, Executing
    <3> QED
      BY <1>0, <1>2, <3>1, AdvanceIs DEF AdvanceReadPos, Positions
  <2>3. ring' = [i \in DOMAIN ring |->
                   IF i \in Span(ReadPos, Len(got)) THEN Free ELSE ring[i]]
    BY <1>2 DEF AdvanceReadPos
  <2> QED
    BY <1>0, <2>1, <2>2, <2>3 DEF Positions
<1>3. CASE ResetGS
  BY <1>0, <1>3 DEF ResetGS, Positions
<1>4. CASE ~Publish /\ ~AdvanceReadPos /\ ~ResetGS
  BY <1>0, <1>4, Elsewhere DEF Positions
<1> QED
  BY <1>1, <1>2, <1>3, <1>4

\* The full-ring signal.
LEMMA NextSignals ==
  ASSUME Always, [Next]_vars
  PROVE  Signals'
<1> USE DEF Signals,
         vars, posVars, signalVars, vsyncVars, eventVars, eeVars, gsVars, history,
         EEGo, EESet, EEKick, SetEvent, GSSet
<1>0. Signals /\ Places /\ Positions
  BY DEF Always
<1>1. ASSUME NEW r \in Requests, Request(r) PROVE Signals'
  BY <1>0, <1>1 DEF Request, AllRequests
<1>2. CASE Stall
  BY <1>0, <1>2, Onward DEF Stall
<1>3. CASE StallEnable
  BY <1>0, <1>3 DEF StallEnable
<1>4. CASE StallKick
  BY <1>0, <1>4 DEF StallKick
<1>5. CASE RingWait
  BY <1>0, <1>5 DEF RingWait
<1>6. CASE SpinKick
  BY <1>0, <1>6 DEF SpinKick
<1>7. CASE Spin
  BY <1>0, <1>7 DEF Spin
<1>8. CASE Publish
  BY <1>0, <1>8, Onward DEF Publish
<1>9. CASE Kick
  BY <1>0, <1>9 DEF Kick, AfterKick
<1>10. CASE CountFrame
  BY <1>0, <1>10 DEF CountFrame
<1>11. CASE Listen
  BY <1>0, <1>11 DEF Listen
<1>12. CASE VsyncWait
  BY <1>0, <1>12 DEF VsyncWait
<1>13. CASE SyncKick
  BY <1>0, <1>13 DEF SyncKick
<1>14. CASE WaitForEmpty
  BY <1>0, <1>14 DEF WaitForEmpty
<1>15. CASE EmptyWake
  BY <1>0, <1>15 DEF EmptyWake
<1>16. CASE ResetGS
  BY <1>0, <1>16 DEF ResetGS
<1>17. CASE CheckForWork
  BY <1>0, <1>17 DEF CheckForWork
<1>18. CASE WaitForWork
  BY <1>0, <1>18 DEF WaitForWork
<1>19. CASE Awake
  BY <1>0, <1>19 DEF Awake
<1>20. CASE ReadPacket
  BY <1>0, <1>20 DEF ReadPacket
<1>21. CASE VsyncDone
  BY <1>0, <1>21 DEF VsyncDone
<1>22. CASE VsyncSignal
  BY <1>0, <1>22 DEF VsyncSignal
<1>23. CASE AdvanceReadPos
  BY <1>0, <1>23 DEF AdvanceReadPos
<1>24. CASE RingSignal
  <2>1. CASE ~SignalRingEnable
    BY <1>0, <1>24, <2>1 DEF RingSignal
  <2>2. CASE SignalRingEnable
    <3>1. ee \in {"stallKick", "ringWait"} /\ OnRingReset = 0
      BY <1>0, <2>2
    <3>2. SignalRingPosition' = SignalRingPosition - Len(got) /\ ee' = ee
      BY <1>24, <2>2 DEF RingSignal
    <3>3. Len(got) \in Int /\ Len(got) >= 0
      BY <1>24, Constants DEF RingSignal, Always, InPlace
    <3>4. SignalRingPosition' \in Int
      BY <1>0, <3>2, <3>3
    <3>5. CASE SignalRingPosition <= 0
      <4>1. SignalRingEnable' = FALSE /\ OnRingReset' = 1
        BY <1>24, <2>2, <3>1, <3>5 DEF RingSignal
      <4>2. SignalRingEnable' \in BOOLEAN /\ (IF SignalRingEnable' THEN 0 ELSE 1) = 1
        BY <4>1, Zenon
      <4>3. SignalRingPosition' <= 0
        BY <1>0, <3>2, <3>3, <3>5
      <4> QED
        BY <3>1, <3>2, <3>4, <4>1, <4>2, <4>3
    <3>6. CASE ~(SignalRingPosition <= 0)
      <4>1. SignalRingEnable' = SignalRingEnable /\ OnRingReset' = OnRingReset
        BY <1>24, <2>2, <3>6 DEF RingSignal
      <4> QED
        BY <1>0, <2>2, <3>1, <3>2, <3>4, <4>1
    <3> QED
      BY <3>5, <3>6
  <2> QED
    BY <2>1, <2>2
<1>25. CASE RingValve
  <2>1. SignalRingEnable' = FALSE /\ ee' = ee
    BY <1>25 DEF RingValve
  <2>2. CASE ~SignalRingEnable
    <3>1. SignalRingPosition' = SignalRingPosition /\ OnRingReset' = OnRingReset
      BY <1>25, <2>2 DEF RingValve
    <3> QED
      BY <1>0, <2>1, <2>2, <3>1
  <2>3. CASE SignalRingEnable
    <3>1. ee \in {"stallKick", "ringWait"} /\ OnRingReset = 0
      BY <1>0, <2>3
    <3>2. SignalRingPosition' = 0 /\ OnRingReset' = 1
      BY <1>25, <2>3, <3>1 DEF RingValve
    <3>3. SignalRingEnable' \in BOOLEAN /\ (IF SignalRingEnable' THEN 0 ELSE 1) = 1
      BY <2>1, Zenon
    <3> QED
      BY <2>1, <3>1, <3>2, <3>3
  <2> QED
    BY <2>2, <2>3
<1>26. CASE VsyncValve
  BY <1>0, <1>26 DEF VsyncValve
<1>27. CASE SeenEmpty
  BY <1>0, <1>27 DEF SeenEmpty
<1>28. CASE Synced
  BY <1>0, <1>28 DEF Synced
<1>29. CASE UNCHANGED vars
  BY <1>0, <1>29 DEF vars
<1> QED
  BY <1>1, <1>2, <1>3, <1>4, <1>5, <1>6, <1>7, <1>8, <1>9, <1>10, <1>11, <1>12,
     <1>13, <1>14, <1>15, <1>16, <1>17, <1>18, <1>19, <1>20, <1>21, <1>22,
     <1>23, <1>24, <1>25, <1>26, <1>27, <1>28, <1>29
     DEF Next, EEStep, GSStep

\* The throttle.
LEMMA NextThrottle ==
  ASSUME Always, [Next]_vars
  PROVE  Throttle'
<1> USE DEF Throttle, SignalVsync,
         vars, posVars, signalVars, vsyncVars, eventVars, eeVars, gsVars, history,
         EEGo, EESet, EEKick, SetEvent, GSSet
<1>0. Throttle
  BY DEF Always
<1>1. ASSUME NEW r \in Requests, Request(r) PROVE Throttle'
  BY <1>0, <1>1 DEF Request, AllRequests
<1>2. CASE Stall
  BY <1>0, <1>2 DEF Stall
<1>3. CASE StallEnable
  BY <1>0, <1>3 DEF StallEnable
<1>4. CASE StallKick
  BY <1>0, <1>4 DEF StallKick
<1>5. CASE RingWait
  BY <1>0, <1>5 DEF RingWait
<1>6. CASE SpinKick
  BY <1>0, <1>6 DEF SpinKick
<1>7. CASE Spin
  BY <1>0, <1>7 DEF Spin
<1>8. CASE Publish
  BY <1>0, <1>8 DEF Publish
<1>9. CASE Kick
  BY <1>0, <1>9 DEF Kick
<1>10. CASE CountFrame
  BY <1>0, <1>10 DEF CountFrame
<1>11. CASE Listen
  BY <1>0, <1>11 DEF Listen
<1>12. CASE VsyncWait
  BY <1>0, <1>12 DEF VsyncWait
<1>13. CASE SyncKick
  BY <1>0, <1>13 DEF SyncKick
<1>14. CASE WaitForEmpty
  BY <1>0, <1>14 DEF WaitForEmpty
<1>15. CASE EmptyWake
  BY <1>0, <1>15 DEF EmptyWake
<1>16. CASE ResetGS
  BY <1>0, <1>16 DEF ResetGS
<1>17. CASE CheckForWork
  BY <1>0, <1>17 DEF CheckForWork
<1>18. CASE WaitForWork
  BY <1>0, <1>18 DEF WaitForWork
<1>19. CASE Awake
  BY <1>0, <1>19 DEF Awake
<1>20. CASE ReadPacket
  BY <1>0, <1>20 DEF ReadPacket
<1>21. CASE VsyncDone
  BY <1>0, <1>21 DEF VsyncDone
<1>22. CASE VsyncSignal
  <2>1. VsyncSignalListener' = FALSE /\ ee' = ee
    BY <1>22 DEF VsyncSignal
  <2>2. CASE VsyncSignalListener
    <3>1. ee = "vsyncWait" /\ VsyncSem = 0
      BY <1>0, <2>2
    <3>2. VsyncSem' = 1
      BY <1>22, <2>2, <3>1 DEF VsyncSignal
    <3>3. VsyncSignalListener' \in BOOLEAN /\ ~VsyncSignalListener'
      BY <2>1, Zenon
    <3> QED
      BY <2>1, <3>1, <3>2, <3>3
  <2>3. CASE ~VsyncSignalListener
    <3>1. VsyncSem' = VsyncSem
      BY <1>22, <2>3 DEF VsyncSignal
    <3> QED
      BY <1>0, <2>1, <3>1
  <2> QED
    BY <2>2, <2>3
<1>23. CASE AdvanceReadPos
  BY <1>0, <1>23 DEF AdvanceReadPos
<1>24. CASE RingSignal
  BY <1>0, <1>24 DEF RingSignal
<1>25. CASE RingValve
  BY <1>0, <1>25 DEF RingValve
<1>26. CASE VsyncValve
  <2>1. VsyncSignalListener' = FALSE /\ ee' = ee
    BY <1>26 DEF VsyncValve
  <2>2. CASE VsyncSignalListener
    <3>1. ee = "vsyncWait" /\ VsyncSem = 0
      BY <1>0, <2>2
    <3>2. VsyncSem' = 1
      BY <1>26, <2>2, <3>1 DEF VsyncValve
    <3>3. VsyncSignalListener' \in BOOLEAN /\ ~VsyncSignalListener'
      BY <2>1, Zenon
    <3> QED
      BY <2>1, <3>1, <3>2, <3>3
  <2>3. CASE ~VsyncSignalListener
    <3>1. VsyncSem' = VsyncSem
      BY <1>26, <2>3 DEF VsyncValve
    <3> QED
      BY <1>0, <2>1, <3>1
  <2> QED
    BY <2>2, <2>3
<1>27. CASE SeenEmpty
  BY <1>0, <1>27 DEF SeenEmpty
<1>28. CASE Synced
  BY <1>0, <1>28 DEF Synced
<1>29. CASE UNCHANGED vars
  BY <1>0, <1>29 DEF vars
<1> QED
  BY <1>1, <1>2, <1>3, <1>4, <1>5, <1>6, <1>7, <1>8, <1>9, <1>10, <1>11, <1>12,
     <1>13, <1>14, <1>15, <1>16, <1>17, <1>18, <1>19, <1>20, <1>21, <1>22,
     <1>23, <1>24, <1>25, <1>26, <1>27, <1>28, <1>29
     DEF Next, EEStep, GSStep

\* The EE thread, and its room.
LEMMA NextPlaces ==
  ASSUME Always, [Next]_vars
  PROVE  Places'
<1> USE DEF Places,
         vars, posVars, signalVars, vsyncVars, eventVars, eeVars, gsVars, history,
         EEGo, EESet, EEKick, SetEvent, GSSet
<1>0. Places /\ Positions /\ Requests \subseteq AllRequests
  BY MTGSAssumption DEF Always
<1>1. ASSUME NEW r \in Requests, Request(r) PROVE Places'
  BY <1>0, <1>1 DEF Request, AllRequests
<1>2. CASE Stall
  BY <1>0, <1>2 DEF Stall
<1>3. CASE StallEnable
  BY <1>0, <1>3 DEF StallEnable
<1>4. CASE StallKick
  BY <1>0, <1>4 DEF StallKick
<1>5. CASE RingWait
  BY <1>0, <1>5 DEF RingWait
<1>6. CASE SpinKick
  BY <1>0, <1>6 DEF SpinKick
<1>7. CASE Spin
  BY <1>0, <1>7 DEF Spin
<1>8. CASE Publish
  <2>1. ee' \in {"kick", "syncKick", "run"} /\ cmd' \in AllRequests \cup {"GameChanged", "none"}
    BY <1>0, <1>8, Onward DEF Publish
  <2>2. nextId' \in Ids
    <3>1. nextId + 1 \in Int /\ IdMod \in Nat /\ IdMod > 0
      BY <1>0, Constants DEF Ids
    <3>2. (nextId + 1) % IdMod \in 0..(IdMod - 1)
      BY <3>1
    <3> QED
      BY <1>8, <3>2 DEF Publish, Ids
  <2>3. CopyDataTally' \in Nat
    <3>1. PICK w \in (IF cmd = "GSPacket" THEN Weights ELSE {0}) :
            CopyDataTally' = CopyDataTally + w + (IF cmd = "VSync" THEN VsyncPayload ELSE 1)
      BY <1>8 DEF Publish
    <3>2. w \in Nat
      BY MTGSAssumption
    <3> QED
      BY <1>0, <3>1, <3>2, Constants
  <2>4. QueuedFrameCount' \in Int
    BY <1>0, <1>8 DEF Publish
  <2> QED
    BY <2>1, <2>2, <2>3, <2>4
<1>9. CASE Kick
  BY <1>0, <1>9 DEF Kick, AfterKick
<1>10. CASE CountFrame
  BY <1>0, <1>10 DEF CountFrame
<1>11. CASE Listen
  BY <1>0, <1>11 DEF Listen
<1>12. CASE VsyncWait
  BY <1>0, <1>12 DEF VsyncWait
<1>13. CASE SyncKick
  BY <1>0, <1>13 DEF SyncKick
<1>14. CASE WaitForEmpty
  BY <1>0, <1>14 DEF WaitForEmpty
<1>15. CASE EmptyWake
  BY <1>0, <1>15 DEF EmptyWake
<1>16. CASE ResetGS
  BY <1>0, <1>16 DEF ResetGS, AllRequests
<1>17. CASE CheckForWork
  BY <1>0, <1>17 DEF CheckForWork
<1>18. CASE WaitForWork
  BY <1>0, <1>18 DEF WaitForWork
<1>19. CASE Awake
  BY <1>0, <1>19 DEF Awake
<1>20. CASE ReadPacket
  BY <1>0, <1>20 DEF ReadPacket
<1>21. CASE VsyncDone
  BY <1>0, <1>21 DEF VsyncDone
<1>22. CASE VsyncSignal
  BY <1>0, <1>22 DEF VsyncSignal, SignalVsync
<1>23. CASE AdvanceReadPos
  BY <1>0, <1>23 DEF AdvanceReadPos
<1>24. CASE RingSignal
  BY <1>0, <1>24 DEF RingSignal
<1>25. CASE RingValve
  BY <1>0, <1>25 DEF RingValve
<1>26. CASE VsyncValve
  BY <1>0, <1>26 DEF VsyncValve, SignalVsync
<1>27. CASE SeenEmpty
  BY <1>0, <1>27 DEF SeenEmpty
<1>28. CASE Synced
  BY <1>0, <1>28 DEF Synced, AllRequests
<1>29. CASE UNCHANGED vars
  BY <1>0, <1>29 DEF vars
<1> QED
  BY <1>1, <1>2, <1>3, <1>4, <1>5, <1>6, <1>7, <1>8, <1>9, <1>10, <1>11, <1>12,
     <1>13, <1>14, <1>15, <1>16, <1>17, <1>18, <1>19, <1>20, <1>21, <1>22,
     <1>23, <1>24, <1>25, <1>26, <1>27, <1>28, <1>29
     DEF Next, EEStep, GSStep

\* The packet in hand.
\* The packet in the GS thread's hands.
LEMMA NextInPlace ==
  ASSUME Always, [Next]_vars
  PROVE  InPlace'
<1>0. InPlace
  BY DEF Always
<1>1. CASE GSStep
  <2> USE DEF InPlace, Executing, GSSet
  <2>1. CASE ReadPacket
    <3> DEFINE n == PacketSize(ring[ReadPos][1])
    <3>1. n \in 1..(VsyncPayload + 1) /\ n \in Nat
      BY Constants DEF PacketSize
    <3>2. ASSUME NEW i \in 1..n PROVE ring[Advance(ReadPos, i - 1)] \in Slots
      <4>1. i - 1 \in 0..(RingBufferSize - 1)
        BY <3>1, Constants
      <4>2. Advance(ReadPos, i - 1) \in 0..(RingBufferSize - 1)
        BY <4>1, AdvanceIs DEF Always, Positions
      <4> QED
        BY <4>2 DEF Always, Positions
    <3>3. PacketAt(ReadPos) \in [1..n -> Slots]
      <4>1. PacketAt(ReadPos) = [i \in 1..n |-> ring[Advance(ReadPos, i - 1)]]
        BY DEF PacketAt
      <4> HIDE DEF n
      <4> QED
        BY <3>2, <4>1
    <3> HIDE DEF n
    <3>4. Len(PacketAt(ReadPos)) = n
      <4>1. PacketAt(ReadPos) \in Seq(Slots)
        BY <3>1, <3>3
      <4> QED
        BY <3>1, <3>3, <4>1
    <3> QED
      BY <2>1, <3>1, <3>4 DEF ReadPacket
  <2>2. CASE ~ReadPacket
    BY <1>0, <1>1, <2>2 DEF GSStep, CheckForWork, WaitForWork, Awake, VsyncDone,
       VsyncSignal, AdvanceReadPos, RingSignal, SeenEmpty, RingValve, VsyncValve
  <2> QED
    BY <2>1, <2>2
<1>2. CASE ~GSStep
  <2>1. UNCHANGED gsVars
    BY <1>2 DEF Next, EEStep, Request, Stall, StallEnable, StallKick, RingWait,
       SpinKick, Spin, Publish, Kick, CountFrame, Listen, VsyncWait, SyncKick,
       WaitForEmpty, EmptyWake, Synced, ResetGS, EEKick, vars
  <2> QED
    BY <1>0, <2>1 DEF InPlace, Executing, gsVars
<1> QED
  BY <1>1, <1>2

\* The EE publishes where it has seen room, and nobody takes the room away.
LEMMA NextRoomy ==
  ASSUME IInv, [Next]_vars, ~astray'
  PROVE  Roomy'
<1>1. CASE ee' # "publish"
  BY <1>1 DEF Roomy
<1>2. CASE ee' = "publish" /\ AdvanceReadPos
  <2>1. /\ FreeRoom(ReadPos)' = FreeRoom(ReadPos) + Len(got)
        /\ Len(got) \in 1..(VsyncPayload + 1)
    BY <1>2, FirstDone
  <2>2. FreeRoom(ReadPos) \in Int /\ Len(got) \in Nat
    BY <2>1, RoomIs, Constants DEF IInv
  <2>3. ee' = ee /\ cmd' = cmd /\ PacketSize(cmd) \in Nat
    BY <1>2, Onward DEF AdvanceReadPos, eeVars, IInv
  <2>4. PacketSize(cmd)' = PacketSize(cmd)
    BY <2>3 DEF PacketSize
  <2> QED
    BY <1>2, <2>1, <2>2, <2>3, <2>4 DEF Roomy, IInv
<1>3. CASE ee' = "publish" /\ ~AdvanceReadPos
  <2>1. ~Publish /\ ~ResetGS
    <3>1. Publish => ee' # "publish"
      BY Onward DEF Publish, EEGo, IInv
    <3> QED
      BY <1>3, <3>1 DEF ResetGS
  <2>2. FreeRoom(ReadPos)' = FreeRoom(ReadPos)
    BY <1>3, <2>1, Elsewhere DEF FreeRoom
  <2>3. cmd' = cmd /\ (ee = "publish" \/ FreeRoom(ReadPos) > PacketSize(cmd))
    BY <1>3, <2>1 DEF Next, EEStep, GSStep, Request, Stall, StallEnable, StallKick,
       RingWait, SpinKick, Spin, Kick, AfterKick, CountFrame, Listen, VsyncWait,
       SyncKick, WaitForEmpty, EmptyWake, Synced, EESet, EEKick, EEGo, eeVars,
       vars, CheckForWork, WaitForWork, Awake, ReadPacket, VsyncDone, VsyncSignal,
       RingSignal, SeenEmpty, RingValve, VsyncValve
  <2>4. PacketSize(cmd)' = PacketSize(cmd)
    BY <2>3 DEF PacketSize
  <2> QED
    BY <2>2, <2>3, <2>4 DEF Roomy, IInv
<1> QED
  BY <1>1, <1>2, <1>3

LEMMA NextInHand ==
  ASSUME IInv, [Next]_vars, ~astray'
  PROVE  InHand'
<1> USE DEF InHand, Executing,
         vars, posVars, signalVars, vsyncVars, eventVars, eeVars, gsVars, history,
         EEGo, EESet, EEKick, SetEvent, GSSet
<1>0. InHand
  BY DEF IInv
<1>1. ASSUME NEW r \in Requests, Request(r) PROVE InHand'
  BY <1>0, <1>1 DEF Request, AllRequests
<1>2. CASE Stall
  BY <1>0, <1>2 DEF Stall
<1>3. CASE StallEnable
  BY <1>0, <1>3 DEF StallEnable
<1>4. CASE StallKick
  BY <1>0, <1>4 DEF StallKick
<1>5. CASE RingWait
  BY <1>0, <1>5 DEF RingWait
<1>6. CASE SpinKick
  BY <1>0, <1>6 DEF SpinKick
<1>7. CASE Spin
  BY <1>0, <1>7 DEF Spin
<1>8. CASE Publish
  <2>1. fifo' = Append(fifo, Packet(Command(cmd), nextId)) /\ UNCHANGED gsVars
    BY <1>8 DEF Publish
  <2>2. fifo # <<>> => fifo' # <<>> /\ Head(fifo') = Head(fifo)
    BY <1>8, <2>1, ToPublish DEF IInv, Ring
  <2> QED
    BY <1>0, <2>1, <2>2
<1>9. CASE Kick
  BY <1>0, <1>9 DEF Kick
<1>10. CASE CountFrame
  BY <1>0, <1>10 DEF CountFrame
<1>11. CASE Listen
  BY <1>0, <1>11 DEF Listen
<1>12. CASE VsyncWait
  BY <1>0, <1>12 DEF VsyncWait
<1>13. CASE SyncKick
  BY <1>0, <1>13 DEF SyncKick
<1>14. CASE WaitForEmpty
  BY <1>0, <1>14 DEF WaitForEmpty
<1>15. CASE EmptyWake
  BY <1>0, <1>15 DEF EmptyWake
<1>16. CASE ResetGS
  BY <1>0, <1>16, ResetIsIdle DEF ResetGS
<1>17. CASE CheckForWork
  BY <1>0, <1>17 DEF CheckForWork
<1>18. CASE WaitForWork
  BY <1>0, <1>18 DEF WaitForWork
<1>19. CASE Awake
  BY <1>0, <1>19 DEF Awake
<1>20. CASE ReadPacket
  BY <1>20, PacketAtReader, RoomIs DEF ReadPacket, IInv
<1>21. CASE VsyncDone
  BY <1>0, <1>21 DEF VsyncDone
<1>22. CASE VsyncSignal
  BY <1>0, <1>22 DEF VsyncSignal, SignalVsync
<1>23. CASE AdvanceReadPos
  BY <1>0, <1>23, FirstDone DEF AdvanceReadPos
<1>24. CASE RingSignal
  BY <1>0, <1>24 DEF RingSignal
<1>25. CASE RingValve
  BY <1>0, <1>25 DEF RingValve
<1>26. CASE VsyncValve
  BY <1>0, <1>26 DEF VsyncValve
<1>27. CASE SeenEmpty
  BY <1>0, <1>27 DEF SeenEmpty
<1>28. CASE Synced
  BY <1>0, <1>28 DEF Synced
<1>29. CASE UNCHANGED vars
  BY <1>0, <1>29 DEF vars
<1> QED
  BY <1>1, <1>2, <1>3, <1>4, <1>5, <1>6, <1>7, <1>8, <1>9, <1>10, <1>11, <1>12,
     <1>13, <1>14, <1>15, <1>16, <1>17, <1>18, <1>19, <1>20, <1>21, <1>22,
     <1>23, <1>24, <1>25, <1>26, <1>27, <1>28, <1>29
     DEF Next, EEStep, GSStep

\* The event and the answer.
LEMMA NextEvents ==
  ASSUME Always, [Next]_vars
  PROVE  Events'
<1> USE DEF Events, Event!NotifyOfWork, Event!emptyVars, Event!IdleLook, Event!Answer,
         Event!BusyLook, Event!IsIdle, Event!WaitForEmpty, Event!EmptyWake,
         eventVars, eeVars, gsVars, EEGo, EESet, EEKick, SetEvent, GSSet
<1>0. Events
  BY DEF Always
<1>1. CASE StallKick \/ SpinKick \/ Kick \/ SyncKick
  <2>1. ee \in {"stallKick", "spinKick", "kick", "syncKick"} /\ gs' = gs
        /\ event' = "runningN" /\ emptyFlag' = emptyFlag /\ emptyToken' = emptyToken
    BY <1>0, <1>1 DEF StallKick, SpinKick, Kick, SyncKick
  <2> QED
    BY <1>0, <2>1
<1>2. CASE WaitForEmpty
  <2>1. gs' = gs /\ ee = "empty" /\ event' = event
    BY <1>2 DEF WaitForEmpty
  <2>2. CASE Event!IsIdle /\ EESet("synced") /\ UNCHANGED eventVars
    BY <1>0, <2>1, <2>2
  <2>3. CASE Event!WaitForEmpty /\ EESet("emptyWait")
    <3>1. ee' = "emptyWait" /\ emptyFlag' = TRUE /\ emptyToken' = emptyToken
      BY <2>3
    <3>2. emptyToken = 0
      BY <1>0, <2>1
    <3>3. emptyFlag' \in BOOLEAN
      BY <3>1, Zenon
    <3> QED
      BY <1>0, <2>1, <3>1, <3>2, <3>3
  <2> QED
    BY <1>2, <2>2, <2>3 DEF WaitForEmpty
<1>3. CASE EmptyWake
  <2>1. ee' = "synced" /\ gs' = gs /\ event' = event /\ emptyFlag' = emptyFlag
    BY <1>3 DEF EmptyWake
  <2>2. emptyToken = 1 /\ emptyToken' = 0 /\ ~emptyFlag
    BY <1>0, <1>3 DEF EmptyWake
  <2> QED
    BY <1>0, <2>1, <2>2
<1>4. CASE (CheckForWork \/ WaitForWork \/ Awake) /\ Event!BusyLook
  <2>1. event' = "running0" /\ UNCHANGED <<emptyFlag, emptyToken, ee>>
    BY <1>4 DEF CheckForWork, WaitForWork, Awake
  <2> QED
    BY <1>0, <2>1
<1>5. CASE (CheckForWork \/ WaitForWork \/ Awake) /\ ~Event!BusyLook
  <2>1. /\ ee' = ee /\ emptyFlag' = FALSE
        /\ event' = "running0" \/ (event' = "parked" /\ gs' = "asleep")
        /\ emptyToken' = IF emptyFlag THEN emptyToken + 1 ELSE emptyToken
    BY <1>5, Zenon DEF CheckForWork, WaitForWork, Awake
  <2>2. emptyFlag' \in BOOLEAN /\ ~emptyFlag'
    BY <2>1, Zenon
  <2>3. CASE emptyFlag
    <3>1. ee = "emptyWait" /\ emptyToken' = 1
      BY <1>0, <2>1, <2>3
    <3> QED
      BY <2>1, <2>2, <3>1
  <2>4. CASE ~emptyFlag
    <3>1. emptyToken' = emptyToken
      BY <2>1, <2>4
    <3> QED
      BY <1>0, <2>1, <2>2, <3>1
  <2> QED
    BY <2>3, <2>4
<1>6. CASE \/ ReadPacket \/ VsyncDone \/ VsyncSignal \/ AdvanceReadPos \/ RingSignal
           \/ SeenEmpty \/ RingValve \/ VsyncValve
  <2>1. gs # "asleep" /\ ee' = ee /\ UNCHANGED eventVars
    BY <1>6 DEF ReadPacket, VsyncDone, VsyncSignal, AdvanceReadPos, RingSignal,
       SeenEmpty, RingValve, VsyncValve
  <2> QED
    BY <1>0, <2>1
<1>7. CASE \/ Stall \/ StallEnable \/ RingWait \/ Spin \/ Publish \/ CountFrame
           \/ Listen \/ VsyncWait \/ Synced \/ ResetGS
           \/ \E r \in Requests : Request(r)
  <2>1. ee # "emptyWait" /\ gs' = gs /\ UNCHANGED eventVars
    BY <1>7 DEF Stall, StallEnable, RingWait, Spin, Publish, CountFrame, Listen,
       VsyncWait, Synced, ResetGS, Request
  <2> QED
    BY <1>0, <2>1
<1>8. CASE UNCHANGED vars
  BY <1>0, <1>8 DEF vars
<1> QED
  BY <1>1, <1>2, <1>3, <1>4, <1>5, <1>6, <1>7, <1>8 DEF Next, EEStep, GSStep

\* The answer comes when all is done.
LEMMA NextDrained ==
  ASSUME IInv, [Next]_vars, ~astray'
  PROVE  Drained'
<1> USE DEF Drained, Events, Working, Event!NotifyOfWork, Event!emptyVars, Event!IdleLook,
         Event!Answer, Event!BusyLook, Event!IsIdle, Event!WaitForEmpty,
         Event!EmptyWake, eventVars, eeVars, gsVars, history, EEGo, EESet, EEKick,
         SetEvent, GSSet
<1>0. Drained /\ Events
  BY DEF IInv
<1>1. CASE StallKick \/ SpinKick \/ Kick \/ SyncKick
  <2>1. /\ ee \in {"stallKick", "spinKick", "kick", "syncKick"}
        /\ ee' \in {"ringWait", "spin", "empty", "count", "clear", "run"}
        /\ event' = "runningN" /\ emptyToken' = emptyToken
    BY <1>0, <1>1 DEF StallKick, SpinKick, Kick, AfterKick, SyncKick
  <2> QED
    BY <1>0, <2>1
<1>2. CASE WaitForEmpty
  <2>1. gs' = gs /\ fifo' = fifo /\ ee = "empty" /\ event' = event
        /\ emptyToken' = emptyToken /\ emptyToken = 0
    BY <1>0, <1>2 DEF WaitForEmpty
  <2>2. CASE Event!IsIdle /\ EESet("synced")
    <3>1. event = "parked" /\ gs = "asleep" /\ fifo = <<>>
      BY <1>0, <2>1, <2>2
    <3> QED
      BY <2>1, <2>2, <3>1
  <2>3. CASE EESet("emptyWait")
    BY <1>0, <2>1, <2>3
  <2> QED
    BY <1>2, <2>2, <2>3 DEF WaitForEmpty
<1>3. CASE EmptyWake
  <2>1. ee' = "synced" /\ fifo' = fifo /\ emptyToken = 1
    BY <1>0, <1>3 DEF EmptyWake
  <2> QED
    BY <1>0, <2>1
<1>4. CASE (CheckForWork \/ WaitForWork \/ Awake) /\ Event!BusyLook
  <2>1. gs' = "drain" /\ UNCHANGED <<emptyToken, ee, fifo>>
    BY <1>0, <1>4 DEF CheckForWork, WaitForWork, Awake
  <2> QED
    BY <1>0, <2>1
<1>5. CASE (CheckForWork \/ WaitForWork \/ Awake) /\ ~Event!BusyLook
  <2>1. /\ event = "running0" /\ ~Working /\ UNCHANGED <<ee, fifo>>
        /\ emptyToken' = IF emptyFlag THEN emptyToken + 1 ELSE emptyToken
    BY <1>5, Zenon DEF CheckForWork, WaitForWork, Awake
  <2>2. ee \in {"empty", "emptyWait"} => fifo = <<>>
    BY <1>0, <2>1
  <2>3. emptyToken' = 1 => ee = "emptyWait"
    BY <1>0, <2>1
  <2> QED
    BY <1>0, <2>1, <2>2, <2>3
<1>6. CASE ReadPacket \/ VsyncDone \/ VsyncSignal \/ RingSignal
  <2>1. Working' /\ UNCHANGED <<ee, fifo, emptyToken>>
    BY <1>6 DEF ReadPacket, VsyncDone, VsyncSignal, RingSignal
  <2> QED
    BY <1>0, <2>1
<1>7. CASE AdvanceReadPos
  <2>1. fifo # <<>> /\ Working' /\ UNCHANGED <<ee, emptyToken>>
    BY <1>7, FirstDone DEF AdvanceReadPos
  <2> QED
    BY <1>0, <2>1
<1>8. CASE SeenEmpty
  <2>1. fifo = <<>> /\ UNCHANGED <<ee, fifo, emptyToken>>
    BY <1>8, RoomIs DEF SeenEmpty, IInv
  <2> QED
    BY <2>1
<1>9. CASE RingValve \/ VsyncValve
  <2>1. ~Working /\ UNCHANGED <<event, ee, fifo, emptyToken>>
    BY <1>9 DEF RingValve, VsyncValve
  <2> QED
    BY <1>0, <2>1
<1>10. CASE Publish
  <2>1. ee' \in {"kick", "syncKick", "run"} /\ emptyToken' = emptyToken /\ ee = "publish"
    BY <1>10, Onward DEF Publish, IInv
  <2> QED
    BY <1>0, <2>1
<1>11. CASE \/ Stall \/ StallEnable \/ RingWait \/ Spin \/ CountFrame
            \/ Listen \/ VsyncWait \/ Synced
            \/ \E r \in Requests : Request(r)
  <2>1. /\ ee' \notin {"empty", "emptyWait", "synced"} /\ UNCHANGED <<fifo, emptyToken>>
    BY <1>11 DEF Stall, StallEnable, RingWait, Spin, CountFrame, Listen,
       VsyncWait, Synced, Request
  <2> QED
    BY <1>0, <2>1
<1>12. CASE ResetGS
  BY <1>0, <1>12 DEF ResetGS
<1>13. CASE UNCHANGED vars
  BY <1>0, <1>13 DEF vars
<1> QED
  BY <1>1, <1>2, <1>3, <1>4, <1>5, <1>6, <1>7, <1>8, <1>9, <1>10, <1>11, <1>12,
     <1>13 DEF Next, EEStep, GSStep

\* The ring is long against the packets: on the model's scale, and in the code.
RingIsLong == VsyncPayload <= 1 \/ RingBufferSize >= 8 * (VsyncPayload + 1)

\* What the request still waits for is at least the room that is missing, though
\* a packet that was done before the request may count for it; but where the
\* safety valve has answered, which starts no count.
Promised ==
  LET late == IF gs = "signal" THEN Len(got) ELSE 0 IN
  ~dangling =>
    /\ ee = "enable" \/ (ee \in {"stallKick", "ringWait"} /\ SignalRingEnable)
         => FreeRoom(ReadPos) + SignalRingPosition - late >= PacketSize(cmd)
    /\ OnRingReset = 1 => FreeRoom(ReadPos) > PacketSize(cmd)

\* The point at which the EE asks for its signal is far enough.
LEMMA StallPointIsEnough ==
  ASSUME IInv, RingIsLong, NEW late \in 0..(VsyncPayload + 1)
  PROVE  FreeRoom(ReadPos) + StallPoint(PacketSize(cmd)) - late >= PacketSize(cmd)
<1> DEFINE N == RingBufferSize
           v == VsyncPayload + 1
<1>1. PICK n \in Nat : n = PacketSize(cmd) /\ n \in 1..v
  BY Onward DEF IInv
<1>2. PICK f \in 1..N : f = FreeRoom(ReadPos)
  BY RoomIs DEF IInv
<1>3. PICK s \in Int : s = StallPoint(n) /\ s >= n + 1
  BY <1>1, Onward DEF IInv
<1>4. N \in Nat /\ v \in Nat /\ v >= 2 /\ late \in Nat /\ late <= v /\ n <= v /\ f >= 1
  BY <1>1, <1>2, Constants
<1>5. CASE v <= 2
  <2>1. f + s - late >= n
    <3> HIDE DEF v, N
    <3> QED
      BY <1>1, <1>2, <1>3, <1>4, <1>5
  <2> QED
    BY <1>1, <1>2, <1>3, <2>1
<1>6. CASE N >= 8 * v
  <2>1. PICK q \in Int : q = (N - f) \div 4
    BY <1>4
  <2>2. s >= q
    <3>1. s = IF q < n + 1 THEN n + 1 ELSE q
      BY <1>2, <1>3, <2>1 DEF StallPoint
    <3> QED
      BY <1>1, <2>1, <3>1
  <2>3. 4 * q >= N - f - 3
    BY <1>2, <1>4, <2>1
  <2>4. f + q >= 2 * v
    <3> HIDE DEF v, N
    <3> QED
      BY <1>2, <1>4, <1>6, <2>1, <2>3
  <2>5. f + s - late >= n
    <3> HIDE DEF v, N
    <3> QED
      BY <1>1, <1>2, <1>3, <1>4, <2>1, <2>2, <2>4
  <2> QED
    BY <1>1, <1>2, <1>3, <2>5
<1> QED
  BY <1>5, <1>6, Constants DEF RingIsLong

\* Packets in hand are short.
LEMMA Late ==
  ASSUME IInv, gs \in {"exec", "signal"}
  PROVE  Len(got) \in 1..(VsyncPayload + 1) /\ Len(got) \in Nat /\ Len(got) >= 1
<1>1. got \in Packets
  BY HeadFacts DEF IInv, InHand, Executing
<1> QED
  BY <1>1, PacketFacts

\* The room comes with the token.
LEMMA NextPromised ==
  ASSUME IInv, Promised, RingIsLong, [Next]_vars, ~astray'
  PROVE  Promised'
<1> USE DEF Promised, Signals,
         vars, posVars, signalVars, vsyncVars, eventVars, eeVars, gsVars, history,
         EEGo, EESet, EEKick, SetEvent, GSSet
<1>0. /\ Promised /\ Signals /\ RingIsLong /\ FreeRoom(ReadPos) \in Int
      /\ PacketSize(cmd) \in Nat
      /\ (ReadPos' = ReadPos /\ WritePos' = WritePos => FreeRoom(ReadPos)' = FreeRoom(ReadPos))
      /\ (cmd' = cmd => PacketSize(cmd)' = PacketSize(cmd))
  <2>1. FreeRoom(ReadPos) \in Int /\ PacketSize(cmd) \in Nat
    BY RoomIs, Onward, Constants DEF IInv
  <2>2. ReadPos' = ReadPos /\ WritePos' = WritePos => FreeRoom(ReadPos)' = FreeRoom(ReadPos)
    BY ONLY DEF FreeRoom
  <2>3. cmd' = cmd => PacketSize(cmd)' = PacketSize(cmd)
    BY ONLY DEF PacketSize
  <2>4. Signals
    BY DEF IInv
  <2> QED
    BY <2>1, <2>2, <2>3, <2>4
<1>1. ASSUME NEW r \in Requests, Request(r) PROVE Promised'
  BY <1>0, <1>1 DEF Request, AllRequests
<1>2. CASE Stall
  <2>1. FreeRoom(ReadPos)' = FreeRoom(ReadPos) /\ OnRingReset' = 0 /\ gs' = gs /\ got' = got
    BY <1>0, <1>2 DEF Stall
  <2>2. CASE ee' # "enable"
    <3>1. ee' \in {"publish", "spinKick"}
      BY <1>2, <2>2 DEF Stall
    <3> QED
      BY <2>1, <3>1
  <2>3. CASE ee' = "enable"
    <3>1. SignalRingPosition' = StallPoint(PacketSize(cmd)) /\ cmd' = cmd
      BY <1>2, <2>3 DEF Stall
    <3>2. PICK late \in 0..(VsyncPayload + 1) : late = IF gs = "signal" THEN Len(got) ELSE 0
      BY Late, Constants
    <3>3. FreeRoom(ReadPos) + StallPoint(PacketSize(cmd)) - late >= PacketSize(cmd)
      BY <1>0, StallPointIsEnough
    <3> QED
      BY <1>0, <2>1, <2>3, <3>1, <3>2, <3>3
  <2> QED
    BY <2>2, <2>3
<1>3. CASE StallEnable
  BY <1>0, <1>3 DEF StallEnable
<1>4. CASE StallKick
  BY <1>0, <1>4 DEF StallKick
<1>5. CASE RingWait
  BY <1>0, <1>5 DEF RingWait
<1>6. CASE SpinKick
  BY <1>0, <1>6 DEF SpinKick
<1>7. CASE Spin
  BY <1>0, <1>7 DEF Spin
<1>8. CASE Publish
  BY <1>0, <1>8, Onward DEF Publish, IInv
<1>9. CASE Kick
  BY <1>0, <1>9 DEF Kick, AfterKick
<1>10. CASE CountFrame
  BY <1>0, <1>10 DEF CountFrame
<1>11. CASE Listen
  BY <1>0, <1>11 DEF Listen
<1>12. CASE VsyncWait
  BY <1>0, <1>12 DEF VsyncWait
<1>13. CASE SyncKick
  BY <1>0, <1>13 DEF SyncKick
<1>14. CASE WaitForEmpty
  <2>1. ee \notin {"stallKick", "ringWait"} /\ OnRingReset' = OnRingReset
    BY <1>14 DEF WaitForEmpty
  <2>2. ee' \in {"synced", "emptyWait"}
    BY <1>14 DEF WaitForEmpty
  <2>3. OnRingReset' = 0
    BY <1>0, <2>1
  <2> QED
    BY <2>2, <2>3
<1>15. CASE EmptyWake
  <2>1. ee \notin {"stallKick", "ringWait"} /\ OnRingReset' = OnRingReset
    BY <1>15 DEF EmptyWake
  <2>2. ee' = "synced"
    BY <1>15 DEF EmptyWake
  <2>3. OnRingReset' = 0
    BY <1>0, <2>1
  <2> QED
    BY <2>2, <2>3
<1>16. CASE ResetGS
  BY <1>0, <1>16 DEF ResetGS
<1>17. CASE CheckForWork
  BY <1>0, <1>17 DEF CheckForWork
<1>18. CASE WaitForWork
  BY <1>0, <1>18 DEF WaitForWork
<1>19. CASE Awake
  BY <1>0, <1>19 DEF Awake
<1>20. CASE ReadPacket
  BY <1>0, <1>20 DEF ReadPacket
<1>21. CASE VsyncDone
  BY <1>0, <1>21 DEF VsyncDone
<1>22. CASE VsyncSignal
  BY <1>0, <1>22 DEF VsyncSignal
<1>23. CASE AdvanceReadPos
  <2>1. /\ FreeRoom(ReadPos)' = FreeRoom(ReadPos) + Len(got)
        /\ Len(got) \in Nat /\ Len(got) >= 1 /\ gs = "exec"
    BY <1>23, FirstDone, Late DEF AdvanceReadPos
  <2>2. /\ gs' = "signal" /\ got' = got /\ UNCHANGED <<ee, cmd>>
        /\ UNCHANGED <<SignalRingEnable, SignalRingPosition, OnRingReset, dangling>>
    BY <1>23 DEF AdvanceReadPos
  <2> QED
    BY <1>0, <2>1, <2>2
<1>24. CASE RingSignal
  <2>1. /\ FreeRoom(ReadPos)' = FreeRoom(ReadPos) /\ gs' = "drain" /\ gs = "signal"
        /\ UNCHANGED <<ee, cmd, dangling>> /\ PacketSize(cmd)' = PacketSize(cmd)
    BY <1>0, <1>24 DEF RingSignal
  <2>2. Len(got) \in Nat /\ Len(got) >= 1
    BY <2>1, Late
  <2>3. CASE ~SignalRingEnable
    <3>1. UNCHANGED <<SignalRingEnable, SignalRingPosition, OnRingReset>>
      BY <1>24, <2>3 DEF RingSignal
    <3> QED
      BY <1>0, <2>1, <2>2, <2>3, <3>1
  <2>4. CASE SignalRingEnable
    <3>1. /\ ee \in {"stallKick", "ringWait"} /\ OnRingReset = 0
          /\ ~dangling =>
               FreeRoom(ReadPos) + SignalRingPosition - Len(got) >= PacketSize(cmd)
      BY <1>0, <2>1, <2>4
    <3>2. SignalRingPosition' = SignalRingPosition - Len(got)
      BY <1>24, <2>4 DEF RingSignal
    <3>3. CASE SignalRingPosition <= 0
      <4>1. ~dangling => FreeRoom(ReadPos) > PacketSize(cmd)
        BY <1>0, <2>2, <3>1, <3>2, <3>3
      <4>2. ~SignalRingEnable'
        BY <1>24, <2>4, <3>3 DEF RingSignal
      <4> QED
        BY <2>1, <3>1, <4>1, <4>2
    <3>4. CASE ~(SignalRingPosition <= 0)
      <4>1. OnRingReset' = OnRingReset
        BY <1>24, <2>4, <3>4 DEF RingSignal
      <4>2. ~dangling => FreeRoom(ReadPos) + SignalRingPosition' - 0 >= PacketSize(cmd)
        BY <1>0, <2>2, <3>1, <3>2
      <4> QED
        BY <2>1, <3>1, <4>1, <4>2
    <3> QED
      BY <3>3, <3>4
  <2> QED
    BY <2>3, <2>4
<1>25. CASE RingValve
  <2>1. /\ FreeRoom(ReadPos)' = FreeRoom(ReadPos) /\ gs' = "valve" /\ gs = "ringValve"
        /\ UNCHANGED <<ee, cmd>> /\ PacketSize(cmd)' = PacketSize(cmd)
    BY <1>0, <1>25 DEF RingValve
  <2>2. CASE ~SignalRingEnable
    <3>1. /\ SignalRingPosition' = SignalRingPosition /\ OnRingReset' = OnRingReset
          /\ dangling' = dangling /\ ~SignalRingEnable'
      BY <1>25, <2>2 DEF RingValve
    <3> QED
      BY <1>0, <2>1, <2>2, <3>1
  <2>3. CASE SignalRingEnable
    <3>1. dangling'
      BY <1>25, <2>3 DEF RingValve
    <3> QED
      BY <3>1
  <2> QED
    BY <2>2, <2>3
<1>26. CASE VsyncValve
  BY <1>0, <1>26 DEF VsyncValve
<1>27. CASE SeenEmpty
  BY <1>0, <1>27 DEF SeenEmpty
<1>28. CASE Synced
  BY <1>0, <1>28 DEF Synced
<1>29. CASE UNCHANGED vars
  BY <1>0, <1>29 DEF vars
<1> QED
  BY <1>1, <1>2, <1>3, <1>4, <1>5, <1>6, <1>7, <1>8, <1>9, <1>10, <1>11, <1>12,
     <1>13, <1>14, <1>15, <1>16, <1>17, <1>18, <1>19, <1>20, <1>21, <1>22,
     <1>23, <1>24, <1>25, <1>26, <1>27, <1>28, <1>29
     DEF Next, EEStep, GSStep

-----------------------------------------------------------------------------
(* The theorems.                                                           *)

LEMMA HistoryKept ==
  ASSUME Always, [Next]_vars
  PROVE  dangling' \in BOOLEAN /\ astray' \in BOOLEAN /\ (~astray' => ~astray)
<1>0. dangling \in BOOLEAN /\ astray \in BOOLEAN
  BY DEF Always
<1>1. dangling' \in BOOLEAN
  <2>1. dangling' = dangling \/ dangling' = TRUE \/ dangling' = FALSE
    BY DEF Next, EEStep, GSStep, Request, Stall, StallEnable, StallKick, RingWait,
       SpinKick, Spin, Publish, Kick, CountFrame, Listen, VsyncWait, SyncKick,
       WaitForEmpty, EmptyWake, Synced, ResetGS, EEKick, vars, history, CheckForWork,
       WaitForWork, Awake, ReadPacket, VsyncDone, VsyncSignal, AdvanceReadPos,
       RingSignal, SeenEmpty, RingValve, VsyncValve
  <2> QED
    BY <1>0, <2>1, Zenon
<1>2. astray' \in BOOLEAN /\ (~astray' => ~astray)
  <2>1. CASE ResetGS
    <3>1. astray' = (astray \/ fifo # <<>>)
      BY <2>1 DEF ResetGS
    <3> QED
      BY <3>1, Zenon
  <2>2. CASE ~ResetGS
    <3>1. astray' = astray
      BY <2>2 DEF Next, EEStep, GSStep, Request, Stall, StallEnable, StallKick,
         RingWait, SpinKick, Spin, Publish, Kick, CountFrame, Listen, VsyncWait,
         SyncKick, WaitForEmpty, EmptyWake, Synced, EEKick, vars, history,
         CheckForWork, WaitForWork, Awake, ReadPacket, VsyncDone, VsyncSignal,
         AdvanceReadPos, RingSignal, SeenEmpty, RingValve, VsyncValve
    <3> QED
      BY <1>0, <3>1
  <2> QED
    BY <2>1, <2>2
<1> QED
  BY <1>1, <1>2

\* After a reset that found packets the EE waits for nothing more.
Quiet ==
  astray => /\ ee \in {"run", "stall", "enable", "stallKick", "ringWait", "spinKick",
                      "spin", "publish", "kick"}
            /\ ee # "run" => cmd = "Reset"

LEMMA NextQuiet ==
  ASSUME Always, Quiet, [Next]_vars
  PROVE  Quiet'
<1> USE DEF Quiet, EEGo, EESet, EEKick, eeVars, history
<1>1. CASE ResetGS
  BY <1>1 DEF ResetGS
<1>2. CASE Publish
  <2>1. ee = "publish" /\ astray' = astray /\ (ee' # "run" => cmd' = cmd)
        /\ (cmd = "Reset" => ee' = "kick")
    BY <1>2 DEF Publish, AfterPublish
  <2> QED
    BY <2>1
<1>3. CASE EEStep /\ ~ResetGS /\ ~Publish
  BY <1>3 DEF EEStep, Stall, StallEnable, StallKick, RingWait, SpinKick, Spin,
     Kick, AfterKick, CountFrame, Listen, VsyncWait, SyncKick, WaitForEmpty,
     EmptyWake, Synced
<1>4. CASE GSStep
  BY <1>4 DEF GSStep, CheckForWork, WaitForWork, Awake, ReadPacket, VsyncDone,
     VsyncSignal, AdvanceReadPos, RingSignal, SeenEmpty, RingValve, VsyncValve
<1>5. ASSUME NEW r \in Requests, Request(r) PROVE Quiet'
  BY <1>5 DEF Request
<1>6. CASE UNCHANGED vars
  BY <1>6 DEF vars
<1> QED
  BY <1>1, <1>2, <1>3, <1>4, <1>5, <1>6 DEF Next

LEMMA Initially == Init => Always /\ IInv /\ Promised
<1> SUFFICES ASSUME Init PROVE Always /\ IInv /\ Promised
  OBVIOUS
<1>1. Positions
  BY Constants DEF Init, Positions, Slots, Free, Ids
<1>2. Ring
  <2>1. Len(fifo) = 0 /\ fifo \in Seq(Packets) /\ Last = 1
    BY DEF Init, Last
  <2> DEFINE off == [k \in 1..1 |-> 0]
  <2>2. off \in [1..1 -> 0..(RingBufferSize - 1)] /\ off[1] = 0
    BY Constants
  <2>3. 0 \in 0..(RingBufferSize - 1) /\ 0 + 0 < RingBufferSize
    BY Constants
  <2>4. Advance(0, 0) = 0
    BY <2>3, AdvanceIs
  <2> HIDE DEF off
  <2>5. Laid(off)
    BY <2>1, <2>2, <2>4 DEF Laid, Init
  <2> QED
    BY <2>1, <2>5 DEF Ring
<1>3. InPlace /\ InHand /\ Roomy /\ Drained /\ Events /\ Signals /\ Throttle
  <2>1. /\ ee = "run" /\ gs = "look" /\ fifo = <<>>
        /\ ~SignalRingEnable /\ SignalRingPosition = 0 /\ OnRingReset = 0
        /\ ~VsyncSignalListener /\ VsyncSem = 0
    BY DEF Init
  <2>2. event \in {"parked", "running0", "runningN"} /\ event # "parked"
        /\ ~emptyFlag /\ emptyToken = 0
    BY DEF Init, Event!Init
  <2>3. /\ SignalRingEnable \in BOOLEAN /\ VsyncSignalListener \in BOOLEAN
        /\ emptyFlag \in BOOLEAN
    BY Zenon DEF Init, Event!Init
  <2>4. InPlace /\ InHand /\ Roomy
    BY <2>1 DEF InPlace, InHand, Executing, Roomy
  <2>5. Signals
    BY <2>1, <2>3 DEF Signals
  <2>6. Throttle
    BY <2>1, <2>3 DEF Throttle
  <2>7. Drained /\ Events
    BY <2>1, <2>2, <2>3 DEF Drained, Events, Working
  <2> QED
    BY <2>4, <2>5, <2>6, <2>7
<1>4. Places
  BY Constants DEF Init, Places, Ids
<1>5. Promised
  BY DEF Init, Promised
<1>6. dangling \in BOOLEAN /\ astray \in BOOLEAN
  BY Zenon DEF Init
<1> QED
  BY <1>1, <1>2, <1>3, <1>4, <1>5, <1>6 DEF IInv, Always

LEMMA NextAlways == Always /\ [Next]_vars => Always'
<1> SUFFICES ASSUME Always, [Next]_vars PROVE Always'
  OBVIOUS
<1>1. Positions' /\ InPlace' /\ Places'
  BY NextPositions, NextInPlace, NextPlaces
<1>2. Events' /\ Signals' /\ Throttle'
  BY NextEvents, NextSignals, NextThrottle
<1>3. dangling' \in BOOLEAN /\ astray' \in BOOLEAN /\ (~astray' => ~astray)
  BY HistoryKept
<1> QED
  BY <1>1, <1>2, <1>3 DEF Always

LEMMA Step ==
  ASSUME Always, IInv, [Next]_vars, ~astray'
  PROVE  IInv'
<1>1. Always'
  BY NextAlways
<1>2. Ring' /\ InHand' /\ Roomy' /\ Drained'
  BY NextRing, NextInHand, NextRoomy, NextDrained
<1> QED
  BY <1>1, <1>2 DEF Always, IInv

\* The inductive invariant: what no reset disturbs, and the ring's part of it
\* until a reset finds packets in the ring.
Inv == Always /\ (~astray => IInv)

LEMMA Invariant == Spec => []Inv
<1>1. Init => Inv
  BY Initially DEF Inv
<1>2. Inv /\ [Next]_vars => Inv'
  BY NextAlways, HistoryKept, Step DEF Inv
<1> QED
  BY <1>1, <1>2, PTL DEF Spec

\* Every variable keeps its type, whatever the two threads do.
THEOREM TypeCorrect == Spec => []TypeOK
<1>1. Inv => TypeOK
  BY TypesFollow DEF Inv
<1> QED
  BY <1>1, Invariant, PTL

\* The GS thread executes what was sent, in order, once and unharmed, and a ring
\* that looks empty is: MainLoop against SendDataPacket, whatever the ring's
\* size, until a ResetGS finds packets in the ring.
THEOREM RingSafe == Spec => []RingIntact
<1>1. Inv => RingIntact
  <2> SUFFICES ASSUME IInv PROVE ExecutesWhatWasSent /\ EmptyMeansEmpty
    BY DEF Inv, RingIntact
  <2>1. ExecutesWhatWasSent
    BY DEF IInv, InHand, ExecutesWhatWasSent
  <2>2. EmptyMeansEmpty
    BY RoomIs DEF IInv, EmptyMeansEmpty
  <2> QED
    BY <2>1, <2>2
<1> QED
  BY <1>1, Invariant, PTL

\* WaitGS returns with everything executed that was sent before it.
THEOREM Drains == Spec => []WaitGSDrains
<1> DEFINE Good == Inv /\ Quiet
<1>1. Init => Good
  BY Initially DEF Inv, Quiet, Init
<1>2. Good /\ [Next]_vars => Good'
  <2>1. Inv /\ [Next]_vars => Inv'
    BY NextAlways, HistoryKept, Step DEF Inv
  <2> QED
    BY <2>1, NextQuiet DEF Inv
<1>3. Good => WaitGSDrains
  BY DEF Inv, IInv, Drained, WaitGSDrains, Quiet
<1> QED
  BY <1>1, <1>2, <1>3, PTL DEF Spec

\* A stalled EE has exactly one of the request and the token, and with the token
\* it has its room unless the safety valve has answered it, on a ring that is
\* long against its packets (GenericStall, and the fetch_sub of MainLoop).
THEOREM SignalSafe == Spec => [](RingIsLong => RingSignalDiscipline)
<1> DEFINE Good == Inv /\ (RingIsLong /\ ~astray => Promised)
<1>1. Init => Good
  BY Initially DEF Inv
<1>2. Good /\ [Next]_vars => Good'
  <2>1. RingIsLong' = RingIsLong
    BY DEF RingIsLong
  <2>2. Inv /\ [Next]_vars => Inv'
    BY NextAlways, HistoryKept, Step DEF Inv
  <2>3. Inv /\ [Next]_vars /\ Promised /\ RingIsLong /\ ~astray' => Promised'
    BY NextPromised, HistoryKept DEF Inv
  <2> QED
    BY <2>1, <2>2, <2>3, HistoryKept DEF Inv
<1>3. Good => (RingIsLong => RingSignalDiscipline)
  BY DEF Inv, Always, Signals, Promised, RingSignalDiscipline
<1> QED
  BY <1>1, <1>2, <1>3, PTL DEF Spec

-----------------------------------------------------------------------------
(* The frames sent and not shown.                                          *)

IsFrame(p) == p[1][1] = "VSync"
Where(s) == {k \in DOMAIN s : IsFrame(s[k])}

LEMMA FramesFinite ==
  ASSUME NEW s \in Seq(Packets)
  PROVE  /\ IsFiniteSet(Where(s))
         /\ Frames(s) = Cardinality(Where(s))
         /\ Frames(s) \in Nat
<1>1. Where(s) \subseteq 1..Len(s) /\ IsFiniteSet(1..Len(s))
  BY FS_Interval DEF Where
<1>2. IsFiniteSet(Where(s))
  BY <1>1, FS_Subset
<1>3. Frames(s) = Cardinality(Where(s))
  BY DEF Frames, Where, IsFrame
<1> QED
  BY <1>2, <1>3, FS_CardinalityType

LEMMA FramesNone == Frames(<<>>) = 0
<1>1. {k \in DOMAIN <<>> : <<>>[k][1][1] = "VSync"} = {}
  OBVIOUS
<1> QED
  BY <1>1, FS_EmptySet DEF Frames

LEMMA FramesAppend ==
  ASSUME NEW s \in Seq(Packets), NEW p \in Packets
  PROVE  Frames(Append(s, p)) = Frames(s) + (IF IsFrame(p) THEN 1 ELSE 0)
<1> DEFINE n == Len(s) + 1
<1>1. n \notin Where(s) /\ Append(s, p) \in Seq(Packets)
  BY DEF Where
<1>2. /\ IsFiniteSet(Where(s)) /\ Cardinality(Where(s)) \in Nat
      /\ Frames(s) = Cardinality(Where(s))
      /\ Frames(Append(s, p)) = Cardinality(Where(Append(s, p)))
  BY <1>1, FramesFinite
<1>3. CASE IsFrame(p)
  <2>1. Where(Append(s, p)) = Where(s) \cup {n}
    BY <1>3 DEF Where
  <2>2. Cardinality(Where(s) \cup {n}) = Cardinality(Where(s)) + 1
    BY <1>1, <1>2, FS_AddElement
  <2> QED
    BY <1>2, <1>3, <2>1, <2>2
<1>4. CASE ~IsFrame(p)
  <2>1. Where(Append(s, p)) = Where(s)
    BY <1>4 DEF Where
  <2>2. Frames(Append(s, p)) = Frames(s) + 0
    BY <1>2, <2>1
  <2> QED
    BY <1>4, <2>2
<1> QED
  BY <1>3, <1>4

\* Those of the tail are those of the rest, one place earlier.
LEMMA FramesTail ==
  ASSUME NEW s \in Seq(Packets), s # <<>>
  PROVE  Frames(Tail(s)) = Frames(s) - (IF IsFrame(Head(s)) THEN 1 ELSE 0)
<1> DEFINE rest == Where(s) \ {1}
           f == [k \in Where(Tail(s)) |-> k + 1]
<1>1. /\ Tail(s) \in Seq(Packets) /\ Len(s) \in Nat /\ Len(s) >= 1
      /\ Len(Tail(s)) = Len(s) - 1
      /\ \A k \in 1..(Len(s) - 1) : Tail(s)[k] = s[k + 1]
      /\ Head(s) = s[1]
  OBVIOUS
<1>2. /\ Where(Tail(s)) = {k \in 1..(Len(s) - 1) : IsFrame(s[k + 1])}
      /\ Where(s) = {k \in 1..Len(s) : IsFrame(s[k])}
  BY <1>1 DEF Where
<1>3. \A k \in Where(Tail(s)) : k \in Int /\ k + 1 \in rest
  BY <1>1, <1>2
<1>4. ASSUME NEW m \in rest
      PROVE  m - 1 \in Where(Tail(s)) /\ m \in Int /\ (m - 1) + 1 = m
  <2>1. m \in 1..Len(s) /\ m # 1 /\ IsFrame(s[m])
    BY <1>2
  <2>2. m - 1 \in 1..(Len(s) - 1) /\ (m - 1) + 1 = m
    BY <1>1, <2>1
  <2> QED
    BY <1>2, <2>1, <2>2
<1>5. f \in Bijection(Where(Tail(s)), rest)
  <2>1. f \in [Where(Tail(s)) -> rest]
    BY <1>3
  <2>2. ASSUME NEW a \in Where(Tail(s)), NEW b \in Where(Tail(s)), f[a] = f[b]
        PROVE  a = b
    <3>1. a + 1 = b + 1 /\ a \in Int /\ b \in Int
      BY <1>3, <2>2
    <3> QED
      BY <3>1
  <2>3. ASSUME NEW m \in rest PROVE \E k \in Where(Tail(s)) : f[k] = m
    BY <1>4
  <2> HIDE DEF f, rest
  <2> QED
    BY <2>1, <2>2, <2>3 DEF Bijection, Injection, Surjection, IsInjective
<1> HIDE DEF f
<1>6. /\ IsFiniteSet(Where(Tail(s)))
      /\ IsFiniteSet(Where(s)) /\ Cardinality(Where(s)) \in Nat
      /\ Frames(s) = Cardinality(Where(s))
      /\ Frames(Tail(s)) = Cardinality(Where(Tail(s)))
  BY <1>1, FramesFinite
<1>7. Cardinality(rest) = Cardinality(Where(Tail(s)))
  <2>1. ExistsBijection(Where(Tail(s)), rest)
    BY <1>5 DEF ExistsBijection
  <2> QED
    BY <1>6, <2>1, FS_Bijection
<1>8. CASE IsFrame(Head(s))
  <2>1. 1 \in Where(s)
    BY <1>1, <1>2, <1>8
  <2>2. Cardinality(rest) = Cardinality(Where(s)) - 1
    BY <1>6, <2>1, FS_RemoveElement
  <2> QED
    BY <1>6, <1>7, <1>8, <2>2
<1>9. CASE ~IsFrame(Head(s))
  <2>1. rest = Where(s)
    BY <1>1, <1>2, <1>9
  <2>2. Cardinality(rest) = Cardinality(Where(s))
    BY <2>1
  <2>3. Frames(Tail(s)) = Frames(s) /\ Frames(s) \in Nat
    <3> HIDE DEF rest
    <3> QED
      BY <1>6, <1>7, <2>2
  <2> QED
    BY <1>9, <2>3
<1> QED
  BY <1>8, <1>9

-----------------------------------------------------------------------------
(* The throttle.                                                           *)

\* The EE is between a frame's packet and the end of its wait for the queue.
Section == ee \in {"kick", "count", "listen", "vsyncWait"} /\ cmd = "VSync"

Shown == IF gs \in {"vsyncSignal", "exec"} /\ got[1][1] = "VSync" THEN 1 ELSE 0
ToShow == Frames(fifo) - Shown
Uncounted == IF ee \in {"kick", "count"} /\ cmd = "VSync" THEN 1 ELSE 0

\* One frame over the queue; none where the GS thread is about to end a wait.
Allowed ==
  VsyncQueueSize + (IF gs \in {"ringValve", "valve", "vsyncSignal"} THEN 0 ELSE 1)

FrameCount ==
  /\ ee \in {"count", "listen", "vsyncWait"} => cmd = "VSync"
  /\ gs \in {"vsync", "vsyncSignal"} => got[1][1] = "VSync"
  /\ QueuedFrameCount = ToShow - Uncounted
  /\ ToShow <= Allowed + (IF Section THEN 1 ELSE 0)
  /\ VsyncSem = 1 => ToShow <= Allowed

LEMMA FrameTypes ==
  ASSUME IInv
  PROVE  /\ ToShow \in Int /\ Shown \in {0, 1} /\ Uncounted \in {0, 1}
         /\ Allowed \in Int /\ Frames(fifo) \in Nat /\ VsyncQueueSize \in Nat
<1>1. Frames(fifo) \in Nat
  BY FramesFinite DEF IInv, Ring
<1> QED
  BY <1>1, MTGSAssumption DEF ToShow, Shown, Uncounted, Allowed

\* A step of the EE that neither sends nor counts a frame.
LEMMA FrameKept ==
  ASSUME IInv, FrameCount,
         UNCHANGED <<fifo, gs, got, QueuedFrameCount>>,
         VsyncSem' \in {0, VsyncSem},
         \/ ee \notin {"kick", "count", "listen", "vsyncWait"} /\ ee' # "kick"
            /\ ee' \notin {"count", "listen", "vsyncWait"}
         \/ ee = "kick" /\ cmd = "VSync" /\ ee' = "count" /\ cmd' = cmd
         \/ ee = "kick" /\ cmd # "VSync" /\ ee' \in {"run", "clear"}
         \/ ee = "listen" /\ ee' = "vsyncWait" /\ cmd' = cmd
         \/ ee = "vsyncWait" /\ VsyncSem = 1 /\ ee' = "run"
         \/ ee' = ee /\ cmd' = cmd
  PROVE  FrameCount'
<1>1. ToShow' = ToShow /\ Allowed' = Allowed
  BY DEF ToShow, Shown, Allowed
<1>2. Uncounted' = Uncounted
  BY DEF Uncounted, FrameCount
<1>3. ToShow \in Int /\ Allowed \in Int
  BY FrameTypes
<1>4. ToShow' <= Allowed' + (IF Section' THEN 1 ELSE 0)
  <2>1. CASE Section'
    BY <1>1, <1>3, <2>1 DEF FrameCount
  <2>2. CASE ~Section' /\ ~Section
    BY <1>1, <1>3, <2>2 DEF FrameCount
  <2>3. CASE ~Section' /\ Section
    <3>1. ee = "vsyncWait" /\ VsyncSem = 1
      BY <2>3 DEF Section
    <3> QED
      BY <1>1, <1>3, <2>3, <3>1 DEF FrameCount
  <2> QED
    BY <2>1, <2>2, <2>3
<1>5. VsyncSem' = 1 => ToShow' <= Allowed'
  BY <1>1 DEF FrameCount
<1>6. QueuedFrameCount' = ToShow' - Uncounted'
  BY <1>1, <1>2 DEF FrameCount
<1>7. /\ ee' \in {"count", "listen", "vsyncWait"} => cmd' = "VSync"
      /\ gs' \in {"vsync", "vsyncSignal"} => got'[1][1] = "VSync"
  BY DEF FrameCount
<1> QED
  BY <1>4, <1>5, <1>6, <1>7 DEF FrameCount

LEMMA InitFrameCount == Init => FrameCount
<1> SUFFICES ASSUME Init PROVE FrameCount
  OBVIOUS
<1>1. Frames(fifo) = 0 /\ Shown = 0 /\ Uncounted = 0 /\ ~Section
  BY FramesNone DEF Init, Shown, Uncounted, Section
<1>2. Allowed = VsyncQueueSize + 1 /\ VsyncQueueSize \in Nat
  BY MTGSAssumption DEF Init, Allowed
<1>3. ToShow = 0
  BY <1>1 DEF ToShow
<1> QED
  BY <1>1, <1>2, <1>3 DEF Init, FrameCount

\* A frame that is sent is due, and counted by the next step but one.
LEMMA FrameSent ==
  ASSUME IInv, FrameCount, Publish
  PROVE  FrameCount'
<1> DEFINE p == Packet(Command(cmd), nextId)
<1>1. p \in Packets /\ (IsFrame(p) <=> cmd = "VSync")
  <2>1. Command(cmd) \in Commands /\ nextId \in Ids
    BY DEF IInv, Places, Command, Commands
  <2>2. p[1] = <<Command(cmd), nextId>>
    BY <2>1, PacketIs
  <2>3. p[1][1] = Command(cmd)
    BY <2>2
  <2> QED
    BY <2>1, <2>3 DEF Packets, IsFrame, Command
<1>2. fifo \in Seq(Packets)
  BY DEF IInv, Ring
<1>3. /\ fifo' = Append(fifo, p) /\ gs' = gs /\ got' = got
      /\ QueuedFrameCount' = QueuedFrameCount /\ VsyncSem' = VsyncSem
      /\ ee = "publish" /\ \E t : ee' = AfterPublish(t)
      /\ cmd = "VSync" => ee' = "kick" /\ cmd' = cmd
      /\ cmd # "VSync" => ee' # "kick" \/ cmd' = cmd
  BY DEF Publish, gsVars, vsyncVars, EEGo, AfterPublish
<1>4. ee' \in {"kick", "syncKick", "run"}
  BY <1>3, Onward DEF IInv
<1> HIDE DEF p
<1>5. /\ Frames(fifo') = Frames(fifo) + (IF cmd = "VSync" THEN 1 ELSE 0)
      /\ Shown' = Shown /\ Allowed' = Allowed
  <2>1. Frames(Append(fifo, p)) = Frames(fifo) + (IF IsFrame(p) THEN 1 ELSE 0)
    BY <1>1, <1>2, FramesAppend
  <2> QED
    BY <1>1, <1>3, <2>1 DEF Shown, Allowed
<1>6. /\ Uncounted = 0 /\ ~Section
      /\ cmd = "VSync" => Uncounted' = 1 /\ Section'
      /\ cmd # "VSync" => Uncounted' = 0 /\ ~Section'
  BY <1>3, <1>4 DEF Uncounted, Section
<1>7. /\ ToShow \in Int /\ Allowed \in Int /\ Shown \in {0, 1}
      /\ Frames(fifo) \in Nat
  BY FrameTypes
<1>8. ToShow' = ToShow + (IF cmd = "VSync" THEN 1 ELSE 0)
  BY <1>5, <1>7 DEF ToShow
<1>9. VsyncSem # 1
  BY <1>3 DEF IInv, Throttle
<1>10. QueuedFrameCount = ToShow /\ ToShow <= Allowed
  BY <1>6, <1>7 DEF FrameCount
<1>11. /\ QueuedFrameCount' = ToShow' - Uncounted'
       /\ ToShow' <= Allowed' + (IF Section' THEN 1 ELSE 0)
  <2>1. CASE cmd = "VSync"
    BY <1>3, <1>5, <1>6, <1>7, <1>8, <1>10, <2>1
  <2>2. CASE cmd # "VSync"
    BY <1>3, <1>5, <1>6, <1>7, <1>8, <1>10, <2>2
  <2> QED
    BY <2>1, <2>2
<1> QED
  BY <1>3, <1>4, <1>9, <1>11 DEF FrameCount

\* The EE counts it, and waits if the queue is full.
LEMMA FrameCounted ==
  ASSUME IInv, FrameCount, CountFrame
  PROVE  FrameCount'
<1>1. /\ ee = "count" /\ cmd = "VSync"
      /\ UNCHANGED <<fifo, gs, got, VsyncSem>>
      /\ QueuedFrameCount' = QueuedFrameCount + 1
      /\ ee' = IF QueuedFrameCount < VsyncQueueSize THEN "run" ELSE "listen"
      /\ ee' = "listen" => cmd' = cmd
  BY DEF CountFrame, FrameCount, gsVars, EESet, EEGo, history
<1>2. ToShow' = ToShow /\ Allowed' = Allowed
  BY <1>1 DEF ToShow, Shown, Allowed
<1>3. /\ ToShow \in Int /\ Allowed \in Int /\ VsyncQueueSize \in Nat
      /\ Allowed >= VsyncQueueSize
  BY FrameTypes DEF Allowed
<1>4. Uncounted = 1 /\ Uncounted' = 0 /\ Section /\ (ee' = "listen" => Section')
  BY <1>1 DEF Uncounted, Section
<1>5. VsyncSem # 1
  BY <1>1 DEF IInv, Throttle
<1>6. QueuedFrameCount' = ToShow' - Uncounted'
  BY <1>1, <1>2, <1>3, <1>4 DEF FrameCount
<1>7. ToShow' <= Allowed' + (IF Section' THEN 1 ELSE 0)
  <2>1. CASE QueuedFrameCount < VsyncQueueSize
    <3>1. QueuedFrameCount = ToShow - 1
      BY <1>4 DEF FrameCount
    <3>2. ToShow' <= Allowed'
      BY <1>2, <1>3, <2>1, <3>1
    <3> QED
      BY <1>2, <1>3, <3>2
  <2>2. CASE ~(QueuedFrameCount < VsyncQueueSize)
    BY <1>1, <1>2, <1>4, <2>2 DEF FrameCount
  <2> QED
    BY <2>1, <2>2
<1> QED
  BY <1>1, <1>5, <1>6, <1>7 DEF FrameCount

\* The GS thread takes a packet in hand.
LEMMA FrameRead ==
  ASSUME IInv, FrameCount, ReadPacket
  PROVE  FrameCount'
<1>1. /\ gs = "drain" /\ got'[1] = ring[ReadPos]
      /\ gs' = IF ring[ReadPos][1] = "VSync" THEN "vsync" ELSE "exec"
      /\ UNCHANGED <<ee, cmd, fifo, QueuedFrameCount, VsyncSem>>
  <2>1. Advance(ReadPos, 0) = ReadPos
    BY AdvanceIs, Constants DEF IInv, Positions
  <2>2. 1 \in 1..PacketSize(ring[ReadPos][1])
    BY Constants DEF PacketSize
  <2>3. PacketAt(ReadPos)[1] = ring[Advance(ReadPos, 0)]
    BY <2>2 DEF PacketAt
  <2> QED
    BY <2>1, <2>3 DEF ReadPacket, vsyncVars, eeVars, history
<1>2. Shown = 0 /\ Shown' = 0
  BY <1>1 DEF Shown
<1>3. ToShow' = ToShow /\ Allowed' = Allowed
  BY <1>1, <1>2 DEF ToShow, Allowed
<1>4. (Section' <=> Section) /\ Uncounted' = Uncounted
  BY <1>1 DEF Section, Uncounted
<1> QED
  BY <1>1, <1>3, <1>4 DEF FrameCount

\* A frame is shown: it no longer counts.
LEMMA FrameShown ==
  ASSUME IInv, FrameCount, VsyncDone
  PROVE  FrameCount'
<1>1. /\ gs = "vsync" /\ gs' = "vsyncSignal"
      /\ QueuedFrameCount' = QueuedFrameCount - 1
      /\ UNCHANGED <<ee, cmd, fifo, got, VsyncSem>>
  BY DEF VsyncDone, GSSet, eeVars, history
<1>2. Shown = 0 /\ Shown' = 1
  BY <1>1 DEF Shown, FrameCount
<1>3. /\ ToShow \in Int /\ Frames(fifo) \in Nat /\ VsyncQueueSize \in Nat
      /\ Uncounted \in {0, 1} /\ Allowed \in Int
  BY FrameTypes
<1>4. ToShow' = ToShow - 1
  BY <1>1, <1>2, <1>3 DEF ToShow
<1>5. Allowed' = Allowed - 1
  BY <1>1, <1>3 DEF Allowed
<1>6. (Section' <=> Section) /\ Uncounted' = Uncounted
  BY <1>1 DEF Section, Uncounted
<1>7. QueuedFrameCount' = ToShow' - Uncounted'
  BY <1>1, <1>3, <1>4, <1>6 DEF FrameCount
<1>8. ToShow' <= Allowed' + (IF Section' THEN 1 ELSE 0)
  <2>1. ToShow <= Allowed + (IF Section THEN 1 ELSE 0)
    BY DEF FrameCount
  <2>2. CASE Section
    BY <1>3, <1>4, <1>5, <1>6, <2>1, <2>2
  <2>3. CASE ~Section
    BY <1>3, <1>4, <1>5, <1>6, <2>1, <2>3
  <2> QED
    BY <2>2, <2>3
<1>9. VsyncSem' = 1 => ToShow' <= Allowed'
  BY <1>1, <1>3, <1>4, <1>5 DEF FrameCount
<1> QED
  BY <1>1, <1>7, <1>8, <1>9 DEF FrameCount

\* The GS thread ends a wait: of the frame shown, or of whatever waits when the
\* ring was empty.  What is due by then is one frame less than it allows.
LEMMA FrameSignalled ==
  ASSUME IInv, FrameCount, VsyncSignal \/ VsyncValve
  PROVE  FrameCount'
<1>1. /\ gs \in {"valve", "vsyncSignal"} /\ gs' = IF gs = "valve" THEN "look" ELSE "exec"
      /\ UNCHANGED <<ee, cmd, fifo, got, QueuedFrameCount>>
      /\ ~VsyncSignalListener => VsyncSem' = VsyncSem
  BY DEF VsyncSignal, VsyncValve, SignalVsync, GSSet, eeVars, history
<1>2. Shown' = Shown
  BY <1>1 DEF Shown
<1>3. ToShow \in Int /\ VsyncQueueSize \in Nat /\ Allowed \in Int
  BY FrameTypes
<1>4. ToShow' = ToShow
  BY <1>1, <1>2 DEF ToShow
<1>5. Allowed' = Allowed + 1
  BY <1>1, <1>3 DEF Allowed
<1>6. (Section' <=> Section) /\ Uncounted' = Uncounted
  BY <1>1 DEF Section, Uncounted
<1>7. ToShow' <= Allowed'
  BY <1>3, <1>4, <1>5 DEF FrameCount
<1>8. ToShow' <= Allowed' + (IF Section' THEN 1 ELSE 0)
  BY <1>3, <1>4, <1>5, <1>7
<1> QED
  BY <1>1, <1>4, <1>6, <1>7, <1>8 DEF FrameCount

\* The packet is done.
LEMMA FrameDone ==
  ASSUME IInv, FrameCount, AdvanceReadPos
  PROVE  FrameCount'
<1>1. /\ gs = "exec" /\ gs' = "signal" /\ fifo' = Tail(fifo)
      /\ fifo # <<>> /\ got = Head(fifo)
      /\ UNCHANGED <<ee, cmd, QueuedFrameCount, VsyncSem>>
  BY DEF AdvanceReadPos, GSSet, eeVars, vsyncVars, IInv, InHand, Executing
<1>2. Frames(fifo') = Frames(fifo) - (IF IsFrame(Head(fifo)) THEN 1 ELSE 0)
  BY <1>1, FramesTail DEF IInv, Ring
<1>3. Shown' = 0 /\ Shown = IF IsFrame(Head(fifo)) THEN 1 ELSE 0
  BY <1>1 DEF Shown, IsFrame
<1>4. Frames(fifo) \in Nat
  BY FrameTypes
<1>5. ToShow' = ToShow
  BY <1>2, <1>3, <1>4 DEF ToShow
<1>6. Allowed' = Allowed /\ (Section' <=> Section) /\ Uncounted' = Uncounted
  BY <1>1 DEF Allowed, Section, Uncounted
<1> QED
  BY <1>1, <1>5, <1>6 DEF FrameCount

\* An empty ring: nothing is due, and whoever comes to wait may go on.
LEMMA FrameValve ==
  ASSUME IInv, FrameCount, SeenEmpty
  PROVE  FrameCount'
<1>1. /\ gs = "drain" /\ gs' = "ringValve" /\ ReadPos = WritePos
      /\ UNCHANGED <<ee, cmd, fifo, got, QueuedFrameCount, VsyncSem>>
  BY DEF SeenEmpty, GSSet, eeVars, vsyncVars, history
<1>2. fifo = <<>>
  BY <1>1, RoomIs DEF IInv
<1>3. Shown = 0 /\ Shown' = 0
  BY <1>1 DEF Shown
<1>4. ToShow = 0 /\ ToShow' = 0
  BY <1>1, <1>2, <1>3, FramesNone DEF ToShow
<1>5. Allowed' = VsyncQueueSize /\ VsyncQueueSize \in Nat
  BY <1>1, FrameTypes DEF Allowed
<1>6. (Section' <=> Section) /\ Uncounted' = Uncounted
  BY <1>1 DEF Section, Uncounted
<1>7. ToShow' <= Allowed' /\ ToShow' <= Allowed' + (IF Section' THEN 1 ELSE 0)
  BY <1>4, <1>5
<1> QED
  BY <1>1, <1>4, <1>6, <1>7 DEF FrameCount

\* The GS thread looks, sleeps, and goes on to the next packet.
LEMMA FrameElsewhere ==
  ASSUME IInv, FrameCount, CheckForWork \/ WaitForWork \/ Awake \/ RingSignal \/ RingValve
  PROVE  FrameCount'
<1>1. /\ \/ gs \in {"look", "asleep", "signal"} /\ gs' \in {"asleep", "drain"}
         \/ gs = "ringValve" /\ gs' = "valve"
      /\ UNCHANGED <<ee, cmd, fifo, QueuedFrameCount, VsyncSem>>
  BY DEF CheckForWork, WaitForWork, Awake, RingSignal, RingValve, GSSet, eeVars,
     vsyncVars, history
<1>2. Shown = 0 /\ Shown' = 0
  BY <1>1 DEF Shown
<1>3. ToShow' = ToShow /\ Allowed' = Allowed
  BY <1>1, <1>2 DEF ToShow, Allowed
<1>4. (Section' <=> Section) /\ Uncounted' = Uncounted
  BY <1>1 DEF Section, Uncounted
<1> QED
  BY <1>1, <1>3, <1>4 DEF FrameCount

LEMMA NextFrameCount ==
  ASSUME IInv, FrameCount, [Next]_vars, ~astray'
  PROVE  FrameCount'
<1> USE DEF vars, posVars, signalVars, vsyncVars, eeVars, gsVars, history, EEGo,
         EESet, EEKick
<1>1. ASSUME NEW r \in Requests, Request(r) PROVE FrameCount'
  BY <1>1, FrameKept DEF Request
<1>2. CASE \/ Stall \/ StallEnable \/ StallKick \/ RingWait \/ SpinKick \/ Spin
           \/ SyncKick \/ Listen
  BY <1>2, FrameKept DEF Stall, StallEnable, StallKick, RingWait, SpinKick, Spin,
     SyncKick, Listen
<1>3. CASE Kick
  BY <1>3, FrameKept DEF Kick, AfterKick
<1>4. CASE VsyncWait
  <2>1. VsyncSem = 1 /\ VsyncSem' = 0
    BY <1>4 DEF VsyncWait, IInv, Throttle
  <2> QED
    BY <1>4, <2>1, FrameKept DEF VsyncWait
<1>5. CASE WaitForEmpty \/ EmptyWake \/ Synced
  BY <1>5, FrameKept DEF WaitForEmpty, EmptyWake, Synced
<1>6. CASE ResetGS
  <2>1. /\ ee = "clear" /\ ee' = "stall" /\ fifo = <<>> /\ fifo' = <<>>
        /\ gs' = gs /\ got' = got /\ VsyncSem' = VsyncSem /\ QueuedFrameCount' = 0
    BY <1>6 DEF ResetGS
  <2>2. Shown = 0 /\ Uncounted = 0
    BY <2>1 DEF Shown, Uncounted, IInv, InHand, Executing
  <2>3. QueuedFrameCount = 0
    BY <2>1, <2>2, FramesNone DEF FrameCount, ToShow
  <2> QED
    BY <2>1, <2>3, FrameKept
<1>7. CASE UNCHANGED vars
  BY <1>7, FrameKept
<1> QED
  BY <1>1, <1>2, <1>3, <1>4, <1>5, <1>6, <1>7, FrameSent, FrameCounted, FrameRead,
     FrameShown, FrameSignalled, FrameDone, FrameValve, FrameElsewhere
     DEF Next, EEStep, GSStep

\* The throttle: the count is that of the frames sent and not shown, and the EE
\* is never more than one over what the queue allows (PostVsyncStart against the
\* two places of MainLoop that end its wait), until a reset loses the count.
THEOREM FramesSafe == Spec => []FramesBounded
<1> DEFINE Good == Inv /\ (~astray => FrameCount)
<1>1. Init => Good
  BY Initially, InitFrameCount DEF Inv
<1>2. Good /\ [Next]_vars => Good'
  BY NextAlways, HistoryKept, Step, NextFrameCount DEF Inv
<1>3. Good => FramesBounded
  <2> SUFFICES ASSUME Good PROVE FramesBounded
    OBVIOUS
  <2>1. ee = "run" => ~Section /\ Uncounted = 0
    BY DEF Section, Uncounted
  <2>2. ASSUME ~astray
        PROVE  /\ ee = "run" => ToShow <= VsyncQueueSize + 1
               /\ QueuedFrameCount = ToShow - Uncounted
    <3>1. IInv /\ FrameCount
      BY <2>2 DEF Inv
    <3>2. /\ ToShow \in Int /\ Allowed \in Int /\ VsyncQueueSize \in Nat
          /\ Allowed <= VsyncQueueSize + 1
      BY <3>1, FrameTypes DEF Allowed
    <3> QED
      BY <2>1, <3>1, <3>2 DEF FrameCount
  <2>3. ee # "vsyncWait" => VsyncSem = 0
    BY DEF Inv, Always, Throttle
  <2> QED
    BY <2>2, <2>3, Zenon DEF FramesBounded, ToShow, Shown, Uncounted
<1> QED
  BY <1>1, <1>2, <1>3, PTL DEF Spec
=============================================================================
