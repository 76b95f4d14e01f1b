--------------------------- MODULE MTVURingProofs ---------------------------
(***************************************************************************)
(* The VU1 ring, for every buffer, safety net and set of packet sizes:     *)
(* positions stay in the buffer, packets are intact and in order until the *)
(* EE has come round to a reader at position 0, and WaitVU drains.         *)
(*                                                                         *)
(* The packets that are due lie in one lap of the buffer or in two, with a *)
(* NULL packet at the end of the first; what a writer with room writes, or *)
(* the reader leaves, is apart from all of them.                           *)
(***************************************************************************)
EXTENDS MTVURing, TLAPS

-----------------------------------------------------------------------------
Records == [pos : 0..(BufferSize - 1), size : 1..BufferSize, id : 0..IdMod]

Null(k) == pending[k].id = IdMod
NullIn(i, j) == \E m \in i..j : Null(m)
End(k) == pending[k].pos + pending[k].size

\* Where the k-th packet begins, and where the writer is behind the last.
At(k) == IF k = 1 THEN readPos ELSE After(pending[k - 1])

Chain ==
  /\ \A k \in 1..Len(pending) : pending[k].pos = At(k)
  /\ writePos = At(Len(pending) + 1)

Whole ==
  \A k \in 1..Len(pending) :
    /\ IF Null(k) THEN pending[k].size = 1 ELSE End(k) <= BufferSize - 1
    /\ Intact(pending[k])

OneNull == \A i, j \in 1..Len(pending) : Null(i) /\ Null(j) => i = j

\* In the writer's lap everything is behind the writer, ...
Behind == \A k \in 1..Len(pending) : NullIn(k, Len(pending)) \/ End(k) <= writePos

\* ... in the reader's lap everything is ahead of the reader, ...
AheadOf == \A k \in 1..Len(pending) : NullIn(1, k - 1) \/ readPos <= pending[k].pos

\* ... and in one lap each packet is behind the ones before it.
Ordered ==
  \A i, j \in 1..Len(pending) :
    i < j => NullIn(i, j - 1) \/ End(i) <= pending[j].pos

\* When the laps differ, the writer is behind the reader.
Laps ==
  /\ NullIn(1, Len(pending)) => overrun \/ writePos < readPos
  /\ NullIn(1, Len(pending)) \/ readPos <= writePos

Ring ==
  /\ pending \in Seq(Records)
  /\ Chain /\ Whole /\ OneNull /\ Behind /\ AheadOf /\ Ordered /\ Laps

Places ==
  /\ overrun => ee = "room" /\ writePos = 0
  /\ ee \in {"wrap", "wrapWrite", "room", "write"} => size \in Sizes
  /\ ee \in {"wrap", "wrapWrite"} => NeedsWrap(size)
  /\ ee \in {"room", "write"} => ~NeedsWrap(size)
  \* The room that was found stays while the reader moves on.
  /\ ee = "wrapWrite" => RoomFor(1)
  /\ ee = "write" => RoomFor(size)
  /\ vu = "exec" => pending # <<>>

\* An idle worker has nothing to do, unless the EE is about to tell it.
Idle ==
  /\ event = "parked" => vu = "parked"
  /\ pending # <<>> =>
       \/ event = "runningN" \/ vu \in {"drain", "exec"}
       \/ ee \in {"kick", "room", "write"}
  /\ emptyToken = 1 \/ ee = "waited" => event = "parked"
  /\ emptyFlag => ee = "emptyWait"
  /\ emptyToken = 1 => ee = "emptyWait" /\ ~emptyFlag
  /\ ee = "emptyWait" => emptyFlag \/ emptyToken = 1

IInv == TypeOK /\ Ring /\ Places /\ Idle

-----------------------------------------------------------------------------
LEMMA AppendFacts ==
  ASSUME NEW S, NEW s \in Seq(S), NEW e \in S
  PROVE  /\ Append(s, e) \in Seq(S)
         /\ Len(Append(s, e)) = Len(s) + 1
         /\ \A k \in 1..Len(s) : Append(s, e)[k] = s[k]
         /\ Append(s, e)[Len(s) + 1] = e
  OBVIOUS

LEMMA TailFacts ==
  ASSUME NEW S, NEW s \in Seq(S), s # <<>>
  PROVE  /\ Tail(s) \in Seq(S)
         /\ Len(Tail(s)) = Len(s) - 1 /\ Len(s) \in Nat /\ Len(s) > 0
         /\ \A k \in 1..(Len(s) - 1) : Tail(s)[k] = s[k + 1]
  OBVIOUS

LEMMA Facts ==
  ASSUME IInv
  PROVE  /\ pending \in Seq(Records)
         /\ Len(pending) \in Nat
         /\ \A k \in 1..Len(pending) :
              /\ pending[k] \in Records
              /\ pending[k].pos \in 0..(BufferSize - 1)
              /\ pending[k].size \in 1..BufferSize
              /\ pending[k].id \in 0..IdMod
<1>1. pending \in Seq(Records)
  BY DEF IInv, Ring
<1>2. Len(pending) \in Nat /\ \A k \in 1..Len(pending) : pending[k] \in Records
  BY <1>1
<1>3. \A r \in Records :
        r.pos \in 0..(BufferSize - 1) /\ r.size \in 1..BufferSize /\ r.id \in 0..IdMod
  BY DEF Records
<1> QED
  BY <1>1, <1>2, <1>3

LEMMA RecordsTyped ==
  ASSUME NEW s \in Seq(Records), NEW k \in DOMAIN s
  PROVE  /\ s[k].pos \in 0..(BufferSize - 1)
         /\ s[k].size \in 1..BufferSize
         /\ s[k].id \in 0..IdMod
<1>1. s[k] \in Records
  OBVIOUS
<1> QED
  BY <1>1 DEF Records

LEMMA RecordIsRecord ==
  ASSUME NEW p \in 0..(BufferSize - 1), NEW n \in 1..BufferSize, NEW id \in 0..IdMod
  PROVE  /\ Record(p, n, id) \in Records
         /\ Record(p, n, id).pos = p /\ Record(p, n, id).size = n
         /\ Record(p, n, id).id = id
  BY DEF Record, Records

-----------------------------------------------------------------------------
(* A write: what it does to the words that are due.                        *)

\* The words at w..w+n-1 are nobody's.
Apart(w, n) ==
  \A k \in 1..Len(pending) :
    End(k) <= w \/ w + n <= pending[k].pos

LEMMA Untouched ==
  ASSUME IInv, NEW w \in Nat, NEW n \in Nat, Apart(w, n),
         \A i \in DOMAIN buffer : i \notin w..(w + n - 1) => buffer'[i] = buffer[i],
         NEW k \in 1..Len(pending)
  PROVE  \A i \in 0..(pending[k].size - 1) :
           buffer'[pending[k].pos + i] = Word(pending[k].id, pending[k].size, i)
<1> SUFFICES ASSUME NEW i \in 0..(pending[k].size - 1)
             PROVE  buffer'[pending[k].pos + i] = Word(pending[k].id, pending[k].size, i)
  OBVIOUS
<1>1. /\ pending[k].pos \in 0..(BufferSize - 1)
      /\ pending[k].size \in 1..BufferSize
      /\ IF Null(k) THEN pending[k].size = 1 ELSE End(k) <= BufferSize - 1
      /\ buffer[pending[k].pos + i] = Word(pending[k].id, pending[k].size, i)
  BY Facts DEF IInv, Ring, Whole, Intact
<1>2. DOMAIN buffer = 0..(BufferSize - 1)
  BY DEF IInv, TypeOK
<1>3. pending[k].pos + i \in DOMAIN buffer
  BY SMTT(30), <1>1, <1>2, MTVURingAssumption DEF End
<1>4. pending[k].pos + i \notin w..(w + n - 1)
  BY SMTT(30), <1>1 DEF Apart, End
<1> QED
  BY <1>1, <1>3, <1>4

-----------------------------------------------------------------------------
(* The steps that leave the ring alone.                                    *)

LEMMA RingStands ==
  ASSUME IInv, UNCHANGED ringVars
  PROVE  Ring'
  BY ZenonT(60) DEF IInv, ringVars, Ring, Chain, Whole, OneNull, Behind, AheadOf, Ordered,
         Laps, Null, NullIn, End, At, After, Intact, Records, Word

LEMMA EEStands ==
  ASSUME IInv,
         \/ \E n \in Sizes : Request(n)
         \/ WaitOnSize \/ FindRoom \/ KickStart \/ WaitVU \/ EmptyWake \/ Waited
  PROVE  IInv'
<1>1. UNCHANGED ringVars
  BY DEF Request, WaitOnSize, FindRoom, KickStart, WaitVU, EmptyWake, Waited
<1>2. Ring'
  BY <1>1, RingStands
<1>3. TypeOK /\ Places /\ Idle
  BY DEF IInv
<1>4. ASSUME NEW n \in Sizes, Request(n) PROVE TypeOK' /\ Places' /\ Idle'
  BY <1>3, <1>4, MTVURingAssumption
     DEF Request, TypeOK, Places, Idle, NeedsWrap, ringVars, eventVars
<1>5. CASE WaitOnSize
  <2>1. TypeOK'
    BY <1>3, <1>5 DEF WaitOnSize, TypeOK, Event!NotifyOfWork, Event!emptyVars,
                      ringVars, eeVars
  <2>2. Places' /\ Idle'
    BY <1>3, <1>5 DEF WaitOnSize, TypeOK, Places, Idle, Event!NotifyOfWork,
                      Event!emptyVars, ringVars, eeVars, NeedsWrap, RoomFor
  <2> QED
    BY <1>2, <2>1, <2>2 DEF IInv
<1>6. CASE KickStart
  <2>1. TypeOK'
    BY <1>3, <1>6 DEF KickStart, TypeOK, Event!NotifyOfWork, Event!emptyVars, ringVars
  <2>2. Places' /\ Idle'
    BY <1>3, <1>6 DEF KickStart, TypeOK, Places, Idle, Event!NotifyOfWork,
                      Event!emptyVars, ringVars
  <2> QED
    BY <1>2, <2>1, <2>2 DEF IInv
<1>7. CASE WaitVU
  <2>1. TypeOK'
    BY <1>3, <1>7 DEF WaitVU, TypeOK, Event!IsIdle, Event!WaitForEmpty,
                      ringVars, eventVars
  <2>2. Places' /\ Idle'
    BY <1>3, <1>7 DEF WaitVU, TypeOK, Places, Idle, Event!IsIdle,
                      Event!WaitForEmpty, ringVars, eventVars
  <2> QED
    BY <1>2, <2>1, <2>2 DEF IInv
<1>8. CASE EmptyWake
  <2>1. TypeOK'
    BY <1>3, <1>8 DEF EmptyWake, TypeOK, Event!EmptyWake, ringVars
  <2>2. Places' /\ Idle'
    BY <1>3, <1>8 DEF EmptyWake, TypeOK, Places, Idle, Event!EmptyWake, ringVars
  <2> QED
    BY <1>2, <2>1, <2>2 DEF IInv
<1>9. CASE Waited
  BY <1>2, <1>3, <1>9 DEF IInv, Waited, TypeOK, Places, Idle, ringVars, eventVars
<1>10. CASE FindRoom
  <2>1. TypeOK'
    BY <1>3, <1>10 DEF FindRoom, TypeOK, ringVars, eventVars
  <2>2. Places' /\ Idle'
    BY <1>3, <1>10 DEF FindRoom, Places, Idle, NeedsWrap, RoomFor, ringVars,
                       eventVars
  <2> QED
    BY <1>2, <2>1, <2>2 DEF IInv
<1> QED
  BY <1>2, <1>4, <1>5, <1>6, <1>7, <1>8, <1>9, <1>10 DEF IInv

\* The ring looks empty only when it is.
LEMMA EmptyIsEmpty ==
  ASSUME IInv, ~overrun
  PROVE  EmptyMeansEmpty
<1> SUFFICES ASSUME readPos = writePos, Len(pending) >= 1
             PROVE  FALSE
  BY Facts DEF EmptyMeansEmpty
<1>1. pending[1].pos = readPos /\ pending[1].size \in 1..BufferSize
  BY Facts DEF IInv, Ring, Chain, At
<1>2. readPos \in Nat /\ writePos \in Nat
  BY DEF IInv, TypeOK
<1>3. ~NullIn(1, Len(pending))
  BY <1>2 DEF IInv, Ring, Laps
<1>4. End(1) <= writePos
  BY <1>3, Facts DEF IInv, Ring, Behind
<1> QED
  BY <1>1, <1>2, <1>4 DEF End

LEMMA VUStands ==
  ASSUME IInv, WaitForWork \/ Awake \/ ReadTag
  PROVE  IInv'
<1>1. UNCHANGED ringVars
  BY DEF WaitForWork, Awake, ReadTag
<1>2. Ring'
  BY <1>1, RingStands
<1>3. TypeOK /\ Places /\ Idle
  BY DEF IInv
<1>4. pending = <<>> <=> Len(pending) = 0
  BY Facts
<1>5. writePos = At(Len(pending) + 1)
  BY DEF IInv, Ring, Chain
<1>6. CASE WaitForWork
  <2>1. TypeOK'
    <3>1. emptyFlag => emptyToken = 0
      BY <1>3 DEF TypeOK, Idle
    <3>2. CASE Event!IdleLook("parked") /\ vu' = "parked"
      <4>1. emptyFlag' \in BOOLEAN
        BY <3>2, Zenon DEF Event!IdleLook, Event!Answer
      <4>2. emptyToken' \in 0..1
        <5>1. emptyToken \in 0..1
          BY <1>3 DEF TypeOK
        <5>2. emptyFlag => emptyToken' = emptyToken + 1
          BY <3>2, Zenon DEF Event!IdleLook, Event!Answer
        <5>3. ~emptyFlag => emptyToken' = emptyToken
          BY <3>2, Zenon DEF Event!IdleLook, Event!Answer
        <5>4. emptyToken' = emptyToken \/ (emptyToken = 0 /\ emptyToken' = emptyToken + 1)
          BY <3>1, <5>2, <5>3, Zenon
        <5> QED
          BY <5>1, <5>4
      <4> QED
        BY <1>3, <1>6, <3>2, <4>1, <4>2
           DEF WaitForWork, TypeOK, Event!IdleLook, ringVars, eeVars
    <3>3. CASE Event!BusyLook /\ vu' = "drain"
      BY <1>3, <1>6, <3>3 DEF WaitForWork, TypeOK, Event!BusyLook,
                              Event!emptyVars, ringVars, eeVars
    <3> QED
      BY <1>6, <3>2, <3>3 DEF WaitForWork
  <2>2. Places'
    BY <1>3, <1>6 DEF WaitForWork, Places, ringVars, eeVars, NeedsWrap,
                      RoomFor
  <2>3. CASE Event!IdleLook("parked") /\ vu' = "parked"
    BY <1>2, <1>3, <1>6, <2>1, <2>2, <2>3
       DEF IInv, WaitForWork, TypeOK, Idle, Event!IdleLook, Event!Answer,
           ringVars, eeVars
  <2>4. CASE Event!BusyLook /\ vu' = "drain"
    BY <1>2, <1>3, <1>6, <2>1, <2>2, <2>4
       DEF IInv, WaitForWork, TypeOK, Idle, Event!BusyLook, Event!emptyVars,
           ringVars, eeVars
  <2> QED
    BY <1>6, <2>3, <2>4 DEF WaitForWork
<1>7. CASE Awake
  <2>1. TypeOK'
    BY <1>3, <1>7 DEF Awake, TypeOK, Event!BusyLook, Event!emptyVars, ringVars, eeVars
  <2>2. Places' /\ Idle'
    BY <1>3, <1>7 DEF Awake, TypeOK, Places, Idle, Event!BusyLook,
                      Event!emptyVars, ringVars, eeVars, NeedsWrap, RoomFor
  <2> QED
    BY <1>2, <2>1, <2>2 DEF IInv
<1>8. CASE ReadTag
  <2>1. TypeOK'
    BY <1>3, <1>8 DEF ReadTag, TypeOK, ringVars, eeVars, eventVars
  <2>2. readPos # writePos => pending # <<>>
    BY <1>4, <1>5 DEF At
  <2>3. Places'
    BY <1>3, <1>8, <2>2 DEF ReadTag, Places, ringVars, eeVars, NeedsWrap, RoomFor
  <2>4. Idle'
    BY <1>3, <1>8, EmptyIsEmpty DEF EmptyMeansEmpty, ReadTag, TypeOK, Places, Idle, ringVars, eeVars, eventVars
  <2> QED
    BY <1>2, <2>1, <2>3, <2>4 DEF IInv
<1> QED
  BY <1>6, <1>7, <1>8

-----------------------------------------------------------------------------
(* A packet more.                                                          *)

LEMMA Grown ==
  ASSUME IInv, NEW e \in Records, pending' = Append(pending, e),
         NEW L, L = Len(pending)
  PROVE  /\ L \in Nat
         /\ pending' \in Seq(Records) /\ Len(pending)' = L + 1
         /\ pending'[L + 1] = e
         /\ \A k \in 1..L :
              pending'[k] = pending[k] /\ (Null(k)' <=> Null(k)) /\ End(k)' = End(k)
         /\ \A i \in 1..(L + 1), j \in 0..L : NullIn(i, j)' <=> NullIn(i, j)
         /\ \A i \in 1..(L + 1) : NullIn(i, L + 1)' <=> NullIn(i, L) \/ e.id = IdMod
<1>1. /\ L \in Nat
      /\ pending' \in Seq(Records) /\ Len(pending)' = L + 1
      /\ pending'[L + 1] = e
      /\ \A k \in 1..L : pending'[k] = pending[k]
  BY Facts, AppendFacts
<1>2. \A k \in 1..L : (Null(k)' <=> Null(k)) /\ End(k)' = End(k)
  BY <1>1 DEF Null, End
<1>3. Null(L + 1)' <=> e.id = IdMod
  BY <1>1 DEF Null
<1>4. \A i \in 1..(L + 1), j \in 0..L : NullIn(i, j)' <=> NullIn(i, j)
  BY <1>1, <1>2 DEF NullIn
<1>5. \A i \in 1..(L + 1) : NullIn(i, L + 1)' <=> NullIn(i, L) \/ e.id = IdMod
  BY <1>1, <1>2, <1>3 DEF NullIn
<1> QED
  BY <1>1, <1>2, <1>4, <1>5

LEMMA GrownRing ==
  ASSUME IInv, NEW e \in Records, pending' = Append(pending, e),
         NEW L, L = Len(pending),
         e.pos = writePos, readPos' = readPos, writePos' = After(e),
         IF e.id = IdMod THEN e.size = 1 ELSE e.pos + e.size <= BufferSize - 1,
         \A k \in 1..(L + 1) : Intact(pending[k])',
         e.id = IdMod => ~NullIn(1, L) /\ (overrun' \/ 0 < readPos),
         NullIn(1, L) => overrun' \/ writePos' < readPos
  PROVE  Ring'
<1> USE DEF IInv, Ring
<1>g. /\ L \in Nat
      /\ pending' \in Seq(Records) /\ Len(pending)' = L + 1
      /\ pending'[L + 1] = e
      /\ \A k \in 1..L :
           pending'[k] = pending[k] /\ (Null(k)' <=> Null(k)) /\ End(k)' = End(k)
      /\ \A i \in 1..(L + 1), j \in 0..L : NullIn(i, j)' <=> NullIn(i, j)
      /\ \A i \in 1..(L + 1) : NullIn(i, L + 1)' <=> NullIn(i, L) \/ e.id = IdMod
  BY Grown
<1>t. /\ readPos \in Nat /\ writePos \in Nat
      /\ e.pos \in Nat /\ e.size \in Nat /\ e.size >= 1
      /\ \A k \in 1..L : pending[k].pos \in Nat /\ pending[k].size \in Nat /\ End(k) \in Nat
  <2>1. readPos \in Nat /\ writePos \in Nat
    BY DEF TypeOK
  <2>2. e.pos \in Nat /\ e.size \in Nat /\ e.size >= 1
    BY DEF Records
  <2>3. \A k \in 1..L : pending[k].pos \in Nat /\ pending[k].size \in Nat
    BY Facts
  <2> QED
    BY <2>1, <2>2, <2>3 DEF End
<1>n. /\ Null(L + 1)' <=> e.id = IdMod
      /\ End(L + 1)' = writePos + e.size
  BY <1>g DEF Null, End
<1>1. Chain'
  <2>1. \A k \in 1..(L + 1) : At(k)' = At(k)
    BY <1>g DEF At, After
  <2>2. \A k \in 1..(L + 1) : pending'[k].pos = At(k)'
    BY <1>g, <2>1 DEF Chain
  <2>3. writePos' = At(L + 2)'
    BY <1>g DEF At, After
  <2> QED
    BY <1>g, <2>2, <2>3 DEF Chain
<1>2. Whole'
  <2> SUFFICES ASSUME NEW k \in 1..(L + 1)
               PROVE  IF Null(k)' THEN pending'[k].size = 1 ELSE End(k)' <= BufferSize - 1
    BY <1>g DEF Whole
  <2> QED
    BY <1>g, <1>n DEF Whole
<1>3. OneNull'
  <2> SUFFICES ASSUME NEW i \in 1..(L + 1), NEW j \in 1..(L + 1), Null(i)', Null(j)'
               PROVE  i = j
    BY <1>g DEF OneNull
  <2>1. CASE e.id = IdMod
    <3>1. \A k \in 1..L : ~Null(k)'
      BY <1>g, <2>1 DEF NullIn
    <3> QED
      BY <1>g, <3>1
  <2>2. CASE e.id # IdMod
    BY <1>g, <1>n, <2>2 DEF OneNull
  <2> QED
    BY <2>1, <2>2
<1>4. Behind'
  <2> SUFFICES ASSUME NEW k \in 1..(L + 1), ~NullIn(k, L + 1)'
               PROVE  End(k)' <= writePos'
    BY <1>g DEF Behind
  <2>1. ~NullIn(k, L) /\ e.id # IdMod /\ writePos' = writePos + e.size
    BY <1>g DEF After
  <2>2. CASE k = L + 1
    BY <1>n, <1>t, <2>1, <2>2
  <2>3. CASE k \in 1..L
    <3>1. End(k) <= writePos
      BY <2>1, <2>3 DEF Behind
    <3> QED
      BY <1>g, <1>t, <2>1, <2>3, <3>1
  <2> QED
    BY <1>g, <2>2, <2>3
<1>5. AheadOf'
  <2> SUFFICES ASSUME NEW k \in 1..(L + 1), ~NullIn(1, k - 1)'
               PROVE  readPos <= pending'[k].pos
    BY <1>g DEF AheadOf
  <2>1. ~NullIn(1, k - 1)
    BY <1>g
  <2>2. CASE k = L + 1
    BY <1>g, <2>1, <2>2 DEF Laps
  <2>3. CASE k \in 1..L
    BY <1>g, <2>1, <2>3 DEF AheadOf
  <2> QED
    BY <1>g, <2>2, <2>3
<1>6. Ordered'
  <2> SUFFICES ASSUME NEW i \in 1..(L + 1), NEW j \in 1..(L + 1), i < j,
                      ~NullIn(i, j - 1)'
               PROVE  End(i)' <= pending'[j].pos
    BY <1>g DEF Ordered
  <2>1. i \in 1..L /\ ~NullIn(i, j - 1)
    BY <1>g
  <2>2. CASE j = L + 1
    BY <1>g, <2>1, <2>2 DEF Behind
  <2>3. CASE j \in 1..L
    BY <1>g, <2>1, <2>3 DEF Ordered
  <2> QED
    BY SMTT(30), <1>g, <2>2, <2>3
<1>7. Laps'
  <2>1. NullIn(1, L + 1)' => overrun' \/ writePos' < readPos'
    BY <1>g DEF After
  <2>2. ~NullIn(1, L + 1)' => readPos' <= writePos'
    BY <1>g, <1>t DEF Laps, After
  <2> QED
    BY <1>g, <2>1, <2>2 DEF Laps
<1> QED
  BY <1>g, <1>1, <1>2, <1>3, <1>4, <1>5, <1>6, <1>7

LEMMA GrownIntact ==
  ASSUME IInv, NEW e \in Records, pending' = Append(pending, e),
         NEW L, L = Len(pending), Apart(e.pos, e.size),
         buffer' = [i \in DOMAIN buffer |->
                      IF i \in e.pos..(e.pos + e.size - 1)
                      THEN Word(e.id, e.size, i - e.pos) ELSE buffer[i]],
         e.pos + e.size <= BufferSize
  PROVE  \A k \in 1..(L + 1) : Intact(pending[k])'
<1>1. e.pos \in Nat /\ e.size \in Nat
  BY DEF Records
<1>2. DOMAIN buffer = 0..(BufferSize - 1)
  BY DEF IInv, TypeOK
<1>3. /\ L \in Nat /\ pending'[L + 1] = e
      /\ \A k \in 1..L : pending'[k] = pending[k]
  BY Grown
<1>4. ASSUME NEW k \in 1..L PROVE Intact(pending[k])'
  <2>1. \A i \in DOMAIN buffer :
          i \notin e.pos..(e.pos + e.size - 1) => buffer'[i] = buffer[i]
    OBVIOUS
  <2>2. \A i \in 0..(pending[k].size - 1) :
          buffer'[pending[k].pos + i] = Word(pending[k].id, pending[k].size, i)
    BY <1>1, <2>1, Untouched
  <2> QED
    BY <1>3, <2>2 DEF Intact, Word
<1>5. Intact(pending[L + 1])'
  <2>0. \A x \in DOMAIN buffer :
          x \in e.pos..(e.pos + e.size - 1) => buffer'[x] = Word(e.id, e.size, x - e.pos)
    OBVIOUS
  <2>1. ASSUME NEW i \in 0..(e.size - 1)
        PROVE  buffer'[e.pos + i] = Word(e.id, e.size, i)
    <3>1. e.pos + i \in DOMAIN buffer /\ e.pos + i \in e.pos..(e.pos + e.size - 1)
      BY SMTT(30), <1>1, <1>2, MTVURingAssumption
    <3>2. (e.pos + i) - e.pos = i
      BY <1>1
    <3>3. buffer'[e.pos + i] = Word(e.id, e.size, (e.pos + i) - e.pos)
      BY <2>0, <3>1, Zenon
    <3> QED
      BY <3>2, <3>3, Zenon
  <2> QED
    BY <1>3, <2>1 DEF Intact, Word
<1> QED
  BY <1>3, <1>4, <1>5

\* With room for n words, and no wrap, they are apart from what is due.
LEMMA RoomIsApart ==
  ASSUME IInv, ~overrun, NEW n \in 1..(Margin + 2), RoomFor(n)
  PROVE  Apart(writePos, n) /\ (NullIn(1, Len(pending)) => writePos + n < readPos)
<1> DEFINE L == Len(pending)
<1>1. readPos \in Nat /\ writePos \in Nat /\ L \in Nat
  BY Facts DEF IInv, TypeOK
<1>2. NullIn(1, L) => writePos + n + Margin < readPos
  BY <1>1 DEF IInv, Ring, Laps, RoomFor
<1>3. ASSUME NEW k \in 1..L
      PROVE  End(k) <= writePos \/ writePos + n <= pending[k].pos
  <2>1. CASE ~NullIn(k, L)
    BY <2>1 DEF IInv, Ring, Behind
  <2>2. CASE NullIn(k, L)
    <3>1. NullIn(1, L) /\ ~NullIn(1, k - 1)
      BY <1>1, <2>2 DEF IInv, Ring, OneNull, NullIn
    <3>2. readPos <= pending[k].pos
      BY <3>1 DEF IInv, Ring, AheadOf
    <3> QED
      BY <1>1, <1>2, <3>1, <3>2, Facts, MTVURingAssumption
  <2> QED
    BY <2>1, <2>2
<1> QED
  BY <1>1, <1>2, <1>3, MTVURingAssumption DEF Apart

LEMMA WriteStep ==
  ASSUME IInv, Write
  PROVE  IInv'
<1> DEFINE L == Len(pending)
           e == Record(writePos, size, nextId)
<1>1. /\ TypeOK /\ Places /\ Idle
      /\ size \in Sizes /\ ~NeedsWrap(size) /\ RoomFor(size) /\ ~overrun
      /\ nextId \in 0..IdMod /\ nextId # IdMod
      /\ writePos \in 0..(BufferSize - 1) /\ writePos + size <= BufferSize - 1
  BY MTVURingAssumption DEF IInv, TypeOK, Places, Write, NeedsWrap
<1>2. size \in 1..(Margin + 2) /\ size \in 1..BufferSize
  BY <1>1, MTVURingAssumption
<1>3. e \in Records /\ e.pos = writePos /\ e.size = size /\ e.id = nextId
  BY <1>1, <1>2, RecordIsRecord
<1>4. Apart(writePos, size) /\ (NullIn(1, L) => writePos + size < readPos)
  BY <1>1, <1>2, RoomIsApart
<1>5. pending' = Append(pending, e) /\ UNCHANGED <<readPos, overrun>>
  BY DEF Write
<1>6. writePos' = After(e)
  BY <1>1, <1>3 DEF Write, After
<1>7. buffer' = [i \in DOMAIN buffer |->
                   IF i \in e.pos..(e.pos + e.size - 1)
                   THEN Word(e.id, e.size, i - e.pos) ELSE buffer[i]]
  BY <1>3 DEF Write
<1>8. \A k \in 1..(L + 1) : Intact(pending[k])'
  <2>1. e.pos + e.size <= BufferSize /\ Apart(e.pos, e.size)
    BY <1>1, <1>2, <1>3, <1>4, MTVURingAssumption
  <2> QED
    BY <1>3, <1>5, <1>7, <2>1, GrownIntact
<1>9. Ring'
  <2>1. e.id # IdMod /\ e.pos + e.size <= BufferSize - 1
    BY <1>1, <1>3
  <2>2. NullIn(1, L) => writePos' < readPos
    BY <1>1, <1>4 DEF Write
  <2> HIDE DEF e
  <2> QED
    BY <1>3, <1>5, <1>6, <1>8, <2>1, <2>2, GrownRing
<1>10. TypeOK'
  <2>1. buffer' \in [0..(BufferSize - 1) ->
                       (0..IdMod) \X (1..BufferSize) \X (0..BufferSize)]
    <3>1. \A i \in writePos..(writePos + size - 1) :
            Word(nextId, size, i - writePos)
              \in (0..IdMod) \X (1..BufferSize) \X (0..BufferSize)
      BY <1>1, <1>2, MTVURingAssumption DEF Word
    <3> QED
      BY <1>1, <3>1 DEF TypeOK, Write
  <2>2. writePos' \in 0..(BufferSize - 1) /\ nextId' \in 0..(IdMod - 1)
    <3>1. nextId + 1 \in Int /\ IdMod \in Nat /\ IdMod > 0
      BY <1>1, MTVURingAssumption
    <3>2. (nextId + 1) % IdMod \in 0..(IdMod - 1)
      BY <3>1
    <3>3. writePos + size \in 0..(BufferSize - 1)
      BY <1>1, <1>2, MTVURingAssumption
    <3> QED
      BY <3>2, <3>3 DEF Write
  <2>3. \A k \in DOMAIN pending' :
          /\ pending'[k].pos \in 0..(BufferSize - 1)
          /\ pending'[k].size \in 1..BufferSize
          /\ pending'[k].id \in 0..IdMod
    BY <1>9, RecordsTyped DEF Ring
  <2> QED
    BY <1>1, <2>1, <2>2, <2>3 DEF TypeOK, Write, eventVars
<1>11. pending' # <<>>
  BY <1>3, <1>5, Facts
<1>12. Places' /\ Idle'
  BY <1>1, <1>11 DEF Places, Idle, Write, eventVars
<1> QED
  BY <1>9, <1>10, <1>12 DEF IInv

LEMMA WrapStep ==
  ASSUME IInv, Wrap
  PROVE  IInv'
<1> DEFINE L == Len(pending)
           e == Record(writePos, 1, IdMod)
<1>1. /\ TypeOK /\ Places /\ Idle
      /\ size \in Sizes /\ NeedsWrap(size) /\ RoomFor(1) /\ ~overrun
      /\ readPos \in 0..(BufferSize - 1) /\ writePos \in 0..(BufferSize - 1)
  BY DEF IInv, TypeOK, Places, Wrap
<1>2. 1 \in 1..(Margin + 2) /\ 1 \in 1..BufferSize /\ IdMod \in 0..IdMod
  BY MTVURingAssumption
<1>3. e \in Records /\ e.pos = writePos /\ e.size = 1 /\ e.id = IdMod
  BY <1>1, <1>2, RecordIsRecord
<1>4. Apart(writePos, 1)
  BY <1>1, <1>2, RoomIsApart
<1>5. ~NullIn(1, L)
  <2>1. NullIn(1, L) => writePos + 1 + Margin < readPos
    BY <1>1 DEF IInv, Ring, Laps, RoomFor
  <2> QED
    BY <1>1, <2>1, MTVURingAssumption DEF NeedsWrap
<1>6. pending' = Append(pending, e) /\ readPos' = readPos /\ overrun' = (readPos = 0)
  BY DEF Wrap
<1>7. writePos' = After(e)
  BY <1>3 DEF Wrap, After
<1>8. buffer' = [i \in DOMAIN buffer |->
                   IF i \in e.pos..(e.pos + e.size - 1)
                   THEN Word(e.id, e.size, i - e.pos) ELSE buffer[i]]
  <2>1. \A i \in DOMAIN buffer : i \in e.pos..(e.pos + e.size - 1) <=> i = writePos
    BY <1>1, <1>3 DEF TypeOK
  <2>2. Word(e.id, e.size, writePos - e.pos) = NULL_PACKET
    BY <1>1, <1>3 DEF NULL_PACKET, Word
  <2>3. buffer' = [i \in DOMAIN buffer |->
                     IF i = writePos THEN NULL_PACKET ELSE buffer[i]]
    BY <1>1 DEF Wrap, TypeOK
  <2> QED
    BY <2>1, <2>2, <2>3
<1>9. \A k \in 1..(L + 1) : Intact(pending[k])'
  <2>1. e.pos + e.size <= BufferSize /\ Apart(e.pos, e.size)
    BY <1>1, <1>3, <1>4, MTVURingAssumption
  <2> QED
    BY <1>3, <1>6, <1>8, <2>1, GrownIntact
<1>10. Ring'
  <2>1. overrun' \/ 0 < readPos
    <3>1. readPos = 0 \/ 0 < readPos
      BY <1>1
    <3> QED
      BY <1>6, <3>1, Zenon
  <2> HIDE DEF e
  <2> QED
    BY <1>3, <1>5, <1>6, <1>7, <1>9, <2>1, GrownRing
<1>11. TypeOK'
  <2>1. buffer' \in [0..(BufferSize - 1) ->
                       (0..IdMod) \X (1..BufferSize) \X (0..BufferSize)]
    <3>1. NULL_PACKET \in (0..IdMod) \X (1..BufferSize) \X (0..BufferSize)
      BY MTVURingAssumption DEF NULL_PACKET, Word
    <3> QED
      BY <1>1, <3>1 DEF TypeOK, Wrap
  <2>2. writePos' \in 0..(BufferSize - 1) /\ overrun' \in BOOLEAN
    BY MTVURingAssumption DEF Wrap
  <2>3. \A k \in DOMAIN pending' :
          /\ pending'[k].pos \in 0..(BufferSize - 1)
          /\ pending'[k].size \in 1..BufferSize
          /\ pending'[k].id \in 0..IdMod
    BY <1>10, RecordsTyped DEF Ring
  <2> QED
    BY <1>1, <2>1, <2>2, <2>3 DEF TypeOK, Wrap, eventVars
<1>12. pending' # <<>>
  BY <1>3, <1>6, Facts
<1>13. ~NeedsWrap(size)'
  BY <1>1, MTVURingAssumption DEF Wrap, NeedsWrap
<1>14. Places' /\ Idle'
  BY <1>1, <1>12, <1>13 DEF Places, Idle, Wrap, eventVars
<1> QED
  BY <1>10, <1>11, <1>14 DEF IInv

-----------------------------------------------------------------------------
(* A packet less, and none.                                                *)

LEMMA Shrunk ==
  ASSUME IInv, pending # <<>>, pending' = Tail(pending), NEW L, L = Len(pending)
  PROVE  /\ L \in Nat /\ L >= 1
         /\ pending' \in Seq(Records) /\ Len(pending)' = L - 1
         /\ \A k \in 1..(L - 1) :
              /\ pending'[k] = pending[k + 1]
              /\ Null(k)' <=> Null(k + 1)
              /\ End(k)' = End(k + 1)
         /\ \A i \in 1..L, j \in 0..(L - 1) : NullIn(i, j)' <=> NullIn(i + 1, j + 1)
<1>1. /\ L \in Nat /\ L >= 1
      /\ pending' \in Seq(Records) /\ Len(pending)' = L - 1
      /\ \A k \in 1..(L - 1) : pending'[k] = pending[k + 1]
  BY Facts, TailFacts
<1>2. \A k \in 1..(L - 1) : (Null(k)' <=> Null(k + 1)) /\ End(k)' = End(k + 1)
  BY <1>1 DEF Null, End
<1>3. ASSUME NEW i \in 1..L, NEW j \in 0..(L - 1)
      PROVE  NullIn(i, j)' <=> NullIn(i + 1, j + 1)
  <2>1. ASSUME NEW m \in i..j, Null(m)' PROVE NullIn(i + 1, j + 1)
    <3>1. m \in 1..(L - 1) /\ m + 1 \in (i + 1)..(j + 1)
      BY <1>1
    <3>2. Null(m + 1)
      BY <1>2, <2>1, <3>1
    <3> QED
      BY <3>1, <3>2 DEF NullIn
  <2>2. ASSUME NEW m \in (i + 1)..(j + 1), Null(m) PROVE NullIn(i, j)'
    <3>1. m - 1 \in 1..(L - 1) /\ m - 1 \in i..j /\ (m - 1) + 1 = m
      BY <1>1
    <3>2. Null(m - 1)'
      BY <1>2, <2>2, <3>1
    <3> QED
      BY <3>1, <3>2 DEF NullIn
  <2> QED
    BY <2>1, <2>2 DEF NullIn
<1> QED
  BY <1>1, <1>2, <1>3

\* What the reader finds where it is, and what it leaves alone.
LEMMA AtReader ==
  ASSUME IInv, pending # <<>>
  PROVE  /\ pending[1].pos = readPos
         /\ buffer[readPos][2] = pending[1].size
         /\ buffer[readPos] = NULL_PACKET <=> Null(1)
         /\ \A k \in 2..Len(pending) :
              End(1) <= pending[k].pos \/ End(k) <= readPos
<1> DEFINE L == Len(pending)
<1>1. L \in Nat /\ 1 \in 1..L
  BY Facts
<1>2. /\ readPos \in Nat /\ writePos \in Nat
      /\ \A k \in 1..L : pending[k].pos \in Nat /\ pending[k].size \in Nat
                         /\ pending[k].size >= 1
  <2>1. readPos \in Nat /\ writePos \in Nat
    BY DEF IInv, TypeOK
  <2> QED
    BY <2>1, Facts
<1>3. pending[1].pos = readPos
  BY <1>1 DEF IInv, Ring, Chain, At
<1>4. buffer[readPos] = Word(pending[1].id, pending[1].size, 0)
  <2>1. 0 \in 0..(pending[1].size - 1)
    BY <1>1, <1>2
  <2>2. buffer[pending[1].pos + 0] = Word(pending[1].id, pending[1].size, 0)
    BY <1>1, <2>1 DEF IInv, Ring, Whole, Intact
  <2>3. pending[1].pos + 0 = readPos
    BY <1>2, <1>3
  <2> QED
    BY <2>2, <2>3
<1>5. buffer[readPos] = NULL_PACKET <=> Null(1)
  BY <1>1, <1>4 DEF IInv, Ring, Whole, Null, NULL_PACKET, Word
<1>6. ASSUME NEW k \in 2..L, ~(End(1) <= pending[k].pos)
      PROVE  End(k) <= readPos
  <2>1. k \in 1..L /\ 1 < k
    BY <1>1
  <2>2. NullIn(1, k - 1)
    BY <1>1, <1>6, <2>1 DEF IInv, Ring, Ordered
  <2>3. ~NullIn(k, L) /\ NullIn(1, L)
    BY <1>1, <2>1, <2>2 DEF IInv, Ring, OneNull, NullIn
  <2>4. End(k) <= writePos
    BY <2>1, <2>3 DEF IInv, Ring, Behind
  <2>5. writePos < readPos
    BY <1>2, <2>1, <2>3, <2>4 DEF IInv, Ring, Laps, Places, End
  <2> QED
    BY <1>2, <2>1, <2>4, <2>5 DEF End
<1> QED
  BY <1>3, <1>4, <1>5, <1>6 DEF Word

LEMMA ReadRing ==
  ASSUME IInv, CommitReadPos
  PROVE  Ring' /\ readPos' \in 0..(BufferSize - 1)
<1> DEFINE n == pending[1].size
<1>L. PICK L : L = Len(pending)
  OBVIOUS
<1>0. pending # <<>>
  BY DEF IInv, Places, CommitReadPos
<1>g. /\ L \in Nat /\ L >= 1
      /\ pending' \in Seq(Records) /\ Len(pending)' = L - 1
      /\ \A k \in 1..(L - 1) :
           /\ pending'[k] = pending[k + 1]
           /\ Null(k)' <=> Null(k + 1)
           /\ End(k)' = End(k + 1)
      /\ \A i \in 1..L, j \in 0..(L - 1) : NullIn(i, j)' <=> NullIn(i + 1, j + 1)
  BY <1>0, <1>L, Shrunk DEF CommitReadPos
<1>r. /\ pending[1].pos = readPos
      /\ buffer[readPos][2] = n
      /\ buffer[readPos] = NULL_PACKET <=> Null(1)
      /\ \A k \in 2..L : End(1) <= pending[k].pos \/ End(k) <= readPos
  BY <1>0, <1>L, AtReader
<1>t. /\ readPos \in Nat /\ writePos \in Nat /\ n \in Nat /\ n >= 1
      /\ \A k \in 1..L : /\ pending[k].pos \in Nat /\ pending[k].size \in Nat
                         /\ pending[k].size >= 1 /\ End(k) \in Nat
  <2>1. readPos \in Nat /\ writePos \in Nat
    BY DEF IInv, TypeOK
  <2>2. \A k \in 1..L : pending[k].pos \in Nat /\ pending[k].size \in Nat
                        /\ pending[k].size >= 1
    BY <1>L, Facts
  <2>3. n \in Nat /\ n >= 1
    BY <1>g, <2>2
  <2>4. ASSUME NEW k \in 1..L PROVE End(k) \in Nat
    <3>1. pending[k].pos \in Nat /\ pending[k].size \in Nat
      BY <2>2
    <3> QED
      BY ONLY <3>1 DEF End
  <2> HIDE DEF n
  <2> QED
    BY <2>1, <2>2, <2>3, <2>4
<1>p. /\ readPos' = After(pending[1])
      /\ readPos' = (IF Null(1) THEN 0 ELSE End(1))
      /\ readPos' \in 0..(BufferSize - 1)
      /\ UNCHANGED <<writePos, overrun>>
  <2>1. readPos' = After(pending[1]) /\ readPos' = (IF Null(1) THEN 0 ELSE End(1))
    BY <1>r DEF CommitReadPos, After, Null, End
  <2>2. ~Null(1) => End(1) <= BufferSize - 1
    BY <1>L, <1>g DEF IInv, Ring, Whole
  <2> QED
    BY SMTT(60), <1>g, <1>t, <2>1, <2>2, MTVURingAssumption DEF CommitReadPos
<1>1. Chain'
  <2>1. At(1)' = At(2) /\ \A k \in 2..L : At(k)' = At(k + 1)
    BY SMTT(30), <1>g, <1>p DEF At, After
  <2>2. \A k \in 1..(L - 1) : pending'[k].pos = At(k)'
    BY <1>L, <1>g, <2>1 DEF IInv, Ring, Chain
  <2>3. writePos' = At(L)'
    BY <1>L, <1>g, <1>p, <2>1 DEF IInv, Ring, Chain
  <2> QED
    BY <1>g, <2>2, <2>3 DEF Chain
<1>2. Whole'
  <2>1. ASSUME NEW k \in 2..L
        PROVE  \A i \in 0..(pending[k].size - 1) :
                 buffer'[pending[k].pos + i] = Word(pending[k].id, pending[k].size, i)
    <3> SUFFICES ASSUME NEW i \in 0..(pending[k].size - 1)
                 PROVE  buffer'[pending[k].pos + i]
                          = Word(pending[k].id, pending[k].size, i)
      OBVIOUS
    <3>1. /\ buffer[pending[k].pos + i] = Word(pending[k].id, pending[k].size, i)
          /\ IF Null(k) THEN pending[k].size = 1 ELSE End(k) <= BufferSize - 1
          /\ pending[k].pos \in 0..(BufferSize - 1)
      BY <1>g, <1>L, Facts DEF IInv, Ring, Whole, Intact
    <3>2. pending[k].pos + i \in DOMAIN buffer
      <4>1. pending[k].pos + i < BufferSize
        BY <1>t, <3>1, MTVURingAssumption DEF End
      <4>2. DOMAIN buffer = 0..(BufferSize - 1)
        BY DEF IInv, TypeOK
      <4> QED
        BY <3>1, <4>1, <4>2, MTVURingAssumption
    <3>3. pending[k].pos + i \notin readPos..(readPos + n - 1)
      <4>1. readPos + n <= pending[k].pos \/ pending[k].pos + pending[k].size <= readPos
        BY <1>r DEF End
      <4>2. k \in 1..L
        BY <1>g
      <4> QED
        BY <1>t, <4>1, <4>2
    <3> QED
      BY <1>r, <3>1, <3>2, <3>3 DEF CommitReadPos
  <2>2. ASSUME NEW k \in 1..(L - 1)
        PROVE  /\ IF Null(k)' THEN pending'[k].size = 1 ELSE End(k)' <= BufferSize - 1
               /\ Intact(pending[k])'
    <3>1. k + 1 \in 1..L /\ k + 1 \in 2..L
      BY <1>g
    <3>2. Intact(pending[k])'
      BY <1>g, <2>1, <3>1 DEF Intact, Word
    <3> QED
      BY <1>L, <1>g, <3>1, <3>2 DEF IInv, Ring, Whole
  <2> QED
    BY <1>g, <2>2 DEF Whole
<1>3. OneNull'
  BY SMTT(30), <1>L, <1>g DEF IInv, Ring, OneNull
<1>4. Behind'
  BY SMTT(30), <1>L, <1>g, <1>p DEF IInv, Ring, Behind
<1>5. AheadOf'
  <2> SUFFICES ASSUME NEW k \in 1..(L - 1), ~NullIn(1, k - 1)'
               PROVE  readPos' <= pending'[k].pos
    BY <1>g DEF AheadOf
  <2>1. ~NullIn(2, k) /\ pending'[k].pos = pending[k + 1].pos
    BY <1>g
  <2>2. CASE Null(1)
    BY SMTT(30), <1>g, <1>p, <1>t, <2>1, <2>2
  <2>3. CASE ~Null(1)
    <3>1. ~NullIn(1, k)
      BY <1>g, <2>1, <2>3 DEF NullIn
    <3>2. 1 \in 1..L /\ k + 1 \in 1..L /\ 1 < k + 1 /\ (k + 1) - 1 = k
      BY <1>g
    <3>3. End(1) <= pending[k + 1].pos
      BY <1>L, <3>1, <3>2 DEF IInv, Ring, Ordered
    <3> QED
      BY <1>p, <2>1, <2>3, <3>3
  <2> QED
    BY <2>2, <2>3
<1>6. Ordered'
  <2> SUFFICES ASSUME NEW i \in 1..(L - 1), NEW j \in 1..(L - 1), i < j,
                      ~NullIn(i, j - 1)'
               PROVE  End(i)' <= pending'[j].pos
    BY <1>g DEF Ordered
  <2>1. i + 1 \in 1..L /\ j + 1 \in 1..L /\ i + 1 < j + 1 /\ (j - 1) + 1 = (j + 1) - 1
    BY <1>g
  <2>2. ~NullIn(i + 1, (j + 1) - 1)
    BY <1>g, <2>1
  <2> QED
    BY <1>L, <1>g, <2>1, <2>2 DEF IInv, Ring, Ordered
<1>7. Laps'
  <2>1. NullIn(1, L - 1)' <=> NullIn(2, L)
    BY <1>g
  <2>2. NullIn(1, L) <=> Null(1) \/ NullIn(2, L)
    <3>1. L \in Nat /\ L >= 1
      BY <1>g
    <3>2. \A m \in 1..L : m = 1 \/ m \in 2..L
      BY <3>1
    <3>3. 1 \in 1..L /\ 2..L \subseteq 1..L
      BY <3>1
    <3> QED
      BY <3>2, <3>3 DEF NullIn
  <2>3. NullIn(2, L) => ~Null(1)
    BY <1>L, <1>g DEF IInv, Ring, OneNull, NullIn
  <2>4. NullIn(2, L) => overrun \/ writePos < readPos'
    <3>1. NullIn(1, L) => overrun \/ writePos < readPos
      BY <1>L DEF IInv, Ring, Laps
    <3>2. ~Null(1) => readPos' = readPos + n
      BY <1>p, <1>r DEF End
    <3> QED
      BY <1>t, <2>2, <2>3, <3>1, <3>2
  <2>5. ~NullIn(2, L) => readPos' <= writePos
    <3>1. ~NullIn(1, L) => End(1) <= writePos
      BY <1>L, <1>g DEF IInv, Ring, Behind
    <3> QED
      BY <1>p, <1>t, <2>2, <3>1
  <2> QED
    BY <1>g, <1>p, <2>1, <2>4, <2>5 DEF Laps
<1> QED
  BY <1>g, <1>p, <1>1, <1>2, <1>3, <1>4, <1>5, <1>6, <1>7 DEF Ring

\* A reader that moves on leaves what room there was.
LEMMA RoomStays ==
  ASSUME IInv, CommitReadPos, ~overrun, NEW n \in Nat, RoomFor(n)
  PROVE  RoomFor(n)'
<1> DEFINE L == Len(pending)
<1>1. pending # <<>>
  BY DEF IInv, Places, CommitReadPos
<1>2. L \in Nat /\ 1 \in 1..L
  BY <1>1, Facts
<1>3. /\ readPos \in Nat /\ writePos \in Nat /\ Margin \in Nat
      /\ End(1) \in Nat /\ readPos <= End(1)
  <2>1. readPos \in Nat /\ writePos \in Nat /\ Margin \in Nat
    BY MTVURingAssumption DEF IInv, TypeOK
  <2>2. pending[1].pos = readPos /\ pending[1].size \in Nat
    BY <1>1, <1>2, AtReader, Facts
  <2> QED
    BY <2>1, <2>2 DEF End
<1>4. /\ readPos' = IF Null(1) THEN 0 ELSE End(1)
      /\ writePos' = writePos
  BY <1>1, AtReader DEF CommitReadPos, Null, End
<1>5. ASSUME readPos <= writePos, ~Null(1)
      PROVE  End(1) <= writePos
  <2>1. ~NullIn(1, L)
    BY <1>3, <1>5 DEF IInv, Ring, Laps
  <2> QED
    BY <1>2, <2>1 DEF IInv, Ring, Behind
<1> QED
  BY <1>3, <1>4, <1>5 DEF RoomFor

LEMMA ReadStep ==
  ASSUME IInv, CommitReadPos
  PROVE  IInv'
<1>1. TypeOK /\ Places /\ Idle
  BY DEF IInv
<1>2. Ring' /\ readPos' \in 0..(BufferSize - 1)
  BY ReadRing
<1>3. TypeOK'
  <2>1. buffer' \in [0..(BufferSize - 1) ->
                       (0..IdMod) \X (1..BufferSize) \X (0..BufferSize)]
    <3>1. Free \in (0..IdMod) \X (1..BufferSize) \X (0..BufferSize)
      BY MTVURingAssumption DEF Free, Word
    <3> QED
      BY <1>1, <3>1 DEF TypeOK, CommitReadPos
  <2>2. \A k \in DOMAIN pending' :
          /\ pending'[k].pos \in 0..(BufferSize - 1)
          /\ pending'[k].size \in 1..BufferSize
          /\ pending'[k].id \in 0..IdMod
    BY <1>2, RecordsTyped DEF Ring
  <2> QED
    BY <1>1, <1>2, <2>1, <2>2 DEF TypeOK, CommitReadPos, eeVars, eventVars
<1>4. /\ ee' = "wrapWrite" => RoomFor(1)'
      /\ ee' = "write" => RoomFor(size)'
  <2>1. ee' = ee /\ size' = size
    BY DEF CommitReadPos, eeVars
  <2>2. ASSUME ee = "wrapWrite" PROVE RoomFor(1)'
    BY <1>1, <2>2, RoomStays DEF Places
  <2>3. ASSUME ee = "write" PROVE RoomFor(size)'
    <3>1. size \in Nat /\ RoomFor(size) /\ ~overrun
      <4>1. size \in Sizes /\ RoomFor(size) /\ ~overrun
        BY <1>1, <2>3 DEF Places
      <4> QED
        BY <4>1, MTVURingAssumption
    <3> QED
      BY <2>1, <3>1, RoomStays DEF RoomFor
  <2> QED
    BY <2>1, <2>2, <2>3
<1>5. Places' /\ Idle'
  BY <1>1, <1>4 DEF Places, Idle, CommitReadPos, eeVars, eventVars, NeedsWrap
<1> QED
  BY <1>2, <1>3, <1>5 DEF IInv

\* Where WaitVU's callers go on there is nothing due, and nobody reading.
LEMMA Drained ==
  ASSUME IInv, ee = "waited"
  PROVE  pending = <<>> /\ readPos = writePos /\ vu = "parked" /\ ~overrun
<1>1. event = "parked" /\ vu = "parked"
  BY DEF IInv, Idle
<1>2. pending = <<>> /\ ~overrun
  BY <1>1 DEF IInv, Idle, Places
<1>3. Len(pending) = 0 /\ writePos = At(Len(pending) + 1)
  BY <1>2 DEF IInv, Ring, Chain
<1> QED
  BY <1>1, <1>2, <1>3 DEF At

LEMMA ResetStep ==
  ASSUME IInv, Reset
  PROVE  IInv'
<1>1. /\ TypeOK /\ Places /\ Idle
      /\ vu = "parked" /\ ~overrun
  BY Drained DEF IInv, Reset
<1>2. pending' = <<>> /\ readPos' = 0 /\ writePos' = 0
  BY DEF Reset
<1>3. Ring'
  <2>1. Len(pending)' = 0 /\ pending' \in Seq(Records)
    BY <1>2
  <2>2. ~NullIn(1, 0)'
    BY DEF NullIn
  <2> QED
    BY <1>2, <2>1, <2>2
       DEF Ring, Chain, Whole, OneNull, Behind, AheadOf, Ordered, Laps, At
<1>4. TypeOK'
  BY SMTT(30), <1>1, <1>2, MTVURingAssumption DEF TypeOK, Reset, eventVars
<1>5. Places' /\ Idle'
  BY <1>1, <1>2 DEF Places, Idle, Reset, eventVars
<1> QED
  BY <1>3, <1>4, <1>5 DEF IInv

-----------------------------------------------------------------------------
(* The invariant, and what it says of the ring.                            *)

LEMMA Initially == Init => IInv
<1> SUFFICES ASSUME Init PROVE IInv
  OBVIOUS
<1>1. TypeOK
  BY MTVURingAssumption DEF Init, Event!Init, TypeOK, Free, Word
<1>2. Ring
  <2>1. Len(pending) = 0 /\ pending \in Seq(Records)
    BY DEF Init
  <2>2. ~NullIn(1, 0)
    BY DEF NullIn
  <2> QED
    BY <2>1, <2>2
       DEF Init, Ring, Chain, Whole, OneNull, Behind, AheadOf, Ordered, Laps, At
<1>3. Places /\ Idle
  BY DEF Init, Event!Init, Places, Idle
<1> QED
  BY <1>1, <1>2, <1>3 DEF IInv

LEMMA Step == IInv /\ [Next]_vars => IInv'
<1> SUFFICES ASSUME IInv, [Next]_vars PROVE IInv'
  OBVIOUS
<1>1. CASE \/ \E n \in Sizes : Request(n)
           \/ WaitOnSize \/ FindRoom \/ KickStart \/ WaitVU \/ EmptyWake
           \/ Waited
  BY <1>1, EEStands
<1>2. CASE WaitForWork \/ Awake \/ ReadTag
  BY <1>2, VUStands
<1>3. CASE Wrap
  BY <1>3, WrapStep
<1>4. CASE Write
  BY <1>4, WriteStep
<1>5. CASE CommitReadPos
  BY <1>5, ReadStep
<1>6. CASE Reset
  BY <1>6, ResetStep
<1>7. CASE UNCHANGED vars
  <2>1. UNCHANGED ringVars /\ UNCHANGED eventVars /\ UNCHANGED eeVars /\ vu' = vu
    BY <1>7 DEF vars
  <2>2. Ring'
    BY <2>1, RingStands
  <2>3. TypeOK' /\ Places' /\ Idle'
    BY <2>1 DEF IInv, TypeOK, Places, Idle, ringVars, eventVars, eeVars, NeedsWrap,
                   RoomFor
  <2> QED
    BY <2>2, <2>3 DEF IInv
<1> QED
  BY <1>1, <1>2, <1>3, <1>4, <1>5, <1>6, <1>7 DEF Next, EEStep, VUStep

THEOREM Invariant == Spec => []IInv
  BY Initially, Step, PTL DEF Spec

\* No position leaves the buffer: a packet is always in one piece, and the
\* writer comes round before the last word.
THEOREM TypeCorrect == Spec => []TypeOK
<1>1. IInv => TypeOK
  BY DEF IInv
<1> QED
  BY Invariant, <1>1, PTL

\* What is due is intact, in order and ends where the writer is, and the ring
\* looks empty only when it is, until the EE has come round to a reader at 0.
THEOREM PacketsIntact == Spec => []PendingIntact
<1>1. IInv => PendingIntact
  <2> SUFFICES ASSUME IInv, ~overrun
               PROVE  /\ \A k \in 1..Len(pending) :
                           Intact(pending[k]) /\ pending[k].pos = At(k)
                      /\ writePos = At(Len(pending) + 1)
                      /\ EmptyMeansEmpty
    <3>1. IInv => DOMAIN pending = 1..Len(pending)
      BY DEF IInv, Ring
    <3> QED
      BY <3>1 DEF PendingIntact, At
  <2> QED
    BY EmptyIsEmpty DEF IInv, Ring, Chain, Whole
<1> QED
  BY Invariant, <1>1, PTL

\* WaitVU returns with everything executed and the reader off the ring.
THEOREM Drains == Spec => []WaitVUDrains
<1>1. IInv => WaitVUDrains
  BY Drained DEF WaitVUDrains
<1> QED
  BY Invariant, <1>1, PTL
=============================================================================
