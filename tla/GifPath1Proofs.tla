--------------------------- MODULE GifPath1Proofs ---------------------------
(***************************************************************************)
(* Path 1 under MTVU, for every number of programs, packets and commands:  *)
(* each program has one packet, one unit of semaXGkick and one             *)
(* announcement, and a reset finds the other two threads idle.  Then, for  *)
(* every size of the buffer: what a program kicks stays there, however     *)
(* often the packets wrap around, until the GS thread has read it; and no  *)
(* thread waits for one that waits for it.                                 *)
(***************************************************************************)
EXTENDS GifPath1, FiniteSetTheorems, TLAPS

Commands == {"path1", "other"}

-----------------------------------------------------------------------------
(* Counting the commands of path 1.                                        *)

\* Where they are; Count counts these.
Marks(s) == {k \in DOMAIN s : s[k] = "path1"}

LEMMA MarksFinite ==
  ASSUME NEW s \in Seq(Commands)
  PROVE  IsFiniteSet(Marks(s)) /\ Cardinality(Marks(s)) \in Nat
<1>1. Marks(s) \subseteq 1..Len(s) /\ Len(s) \in Nat
  BY DEF Marks
<1>2. IsFiniteSet(1..Len(s))
  BY <1>1, FS_Interval
<1>3. IsFiniteSet(Marks(s))
  BY <1>1, <1>2, FS_Subset
<1> QED
  BY <1>3, FS_CardinalityType

LEMMA MarksOfAppend ==
  ASSUME NEW s \in Seq(Commands), NEW c \in Commands
  PROVE  Cardinality(Marks(Append(s, c))) = Cardinality(Marks(s)) + One(c = "path1")
<1> DEFINE n == Len(s) + 1
<1>1. /\ n \notin Marks(s)
      /\ Marks(Append(s, c)) = Marks(s) \cup (IF c = "path1" THEN {n} ELSE {})
  BY DEF Marks
<1>2. IsFiniteSet(Marks(s)) /\ Cardinality(Marks(s)) \in Nat
  BY MarksFinite
<1>3. CASE c = "path1"
  <2>1. Marks(Append(s, c)) = Marks(s) \cup {n}
    BY <1>1, <1>3
  <2>2. Cardinality(Marks(s) \cup {n}) = Cardinality(Marks(s)) + 1
    BY <1>1, <1>2, FS_AddElement
  <2> QED
    BY <1>3, <2>1, <2>2 DEF One
<1>4. CASE c # "path1"
  <2>1. Marks(Append(s, c)) = Marks(s)
    BY <1>1, <1>4
  <2> QED
    BY <1>2, <1>4, <2>1 DEF One
<1> QED
  BY <1>3, <1>4

\* Those of the tail are those of the rest, one place earlier.
LEMMA MarksOfTail ==
  ASSUME NEW s \in Seq(Commands), s # <<>>
  PROVE  Cardinality(Marks(Tail(s))) = Cardinality(Marks(s)) - One(Head(s) = "path1")
<1> DEFINE M == Marks(s) \ {1}
           f == [k \in Marks(Tail(s)) |-> k + 1]
<1>1. /\ Tail(s) \in Seq(Commands) /\ Len(s) \in Nat /\ Len(s) >= 1
      /\ Len(Tail(s)) = Len(s) - 1 /\ \A k \in 1..(Len(s) - 1) : Tail(s)[k] = s[k + 1]
      /\ Head(s) = s[1]
  OBVIOUS
<1>2. /\ Marks(Tail(s)) = {k \in 1..(Len(s) - 1) : s[k + 1] = "path1"}
      /\ Marks(s) = {k \in 1..Len(s) : s[k] = "path1"}
  BY <1>1 DEF Marks
<1>3. \A k \in Marks(Tail(s)) : k \in Int /\ k + 1 \in M
  BY <1>1, <1>2
<1>4. \A m \in M : m - 1 \in Marks(Tail(s)) /\ m \in Int /\ (m - 1) + 1 = m
  <2> SUFFICES ASSUME NEW m \in M
               PROVE  m - 1 \in Marks(Tail(s)) /\ m \in Int /\ (m - 1) + 1 = m
    OBVIOUS
  <2>1. m \in 1..Len(s) /\ m # 1 /\ s[m] = "path1"
    BY <1>2
  <2>2. m - 1 \in 1..(Len(s) - 1) /\ (m - 1) + 1 = m
    BY <1>1, <2>1
  <2> QED
    BY <1>2, <2>1, <2>2
<1>5. f \in Bijection(Marks(Tail(s)), M)
  <2>1. f \in [Marks(Tail(s)) -> M]
    BY <1>3
  <2>2. ASSUME NEW a \in Marks(Tail(s)), NEW b \in Marks(Tail(s)), f[a] = f[b]
        PROVE  a = b
    <3>1. a + 1 = b + 1 /\ a \in Int /\ b \in Int
      BY <1>3, <2>2
    <3> QED
      BY <3>1
  <2>3. ASSUME NEW m \in M PROVE \E k \in Marks(Tail(s)) : f[k] = m
    BY <1>4
  <2> HIDE DEF f, M
  <2> QED
    BY <2>1, <2>2, <2>3 DEF Bijection, Injection, Surjection, IsInjective
<1> HIDE DEF f
<1>6. IsFiniteSet(Marks(Tail(s))) /\ IsFiniteSet(Marks(s)) /\ Cardinality(Marks(s)) \in Nat
  BY <1>1, MarksFinite
<1>7. Cardinality(M) = Cardinality(Marks(Tail(s)))
  <2>1. ExistsBijection(Marks(Tail(s)), M)
    BY <1>5 DEF ExistsBijection
  <2> QED
    BY <1>6, <2>1, FS_Bijection
<1>8. CASE Head(s) = "path1"
  <2>1. 1 \in Marks(s)
    BY <1>1, <1>2, <1>8
  <2>2. Cardinality(M) = Cardinality(Marks(s)) - 1
    BY <1>6, <2>1, FS_RemoveElement
  <2> QED
    BY <1>7, <1>8, <2>2 DEF One
<1>9. CASE Head(s) # "path1"
  <2>1. M = Marks(s)
    BY <1>1, <1>2, <1>9
  <2>2. One(Head(s) = "path1") = 0
    BY <1>9 DEF One
  <2>3. Cardinality(Marks(Tail(s))) = Cardinality(Marks(s))
    BY <1>7, <2>1
  <2> QED
    BY <1>6, <2>2, <2>3
<1> QED
  BY <1>8, <1>9

LEMMA MarksOfNone == Marks(<<>>) = {} /\ Cardinality(Marks(<<>>)) = 0
<1>1. Marks(<<>>) = {}
  BY DEF Marks
<1> QED
  BY <1>1, FS_EmptySet

-----------------------------------------------------------------------------
(* The invariant.                                                          *)

\* What the packets are does not matter here.
Packets == \E S : queue \in Seq(S)

Typed ==
  /\ programs \in Nat /\ fakePackets \in Int /\ xgkick \in Nat
  /\ fifo \in Seq(Commands) /\ Packets

Busy == vu \in {"run", "part", "copy", "realign", "pending", "lock", "check",
                "push", "post"}

Places ==
  /\ vu \in {"look", "parked", "drain"} \/ Busy
  /\ ee \in {"run", "send", "stall", "kickVU", "kickGS", "vuWait", "syncGS",
             "emptyGS", "gsWait", "reset"}
  /\ ee = "vuWait" => then \in {"run", "syncGS"}
  /\ ee \in {"emptyGS", "gsWait"} => then \in {"run", "reset"}
  /\ ee \in {"send", "stall"} => /\ then \in {"run", "kickVU", "kickGS"}
                                 /\ cmd \in Commands

\* What the GS thread is busy with is the first command of the ring.
InHand ==
  /\ gs \in {"wait", "relock", "transfer", "pop"} => fifo # <<>> /\ Head(fifo) = "path1"
  /\ gs = "advance" => fifo # <<>>

\* The EE has still to announce a program, and is on its way to a reset.
ToKick == ee = "kickVU" \/ (ee \in {"send", "stall"} /\ then = "kickVU")
Resetting ==
  ee \in {"syncGS", "reset"} \/ (ee \in {"emptyGS", "gsWait"} /\ then = "reset")

\* Where the MTVU thread is idle and the EE has said all there is, no program is
\* left; nor when a WaitVU has ended.
ProgramsDrained ==
  /\ vuEvent \in {"parked", "running0", "runningN"}
  /\ vuFlag \in BOOLEAN /\ vuToken \in 0..1
  /\ Busy => programs > 0
  /\ vuEvent = "parked" => vu = "parked"
  /\ programs > 0 => vuEvent = "runningN" \/ vu = "drain" \/ Busy \/ ToKick
  /\ vuFlag => ee = "vuWait" /\ vuToken = 0
  /\ vuToken = 1 => ee = "vuWait" /\ programs <= 0
  /\ Resetting => programs <= 0

\* Likewise for the commands of the GS thread and WaitGS.
CommandsDrained ==
  /\ gsEvent \in {"parked", "running0", "runningN"}
  /\ gsFlag \in BOOLEAN /\ gsToken \in 0..1
  /\ gsEvent = "parked" => gs = "parked"
  /\ ee \in {"emptyGS", "gsWait"} /\ fifo # <<>>
       => gsEvent = "runningN" \/ gs \notin {"look", "parked"}
  /\ gsFlag => ee = "gsWait" /\ gsToken = 0
  /\ gsToken = 1 => ee = "gsWait" /\ fifo = <<>>
  /\ ee = "reset" => fifo = <<>>

\* The two balances of OnePacketPerProgram.
Tokens ==
  Len(queue) = xgkick + One(gs \in {"relock", "transfer", "pop"}) + One(vu = "post")
Announced ==
  fakePackets + Count("path1") - One(gs = "advance" /\ Head(fifo) = "path1")
    = Len(queue) + programs - One(vu = "post")

Core ==
  /\ ~lost
  /\ Typed /\ Places /\ InHand /\ ProgramsDrained /\ CommandsDrained
  /\ Tokens /\ Announced

\* With a token left over the model is at its end.
IInv == IF lost THEN ee = "end" ELSE Core

LEMMA QueueFacts ==
  ASSUME Core
  PROVE  /\ Len(queue) \in Nat
         /\ \A p : Len(Append(queue, p)) = Len(queue) + 1
         /\ queue # <<>> => Len(Tail(queue)) = Len(queue) - 1 /\ Len(queue) >= 1
         /\ queue = <<>> => Len(queue) = 0
<1>1. PICK S : queue \in Seq(S)
  BY DEF Core, Typed, Packets
<1> QED
  BY <1>1

\* The GS thread pops what it was told of.
LEMMA SomethingToPop ==
  ASSUME Core, gs = "pop"
  PROVE  queue # <<>> /\ Len(queue) \in Nat
<1>1. One(gs \in {"relock", "transfer", "pop"}) = 1 /\ One(vu = "post") \in {0, 1}
  BY DEF One
<1>2. xgkick \in Nat /\ Len(queue) \in Nat
  BY QueueFacts DEF Core, Typed
<1>3. Len(queue) = xgkick + 1 + One(vu = "post")
  BY <1>1 DEF Core, Tokens
<1> QED
  BY <1>1, <1>2, <1>3, QueueFacts

\* Types.
LEMMA NextTyped ==
  ASSUME Core, [Next]_vars, ~lost'
  PROVE  Typed'
<1> USE DEF Typed, vars, vuEventVars, gsEventVars, eeVars, vuVars,
         packVars, sharedVars, gsVars, GoTo, Execute, Commands
<1>0. Typed /\ (Busy => programs > 0)
  BY DEF Core, ProgramsDrained
<1>1. CASE ExecuteVU
  BY <1>0, <1>1 DEF ExecuteVU, Packets
<1>2. CASE SendOther
  BY <1>0, <1>2 DEF SendOther, Packets
<1>3. CASE Hold
  BY <1>0, <1>3 DEF Hold, Packets
<1>4. CASE Resume
  BY <1>0, <1>4 DEF Resume, Packets
<1>5. CASE WaitGS
  BY <1>0, <1>5 DEF WaitGS, Packets
<1>6. ASSUME NEW why \in {"run", "syncGS"}, WaitVU(why) PROVE Typed'
  BY <1>0, <1>6 DEF WaitVU, Packets
<1>7. CASE Send
  <2>1. cmd \in Commands /\ fifo' = Append(fifo, cmd)
    BY <1>7 DEF Send, Core, Places
  <2>2. fifo' \in Seq(Commands) /\ fakePackets' \in Int
    BY <1>0, <1>7, <2>1 DEF Send
  <2>3. UNCHANGED <<programs, xgkick, queue>>
    BY <1>7 DEF Send
  <2> QED
    BY <1>0, <2>2, <2>3 DEF Packets
<1>8. CASE GenericStall
  BY <1>0, <1>8 DEF GenericStall, Packets
<1>9. CASE KickStart
  BY <1>0, <1>9 DEF KickStart, Packets
<1>10. CASE SetEvent
  BY <1>0, <1>10 DEF SetEvent, Packets
<1>11. CASE VUWake
  BY <1>0, <1>11 DEF VUWake, Packets
<1>12. CASE WaitForEmpty
  BY <1>0, <1>12 DEF WaitForEmpty, Packets
<1>13. CASE GSWake
  BY <1>0, <1>13 DEF GSWake, Packets
<1>14. CASE Reset
  <2>1. queue' \in Seq({})
    BY <1>14 DEF Reset
  <2>2. UNCHANGED <<programs, xgkick, fifo>> /\ fakePackets' = 0
    BY <1>14 DEF Reset
  <2> QED
    BY <1>0, <2>1, <2>2 DEF Packets
<1>15. CASE WaitForWork
  BY <1>0, <1>15 DEF WaitForWork, Packets
<1>16. CASE ReadTag
  BY <1>0, <1>16 DEF ReadTag, Packets
<1>17. ASSUME NEW n \in 1..MaxProgram, XGKick(n) PROVE Typed'
  BY <1>0, <1>17 DEF XGKick, Packets
<1>18. CASE Realign
  BY <1>0, <1>18 DEF Realign, Packets
<1>19. CASE Copy
  BY <1>0, <1>19 DEF Copy, Packets
<1>20. CASE WeakWait
  BY <1>0, <1>20 DEF WeakWait, Packets
<1>21. CASE StartPacks
  BY <1>0, <1>21 DEF StartPacks, Packets
<1>22. CASE LockUnlock
  BY <1>0, <1>22 DEF LockUnlock, Packets
<1>23. CASE PacketDone
  BY <1>0, <1>23 DEF PacketDone, Packets
<1>24. CASE AddReadAmount
  BY <1>0, <1>24 DEF AddReadAmount, Packets
<1>25. CASE PushPacket
  <2>1. PICK S : queue \in Seq(S)
    BY <1>0 DEF Packets
  <2>2. queue' \in Seq(S \cup {gsPack})
    BY <2>1, <1>25 DEF PushPacket
  <2>3. UNCHANGED <<programs, xgkick, fifo, fakePackets>>
    BY <1>25 DEF PushPacket
  <2> QED
    BY <1>0, <2>2, <2>3 DEF Packets
<1>26. CASE PostXGkick
  <2>1. programs > 0
    BY <1>0, <1>26 DEF PostXGkick, Busy
  <2>2. UNCHANGED <<fifo, fakePackets, queue>> /\ xgkick' \in Nat /\ programs' \in Nat
    BY <1>0, <1>26, <2>1 DEF PostXGkick
  <2> QED
    BY <1>0, <2>2 DEF Packets
<1>27. CASE GSWaitForWork
  BY <1>0, <1>27 DEF GSWaitForWork, Packets
<1>28. CASE Lock
  BY <1>0, <1>28 DEF Lock, Packets
<1>29. CASE ReadCommand
  BY <1>0, <1>29 DEF ReadCommand, Packets
<1>30. CASE TryWait
  <2>1. UNCHANGED <<programs, fifo, fakePackets, queue>> /\ xgkick' \in Nat
    BY <1>0, <1>30 DEF TryWait
  <2> QED
    BY <1>0, <2>1 DEF Packets
<1>31. CASE WaitXGkick
  BY <1>0, <1>31 DEF WaitXGkick, Packets
<1>32. CASE Transfer
  BY <1>0, <1>32 DEF Transfer, Packets
<1>33. CASE PopGSPacketMTVU
  <2>1. queue # <<>> /\ queue' = Tail(queue)
    BY <1>0, <1>33, SomethingToPop, QueueFacts DEF PopGSPacketMTVU
  <2>2. PICK S : queue \in Seq(S)
    BY <1>0 DEF Packets
  <2>3. queue' \in Seq(S)
    BY <2>1, <2>2
  <2>4. UNCHANGED <<programs, xgkick, fifo, fakePackets>>
    BY <1>33 DEF PopGSPacketMTVU
  <2> QED
    BY <1>0, <2>3, <2>4 DEF Packets
<1>34. CASE AdvanceReadPos
  <2>1. fifo # <<>> /\ fifo' = Tail(fifo)
    BY <1>34 DEF AdvanceReadPos, Core, InHand
  <2>2. fifo' \in Seq(Commands)
    BY <1>0, <2>1
  <2>3. UNCHANGED <<programs, xgkick, fakePackets, queue>>
    BY <1>34 DEF AdvanceReadPos
  <2> QED
    BY <1>0, <2>2, <2>3 DEF Packets
<1>35. CASE UNCHANGED vars
  BY <1>0, <1>35 DEF vars, Packets
<1> QED
  BY <1>1, <1>2, <1>3, <1>4, <1>5, <1>6, <1>7, <1>8, <1>9, <1>10, <1>11, <1>12,
     <1>13, <1>14, <1>15, <1>16, <1>17, <1>18, <1>19, <1>20, <1>21, <1>22,
     <1>23, <1>24, <1>25, <1>26, <1>27, <1>28, <1>29, <1>30, <1>31, <1>32,
     <1>33, <1>34, <1>35
     DEF Next, EEStep, VUStep, GSStep

\* Places of the two threads.
LEMMA NextPlaces ==
  ASSUME Core, [Next]_vars, ~lost'
  PROVE  Places'
<1> USE DEF Places, Busy, vars, vuEventVars, gsEventVars, eeVars, vuVars,
         packVars, sharedVars, gsVars, GoTo, Execute, Commands
<1>0. Places
  BY DEF Core
<1>1. CASE ExecuteVU
  BY <1>0, <1>1 DEF ExecuteVU
<1>2. CASE SendOther
  BY <1>0, <1>2 DEF SendOther
<1>3. CASE Hold
  BY <1>0, <1>3 DEF Hold
<1>4. CASE Resume
  BY <1>0, <1>4 DEF Resume
<1>5. CASE WaitGS
  BY <1>0, <1>5 DEF WaitGS
<1>6. ASSUME NEW why \in {"run", "syncGS"}, WaitVU(why) PROVE Places'
  BY <1>0, <1>6 DEF WaitVU
<1>7. CASE Send
  BY <1>0, <1>7 DEF Send
<1>8. CASE GenericStall
  BY <1>0, <1>8 DEF GenericStall
<1>9. CASE KickStart
  BY <1>0, <1>9 DEF KickStart
<1>10. CASE SetEvent
  BY <1>0, <1>10 DEF SetEvent
<1>11. CASE VUWake
  BY <1>0, <1>11 DEF VUWake
<1>12. CASE WaitForEmpty
  BY <1>0, <1>12 DEF WaitForEmpty
<1>13. CASE GSWake
  BY <1>0, <1>13 DEF GSWake
<1>14. CASE Reset
  BY <1>0, <1>14 DEF Reset
<1>15. CASE WaitForWork
  BY <1>0, <1>15 DEF WaitForWork
<1>16. CASE ReadTag
  BY <1>0, <1>16 DEF ReadTag
<1>17. ASSUME NEW n \in 1..MaxProgram, XGKick(n) PROVE Places'
  BY <1>0, <1>17 DEF XGKick
<1>18. CASE Realign
  BY <1>0, <1>18 DEF Realign
<1>19. CASE Copy
  BY <1>0, <1>19 DEF Copy
<1>20. CASE WeakWait
  BY <1>0, <1>20 DEF WeakWait, MustWait
<1>21. CASE StartPacks
  BY <1>0, <1>21 DEF StartPacks, Back
<1>22. CASE LockUnlock
  BY <1>0, <1>22 DEF LockUnlock
<1>23. CASE PacketDone
  BY <1>0, <1>23 DEF PacketDone, Back
<1>24. CASE AddReadAmount
  BY <1>0, <1>24 DEF AddReadAmount
<1>25. CASE PushPacket
  BY <1>0, <1>25 DEF PushPacket
<1>26. CASE PostXGkick
  BY <1>0, <1>26 DEF PostXGkick
<1>27. CASE GSWaitForWork
  BY <1>0, <1>27 DEF GSWaitForWork
<1>28. CASE Lock
  BY <1>0, <1>28 DEF Lock
<1>29. CASE ReadCommand
  BY <1>0, <1>29 DEF ReadCommand
<1>30. CASE TryWait
  BY <1>0, <1>30 DEF TryWait, IsPath1
<1>31. CASE WaitXGkick
  BY <1>0, <1>31 DEF WaitXGkick
<1>32. CASE Transfer
  BY <1>0, <1>32 DEF Transfer
<1>33. CASE PopGSPacketMTVU
  BY <1>0, <1>33 DEF PopGSPacketMTVU
<1>34. CASE AdvanceReadPos
  BY <1>0, <1>34 DEF AdvanceReadPos
<1>35. CASE UNCHANGED vars
  BY <1>0, <1>35 DEF vars
<1> QED
  BY <1>1, <1>2, <1>3, <1>4, <1>5, <1>6, <1>7, <1>8, <1>9, <1>10, <1>11, <1>12,
     <1>13, <1>14, <1>15, <1>16, <1>17, <1>18, <1>19, <1>20, <1>21, <1>22,
     <1>23, <1>24, <1>25, <1>26, <1>27, <1>28, <1>29, <1>30, <1>31, <1>32,
     <1>33, <1>34, <1>35
     DEF Next, EEStep, VUStep, GSStep

\* The command in hand stays first.
LEMMA NextInHand ==
  ASSUME Core, [Next]_vars, ~lost'
  PROVE  InHand'
<1> USE DEF InHand, vars, vuEventVars, gsEventVars, eeVars, vuVars,
         packVars, sharedVars, gsVars, GoTo, Execute, Commands
<1>0. InHand /\ fifo \in Seq(Commands) /\ (ee = "reset" => fifo = <<>>)
  BY DEF Core, Typed, CommandsDrained
<1>1. CASE ExecuteVU
  BY <1>0, <1>1 DEF ExecuteVU
<1>2. CASE SendOther
  BY <1>0, <1>2 DEF SendOther
<1>3. CASE Hold
  BY <1>0, <1>3 DEF Hold
<1>4. CASE Resume
  BY <1>0, <1>4 DEF Resume
<1>5. CASE WaitGS
  BY <1>0, <1>5 DEF WaitGS
<1>6. ASSUME NEW why \in {"run", "syncGS"}, WaitVU(why) PROVE InHand'
  BY <1>0, <1>6 DEF WaitVU
<1>7. CASE Send
  BY <1>0, <1>7 DEF Send
<1>8. CASE GenericStall
  BY <1>0, <1>8 DEF GenericStall
<1>9. CASE KickStart
  BY <1>0, <1>9 DEF KickStart
<1>10. CASE SetEvent
  BY <1>0, <1>10 DEF SetEvent
<1>11. CASE VUWake
  BY <1>0, <1>11 DEF VUWake
<1>12. CASE WaitForEmpty
  BY <1>0, <1>12 DEF WaitForEmpty
<1>13. CASE GSWake
  BY <1>0, <1>13 DEF GSWake
<1>14. CASE Reset
  BY <1>0, <1>14 DEF Reset
<1>15. CASE WaitForWork
  BY <1>0, <1>15 DEF WaitForWork
<1>16. CASE ReadTag
  BY <1>0, <1>16 DEF ReadTag
<1>17. ASSUME NEW n \in 1..MaxProgram, XGKick(n) PROVE InHand'
  BY <1>0, <1>17 DEF XGKick
<1>18. CASE Realign
  BY <1>0, <1>18 DEF Realign
<1>19. CASE Copy
  BY <1>0, <1>19 DEF Copy
<1>20. CASE WeakWait
  BY <1>0, <1>20 DEF WeakWait, MustWait
<1>21. CASE StartPacks
  BY <1>0, <1>21 DEF StartPacks, Back
<1>22. CASE LockUnlock
  BY <1>0, <1>22 DEF LockUnlock
<1>23. CASE PacketDone
  BY <1>0, <1>23 DEF PacketDone, Back
<1>24. CASE AddReadAmount
  BY <1>0, <1>24 DEF AddReadAmount
<1>25. CASE PushPacket
  BY <1>0, <1>25 DEF PushPacket
<1>26. CASE PostXGkick
  BY <1>0, <1>26 DEF PostXGkick
<1>27. CASE GSWaitForWork
  BY <1>0, <1>27 DEF GSWaitForWork
<1>28. CASE Lock
  BY <1>0, <1>28 DEF Lock
<1>29. CASE ReadCommand
  BY <1>0, <1>29 DEF ReadCommand
<1>30. CASE TryWait
  BY <1>0, <1>30 DEF TryWait, IsPath1
<1>31. CASE WaitXGkick
  BY <1>0, <1>31 DEF WaitXGkick
<1>32. CASE Transfer
  BY <1>0, <1>32 DEF Transfer
<1>33. CASE PopGSPacketMTVU
  BY <1>0, <1>33 DEF PopGSPacketMTVU
<1>34. CASE AdvanceReadPos
  BY <1>0, <1>34 DEF AdvanceReadPos
<1>35. CASE UNCHANGED vars
  BY <1>0, <1>35 DEF vars
<1> QED
  BY <1>1, <1>2, <1>3, <1>4, <1>5, <1>6, <1>7, <1>8, <1>9, <1>10, <1>11, <1>12,
     <1>13, <1>14, <1>15, <1>16, <1>17, <1>18, <1>19, <1>20, <1>21, <1>22,
     <1>23, <1>24, <1>25, <1>26, <1>27, <1>28, <1>29, <1>30, <1>31, <1>32,
     <1>33, <1>34, <1>35
     DEF Next, EEStep, VUStep, GSStep

\* No program is left where an idle semaEvent says so.
LEMMA NextPrograms ==
  ASSUME Core, [Next]_vars, ~lost'
  PROVE  ProgramsDrained'
<1> USE DEF ProgramsDrained, Places, Busy, ToKick, Resetting,
         VUEvent!NotifyOfWork, VUEvent!IdleLook, VUEvent!BusyLook, VUEvent!Answer,
         VUEvent!IsIdle, VUEvent!WaitForEmpty, VUEvent!EmptyWake, VUEvent!emptyVars,
         vars, vuEventVars, gsEventVars, eeVars, vuVars,
         packVars, sharedVars, gsVars, GoTo, Execute, Commands
<1>0. ProgramsDrained /\ Places /\ programs \in Int
  BY DEF Core, Typed
<1>1. CASE ExecuteVU
  BY <1>0, <1>1 DEF ExecuteVU
<1>2. CASE SendOther
  BY <1>0, <1>2 DEF SendOther
<1>3. CASE Hold
  BY <1>0, <1>3 DEF Hold
<1>4. CASE Resume
  BY <1>0, <1>4 DEF Resume
<1>5. CASE WaitGS
  BY <1>0, <1>5 DEF WaitGS
<1>6. ASSUME NEW why \in {"run", "syncGS"}, WaitVU(why) PROVE ProgramsDrained'
  <2>1. ee = "run" /\ vuToken = 0 /\ vuToken' = 0 /\ UNCHANGED <<programs, vu, vuEvent>>
    BY <1>0, <1>6 DEF WaitVU
  <2>2. CASE VUEvent!IsIdle /\ ee' = why /\ UNCHANGED <<then, vuEventVars>>
    <3>1. programs <= 0
      BY <1>0, <2>1, <2>2
    <3>2. ~vuFlag /\ vuFlag' = vuFlag
      BY <1>0, <2>1, <2>2
    <3>3. vuFlag' \in BOOLEAN
      BY Zenon, <1>0, <2>2
    <3> QED
      BY <1>0, <2>1, <2>2, <3>1, <3>2, <3>3
  <2>3. CASE VUEvent!WaitForEmpty /\ ee' = "vuWait" /\ then' = why
    <3>1. vuFlag' \in BOOLEAN
      BY Zenon, <2>3
    <3>2. vuEvent # "parked"
      BY <2>3
    <3> QED
      BY <1>0, <2>1, <2>3, <3>1, <3>2
  <2> QED
    BY <1>6, <2>2, <2>3 DEF WaitVU
<1>7. CASE Send
  BY <1>0, <1>7 DEF Send
<1>8. CASE GenericStall
  BY <1>0, <1>8 DEF GenericStall
<1>9. CASE KickStart
  BY <1>0, <1>9 DEF KickStart
<1>10. CASE SetEvent
  BY <1>0, <1>10 DEF SetEvent
<1>11. CASE VUWake
  BY <1>0, <1>11 DEF VUWake
<1>12. CASE WaitForEmpty
  BY <1>0, <1>12 DEF WaitForEmpty
<1>13. CASE GSWake
  BY <1>0, <1>13 DEF GSWake
<1>14. CASE Reset
  BY <1>0, <1>14 DEF Reset
<1>15. CASE WaitForWork
  <2>1. UNCHANGED <<programs, ee, then, cmd>>
    BY <1>15 DEF WaitForWork
  <2>2. CASE vu = "look" /\ VUEvent!IdleLook("parked") /\ vu' = "parked"
    <3>1. vuEvent = "running0" /\ vuEvent' = "parked"
      BY <2>2
    <3>2. vuFlag' \in BOOLEAN /\ ~vuFlag'
      BY Zenon, <2>2
    <3>3. programs > 0 => ToKick
      BY <1>0, <2>2, <3>1
    <3>4. vuToken' = IF vuFlag THEN vuToken + 1 ELSE vuToken
      BY <2>2
    <3>5. vuToken' \in 0..1 /\ (vuToken' = 1 => ee = "vuWait")
      BY <1>0, <3>4
    <3> QED
      BY <1>0, <2>1, <2>2, <3>1, <3>2, <3>3, <3>5
  <2>3. CASE VUEvent!BusyLook /\ vu' = "drain"
    <3>1. vuFlag' \in BOOLEAN /\ vuFlag' = vuFlag /\ vuToken' = vuToken
      BY Zenon, <1>0, <2>3
    <3> QED
      BY <1>0, <2>1, <2>3, <3>1
  <2> QED
    BY <1>15, <2>2, <2>3 DEF WaitForWork
<1>16. CASE ReadTag
  BY <1>0, <1>16 DEF ReadTag
<1>17. ASSUME NEW n \in 1..MaxProgram, XGKick(n) PROVE ProgramsDrained'
  BY <1>0, <1>17 DEF XGKick
<1>18. CASE Realign
  BY <1>0, <1>18 DEF Realign
<1>19. CASE Copy
  BY <1>0, <1>19 DEF Copy
<1>20. CASE WeakWait
  BY <1>0, <1>20 DEF WeakWait, MustWait
<1>21. CASE StartPacks
  BY <1>0, <1>21 DEF StartPacks, Back
<1>22. CASE LockUnlock
  BY <1>0, <1>22 DEF LockUnlock
<1>23. CASE PacketDone
  BY <1>0, <1>23 DEF PacketDone, Back
<1>24. CASE AddReadAmount
  BY <1>0, <1>24 DEF AddReadAmount
<1>25. CASE PushPacket
  BY <1>0, <1>25 DEF PushPacket
<1>26. CASE PostXGkick
  BY <1>0, <1>26 DEF PostXGkick
<1>27. CASE GSWaitForWork
  BY <1>0, <1>27 DEF GSWaitForWork
<1>28. CASE Lock
  BY <1>0, <1>28 DEF Lock
<1>29. CASE ReadCommand
  BY <1>0, <1>29 DEF ReadCommand
<1>30. CASE TryWait
  BY <1>0, <1>30 DEF TryWait, IsPath1
<1>31. CASE WaitXGkick
  BY <1>0, <1>31 DEF WaitXGkick
<1>32. CASE Transfer
  BY <1>0, <1>32 DEF Transfer
<1>33. CASE PopGSPacketMTVU
  BY <1>0, <1>33 DEF PopGSPacketMTVU
<1>34. CASE AdvanceReadPos
  BY <1>0, <1>34 DEF AdvanceReadPos
<1>35. CASE UNCHANGED vars
  BY <1>0, <1>35 DEF vars
<1> QED
  BY <1>1, <1>2, <1>3, <1>4, <1>5, <1>6, <1>7, <1>8, <1>9, <1>10, <1>11, <1>12,
     <1>13, <1>14, <1>15, <1>16, <1>17, <1>18, <1>19, <1>20, <1>21, <1>22,
     <1>23, <1>24, <1>25, <1>26, <1>27, <1>28, <1>29, <1>30, <1>31, <1>32,
     <1>33, <1>34, <1>35
     DEF Next, EEStep, VUStep, GSStep

\* No command is left where an idle s_sem_event says so.
LEMMA NextCommands ==
  ASSUME Core, [Next]_vars, ~lost'
  PROVE  CommandsDrained'
<1> USE DEF CommandsDrained, InHand, Places,
         GSEvent!NotifyOfWork, GSEvent!IdleLook, GSEvent!BusyLook, GSEvent!Answer,
         GSEvent!IsIdle, GSEvent!WaitForEmpty, GSEvent!EmptyWake, GSEvent!emptyVars,
         vars, vuEventVars, gsEventVars, eeVars, vuVars,
         packVars, sharedVars, gsVars, GoTo, Execute, Commands
<1>0. CommandsDrained /\ InHand /\ Places /\ fifo \in Seq(Commands)
  BY DEF Core, Typed
<1>1. CASE ExecuteVU
  BY <1>0, <1>1 DEF ExecuteVU
<1>2. CASE SendOther
  BY <1>0, <1>2 DEF SendOther
<1>3. CASE Hold
  BY <1>0, <1>3 DEF Hold
<1>4. CASE Resume
  BY <1>0, <1>4 DEF Resume
<1>5. CASE WaitGS
  BY <1>0, <1>5 DEF WaitGS
<1>6. ASSUME NEW why \in {"run", "syncGS"}, WaitVU(why) PROVE CommandsDrained'
  BY <1>0, <1>6 DEF WaitVU
<1>7. CASE Send
  BY <1>0, <1>7 DEF Send
<1>8. CASE GenericStall
  BY <1>0, <1>8 DEF GenericStall
<1>9. CASE KickStart
  BY <1>0, <1>9 DEF KickStart
<1>10. CASE SetEvent
  BY <1>0, <1>10 DEF SetEvent
<1>11. CASE VUWake
  BY <1>0, <1>11 DEF VUWake
<1>12. CASE WaitForEmpty
  <2>1. ee = "emptyGS" /\ gsToken = 0 /\ gsToken' = 0 /\ UNCHANGED <<fifo, gs, gsEvent>>
    BY <1>0, <1>12 DEF WaitForEmpty
  <2>2. CASE GSEvent!IsIdle /\ GoTo(then) /\ UNCHANGED gsEventVars
    <3>1. fifo = <<>> /\ ee' \in {"run", "reset"}
      BY <1>0, <2>1, <2>2
    <3>2. ~gsFlag /\ gsFlag' = gsFlag
      BY <1>0, <2>1, <2>2
    <3>3. gsFlag' \in BOOLEAN
      BY Zenon, <1>0, <2>2
    <3> QED
      BY <1>0, <2>1, <2>2, <3>1, <3>2, <3>3
  <2>3. CASE GSEvent!WaitForEmpty /\ ee' = "gsWait"
    <3>1. gsFlag' \in BOOLEAN
      BY Zenon, <2>3
    <3>2. gsEvent # "parked"
      BY <2>3
    <3> QED
      BY <1>0, <2>1, <2>3, <3>1, <3>2
  <2> QED
    BY <1>12, <2>2, <2>3 DEF WaitForEmpty
<1>13. CASE GSWake
  BY <1>0, <1>13 DEF GSWake
<1>14. CASE Reset
  BY <1>0, <1>14 DEF Reset
<1>15. CASE WaitForWork
  BY <1>0, <1>15 DEF WaitForWork
<1>16. CASE ReadTag
  BY <1>0, <1>16 DEF ReadTag
<1>17. ASSUME NEW n \in 1..MaxProgram, XGKick(n) PROVE CommandsDrained'
  BY <1>0, <1>17 DEF XGKick
<1>18. CASE Realign
  BY <1>0, <1>18 DEF Realign
<1>19. CASE Copy
  BY <1>0, <1>19 DEF Copy
<1>20. CASE WeakWait
  BY <1>0, <1>20 DEF WeakWait, MustWait
<1>21. CASE StartPacks
  BY <1>0, <1>21 DEF StartPacks, Back
<1>22. CASE LockUnlock
  BY <1>0, <1>22 DEF LockUnlock
<1>23. CASE PacketDone
  BY <1>0, <1>23 DEF PacketDone, Back
<1>24. CASE AddReadAmount
  BY <1>0, <1>24 DEF AddReadAmount
<1>25. CASE PushPacket
  BY <1>0, <1>25 DEF PushPacket
<1>26. CASE PostXGkick
  BY <1>0, <1>26 DEF PostXGkick
<1>27. CASE GSWaitForWork
  <2>1. UNCHANGED <<fifo, ee, then, cmd>>
    BY <1>27 DEF GSWaitForWork
  <2>2. CASE gs = "look" /\ GSEvent!IdleLook("parked") /\ gs' = "parked"
    <3>1. gsEvent = "running0" /\ gsEvent' = "parked"
      BY <2>2
    <3>2. gsFlag' \in BOOLEAN /\ ~gsFlag'
      BY Zenon, <2>2
    <3>3. ee \in {"emptyGS", "gsWait"} => fifo = <<>>
      BY <1>0, <2>2, <3>1
    <3>4. gsToken' = IF gsFlag THEN gsToken + 1 ELSE gsToken
      BY <2>2
    <3>5. gsToken' \in 0..1 /\ (gsToken' = 1 => ee = "gsWait")
      BY <1>0, <3>4
    <3> QED
      BY <1>0, <2>1, <2>2, <3>1, <3>2, <3>3, <3>5
  <2>3. CASE GSEvent!BusyLook /\ gs' = "lock"
    <3>1. gsFlag' \in BOOLEAN /\ gsFlag' = gsFlag /\ gsToken' = gsToken
      BY Zenon, <1>0, <2>3
    <3> QED
      BY <1>0, <2>1, <2>3, <3>1
  <2> QED
    BY <1>27, <2>2, <2>3 DEF GSWaitForWork
<1>28. CASE Lock
  BY <1>0, <1>28 DEF Lock
<1>29. CASE ReadCommand
  BY <1>0, <1>29 DEF ReadCommand
<1>30. CASE TryWait
  BY <1>0, <1>30 DEF TryWait, IsPath1
<1>31. CASE WaitXGkick
  BY <1>0, <1>31 DEF WaitXGkick
<1>32. CASE Transfer
  BY <1>0, <1>32 DEF Transfer
<1>33. CASE PopGSPacketMTVU
  BY <1>0, <1>33 DEF PopGSPacketMTVU
<1>34. CASE AdvanceReadPos
  BY <1>0, <1>34 DEF AdvanceReadPos
<1>35. CASE UNCHANGED vars
  BY <1>0, <1>35 DEF vars
<1> QED
  BY <1>1, <1>2, <1>3, <1>4, <1>5, <1>6, <1>7, <1>8, <1>9, <1>10, <1>11, <1>12,
     <1>13, <1>14, <1>15, <1>16, <1>17, <1>18, <1>19, <1>20, <1>21, <1>22,
     <1>23, <1>24, <1>25, <1>26, <1>27, <1>28, <1>29, <1>30, <1>31, <1>32,
     <1>33, <1>34, <1>35
     DEF Next, EEStep, VUStep, GSStep

LEMMA CountIs ==
  ASSUME fifo \in Seq(Commands)
  PROVE  Count("path1") \in Nat /\ (fifo = <<>> => Count("path1") = 0)
<1>1. Count("path1") = Cardinality(Marks(fifo))
  BY DEF Count, Marks
<1> QED
  BY <1>1, MarksFinite, MarksOfNone

LEMMA CountStays == fifo' = fifo => Count("path1")' = Count("path1")
  BY DEF Count

\* Packets and units of semaXGkick.
LEMMA NextTokens ==
  ASSUME Core, [Next]_vars, ~lost'
  PROVE  Tokens'
<1> USE DEF Tokens, One, vars, vuEventVars, gsEventVars, eeVars, vuVars,
         packVars, sharedVars, gsVars, GoTo, Execute, Commands
<1>0. Tokens /\ xgkick \in Nat /\ Len(queue) \in Nat
      /\ \A p : Len(Append(queue, p)) = Len(queue) + 1
  BY QueueFacts DEF Core, Typed
<1>1. CASE ExecuteVU
  BY <1>0, <1>1 DEF ExecuteVU
<1>2. CASE SendOther
  BY <1>0, <1>2 DEF SendOther
<1>3. CASE Hold
  BY <1>0, <1>3 DEF Hold
<1>4. CASE Resume
  BY <1>0, <1>4 DEF Resume
<1>5. CASE WaitGS
  BY <1>0, <1>5 DEF WaitGS
<1>6. ASSUME NEW why \in {"run", "syncGS"}, WaitVU(why) PROVE Tokens'
  BY <1>0, <1>6 DEF WaitVU
<1>7. CASE Send
  BY <1>0, <1>7 DEF Send
<1>8. CASE GenericStall
  BY <1>0, <1>8 DEF GenericStall
<1>9. CASE KickStart
  BY <1>0, <1>9 DEF KickStart
<1>10. CASE SetEvent
  BY <1>0, <1>10 DEF SetEvent
<1>11. CASE VUWake
  BY <1>0, <1>11 DEF VUWake
<1>12. CASE WaitForEmpty
  BY <1>0, <1>12 DEF WaitForEmpty
<1>13. CASE GSWake
  BY <1>0, <1>13 DEF GSWake
<1>14. CASE Reset
  <2>1. fifo = <<>> /\ programs <= 0
    BY <1>14 DEF Reset, Core, CommandsDrained, ProgramsDrained, Resetting
  <2>2. gs \notin {"relock", "transfer", "pop"} /\ vu # "post"
    BY <2>1 DEF Core, Typed, InHand, ProgramsDrained, Busy
  <2>3. xgkick = 0
    <3>1. ~(xgkick > 0)
      BY Zenon, <1>14 DEF Reset
    <3> QED
      BY <1>0, <3>1
  <2>4. Len(queue') = 0 /\ xgkick' = 0 /\ vu' = vu /\ gs' = gs
    BY <2>3, <1>14 DEF Reset
  <2> QED
    BY <2>2, <2>4
<1>15. CASE WaitForWork
  BY <1>0, <1>15 DEF WaitForWork
<1>16. CASE ReadTag
  BY <1>0, <1>16 DEF ReadTag
<1>17. ASSUME NEW n \in 1..MaxProgram, XGKick(n) PROVE Tokens'
  BY <1>0, <1>17 DEF XGKick
<1>18. CASE Realign
  BY <1>0, <1>18 DEF Realign
<1>19. CASE Copy
  BY <1>0, <1>19 DEF Copy
<1>20. CASE WeakWait
  BY <1>0, <1>20 DEF WeakWait, MustWait
<1>21. CASE StartPacks
  BY <1>0, <1>21 DEF StartPacks, Back
<1>22. CASE LockUnlock
  BY <1>0, <1>22 DEF LockUnlock
<1>23. CASE PacketDone
  BY <1>0, <1>23 DEF PacketDone, Back
<1>24. CASE AddReadAmount
  BY <1>0, <1>24 DEF AddReadAmount
<1>25. CASE PushPacket
  BY <1>0, <1>25 DEF PushPacket
<1>26. CASE PostXGkick
  BY <1>0, <1>26 DEF PostXGkick
<1>27. CASE GSWaitForWork
  BY <1>0, <1>27 DEF GSWaitForWork
<1>28. CASE Lock
  BY <1>0, <1>28 DEF Lock
<1>29. CASE ReadCommand
  BY <1>0, <1>29 DEF ReadCommand
<1>30. CASE TryWait
  BY <1>0, <1>30 DEF TryWait, IsPath1
<1>31. CASE WaitXGkick
  BY <1>0, <1>31 DEF WaitXGkick
<1>32. CASE Transfer
  BY <1>0, <1>32 DEF Transfer
<1>33. CASE PopGSPacketMTVU
  <2>1. queue # <<>> /\ Len(queue') = Len(queue) - 1
    BY <1>0, <1>33, SomethingToPop, QueueFacts DEF PopGSPacketMTVU
  <2> QED
    BY <1>0, <1>33, <2>1 DEF PopGSPacketMTVU
<1>34. CASE AdvanceReadPos
  BY <1>0, <1>34 DEF AdvanceReadPos
<1>35. CASE UNCHANGED vars
  BY <1>0, <1>35 DEF vars
<1> QED
  BY <1>1, <1>2, <1>3, <1>4, <1>5, <1>6, <1>7, <1>8, <1>9, <1>10, <1>11, <1>12,
     <1>13, <1>14, <1>15, <1>16, <1>17, <1>18, <1>19, <1>20, <1>21, <1>22,
     <1>23, <1>24, <1>25, <1>26, <1>27, <1>28, <1>29, <1>30, <1>31, <1>32,
     <1>33, <1>34, <1>35
     DEF Next, EEStep, VUStep, GSStep

\* Announcements and programs.
LEMMA NextAnnounced ==
  ASSUME Core, [Next]_vars, ~lost'
  PROVE  Announced'
<1> USE DEF Announced, InHand, vars, vuEventVars, gsEventVars, eeVars, vuVars,
         packVars, sharedVars, gsVars, GoTo, Execute
<1>0. Announced /\ InHand /\ programs \in Int /\ fakePackets \in Int
      /\ Len(queue) \in Nat /\ fifo \in Seq(Commands)
      /\ Count("path1") \in Nat /\ (fifo' = fifo => Count("path1")' = Count("path1"))
      /\ \A p : Len(Append(queue, p)) = Len(queue) + 1
  BY QueueFacts, CountIs, CountStays DEF Core, Typed
<1>1. CASE ExecuteVU
  BY <1>0, <1>1 DEF ExecuteVU, One
<1>2. CASE SendOther
  BY <1>0, <1>2 DEF SendOther
<1>3. CASE Hold
  BY <1>0, <1>3 DEF Hold
<1>4. CASE Resume
  BY <1>0, <1>4 DEF Resume
<1>5. CASE WaitGS
  BY <1>0, <1>5 DEF WaitGS
<1>6. ASSUME NEW why \in {"run", "syncGS"}, WaitVU(why) PROVE Announced'
  BY <1>0, <1>6 DEF WaitVU
<1>7. CASE Send
  <2>1. cmd \in Commands /\ fifo' = Append(fifo, cmd)
    BY <1>7 DEF Send, Core, Places
  <2>2. Count("path1")' = Count("path1") + One(cmd = "path1")
    BY <1>0, <2>1, MarksOfAppend DEF Count, Marks
  <2>3. One(gs' = "advance" /\ Head(fifo') = "path1")
          = One(gs = "advance" /\ Head(fifo) = "path1")
    BY <1>0, <1>7, <2>1 DEF Send
  <2>4. fakePackets' = fakePackets - One(cmd = "path1")
    BY <1>0, <1>7 DEF Send, One
  <2>5. UNCHANGED <<queue, programs, vu>>
    BY <1>7 DEF Send
  <2> QED
    <3>1. One(vu' = "post") = One(vu = "post") /\ Len(queue') = Len(queue)
      BY <2>5
    <3>2. /\ One(cmd = "path1") \in Int /\ One(vu = "post") \in Int
          /\ One(gs = "advance" /\ Head(fifo) = "path1") \in Int
      BY DEF One
    <3> QED
      BY <1>0, <2>2, <2>3, <2>4, <2>5, <3>1, <3>2
<1>8. CASE GenericStall
  BY <1>0, <1>8 DEF GenericStall
<1>9. CASE KickStart
  BY <1>0, <1>9 DEF KickStart
<1>10. CASE SetEvent
  BY <1>0, <1>10 DEF SetEvent
<1>11. CASE VUWake
  BY <1>0, <1>11 DEF VUWake
<1>12. CASE WaitForEmpty
  BY <1>0, <1>12 DEF WaitForEmpty
<1>13. CASE GSWake
  BY <1>0, <1>13 DEF GSWake
<1>14. CASE Reset
  <2>1. fifo = <<>> /\ programs <= 0
    BY <1>14 DEF Reset, Core, CommandsDrained, ProgramsDrained, Resetting
  <2>2. gs # "advance" /\ vu # "post"
    BY <2>1 DEF Core, Typed, InHand, ProgramsDrained, Busy
  <2>3. programs = 0 /\ Count("path1")' = 0
    BY <1>0, <1>14, <2>1, CountIs DEF Reset, Core, Typed
  <2>4. Len(queue') = 0 /\ fakePackets' = 0 /\ vu' = vu /\ gs' = gs /\ programs' = 0
    BY <2>3, <1>14 DEF Reset
  <2> QED
    BY <2>2, <2>3, <2>4 DEF One
<1>15. CASE WaitForWork
  BY <1>0, <1>15 DEF WaitForWork, One
<1>16. CASE ReadTag
  BY <1>0, <1>16 DEF ReadTag, One
<1>17. ASSUME NEW n \in 1..MaxProgram, XGKick(n) PROVE Announced'
  BY <1>0, <1>17 DEF XGKick, One
<1>18. CASE Realign
  BY <1>0, <1>18 DEF Realign, One
<1>19. CASE Copy
  BY <1>0, <1>19 DEF Copy, One
<1>20. CASE WeakWait
  BY <1>0, <1>20 DEF WeakWait, MustWait, One
<1>21. CASE StartPacks
  BY <1>0, <1>21 DEF StartPacks, Back, One
<1>22. CASE LockUnlock
  BY <1>0, <1>22 DEF LockUnlock, One
<1>23. CASE PacketDone
  BY <1>0, <1>23 DEF PacketDone, Back, One
<1>24. CASE AddReadAmount
  BY <1>0, <1>24 DEF AddReadAmount, One
<1>25. CASE PushPacket
  BY <1>0, <1>25 DEF PushPacket, One
<1>26. CASE PostXGkick
  BY <1>0, <1>26 DEF PostXGkick, One
<1>27. CASE GSWaitForWork
  BY <1>0, <1>27 DEF GSWaitForWork, One
<1>28. CASE Lock
  BY <1>0, <1>28 DEF Lock, One
<1>29. CASE ReadCommand
  BY <1>0, <1>29 DEF ReadCommand, One
<1>30. CASE TryWait
  BY <1>0, <1>30 DEF TryWait, IsPath1, One
<1>31. CASE WaitXGkick
  BY <1>0, <1>31 DEF WaitXGkick, One
<1>32. CASE Transfer
  BY <1>0, <1>32 DEF Transfer, One
<1>33. CASE PopGSPacketMTVU
  <2>1. queue # <<>> /\ Len(queue') = Len(queue) - 1
    BY <1>0, <1>33, SomethingToPop, QueueFacts DEF PopGSPacketMTVU
  <2>2. Head(fifo) = "path1" /\ gs = "pop" /\ gs' = "advance"
    BY <1>0, <1>33 DEF PopGSPacketMTVU
  <2> QED
    BY <1>0, <1>33, <2>1, <2>2 DEF PopGSPacketMTVU, One
<1>34. CASE AdvanceReadPos
  <2>1. fifo # <<>> /\ fifo' = Tail(fifo) /\ gs = "advance" /\ gs' = "drain"
    BY <1>0, <1>34 DEF AdvanceReadPos
  <2>2. Count("path1")' = Count("path1") - One(Head(fifo) = "path1")
    BY <1>0, <2>1, MarksOfTail DEF Count, Marks
  <2>3. UNCHANGED <<queue, programs, vu, fakePackets>>
    BY <1>34 DEF AdvanceReadPos
  <2> QED
    BY <1>0, <2>1, <2>2, <2>3 DEF One
<1>35. CASE UNCHANGED vars
  BY <1>0, <1>35 DEF vars
<1> QED
  BY <1>1, <1>2, <1>3, <1>4, <1>5, <1>6, <1>7, <1>8, <1>9, <1>10, <1>11, <1>12,
     <1>13, <1>14, <1>15, <1>16, <1>17, <1>18, <1>19, <1>20, <1>21, <1>22,
     <1>23, <1>24, <1>25, <1>26, <1>27, <1>28, <1>29, <1>30, <1>31, <1>32,
     <1>33, <1>34, <1>35
     DEF Next, EEStep, VUStep, GSStep

-----------------------------------------------------------------------------
(* The theorem.                                                            *)

LEMMA Initially == Init => IInv
<1> SUFFICES ASSUME Init PROVE IInv
  OBVIOUS
<1>1. /\ programs = 0 /\ fakePackets = 0 /\ xgkick = 0 /\ fifo = <<>> /\ queue = <<>>
      /\ ee = "run" /\ then = "run" /\ vu = "look" /\ gs = "look" /\ ~lost
      /\ vuEvent = "running0" /\ ~vuFlag /\ vuToken = 0
      /\ gsEvent = "running0" /\ ~gsFlag /\ gsToken = 0
  BY DEF Init, VUEvent!Init, GSEvent!Init
<1>2. vuFlag \in BOOLEAN /\ gsFlag \in BOOLEAN
  BY Zenon DEF Init, VUEvent!Init, GSEvent!Init
<1>3. Typed
  <2>1. queue \in Seq({})
    BY <1>1
  <2> QED
    BY <1>1, <2>1 DEF Typed, Packets
<1>4. Places /\ InHand
  BY <1>1 DEF Places, InHand
<1>5. ProgramsDrained
  BY <1>1, <1>2 DEF ProgramsDrained, Busy, ToKick, Resetting
<1>6. CommandsDrained
  BY <1>1, <1>2 DEF CommandsDrained
<1>7. Tokens /\ Announced
  <2>1. Count("path1") = 0 /\ Len(queue) = 0
    BY <1>1, <1>3, CountIs DEF Typed
  <2> QED
    BY <1>1, <2>1 DEF Tokens, Announced, One
<1> QED
  BY <1>1, <1>3, <1>4, <1>5, <1>6, <1>7 DEF IInv, Core

\* A model at its end stays there.
LEMMA Ended ==
  ASSUME lost, ee = "end", [Next]_vars
  PROVE  lost' /\ ee' = "end"
<1> USE DEF vars, eeVars
<1>1. CASE ExecuteVU
  BY <1>1 DEF ExecuteVU
<1>2. CASE SendOther
  BY <1>2 DEF SendOther
<1>3. CASE Hold
  BY <1>3 DEF Hold
<1>4. CASE Resume
  BY <1>4 DEF Resume
<1>5. CASE WaitGS
  BY <1>5 DEF WaitGS
<1>6. ASSUME NEW why \in {"run", "syncGS"}, WaitVU(why) PROVE lost' /\ ee' = "end"
  BY <1>6 DEF WaitVU
<1>7. CASE Send
  BY <1>7 DEF Send
<1>8. CASE GenericStall
  BY <1>8 DEF GenericStall
<1>9. CASE KickStart
  BY <1>9 DEF KickStart
<1>10. CASE SetEvent
  BY <1>10 DEF SetEvent
<1>11. CASE VUWake
  BY <1>11 DEF VUWake
<1>12. CASE WaitForEmpty
  BY <1>12 DEF WaitForEmpty
<1>13. CASE GSWake
  BY <1>13 DEF GSWake
<1>14. CASE Reset
  BY <1>14 DEF Reset
<1>15. CASE WaitForWork
  BY <1>15 DEF WaitForWork
<1>16. CASE ReadTag
  BY <1>16 DEF ReadTag
<1>17. ASSUME NEW n \in 1..MaxProgram, XGKick(n) PROVE lost' /\ ee' = "end"
  BY <1>17 DEF XGKick
<1>18. CASE Realign
  BY <1>18 DEF Realign
<1>19. CASE Copy
  BY <1>19 DEF Copy
<1>20. CASE WeakWait
  BY <1>20 DEF WeakWait
<1>21. CASE StartPacks
  BY <1>21 DEF StartPacks
<1>22. CASE LockUnlock
  BY <1>22 DEF LockUnlock
<1>23. CASE PacketDone
  BY <1>23 DEF PacketDone
<1>24. CASE AddReadAmount
  BY <1>24 DEF AddReadAmount
<1>25. CASE PushPacket
  BY <1>25 DEF PushPacket
<1>26. CASE PostXGkick
  BY <1>26 DEF PostXGkick
<1>27. CASE GSWaitForWork
  BY <1>27 DEF GSWaitForWork
<1>28. CASE Lock
  BY <1>28 DEF Lock
<1>29. CASE ReadCommand
  BY <1>29 DEF ReadCommand
<1>30. CASE TryWait
  BY <1>30 DEF TryWait, IsPath1
<1>31. CASE WaitXGkick
  BY <1>31 DEF WaitXGkick
<1>32. CASE Transfer
  BY <1>32 DEF Transfer
<1>33. CASE PopGSPacketMTVU
  BY <1>33 DEF PopGSPacketMTVU
<1>34. CASE AdvanceReadPos
  BY <1>34 DEF AdvanceReadPos
<1>35. CASE UNCHANGED vars
  BY <1>35
<1> QED
  BY <1>1, <1>2, <1>3, <1>4, <1>5, <1>6, <1>7, <1>8, <1>9, <1>10, <1>11, <1>12,
     <1>13, <1>14, <1>15, <1>16, <1>17, <1>18, <1>19, <1>20, <1>21, <1>22,
     <1>23, <1>24, <1>25, <1>26, <1>27, <1>28, <1>29, <1>30, <1>31, <1>32,
     <1>33, <1>34, <1>35
     DEF Next, EEStep, VUStep, GSStep

\* Only a reset begins it.
LEMMA LostAtReset ==
  ASSUME ~lost, lost', [Next]_vars
  PROVE  Reset
<1> USE DEF vars, eeVars, GoTo
<1>1. CASE ExecuteVU
  BY <1>1 DEF ExecuteVU
<1>2. CASE SendOther
  BY <1>2 DEF SendOther
<1>3. CASE Hold
  BY <1>3 DEF Hold
<1>4. CASE Resume
  BY <1>4 DEF Resume
<1>5. CASE WaitGS
  BY <1>5 DEF WaitGS
<1>6. ASSUME NEW why \in {"run", "syncGS"}, WaitVU(why) PROVE Reset
  BY <1>6 DEF WaitVU
<1>7. CASE Send
  BY <1>7 DEF Send
<1>8. CASE GenericStall
  BY <1>8 DEF GenericStall
<1>9. CASE KickStart
  BY <1>9 DEF KickStart
<1>10. CASE SetEvent
  BY <1>10 DEF SetEvent
<1>11. CASE VUWake
  BY <1>11 DEF VUWake
<1>12. CASE WaitForEmpty
  BY <1>12 DEF WaitForEmpty
<1>13. CASE GSWake
  BY <1>13 DEF GSWake
<1>14. CASE Reset
  BY <1>14
<1>15. CASE WaitForWork
  BY <1>15 DEF WaitForWork
<1>16. CASE ReadTag
  BY <1>16 DEF ReadTag
<1>17. ASSUME NEW n \in 1..MaxProgram, XGKick(n) PROVE Reset
  BY <1>17 DEF XGKick
<1>18. CASE Realign
  BY <1>18 DEF Realign
<1>19. CASE Copy
  BY <1>19 DEF Copy
<1>20. CASE WeakWait
  BY <1>20 DEF WeakWait
<1>21. CASE StartPacks
  BY <1>21 DEF StartPacks
<1>22. CASE LockUnlock
  BY <1>22 DEF LockUnlock
<1>23. CASE PacketDone
  BY <1>23 DEF PacketDone
<1>24. CASE AddReadAmount
  BY <1>24 DEF AddReadAmount
<1>25. CASE PushPacket
  BY <1>25 DEF PushPacket
<1>26. CASE PostXGkick
  BY <1>26 DEF PostXGkick
<1>27. CASE GSWaitForWork
  BY <1>27 DEF GSWaitForWork
<1>28. CASE Lock
  BY <1>28 DEF Lock
<1>29. CASE ReadCommand
  BY <1>29 DEF ReadCommand
<1>30. CASE TryWait
  BY <1>30 DEF TryWait, IsPath1
<1>31. CASE WaitXGkick
  BY <1>31 DEF WaitXGkick
<1>32. CASE Transfer
  BY <1>32 DEF Transfer
<1>33. CASE PopGSPacketMTVU
  BY <1>33 DEF PopGSPacketMTVU
<1>34. CASE AdvanceReadPos
  BY <1>34 DEF AdvanceReadPos
<1>35. CASE UNCHANGED vars
  BY <1>35
<1> QED
  BY <1>1, <1>2, <1>3, <1>4, <1>5, <1>6, <1>7, <1>8, <1>9, <1>10, <1>11, <1>12,
     <1>13, <1>14, <1>15, <1>16, <1>17, <1>18, <1>19, <1>20, <1>21, <1>22,
     <1>23, <1>24, <1>25, <1>26, <1>27, <1>28, <1>29, <1>30, <1>31, <1>32,
     <1>33, <1>34, <1>35
     DEF Next, EEStep, VUStep, GSStep

LEMMA Step == IInv /\ [Next]_vars => IInv'
<1> SUFFICES ASSUME IInv, [Next]_vars PROVE IInv'
  OBVIOUS
<1>1. CASE lost
  BY <1>1, Ended DEF IInv
<1>2. CASE ~lost /\ ~lost'
  <2>1. Core
    BY <1>2 DEF IInv
  <2>2. /\ Typed' /\ Places' /\ InHand' /\ ProgramsDrained' /\ CommandsDrained'
        /\ Tokens' /\ Announced'
    BY <1>2, <2>1, NextTyped, NextPlaces, NextInHand, NextPrograms, NextCommands,
       NextTokens, NextAnnounced
  <2> QED
    BY <1>2, <2>2 DEF IInv, Core
<1>3. CASE ~lost /\ lost'
  <2>1. Reset
    BY <1>3, LostAtReset
  <2>2. xgkick > 0
    BY Zenon, <1>3, <2>1 DEF Reset
  <2>3. ee' = "end"
    BY <2>1, <2>2 DEF Reset, GoTo
  <2> QED
    BY <1>3, <2>3 DEF IInv
<1> QED
  BY <1>1, <1>2, <1>3

\* Packets in the queue and units of semaXGkick, programs and what is announced of
\* them, balance at every step of the three threads, unless a reset has thrown a
\* held packet away (FinishGSPacketMTVU, MainLoop, Gif_Unit::Execute).
THEOREM ProgramsBalance == Spec => []OnePacketPerProgram
<1>1. IInv => OnePacketPerProgram
  BY DEF IInv, Core, Tokens, Announced, OnePacketPerProgram
<1> QED
  BY <1>1, Initially, Step, PTL DEF Spec

AllIdle ==
  /\ fifo = <<>> /\ gs \notin {"wait", "relock", "transfer", "pop", "advance"}
  /\ programs = 0 /\ vu \in {"look", "parked", "drain"}

\* WaitVU returns with no program left, and WaitGS, before a reset, with no
\* command left: neither thread is inside what VMManager::Reset throws away.
THEOREM ResetFindsAllIdle == Spec => [](ee = "reset" => AllIdle)
<1>1. IInv => (ee = "reset" => AllIdle)
  BY DEF IInv, Core, Typed, Places, InHand, ProgramsDrained, CommandsDrained,
     Resetting, AllIdle
<1> QED
  BY <1>1, Initially, Step, PTL DEF Spec

-----------------------------------------------------------------------------
(* The layout of the buffer.                                               *)

Last == Len(queue) + 1
EndOf(p) == p.offset + p.size
Waiting == vu \in {"pending", "lock", "check"}

\* Where the MTVU thread is with the packet that it builds: the packet, what is
\* copied behind it and not gone through, and what the kick has still to copy.
Shape ==
  /\ gsPack \in Packs /\ queue \in Seq(Packs)
  /\ \A k \in 1..Len(queue) : EndOf(queue[k]) <= BuffSize
  /\ total \in 0..MaxProgram /\ want \in 0..MaxProgram
  /\ curOffset = EndOf(gsPack) /\ curSize = gsPack.offset + total - want
  /\ curOffset <= curSize /\ curSize <= BuffSize
  /\ gsPack.read > 0 => gsPack.offset = 0
  /\ vu \in {"look", "parked", "drain", "post"} => total = 0 /\ gsPack.read = 0
  /\ vu \notin {"copy", "realign"} /\ ~Waiting => want = 0
  /\ vu \in {"run", "push"} => curOffset = curSize
  /\ vu = "copy" => want > 0 /\ curSize + want <= BuffSize
  /\ vu = "realign" => want = 0 \/ curSize + want > BuffSize
  /\ (vu = "realign" \/ Waiting) /\ want = 0
       => curOffset > BuffLimit /\ curSize > curOffset

\* All that path 1 carries is one stream: packet k of the queue starts at T[k], the
\* packet that is built at T[Last].  Where a packet's own start lies in the stream,
\* less where it lies in the buffer, is the base of its lap.
Base(T, k) == T[k] + queue[k].read - queue[k].offset
OwnBase(T) == T[Last] + gsPack.read - gsPack.offset

\* Packet k lies before the packet that is built, or on an earlier lap, which the
\* packet's end and the limit of the buffer separate from this one.
Behind(T, k) ==
  \/ Base(T, k) = OwnBase(T) /\ EndOf(queue[k]) <= gsPack.offset
  \/ /\ Base(T, k) + BuffLimit <= OwnBase(T)
     /\ Base(T, k) + EndOf(queue[k]) <= OwnBase(T)

\* How far the GS thread has read.
Reader(T) == T[IF gs = "pop" THEN 2 ELSE 1]

Stream(T) ==
  /\ T \in [1..Last -> Int]
  /\ \A k \in 1..Len(queue) : T[k + 1] = T[k] + queue[k].size + queue[k].read
  /\ \A k \in 1..Last, l \in 1..Last : k <= l => T[k] <= T[l]
  /\ \A k \in 1..Len(queue) : Behind(T, k)
  /\ readAmount = T[Last] - Reader(T)
                    + (IF vu = "push" THEN gsPack.size + gsPack.read ELSE 0)

\* What is in the buffer.
Data ==
  /\ buffer \in [Cells -> 0..MaxPrograms]
  /\ \A k \in 1..Len(queue) : (k = 1 /\ gs = "pop") \/ Holds(queue[k], k)
  /\ \A i \in gsPack.offset..(curSize - 1) : buffer[i] = Last

LEMMA Sizes ==
  /\ BuffSize \in Nat \ {0} /\ BuffLimit \in Nat \ {0} /\ MaxProgram \in Nat \ {0}
  /\ MaxPrograms \in Nat \ {0} /\ MaxHeld \in Nat \ {0} /\ RingMax \in Nat \ {0}
  /\ BuffLimit + MaxProgram <= BuffSize /\ 2 * MaxProgram <= BuffLimit + 1
BY GifPath1Assumption

LEMMA PackFacts ==
  ASSUME NEW p \in Packs
  PROVE  /\ p.offset \in Nat /\ p.offset <= BuffSize
         /\ p.size \in Nat /\ p.size <= MaxProgram
         /\ p.read \in Nat /\ p.read <= BuffLimit
         /\ EndOf(p) \in Nat /\ p.offset <= EndOf(p)
         /\ Extent(p) = p.offset..(EndOf(p) - 1)
         /\ p = [offset |-> p.offset, size |-> p.size, read |-> p.read]
  BY Sizes DEF Packs, Cells, EndOf, Extent

LEMMA ShapeFacts ==
  ASSUME Shape
  PROVE  /\ Offset = gsPack.offset /\ Offset \in Nat
         /\ gsPack.size \in Nat /\ gsPack.read \in Nat
         /\ curOffset = Offset + gsPack.size /\ curOffset \in Nat
         /\ curSize \in Nat /\ curSize = Offset + total - want
         /\ total \in Nat /\ want \in Nat
         /\ Len(queue) \in Nat /\ Last \in Nat
         /\ \A k \in 1..Len(queue) :
              /\ queue[k] \in Packs /\ queue[k].offset \in Nat
              /\ queue[k].size \in Nat /\ queue[k].read \in Nat
              /\ EndOf(queue[k]) \in Nat
<1>1. /\ gsPack.offset \in Nat /\ gsPack.size \in Nat /\ gsPack.read \in Nat
      /\ curOffset = gsPack.offset + gsPack.size
  BY PackFacts DEF Shape, EndOf
<1>2. \A k \in 1..Len(queue) : queue[k] \in Packs
  BY DEF Shape
<1>3. total \in Nat /\ want \in Nat /\ curSize = gsPack.offset + total - want
  BY Sizes DEF Shape
<1>4. curSize \in Nat
  BY SMTT(60), <1>1, <1>3 DEF Shape
<1>5. Len(queue) \in Nat /\ Last \in Nat
  BY DEF Shape, Last
<1>6. Offset = gsPack.offset
  BY <1>1 DEF Offset
<1>7. \A k \in 1..Len(queue) :
        /\ queue[k].offset \in Nat /\ queue[k].size \in Nat
        /\ queue[k].read \in Nat /\ EndOf(queue[k]) \in Nat
  BY <1>2, PackFacts
<1>8. curSize = Offset + total - want /\ curOffset = Offset + gsPack.size
  BY <1>1, <1>3, <1>6
<1>9. Offset \in Nat /\ curOffset \in Nat
  BY <1>1, <1>6
<1> QED
  BY <1>1, <1>2, <1>3, <1>4, <1>5, <1>6, <1>7, <1>8, <1>9

LEMMA InBuffer ==
  ASSUME Shape
  PROVE  /\ \A k \in 1..Len(queue) : Extent(queue[k]) \subseteq Cells
         /\ gsPack.offset..(curSize - 1) \subseteq Cells
<1>1. ASSUME NEW k \in 1..Len(queue) PROVE Extent(queue[k]) \subseteq Cells
  <2> DEFINE o == queue[k].offset
             e == EndOf(queue[k])
  <2>1. o \in Nat /\ e \in Nat /\ e <= BuffSize /\ Extent(queue[k]) = o..(e - 1)
    BY ShapeFacts, PackFacts DEF Shape
  <2> HIDE DEF o, e
  <2> QED
    BY <2>1, Sizes DEF Cells
<1>2. gsPack.offset..(curSize - 1) \subseteq Cells
  <2> DEFINE o == gsPack.offset
  <2>1. o \in Nat /\ curSize \in Nat /\ curSize <= BuffSize
    BY ShapeFacts DEF Shape
  <2> HIDE DEF o
  <2>2. o..(curSize - 1) \subseteq Cells
    BY <2>1, Sizes DEF Cells
  <2> QED
    BY <2>2 DEF o
<1> QED
  BY <1>1, <1>2

\* How far a packet of the queue is from the reader, and from the packet built.
LEMMA ReaderFacts ==
  ASSUME Shape, gs = "pop" => queue # <<>>, NEW T, Stream(T)
  PROVE  /\ Reader(T) \in Int /\ T[Last] \in Int /\ Reader(T) <= T[Last]
         /\ \A k \in 1..Len(queue) :
              T[k] \in Int /\ ((k = 1 /\ gs = "pop") \/ Reader(T) <= T[k])
<1>1. Len(queue) \in Nat /\ (gs = "pop" => Len(queue) >= 1)
  BY ShapeFacts DEF Shape
<1> DEFINE r == IF gs = "pop" THEN 2 ELSE 1
<1>2. r \in 1..Last /\ Last \in 1..Last /\ \A k \in 1..Len(queue) : k \in 1..Last
  BY <1>1 DEF Last
<1>3. \A k \in 1..Last : T[k] \in Int
  BY DEF Stream
<1>4. \A k \in 1..Len(queue) : (k = 1 /\ gs = "pop") \/ r <= k
  BY <1>1
<1>5. \A k \in 1..Last : r <= k => T[r] <= T[k]
  BY <1>2 DEF Stream
<1>6. r <= Last
  BY <1>2
<1> QED
  BY <1>2, <1>3, <1>4, <1>5, <1>6 DEF Reader

LEMMA RoomIs ==
  ASSUME Shape, gs = "pop" => queue # <<>>, NEW T, Stream(T), vu # "push"
  PROVE  /\ Offset - Unread = Reader(T) - OwnBase(T)
         /\ Offset - Unread \in Int /\ Unread \in Nat
<1>1. Reader(T) \in Int /\ T[Last] \in Int /\ Reader(T) <= T[Last]
  BY ReaderFacts
<1>2. /\ gsPack.offset \in Nat /\ gsPack.read \in Nat
      /\ Offset = gsPack.offset
  BY ShapeFacts
<1>3. readAmount = T[Last] - Reader(T)
  BY <1>1 DEF Stream
<1>4. Unread = T[Last] - Reader(T) + gsPack.read
  BY <1>3 DEF Unread
<1>5. OwnBase(T) = T[Last] + gsPack.read - gsPack.offset
  BY DEF OwnBase
<1> QED
  <2>1. \A t, r, d \in Int, o \in Nat : o - (t - r + d) = r - (t + d - o)
    OBVIOUS
  <2>2. Unread \in Nat
    BY <1>1, <1>2, <1>4
  <2>3. Offset - Unread = Reader(T) - OwnBase(T)
    BY <1>1, <1>2, <1>4, <1>5, <2>1
  <2> QED
    BY <1>2, <2>2, <2>3

LEMMA LapArithmetic ==
  ASSUME NEW t \in Int, NEW r \in Int, NEW b \in Int, NEW own \in Int,
         NEW o \in Nat, NEW size \in Nat, NEW read \in Nat, NEW limit \in Nat,
         r <= t, b = t + read - o, size > 0
  PROVE  /\ b = own => o >= r - own
         /\ b + limit <= own => o >= limit + (r - own)
         /\ b + (o + size) <= own => ~(r - own >= 0)
OBVIOUS

\* Data that are not read lie where RealignPacket and CopyGSPacketData take them
\* to lie: from the read position to the packet that is built, or, if that has
\* wrapped around, behind the read position taken from the limit.
LEMMA NoneInTheWay ==
  ASSUME Shape, gs = "pop" => queue # <<>>, NEW T, Stream(T), vu # "push",
         NEW k \in 1..Len(queue), ~(k = 1 /\ gs = "pop"), queue[k].size > 0
  PROVE  LET room == Offset - Unread
         IN  /\ room >= 0 => queue[k].offset >= room /\ EndOf(queue[k]) <= Offset
             /\ EndOf(queue[k]) <= Offset \/ queue[k].offset >= BuffLimit + room
<1> DEFINE room == Offset - Unread
           q == queue[k]
           b == Base(T, k)
           own == OwnBase(T)
           reader == Reader(T)
<1>1. /\ q.offset \in Nat /\ q.size \in Nat /\ q.read \in Nat /\ q.size > 0
      /\ EndOf(q) = q.offset + q.size /\ BuffLimit \in Nat
  BY ShapeFacts, Sizes DEF EndOf
<1>2. reader \in Int /\ T[k] \in Int /\ reader <= T[k] /\ own \in Int
  <2>1. reader \in Int /\ T[k] \in Int /\ reader <= T[k] /\ T[Last] \in Int
    BY ReaderFacts
  <2>2. gsPack.offset \in Nat /\ gsPack.read \in Nat
    BY ShapeFacts
  <2> QED
    BY <2>1, <2>2 DEF OwnBase
<1>3. b = T[k] + q.read - q.offset /\ room = reader - own
  BY RoomIs DEF Base
<1>4. \/ b = own /\ EndOf(q) <= gsPack.offset
      \/ b + BuffLimit <= own /\ b + EndOf(q) <= own
  BY DEF Stream, Behind
<1>5. Offset = gsPack.offset
  BY ShapeFacts
<1> HIDE DEF q, b, own, reader, room
<1>6. b \in Int
  BY <1>1, <1>2, <1>3
<1>7. /\ b = own => q.offset >= room
      /\ b + BuffLimit <= own => q.offset >= BuffLimit + room
      /\ b + EndOf(q) <= own => ~(room >= 0)
  <2> DEFINE t == T[k]
             o == q.offset
             size == q.size
             read == q.read
  <2>1. /\ o \in Nat /\ size \in Nat /\ read \in Nat /\ size > 0 /\ t \in Int
        /\ EndOf(q) = o + size /\ reader <= t /\ b = t + read - o
        /\ BuffLimit \in Nat
    BY <1>1, <1>2, <1>3
  <2> HIDE DEF t, o, size, read
  <2>2. /\ b = own => o >= reader - own
        /\ b + BuffLimit <= own => o >= BuffLimit + (reader - own)
        /\ b + (o + size) <= own => ~(reader - own >= 0)
    BY <1>2, <2>1, LapArithmetic
  <2>3. o = q.offset
    BY DEF o
  <2> QED
    BY <1>3, <2>1, <2>2, <2>3
<1> QED
  BY <1>4, <1>5, <1>7 DEF room, q

Layout == Shape /\ (\E T : Stream(T)) /\ Data

\* What the layout is made of, and a step that leaves it as it is.
layoutVars == <<gsPack, queue, curOffset, curSize, buffer, readAmount>>

LEMMA LayoutStays ==
  ASSUME Layout, Shape', UNCHANGED layoutVars,
         gs' = "pop" <=> gs = "pop", vu' = "push" <=> vu = "push"
  PROVE  Layout'
<1>1. PICK T : Stream(T)
  BY DEF Layout
<1>2. Last' = Last /\ Reader(T)' = Reader(T) /\ OwnBase(T)' = OwnBase(T)
  BY DEF layoutVars, Last, Reader, OwnBase
<1>3. \A k : Behind(T, k)' <=> Behind(T, k)
  BY <1>2 DEF layoutVars, Behind, Base, EndOf
<1>4. Stream(T)'
  BY <1>1, <1>2, <1>3 DEF Stream, layoutVars
<1>5. Data'
  BY <1>2 DEF Layout, Data, Holds, Extent, layoutVars
<1> QED
  BY <1>4, <1>5 DEF Layout

LEMMA ShapeStays ==
  ASSUME Layout, UNCHANGED layoutVars, UNCHANGED <<total, want, vu>>,
         gs' = "pop" <=> gs = "pop"
  PROVE  Layout'
<1>1. Shape'
  BY DEF Layout, Shape, EndOf, Waiting, layoutVars
<1> QED
  BY <1>1, LayoutStays

\* A program starts, ends, or the MTVU thread waits: it copies nothing.
LEMMA LayoutOfWaits ==
  ASSUME Layout,
         \/ WaitForWork \/ ReadTag \/ PostXGkick
         \/ WeakWait \/ StartPacks \/ PacketDone \/ LockUnlock
  PROVE  Layout'
<1>1. UNCHANGED layoutVars /\ want' = want /\ total' = total /\ gs' = gs
  BY DEF WaitForWork, ReadTag, PostXGkick, WeakWait, StartPacks, PacketDone,
     LockUnlock, vuVars, packVars, sharedVars, gsVars, layoutVars
<1>2. Shape /\ curOffset = gsPack.offset + gsPack.size
  BY ShapeFacts DEF Layout
<1>3. \/ vu \in {"look", "parked", "drain", "post"} /\ vu' \in {"look", "parked", "drain"}
      \/ vu = "drain" /\ vu' = "run"
      \/ vu = "realign" /\ vu' = "pending"
      \/ vu = "copy" /\ vu' = "pending"
      \/ Waiting /\ vu' \in {"lock", "check"}
      \/ Waiting /\ vu' = Back
  BY DEF WaitForWork, ReadTag, PostXGkick, WeakWait, MustWait, StartPacks,
     PacketDone, LockUnlock, Waiting
<1>4. vu' = "run" => curOffset = curSize
  <2> SUFFICES ASSUME vu' = "run" PROVE curOffset = curSize
    OBVIOUS
  <2>1. total = 0 /\ want = 0
    BY <1>2, <1>3 DEF Waiting, Back, Shape
  <2> QED
    BY <1>2, <2>1, ShapeFacts DEF Shape
<1>5. Back \in {"realign", "copy"}
      /\ (Back = "copy" => want > 0 /\ curSize + want <= BuffSize)
      /\ (Back = "realign" => want = 0 \/ curSize + want > BuffSize)
  <2>1. want \in Nat /\ curSize \in Nat /\ BuffSize \in Nat
    BY <1>2, ShapeFacts, Sizes
  <2> QED
    BY <2>1 DEF Back
<1>6. Shape'
  <2>1. /\ gsPack' \in Packs /\ queue' \in Seq(Packs)
        /\ \A k \in 1..Len(queue') : EndOf(queue'[k]) <= BuffSize
        /\ total' \in 0..MaxProgram /\ want' \in 0..MaxProgram
        /\ curOffset' = EndOf(gsPack') /\ curSize' = gsPack'.offset + total' - want'
        /\ curOffset' <= curSize' /\ curSize' <= BuffSize
        /\ gsPack'.read > 0 => gsPack'.offset = 0
    BY <1>1, <1>2 DEF Shape, layoutVars, EndOf
  <2>2. /\ total' = total /\ want' = want /\ curOffset' = curOffset
        /\ curSize' = curSize /\ gsPack' = gsPack
    BY <1>1 DEF layoutVars
  <2>3. /\ vu' \in {"look", "parked", "drain", "post"} => total' = 0 /\ gsPack'.read = 0
        /\ vu' \notin {"copy", "realign"} /\ ~Waiting' => want' = 0
        /\ vu' \in {"run", "push"} => curOffset' = curSize'
        /\ vu' = "copy" => want' > 0 /\ curSize' + want' <= BuffSize
        /\ vu' = "realign" => want' = 0 \/ curSize' + want' > BuffSize
        /\ (vu' = "realign" \/ Waiting') /\ want' = 0
             => curOffset' > BuffLimit /\ curSize' > curOffset'
    BY <1>2, <1>3, <1>4, <1>5, <2>2, Sizes DEF Shape, Waiting
  <2> QED
    BY <2>1, <2>3 DEF Shape, EndOf, Waiting
<1>7. vu # "push" /\ vu' # "push"
  BY <1>3, <1>5 DEF Waiting
<1> QED
  BY <1>1, <1>6, <1>7, LayoutStays

\* A kick begins.
LEMMA LayoutOfKick ==
  ASSUME Layout, NEW n \in 1..MaxProgram, XGKick(n)
  PROVE  Layout'
<1>1. /\ UNCHANGED <<gsPack, queue, curOffset, curSize, buffer, readAmount, gs>>
      /\ vu \in {"run", "part"} /\ want' = n /\ total' = total + n
      /\ total + n <= MaxProgram
      /\ vu' = IF curSize + n > BuffSize THEN "realign" ELSE "copy"
  BY DEF XGKick, packVars, sharedVars, gsVars
<1>2. Shape /\ want = 0
  BY <1>1 DEF Layout, Shape, Waiting
<1>3. /\ n \in Nat /\ n > 0 /\ n <= MaxProgram /\ total \in Nat
      /\ gsPack.offset \in Nat /\ curSize = gsPack.offset + total - want
  BY SMTT(60), <1>2, ShapeFacts, Sizes
<1>4. total' \in 0..MaxProgram /\ want' \in 0..MaxProgram
  BY <1>1, <1>3, Sizes
<1>5. curSize = gsPack.offset + total' - want'
  <2> DEFINE o == gsPack.offset
  <2>1. curSize = o + total - 0 /\ o \in Nat
    BY <1>2, <1>3
  <2> HIDE DEF o
  <2>2. curSize = o + (total + n) - n
    BY <1>3, <2>1
  <2> QED
    BY <1>1, <2>2 DEF o
<1>6. Shape'
  <2>1. curSize \in Nat /\ BuffSize \in Nat
    BY <1>2, ShapeFacts, Sizes
  <2>2. /\ vu' = "copy" => want' > 0 /\ curSize' + want' <= BuffSize
        /\ vu' = "realign" => curSize' + want' > BuffSize
        /\ vu' \in {"copy", "realign"} /\ want' > 0
    BY <1>1, <1>3, <2>1
  <2> QED
    BY <1>1, <1>2, <1>4, <1>5, <2>2 DEF Shape, EndOf, Waiting
<1> QED
  BY <1>1, <1>6, LayoutStays DEF layoutVars

\* The amount to read, before the packet is in the queue.
LEMMA LayoutOfAmount ==
  ASSUME Layout, gs = "pop" => queue # <<>>, AddReadAmount
  PROVE  Layout'
<1>1. /\ UNCHANGED <<gsPack, queue, curOffset, curSize, buffer, total, want, gs>>
      /\ vu = "run" /\ vu' = "push"
      /\ readAmount' = readAmount + gsPack.size + gsPack.read
  BY DEF AddReadAmount, packVars, gsVars
<1>2. Shape /\ Shape'
  BY <1>1 DEF Layout, Shape, EndOf, Waiting
<1>3. PICK T : Stream(T)
  BY DEF Layout
<1>4. Last' = Last /\ Reader(T)' = Reader(T) /\ OwnBase(T)' = OwnBase(T)
  BY <1>1 DEF Last, Reader, OwnBase
<1>5. \A k : Behind(T, k)' <=> Behind(T, k)
  BY <1>1, <1>4 DEF Behind, Base, EndOf
<1>6. readAmount' = T[Last]' - Reader(T)'
                      + (IF vu' = "push" THEN gsPack'.size + gsPack'.read ELSE 0)
  <2> DEFINE x == T[Last] - Reader(T)
             s == gsPack.size
             d == gsPack.read
  <2>1. readAmount = x + 0
    BY <1>1, <1>3 DEF Stream
  <2>2. s \in Nat /\ d \in Nat /\ readAmount' = readAmount + s + d
    BY <1>1, <1>2, ShapeFacts
  <2>3. x \in Int
    BY <1>2, <1>3, ReaderFacts
  <2> HIDE DEF x, s, d
  <2>4. readAmount' = x + (s + d)
    BY <2>1, <2>2, <2>3
  <2> QED
    BY <1>1, <1>4, <2>4 DEF x, s, d
<1>7. Stream(T)'
  BY <1>1, <1>3, <1>4, <1>5, <1>6 DEF Stream
<1>8. Data'
  BY <1>1, <1>4 DEF Layout, Data, Holds, Extent
<1> QED
  BY <1>2, <1>7, <1>8 DEF Layout

\* The packet goes to the queue and the next one begins behind it.
LEMMA LayoutOfPush ==
  ASSUME Layout, gs = "pop" => queue # <<>>, PushPacket
  PROVE  Layout'
<1>1. /\ UNCHANGED <<curOffset, curSize, buffer, readAmount, want, gs>>
      /\ queue' = Append(queue, gsPack) /\ gsPack' = Pack(curOffset) /\ total' = 0
      /\ vu = "push" /\ vu' = "post"
  BY DEF PushPacket, gsVars
<1>2. Shape /\ want = 0 /\ curSize = curOffset
  BY <1>1 DEF Layout, Shape, Waiting
<1> DEFINE n == Len(queue)
<1>3. n \in Nat /\ Last = n + 1 /\ queue \in Seq(Packs) /\ gsPack \in Packs
  BY <1>2, ShapeFacts DEF Shape, Last
<1>4. /\ queue' \in Seq(Packs) /\ Len(queue') = n + 1 /\ Last' = n + 2
      /\ \A k \in 1..n : queue'[k] = queue[k]
      /\ queue'[n + 1] = gsPack
  BY <1>1, <1>3 DEF Last
<1>5. curOffset \in Nat /\ curOffset <= BuffSize /\ curOffset = EndOf(gsPack)
  BY <1>2, ShapeFacts DEF Shape
<1>6. /\ gsPack' \in Packs /\ gsPack'.offset = curOffset /\ gsPack'.size = 0
      /\ gsPack'.read = 0 /\ EndOf(gsPack') = curOffset
  <2>1. gsPack' = [offset |-> curOffset, size |-> 0, read |-> 0]
    BY <1>1 DEF Pack
  <2>2. curOffset \in Cells \cup {BuffSize} /\ 0 \in 0..MaxProgram /\ 0 \in 0..BuffLimit
    BY <1>5, Sizes DEF Cells
  <2> QED
    BY <1>5, <2>1, <2>2 DEF Packs, EndOf
<1>7. Shape'
  <2>1. \A k \in 1..Len(queue') : EndOf(queue'[k]) <= BuffSize
    <3> SUFFICES ASSUME NEW k \in 1..(n + 1) PROVE EndOf(queue'[k]) <= BuffSize
      BY <1>4
    <3>1. CASE k \in 1..n
      BY <1>2, <1>4, <3>1 DEF Shape
    <3>2. CASE k = n + 1
      BY <1>4, <1>5, <3>2
    <3> QED
      BY <1>3, <3>1, <3>2
  <2>2. total' \in 0..MaxProgram /\ want' \in 0..MaxProgram /\ want' = 0
    BY <1>1, <1>2, Sizes
  <2>3. /\ curOffset' = EndOf(gsPack') /\ curSize' = gsPack'.offset + total' - want'
        /\ curOffset' <= curSize' /\ curSize' <= BuffSize /\ curOffset' = curSize'
    BY <1>1, <1>2, <1>5, <1>6, Sizes
  <2> QED
    BY <1>1, <1>4, <1>6, <2>1, <2>2, <2>3 DEF Shape, EndOf, Waiting
<1>8. PICK T : Stream(T)
  BY DEF Layout
<1>9. /\ gsPack.offset \in Nat /\ gsPack.size \in Nat /\ gsPack.read \in Nat
      /\ \A k \in 1..(n + 1) : T[k] \in Int
      /\ Reader(T) \in Int
  BY <1>2, <1>3, <1>8, ShapeFacts, ReaderFacts DEF Stream
<1>10. PICK U :
         /\ U \in [1..(n + 2) -> Int]
         /\ \A k \in 1..(n + 1) : U[k] = T[k] /\ k \in 1..(n + 2)
         /\ n + 2 \in 1..(n + 2) /\ U[n + 2] = T[n + 1] + gsPack.size + gsPack.read
         /\ \A k \in 1..(n + 2) : k \in 1..(n + 1) \/ k = n + 2
  <2> DEFINE U == [k \in 1..(n + 2) |->
                    IF k <= n + 1 THEN T[k] ELSE T[n + 1] + gsPack.size + gsPack.read]
  <2>1. \A k \in 1..(n + 2) : k \in 1..(n + 1) \/ k = n + 2
    BY <1>3
  <2>2. \A k \in 1..(n + 1) : k <= n + 1 /\ k \in 1..(n + 2)
    BY <1>3
  <2>3. n + 2 \in 1..(n + 2) /\ ~(n + 2 <= n + 1)
    BY <1>3
  <2>4. \A k \in 1..(n + 2) :
          (IF k <= n + 1 THEN T[k] ELSE T[n + 1] + gsPack.size + gsPack.read) \in Int
    <3>1. n + 1 \in 1..(n + 1) /\ T[n + 1] + gsPack.size + gsPack.read \in Int
      BY <1>3, <1>9
    <3> QED
      BY <1>9, <2>1, <2>2, <2>3, <3>1
  <2>5. /\ U \in [1..(n + 2) -> Int] /\ \A k \in 1..(n + 1) : U[k] = T[k]
        /\ U[n + 2] = T[n + 1] + gsPack.size + gsPack.read
    BY <2>2, <2>3, <2>4
  <2> HIDE DEF U
  <2> QED
    BY <2>1, <2>2, <2>3, <2>5
<1> HIDE DEF n
<1>11. Reader(U)' = Reader(T)
  <2>1. gs = "pop" => 2 \in 1..(n + 1)
    BY <1>2, <1>3, ShapeFacts DEF n, Shape
  <2>2. 1 \in 1..(n + 1)
    BY <1>3 DEF n
  <2> QED
    BY <1>1, <1>10, <2>1, <2>2 DEF Reader
<1>12. readAmount' = U[Last'] - Reader(U)'
                       + (IF vu' = "push" THEN gsPack'.size + gsPack'.read ELSE 0)
  <2> DEFINE t == T[n + 1]
             r == Reader(T)
             s == gsPack.size
             d == gsPack.read
  <2>1. readAmount = t - r + (s + d)
    BY <1>1, <1>3, <1>8 DEF Stream, n
  <2>2. U[Last'] = t + s + d
    BY <1>4, <1>10 DEF n
  <2>3. t \in Int /\ r \in Int /\ s \in Nat /\ d \in Nat
    BY <1>3, <1>9 DEF n
  <2> HIDE DEF t, r, s, d
  <2>4. readAmount = (t + s + d) - r + 0
    BY <2>1, <2>3
  <2> QED
    BY <1>1, <1>11, <2>2, <2>4 DEF r
<1>13. OwnBase(U)' = OwnBase(T) /\ OwnBase(T) \in Int
  <2> DEFINE t == T[n + 1]
             o == gsPack.offset
             s == gsPack.size
             d == gsPack.read
  <2>1. OwnBase(T) = t + d - o
    BY <1>3 DEF OwnBase, n
  <2>2. OwnBase(U)' = (t + s + d) + 0 - curOffset
    BY <1>4, <1>6, <1>10 DEF OwnBase, n
  <2>3. curOffset = o + s
    BY <1>5 DEF EndOf
  <2>4. t \in Int /\ o \in Nat /\ s \in Nat /\ d \in Nat
    BY <1>3, <1>9 DEF n
  <2> HIDE DEF t, o, s, d
  <2> QED
    BY <2>1, <2>2, <2>3, <2>4
<1>14. ASSUME NEW k \in 1..Len(queue') PROVE Behind(U, k)'
  <2>1. CASE k \in 1..n
    <3>1. Behind(T, k)
      BY <1>8, <2>1 DEF Stream, n
    <3>2. Base(U, k)' = Base(T, k) /\ queue'[k] = queue[k]
      <4>1. U[k] = T[k] /\ queue'[k] = queue[k]
        BY <1>3, <1>4, <1>10, <2>1 DEF n
      <4> QED
        BY <4>1 DEF Base
    <3>3. EndOf(queue[k]) \in Nat /\ gsPack.offset <= curOffset
      BY SMTT(60), <1>2, <1>5, <1>9, <2>1, ShapeFacts DEF EndOf, n
    <3>4. EndOf(queue[k]) <= gsPack.offset => EndOf(queue[k]) <= curOffset
      BY <1>5, <1>9, <3>3
    <3> QED
      BY <1>6, <1>13, <3>1, <3>2, <3>4 DEF Behind, EndOf
  <2>2. CASE k = n + 1
    <3>1. queue'[k] = gsPack /\ U[k] = T[n + 1]
      BY <1>3, <1>4, <1>10, <2>2 DEF n
    <3>2. Base(U, k)' = OwnBase(T)
      BY <1>3, <3>1 DEF Base, OwnBase, n
    <3>3. EndOf(queue'[k]) = curOffset
      BY <1>5, <3>1
    <3> QED
      BY <1>5, <1>6, <1>13, <3>2, <3>3 DEF Behind, EndOf
  <2> QED
    BY <1>3, <1>4, <2>1, <2>2 DEF n
<1>15. \A k \in 1..Len(queue') : U[k + 1] = U[k] + queue'[k].size + queue'[k].read
  <2> SUFFICES ASSUME NEW k \in 1..(n + 1)
               PROVE  U[k + 1] = U[k] + queue'[k].size + queue'[k].read
    BY <1>4 DEF n
  <2>1. CASE k \in 1..n
    <3>1. k + 1 \in 1..(n + 1) /\ k \in 1..(n + 1)
      BY <1>3, <2>1 DEF n
    <3>2. U[k + 1] = T[k + 1] /\ U[k] = T[k] /\ queue'[k] = queue[k]
      BY <1>4, <1>10, <2>1, <3>1 DEF n
    <3> QED
      BY <1>8, <2>1, <3>2 DEF Stream, n
  <2>2. CASE k = n + 1
    <3>1. k \in 1..(n + 1) /\ k + 1 = n + 2
      BY <1>3, <2>2 DEF n
    <3> QED
      BY <1>4, <1>10, <2>2, <3>1 DEF n
  <2> QED
    BY <1>3, <2>1, <2>2 DEF n
<1>16. \A k \in 1..(n + 2), l \in 1..(n + 2) : k <= l => U[k] <= U[l]
  <2> SUFFICES ASSUME NEW k \in 1..(n + 2), NEW l \in 1..(n + 2), k <= l
               PROVE  U[k] <= U[l]
    OBVIOUS
  <2>1. \A i \in 1..(n + 1), j \in 1..(n + 1) : i <= j => T[i] <= T[j]
    BY <1>3, <1>8 DEF Stream, n
  <2>2. CASE l \in 1..(n + 1)
    <3>1. k \in 1..(n + 1)
      BY <1>3, <2>2 DEF n
    <3> QED
      BY <1>10, <2>1, <2>2, <3>1
  <2>3. CASE l = n + 2 /\ k \in 1..(n + 1)
    <3> DEFINE a == T[k]
               t == T[n + 1]
               s == gsPack.size
               d == gsPack.read
    <3>1. n + 1 \in 1..(n + 1) /\ k <= n + 1
      BY <1>3, <2>3 DEF n
    <3>2. a <= t /\ a \in Int /\ t \in Int /\ s \in Nat /\ d \in Nat
      BY <1>9, <2>1, <2>3, <3>1 DEF n
    <3>3. U[l] = t + s + d /\ U[k] = a
      BY <1>10, <2>3
    <3> HIDE DEF a, t, s, d
    <3> QED
      BY <3>2, <3>3
  <2>4. CASE k = n + 2 /\ l = n + 2
    <3>1. U[k] \in Int
      BY <1>10
    <3> QED
      BY <2>4, <3>1
  <2> QED
    BY <1>10, <2>2, <2>3, <2>4
<1>17. Stream(U)'
  BY <1>4, <1>10, <1>12, <1>14, <1>15, <1>16 DEF Stream
<1>18. Data'
  <2>2. \A k \in 1..Len(queue') : (k = 1 /\ gs' = "pop") \/ \A i \in Extent(queue'[k]) : buffer'[i] = k
    <3> SUFFICES ASSUME NEW k \in 1..(n + 1), ~(k = 1 /\ gs = "pop"),
                        NEW i \in Extent(queue'[k])
                 PROVE  buffer[i] = k
      BY <1>1, <1>4 DEF n
    <3>1. CASE k \in 1..n
      BY <1>4, <3>1 DEF Layout, Data, Holds, n
    <3>2. CASE k = n + 1
      <4>1. queue'[k] = gsPack /\ k = Last
        BY <1>3, <1>4, <3>2 DEF n
      <4>2. i \in gsPack.offset..(curSize - 1)
        BY <1>2, <1>5, <4>1, <1>3, PackFacts
      <4> QED
        BY <4>1, <4>2 DEF Layout, Data
    <3> QED
      BY <1>3, <3>1, <3>2 DEF n
  <2>3. gsPack'.offset..(curSize' - 1) = {}
    BY <1>1, <1>2, <1>5, <1>6
  <2> QED
    BY <1>1, <2>2, <2>3 DEF Layout, Data, Holds, Extent
<1> QED
  BY <1>7, <1>17, <1>18 DEF Layout

\* The GS thread has read a packet.
LEMMA LayoutOfTransfer ==
  ASSUME Layout, Transfer
  PROVE  Layout'
<1>1. /\ UNCHANGED <<gsPack, queue, curOffset, curSize, total, want, vu>>
      /\ gs = "transfer" /\ gs' = "pop" /\ queue # <<>>
      /\ buffer' = [i \in Cells |-> IF buffer[i] = 1 THEN Junk ELSE buffer[i]]
      /\ readAmount' = readAmount - Head(queue).size - Head(queue).read
  BY DEF Transfer, vuVars
<1>2. Shape /\ Shape'
  BY <1>1 DEF Layout, Shape, EndOf, Waiting
<1>3. PICK T : Stream(T)
  BY DEF Layout
<1>4. Last' = Last /\ OwnBase(T)' = OwnBase(T)
  BY <1>1 DEF Last, OwnBase
<1>5. \A k : Behind(T, k)' <=> Behind(T, k)
  BY <1>1, <1>4 DEF Behind, Base, EndOf
<1>6. /\ 1 \in 1..Len(queue) /\ Head(queue) = queue[1] /\ 2 \in 1..Last
      /\ Last \in 1..Last /\ 1 \in 1..Last
      /\ queue[1].size \in Nat /\ queue[1].read \in Nat
  <2>1. Len(queue) \in Nat /\ Len(queue) >= 1 /\ Head(queue) = queue[1]
    BY <1>1, <1>2 DEF Shape
  <2>2. 1 \in 1..Len(queue) /\ 2 \in 1..Last /\ Last \in 1..Last /\ 1 \in 1..Last
    BY <2>1 DEF Last
  <2> QED
    BY <1>2, <2>1, <2>2, ShapeFacts
<1>7. readAmount' = T[Last]' - Reader(T)'
                      + (IF vu' = "push" THEN gsPack'.size + gsPack'.read ELSE 0)
  <2> DEFINE t == T[Last]
             a == T[1]
             b == T[2]
             s == queue[1].size
             d == queue[1].read
             more == IF vu = "push" THEN gsPack.size + gsPack.read ELSE 0
  <2>1. readAmount = t - a + more
    BY <1>1, <1>3 DEF Stream, Reader
  <2>2. b = a + s + d
    BY <1>3, <1>6 DEF Stream
  <2>3. /\ t \in Int /\ a \in Int /\ b \in Int /\ s \in Nat /\ d \in Nat
        /\ more \in Int
    <3>1. \A k \in 1..Last : T[k] \in Int
      BY <1>3 DEF Stream
    <3>2. gsPack.size \in Nat /\ gsPack.read \in Nat
      BY <1>2, ShapeFacts
    <3> QED
      BY <1>6, <3>1, <3>2
  <2>4. readAmount' = readAmount - s - d
    BY <1>1, <1>6
  <2>5. Reader(T)' = b /\ T[Last]' = t
    BY <1>1, <1>4 DEF Reader
  <2>6. more = IF vu' = "push" THEN gsPack'.size + gsPack'.read ELSE 0
    BY <1>1
  <2> HIDE DEF t, a, b, s, d, more
  <2>7. readAmount' = t - b + more
    BY <2>1, <2>2, <2>3, <2>4
  <2> QED
    BY <2>5, <2>6, <2>7
<1>8. Stream(T)'
  BY <1>1, <1>3, <1>4, <1>5, <1>7 DEF Stream
<1>9. Data'
  <2>1. buffer \in [Cells -> 0..MaxPrograms] /\ 0 \in 0..MaxPrograms
    BY Sizes DEF Layout, Data
  <2>2. buffer' \in [Cells -> 0..MaxPrograms]
    BY <1>1, <2>1 DEF Junk
  <2>3. ASSUME NEW i \in Cells, buffer[i] # 1 PROVE buffer'[i] = buffer[i]
    BY <1>1, <2>3
  <2>4. ASSUME NEW k \in 1..Len(queue), k # 1, NEW i \in Extent(queue[k])
        PROVE  buffer'[i] = k
    <3>1. buffer[i] = k
      BY <1>1, <2>4 DEF Layout, Data, Holds
    <3>2. i \in Cells
      BY <1>2, <2>4, InBuffer
    <3> QED
      BY <2>3, <2>4, <3>1, <3>2
  <2>5. ASSUME NEW i \in gsPack.offset..(curSize - 1) PROVE buffer'[i] = Last
    <3>1. buffer[i] = Last /\ Last # 1
      BY <1>6 DEF Layout, Data
    <3>2. i \in Cells
      BY <1>2, InBuffer
    <3> QED
      BY <2>3, <3>1, <3>2
  <2> QED
    BY <1>1, <1>4, <2>2, <2>4, <2>5 DEF Data, Holds, Extent
<1> QED
  BY <1>2, <1>8, <1>9 DEF Layout

\* It takes the packet out of the queue: the others are one number nearer.
LEMMA LayoutOfPop ==
  ASSUME Layout, queue # <<>>, PopGSPacketMTVU
  PROVE  Layout'
<1>1. /\ UNCHANGED <<gsPack, curOffset, curSize, readAmount, total, want, vu>>
      /\ gs = "pop" /\ gs' = "advance" /\ queue' = Tail(queue)
      /\ buffer' = [i \in Cells |->
                      IF buffer[i] = Junk THEN Junk ELSE buffer[i] - 1]
  BY DEF PopGSPacketMTVU, vuVars
<1> DEFINE n == Len(queue)
<1>2. Shape
  BY DEF Layout
<1>3. /\ n \in Nat /\ n >= 1 /\ Last = n + 1 /\ queue' \in Seq(Packs)
      /\ Len(queue') = n - 1 /\ Last' = n
      /\ \A k \in 1..(n - 1) : queue'[k] = queue[k + 1] /\ k + 1 \in 1..n
                               /\ k \in 1..n /\ k + 1 # 1
  BY <1>1, <1>2 DEF Shape, Last
<1> HIDE DEF n
<1>4. Shape'
  <2>1. \A k \in 1..Len(queue') : EndOf(queue'[k]) <= BuffSize
    BY <1>2, <1>3 DEF Shape, n
  <2> QED
    BY <1>1, <1>2, <1>3, <2>1 DEF Shape, EndOf, Waiting
<1>5. PICK T : Stream(T)
  BY DEF Layout
<1>6. \A k \in 1..(n + 1) : T[k] \in Int
  BY <1>3, <1>5 DEF Stream
<1>7. PICK U : /\ U \in [1..n -> Int] /\ \A k \in 1..n : U[k] = T[k + 1]
               /\ \A k \in 1..n : k + 1 \in 1..(n + 1)
  <2>1. \A k \in 1..n : k + 1 \in 1..(n + 1)
    BY <1>3
  <2> DEFINE V == [k \in 1..n |-> T[k + 1]]
  <2>2. V \in [1..n -> Int] /\ \A k \in 1..n : V[k] = T[k + 1]
    BY <1>6, <2>1
  <2> HIDE DEF V
  <2> QED
    BY <2>1, <2>2
<1>8. n \in 1..n /\ 1 \in 1..n /\ U[n] = T[n + 1] /\ U[1] = T[2]
  BY <1>3, <1>7
<1>9. Reader(U)' = Reader(T) /\ OwnBase(U)' = OwnBase(T)
  BY <1>1, <1>3, <1>8 DEF Reader, OwnBase
<1>10. readAmount' = U[Last'] - Reader(U)'
                       + (IF vu' = "push" THEN gsPack'.size + gsPack'.read ELSE 0)
  BY <1>1, <1>3, <1>5, <1>8, <1>9 DEF Stream
<1>11. ASSUME NEW k \in 1..(n - 1) PROVE Behind(U, k)'
  <2>1. Behind(T, k + 1) /\ queue'[k] = queue[k + 1] /\ U[k] = T[k + 1]
    BY <1>3, <1>5, <1>7 DEF Stream, n
  <2> QED
    BY <1>1, <1>9, <2>1 DEF Behind, Base, EndOf
<1>12. ASSUME NEW k \in 1..(n - 1)
       PROVE  U[k + 1] = U[k] + queue'[k].size + queue'[k].read
  <2>1. queue'[k] = queue[k + 1] /\ U[k] = T[k + 1] /\ U[k + 1] = T[(k + 1) + 1]
    BY <1>3, <1>7
  <2>2. T[(k + 1) + 1] = T[k + 1] + queue[k + 1].size + queue[k + 1].read
    BY <1>3, <1>5 DEF Stream, n
  <2> QED
    BY <2>1, <2>2
<1>13. \A k \in 1..n, l \in 1..n : k <= l => U[k] <= U[l]
  <2> SUFFICES ASSUME NEW k \in 1..n, NEW l \in 1..n, k <= l PROVE U[k] <= U[l]
    OBVIOUS
  <2>1. k + 1 \in 1..(n + 1) /\ l + 1 \in 1..(n + 1) /\ k + 1 <= l + 1
    BY <1>3
  <2>2. T[k + 1] <= T[l + 1]
    BY <1>3, <1>5, <2>1 DEF Stream
  <2> QED
    BY <1>7, <2>2
<1>14. Stream(U)'
  BY <1>3, <1>7, <1>10, <1>11, <1>12, <1>13 DEF Stream
<1>15. Data'
  <2>1. buffer \in [Cells -> 0..MaxPrograms] /\ 0 \in 0..MaxPrograms
        /\ MaxPrograms \in Nat
    BY Sizes DEF Layout, Data
  <2>2. buffer' \in [Cells -> 0..MaxPrograms]
    <3>1. \A i \in Cells : buffer[i] \in 0..MaxPrograms
      BY <2>1
    <3>2. \A i \in Cells :
            (IF buffer[i] = 0 THEN 0 ELSE buffer[i] - 1) \in 0..MaxPrograms
      BY <2>1, <3>1
    <3> QED
      BY <1>1, <3>2 DEF Junk
  <2>3. ASSUME NEW i \in Cells, NEW m \in Nat, buffer[i] = m + 1
        PROVE  buffer'[i] = m
    BY <1>1, <2>3 DEF Junk
  <2>4. ASSUME NEW k \in 1..(n - 1), NEW i \in Extent(queue'[k])
        PROVE  buffer'[i] = k
    <3>1. queue'[k] = queue[k + 1] /\ k + 1 \in 1..Len(queue) /\ k + 1 # 1
      BY <1>3 DEF n
    <3>2. buffer[i] = k + 1
      BY <2>4, <3>1 DEF Layout, Data, Holds
    <3>3. i \in Cells
      BY <1>2, <2>4, <3>1, InBuffer
    <3> QED
      BY <1>3, <2>3, <3>2, <3>3
  <2>5. ASSUME NEW i \in gsPack.offset..(curSize - 1) PROVE buffer'[i] = n
    <3>1. buffer[i] = n + 1
      BY <1>3 DEF Layout, Data
    <3>2. i \in Cells
      BY <1>2, InBuffer
    <3> QED
      BY <1>3, <2>3, <3>1, <3>2
  <2> QED
    BY <1>1, <1>3, <2>2, <2>4, <2>5 DEF Data, Holds, Extent
<1> QED
  BY <1>4, <1>14, <1>15 DEF Layout

\* A part of a kick is copied, where the GS thread does not read.
LEMMA LayoutOfCopy ==
  ASSUME Layout, gs = "pop" => queue # <<>>, Last <= MaxPrograms, Copy
  PROVE  Layout'
<1>1. /\ UNCHANGED <<queue, readAmount, total, gs>>
      /\ vu = "copy" /\ CanCopy
      /\ buffer' = [i \in Cells |->
                      IF i \in curSize..(curSize + want - 1)
                      THEN Len(queue) + 1 ELSE buffer[i]]
      /\ curSize' = curSize + want /\ want' = 0
      /\ \/ vu' = "part" /\ UNCHANGED <<curOffset, gsPack>>
         \/ curOffset > BuffLimit /\ vu' = "realign" /\ UNCHANGED <<curOffset, gsPack>>
         \/ /\ gsPack' = [gsPack EXCEPT !.size = @ + (curSize - curOffset) + want]
            /\ curOffset' = curSize' /\ vu' = "run"
  BY DEF Copy, Execute, sharedVars, gsVars
<1>2. Shape
  BY DEF Layout
<1>3. /\ want \in Nat /\ want > 0 /\ curSize + want <= BuffSize /\ curSize \in Nat
      /\ total \in Nat /\ curOffset \in Nat /\ curOffset <= curSize
      /\ Offset \in Nat /\ Offset = gsPack.offset /\ gsPack.size \in Nat
      /\ curSize = Offset + total - want /\ curOffset = Offset + gsPack.size
      /\ total <= MaxProgram /\ MaxProgram \in Nat /\ BuffLimit \in Nat
      /\ gsPack.read \in Nat
  BY <1>1, <1>2, ShapeFacts, Sizes DEF Shape
<1>4. curSize' = Offset + total /\ curSize' \in Nat /\ curOffset < curSize'
  <2>1. /\ Offset \in Nat /\ total \in Nat /\ want \in Nat /\ curSize \in Nat
        /\ curSize = Offset + total - want
    BY <1>3
  <2>2. curSize + want = Offset + total
    BY <2>1
  <2>3. curSize' = curSize + want
    BY <1>1
  <2>4. curOffset < curSize + want /\ curSize + want \in Nat
    BY SMTT(60), <1>3
  <2> QED
    BY <2>2, <2>3, <2>4
<1>5. /\ gsPack' \in Packs /\ gsPack'.offset = gsPack.offset
      /\ gsPack'.read = gsPack.read /\ curOffset' = EndOf(gsPack')
      /\ curOffset' <= curSize'
  <2>1. CASE UNCHANGED <<curOffset, gsPack>>
    <3>1. EndOf(gsPack)' = EndOf(gsPack)
      BY <2>1 DEF EndOf
    <3> QED
      BY SMTT(60), <1>2, <1>3, <1>4, <2>1 DEF Shape, EndOf
  <2>2. CASE /\ gsPack' = [gsPack EXCEPT !.size = @ + (curSize - curOffset) + want]
             /\ curOffset' = curSize'
    <3> DEFINE s == gsPack.size
    <3>1. /\ Offset \in Nat /\ s \in Nat /\ total \in Nat /\ want \in Nat
          /\ curSize = Offset + total - want /\ curOffset = Offset + s
      BY <1>3
    <3>2. s + (curSize - curOffset) + want = total
      <4> HIDE DEF s
      <4> QED
        BY <3>1
    <3>3. /\ gsPack' = [gsPack EXCEPT !.size = total] /\ gsPack \in Packs
          /\ total \in 0..MaxProgram
      BY <1>2, <2>2, <3>2 DEF Shape
    <3>4. /\ gsPack' \in Packs /\ gsPack'.offset = gsPack.offset
          /\ gsPack'.read = gsPack.read /\ gsPack'.size = total
      BY <3>3 DEF Packs
    <3> QED
      BY <1>3, <1>4, <2>2, <3>4 DEF EndOf
  <2> QED
    BY <1>1, <2>1, <2>2
<1>6. Shape'
  <2>1. total' \in 0..MaxProgram /\ want' \in 0..MaxProgram /\ want' = 0
    BY <1>1, <1>2, <1>3 DEF Shape
  <2>2. curSize' <= BuffSize /\ curSize' = gsPack'.offset + total' - want'
    <3>1. curSize' = gsPack'.offset + total' /\ gsPack'.offset \in Nat
      BY <1>1, <1>3, <1>4, <1>5
    <3> QED
      BY <1>1, <1>3, <2>1, <3>1
  <2>3. gsPack'.read > 0 => gsPack'.offset = 0
    BY <1>2, <1>5 DEF Shape
  <2>4. vu' \in {"part", "run", "realign"} /\ (vu' = "run" => curOffset' = curSize')
        /\ (vu' = "realign" => curOffset' > BuffLimit /\ curSize' > curOffset')
    BY <1>1, <1>3, <1>4
  <2>5. queue' \in Seq(Packs) /\ \A k \in 1..Len(queue') : EndOf(queue'[k]) <= BuffSize
    BY <1>1, <1>2 DEF Shape
  <2> QED
    BY <1>5, <2>1, <2>2, <2>3, <2>4, <2>5 DEF Shape, EndOf, Waiting
<1>7. PICK T : Stream(T)
  BY DEF Layout
<1>8. Stream(T)'
  <2>1. Last' = Last /\ Reader(T)' = Reader(T) /\ OwnBase(T)' = OwnBase(T)
    BY <1>1, <1>5 DEF Last, Reader, OwnBase
  <2>2. \A k : Behind(T, k)' <=> Behind(T, k)
    BY <1>1, <1>5, <2>1 DEF Behind, Base, EndOf
  <2>3. vu # "push" /\ vu' # "push"
    BY <1>1
  <2> QED
    BY <1>1, <1>7, <2>1, <2>2, <2>3 DEF Stream
<1>9. Data'
  <2>1. buffer \in [Cells -> 0..MaxPrograms] /\ Last \in 0..MaxPrograms
        /\ Last = Len(queue) + 1
    BY <1>2, ShapeFacts, Sizes DEF Layout, Data, Last
  <2>2. buffer' \in [Cells -> 0..MaxPrograms]
    BY <1>1, <2>1
  <2>3. ASSUME NEW k \in 1..Len(queue), ~(k = 1 /\ gs = "pop"),
               NEW i \in Extent(queue[k])
        PROVE  buffer'[i] = k
    <3> DEFINE o == queue[k].offset
               e == EndOf(queue[k])
               room == Offset - Unread
    <3>1. /\ o \in Nat /\ e \in Nat /\ queue[k].size \in Nat /\ e = o + queue[k].size
          /\ i \in o..(e - 1)
      BY <1>2, <2>3, ShapeFacts, PackFacts DEF EndOf
    <3>2. queue[k].size > 0
      BY <3>1
    <3>3. /\ room >= 0 => o >= room /\ e <= Offset
          /\ e <= Offset \/ o >= BuffLimit + room
      BY <1>1, <1>2, <1>7, <2>3, <3>2, NoneInTheWay
    <3>4. room >= 0 \/ BuffLimit + room > curSize + want
      BY <1>1 DEF CanCopy
    <3>5. room \in Int
      BY <1>1, <1>2, <1>7, RoomIs
    <3>6. Offset <= curSize
      BY SMTT(60), <1>3
    <3> HIDE DEF o, e, room
    <3> DEFINE here == Offset
    <3>7. /\ here \in Nat /\ curSize \in Nat /\ want \in Nat /\ BuffLimit \in Nat
          /\ here <= curSize
          /\ room >= 0 => e <= here
          /\ e <= here \/ o >= BuffLimit + room
      BY SMTT(60), <1>3, <3>3
    <3>8. e <= curSize \/ o > curSize + want
      <4> HIDE DEF here
      <4>1. CASE e <= here
        BY <3>1, <3>7, <4>1
      <4>2. CASE ~(e <= here)
        BY <3>1, <3>4, <3>5, <3>7, <4>2
      <4> QED
        BY <4>1, <4>2
    <3>9. i \in Int /\ o <= i /\ i < e
      BY <3>1
    <3>10. i \notin curSize..(curSize + want - 1)
      BY <3>1, <3>7, <3>8, <3>9
    <3>11. i \in Cells /\ buffer[i] = k
      BY <1>2, <2>3, InBuffer DEF Layout, Data, Holds
    <3> QED
      BY <1>1, <3>10, <3>11
  <2>4. ASSUME NEW i \in gsPack.offset..(curSize' - 1) PROVE buffer'[i] = Last
    <3> DEFINE o == gsPack.offset
    <3>1. /\ o \in Nat /\ curSize \in Nat /\ want \in Nat
          /\ curSize + want <= BuffSize /\ i \in o..(curSize + want - 1)
      BY <1>1, <1>3
    <3>2. /\ i \in Cells
          /\ i \in o..(curSize - 1) \/ i \in curSize..(curSize + want - 1)
      <4> HIDE DEF o
      <4> QED
        BY <3>1, Sizes DEF Cells
    <3>3. i \in o..(curSize - 1) => buffer[i] = Last
      BY DEF Layout, Data
    <3> QED
      BY <1>1, <2>1, <3>2, <3>3
  <2>5. Last' = Last
    BY <1>1 DEF Last
  <2> QED
    BY <1>1, <1>5, <2>2, <2>3, <2>4, <2>5 DEF Data, Holds, Extent
<1> QED
  BY <1>6, <1>8, <1>9 DEF Layout

\* A packet that has to wrap around is at least its own length behind the start.
LEMMA RealignFacts ==
  ASSUME Shape, vu = "realign"
  PROVE  /\ Offset \in Nat /\ Offset > MaxProgram /\ gsPack.read = 0
         /\ total - want \in Nat /\ total - want <= MaxProgram
         /\ curSize - Offset = total - want
         /\ CanRealign <=> Offset - Unread >= total - want
<1> DEFINE o == Offset
           size == gsPack.size
<1>1. /\ o \in Nat /\ size \in Nat /\ total \in Nat /\ want \in Nat
      /\ curSize \in Nat /\ curOffset \in Nat
      /\ curOffset = o + size /\ curSize = o + total - want
      /\ curOffset <= curSize /\ total <= MaxProgram
      /\ want = 0 \/ curSize + want > BuffSize
      /\ want = 0 => curOffset > BuffLimit /\ curSize > curOffset
  BY SMTT(60), ShapeFacts, Sizes DEF Shape
<1>2. gsPack.read \in Nat /\ o = gsPack.offset /\ (gsPack.read > 0 => gsPack.offset = 0)
  BY ShapeFacts DEF Shape
<1>3. /\ MaxProgram \in Nat \ {0} /\ BuffLimit \in Nat /\ BuffSize \in Nat
      /\ BuffLimit + MaxProgram <= BuffSize /\ 2 * MaxProgram <= BuffLimit + 1
  BY Sizes
<1> DEFINE canRealign == CanRealign
           room == Offset - Unread
<1>4. canRealign <=> room >= (curSize - o) - (IF curSize - o > o THEN (curSize - o) - o ELSE 0)
  BY DEF CanRealign
<1>5. Offset = o
  OBVIOUS
<1> HIDE DEF o, size, canRealign, room
<1>6. o > MaxProgram
  <2>1. CASE want = 0
    BY <1>1, <1>3, <2>1
  <2>2. CASE want # 0
    BY <1>1, <1>3, <2>2
  <2> QED
    BY <2>1, <2>2
<1>7. /\ total - want \in Nat /\ total - want <= MaxProgram
      /\ curSize - o = total - want
  BY <1>1, <1>3
<1>8. ~(curSize - o > o)
  BY <1>1, <1>3, <1>6, <1>7
<1>9. canRealign <=> room >= total - want
  <2>1. curSize - o \in Nat
    BY <1>7
  <2>2. canRealign <=> room >= (curSize - o) - 0
    BY <1>4, <1>8
  <2> QED
    BY <1>7, <2>1, <2>2
<1>10. gsPack.read = 0
  BY <1>1, <1>2, <1>3, <1>6
<1> QED
  BY <1>1, <1>5, <1>6, <1>7, <1>9, <1>10 DEF canRealign, room

\* The packet that is built goes to the front of the buffer.
LEMMA LayoutOfRealign ==
  ASSUME Layout, gs = "pop" => queue # <<>>, Realign
  PROVE  Layout'
<1> DEFINE toAdd == total - want
           left == IF Offset < BuffLimit THEN BuffLimit - Offset ELSE 0
           moved == [gsPack EXCEPT !.offset = 0, !.read = @ + left]
<1>1. /\ UNCHANGED <<queue, readAmount, total, want, gs>>
      /\ vu = "realign" /\ CanRealign
      /\ buffer' = [i \in Cells |->
                      IF i < curSize - Offset THEN buffer[Offset + i]
                      ELSE IF i \in Offset..(curSize - 1) THEN Junk ELSE buffer[i]]
      /\ curSize' = curSize - Offset
      /\ \/ want > 0 /\ curOffset' = gsPack.size /\ gsPack' = moved /\ vu' = "copy"
         \/ /\ ~(want > 0)
            /\ gsPack' = [moved EXCEPT !.size = @ + (curSize - curOffset) + 0]
            /\ curOffset' = curSize' /\ vu' = "run"
  BY DEF Realign, Execute, sharedVars, gsVars
<1>2. Shape
  BY DEF Layout
<1>3. /\ Offset \in Nat /\ Offset > MaxProgram /\ gsPack.read = 0
      /\ toAdd \in Nat /\ toAdd <= MaxProgram /\ curSize - Offset = toAdd
      /\ Offset - Unread >= toAdd
  BY <1>1, <1>2, RealignFacts
<1>4. /\ want \in Nat /\ total \in Nat /\ total <= MaxProgram
      /\ curSize \in Nat /\ curOffset \in Nat /\ curOffset <= curSize
      /\ gsPack.size \in Nat /\ curOffset = Offset + gsPack.size
      /\ Offset = gsPack.offset
      /\ MaxProgram \in Nat /\ BuffLimit \in Nat /\ BuffSize \in Nat
      /\ MaxProgram <= BuffSize /\ gsPack \in Packs
  BY <1>2, ShapeFacts, Sizes DEF Shape
<1>5. left \in 0..BuffLimit
  BY <1>3, <1>4
<1>6. curSize' = toAdd
  BY <1>1, <1>3
<1> DEFINE size == gsPack.size
<1>7. gsPack.size <= toAdd
  <2>1. /\ Offset \in Nat /\ size \in Nat /\ curSize \in Nat /\ toAdd \in Nat
        /\ curSize - Offset = toAdd /\ Offset + size <= curSize
    BY <1>3, <1>4
  <2> HIDE DEF size, toAdd
  <2>2. size <= toAdd
    BY <2>1
  <2> QED
    BY <2>2 DEF size
<1>8. /\ moved \in Packs /\ moved.offset = 0 /\ moved.read = left
      /\ moved.size = gsPack.size
  <2> HIDE DEF left
  <2>1. left \in Nat /\ 0 + left = left /\ 0 \in Cells
    BY <1>5, <1>4, Sizes DEF Cells
  <2> QED
    BY <1>3, <1>4, <1>5, <2>1 DEF Packs
<1>9. /\ gsPack' \in Packs /\ gsPack'.offset = 0 /\ gsPack'.read = left
      /\ curOffset' = EndOf(gsPack') /\ curOffset' <= curSize'
      /\ vu' = "run" => curOffset' = curSize' /\ want = 0
      /\ vu' = "copy" => want > 0
      /\ vu' \in {"run", "copy"}
  <2>1. CASE want > 0 /\ curOffset' = gsPack.size /\ gsPack' = moved /\ vu' = "copy"
    <3>1. EndOf(gsPack') = gsPack.size
      BY <1>4, <1>8, <2>1 DEF EndOf
    <3> QED
      BY <1>6, <1>7, <1>8, <2>1, <3>1
  <2>2. CASE /\ ~(want > 0)
             /\ gsPack' = [moved EXCEPT !.size = @ + (curSize - curOffset) + 0]
             /\ curOffset' = curSize' /\ vu' = "run"
    <3> HIDE DEF moved, left
    <3>1. size + (curSize - curOffset) + 0 = toAdd
      <4>1. /\ Offset \in Nat /\ size \in Nat /\ curSize \in Nat /\ curOffset \in Nat
            /\ curSize - Offset = toAdd /\ curOffset = Offset + size /\ toAdd \in Nat
        BY <1>3, <1>4
      <4> HIDE DEF size, toAdd
      <4> QED
        BY <4>1
    <3>2. gsPack' = [moved EXCEPT !.size = toAdd]
      BY <1>8, <2>2, <3>1
    <3>3. toAdd \in 0..MaxProgram
      BY <1>3, <1>4
    <3> HIDE DEF toAdd
    <3>4. /\ gsPack' \in Packs /\ gsPack'.offset = 0 /\ gsPack'.read = left
          /\ gsPack'.size = toAdd
      BY <1>8, <3>2, <3>3 DEF Packs
    <3>5. EndOf(gsPack') = toAdd
      BY <1>3, <3>4 DEF EndOf
    <3>6. want = 0
      BY <1>4, <2>2
    <3> QED
      BY <1>3, <1>6, <2>2, <3>4, <3>5, <3>6
  <2> QED
    BY <1>1, <2>1, <2>2
<1>10. Shape'
  <2>1. total' \in 0..MaxProgram /\ want' \in 0..MaxProgram /\ want' = want
        /\ total' = total
    BY <1>1, <1>2 DEF Shape
  <2>2. curSize' <= BuffSize /\ curSize' = gsPack'.offset + total' - want'
    <3>1. toAdd = 0 + total - want
      BY <1>4
    <3> QED
      BY <1>3, <1>4, <1>6, <1>9, <2>1, <3>1
  <2>3. curSize' + want' <= BuffSize
    <3>1. toAdd + want = total
      BY <1>4
    <3> QED
      BY <1>4, <1>6, <2>1, <3>1
  <2>4. queue' \in Seq(Packs) /\ \A k \in 1..Len(queue') : EndOf(queue'[k]) <= BuffSize
    BY <1>1, <1>2 DEF Shape
  <2> HIDE DEF left, moved, toAdd
  <2> QED
    BY <1>9, <2>1, <2>2, <2>3, <2>4 DEF Shape, EndOf, Waiting
<1>11. PICK T : Stream(T)
  BY DEF Layout
<1>12. OwnBase(T)' >= OwnBase(T) + Offset /\ OwnBase(T)' >= OwnBase(T) + BuffLimit
       /\ OwnBase(T) \in Int /\ OwnBase(T)' \in Int
  <2> DEFINE t == T[Last]
             own == OwnBase(T)
             ownNow == OwnBase(T)'
  <2>1. t \in Int
    BY <1>1, <1>2, <1>11, ReaderFacts
  <2>2. own = t + 0 - Offset
    BY <1>3, <1>4 DEF OwnBase
  <2>3. ownNow = t + left - 0
    BY <1>1, <1>9 DEF OwnBase, Last
  <2>4. left \in Nat /\ left >= BuffLimit - Offset
    BY <1>3, <1>4
  <2> DEFINE here == Offset
  <2>5. /\ here \in Nat /\ BuffLimit \in Nat /\ own = t + 0 - here
        /\ ownNow = t + left - 0 /\ left \in Nat /\ left >= BuffLimit - here
    BY <1>3, <1>4, <2>2, <2>3, <2>4
  <2> HIDE DEF t, own, ownNow, left, here
  <2>6. /\ ownNow >= own + here /\ ownNow >= own + BuffLimit
        /\ own \in Int /\ ownNow \in Int
    BY <2>1, <2>5
  <2> QED
    BY <2>6 DEF own, ownNow, here
<1>13. Stream(T)'
  <2>1. Last' = Last /\ Reader(T)' = Reader(T)
    BY <1>1 DEF Last, Reader
  <2>2. ASSUME NEW k \in 1..Len(queue) PROVE Behind(T, k)'
    <3> DEFINE b == Base(T, k)
               own == OwnBase(T)
               ownNow == OwnBase(T)'
               e == EndOf(queue[k])
               here == Offset
    <3>1. \/ b = own /\ e <= here
          \/ b + BuffLimit <= own /\ b + e <= own
      BY <1>4, <1>11 DEF Stream, Behind
    <3>2. b \in Int /\ e \in Nat
      <4>1. T[k] \in Int
        BY <1>1, <1>2, <1>11, ReaderFacts
      <4>2. queue[k].read \in Nat /\ queue[k].offset \in Nat /\ e \in Nat
        BY <1>2, ShapeFacts
      <4> QED
        BY <4>1, <4>2 DEF Base
    <3>3. /\ ownNow >= own + here /\ ownNow >= own + BuffLimit /\ here \in Nat
          /\ own \in Int /\ ownNow \in Int /\ BuffLimit \in Nat
      BY <1>3, <1>4, <1>12
    <3>4. Base(T, k)' = b /\ EndOf(queue[k])' = e
      BY <1>1 DEF Base, EndOf
    <3>5. b + BuffLimit <= ownNow /\ b + e <= ownNow
      <4> HIDE DEF b, own, ownNow, e, here
      <4> QED
        BY <3>1, <3>2, <3>3
    <3> QED
      BY <3>4, <3>5 DEF Behind
  <2>3. vu # "push" /\ vu' # "push"
    BY <1>1
  <2>4. \A k \in 1..Len(queue') : Behind(T, k)'
    BY <1>1, <2>2
  <2>5. /\ T \in [1..Last -> Int]
        /\ \A k \in 1..Len(queue) : T[k + 1] = T[k] + queue[k].size + queue[k].read
        /\ \A k \in 1..Last, l \in 1..Last : k <= l => T[k] <= T[l]
        /\ readAmount = T[Last] - Reader(T) + 0
    BY <1>11, <2>3 DEF Stream
  <2> QED
    BY <1>1, <2>1, <2>3, <2>4, <2>5 DEF Stream
<1>14. Data'
  <2>1. buffer \in [Cells -> 0..MaxPrograms] /\ Junk \in 0..MaxPrograms
    BY <1>2, Sizes DEF Layout, Data, Junk
  <2>2. ASSUME NEW i \in Cells, i < toAdd PROVE Offset + i \in Offset..(curSize - 1)
                                             /\ Offset + i \in Cells
    <3>1. i \in Nat /\ curSize <= BuffSize
      BY <1>2 DEF Cells, Shape
    <3>2. curSize = Offset + toAdd
      <4> DEFINE c == curSize
                 o == Offset
      <4>1. c \in Nat /\ o \in Nat /\ toAdd \in Nat /\ c - o = toAdd
        BY <1>3, <1>4
      <4> HIDE DEF c, o, toAdd
      <4>2. c = o + toAdd
        BY <4>1
      <4> QED
        BY <4>2 DEF c, o
    <3> DEFINE o == Offset
    <3>3. o \in Nat /\ toAdd \in Nat /\ curSize = o + toAdd
      BY <1>3, <3>2
    <3> HIDE DEF o, toAdd
    <3>4. o + i \in o..(curSize - 1) /\ o + i \in Cells
      BY <1>4, <2>2, <3>1, <3>3, Sizes DEF Cells
    <3> QED
      BY <3>4 DEF o
  <2>3. buffer' \in [Cells -> 0..MaxPrograms]
    BY <1>1, <1>3, <2>1, <2>2
  <2>4. ASSUME NEW k \in 1..Len(queue), ~(k = 1 /\ gs = "pop"),
               NEW i \in Extent(queue[k])
        PROVE  buffer'[i] = k
    <3> DEFINE o == queue[k].offset
               e == EndOf(queue[k])
               room == Offset - Unread
               here == Offset
    <3>1. /\ o \in Nat /\ e \in Nat /\ queue[k].size \in Nat /\ e = o + queue[k].size
          /\ i \in o..(e - 1)
      BY <1>2, <2>4, ShapeFacts, PackFacts DEF EndOf
    <3>2. queue[k].size > 0
      BY <3>1
    <3>3. room >= 0 => o >= room /\ e <= here
      BY <1>1, <1>2, <1>11, <2>4, <3>2, NoneInTheWay
    <3>4. room >= toAdd /\ room \in Int
      BY <1>1, <1>2, <1>3, <1>11, RoomIs
    <3>5. here \in Nat /\ toAdd \in Nat
      BY <1>3
    <3>6. ~(i < toAdd) /\ i \notin here..(curSize - 1)
      <4> HIDE DEF o, e, room, here, toAdd
      <4> QED
        BY SMTT(60), <1>4, <3>1, <3>3, <3>4, <3>5
    <3>7. i \in Cells /\ buffer[i] = k
      BY <1>2, <2>4, InBuffer DEF Layout, Data, Holds
    <3> QED
      BY <1>1, <1>3, <3>6, <3>7
  <2>5. ASSUME NEW i \in 0..(toAdd - 1) PROVE buffer'[i] = Last
    <3>1. i \in Cells /\ i < toAdd
      BY <1>3, <1>4, <2>5 DEF Cells
    <3>2. Offset + i \in Offset..(curSize - 1)
      BY <2>2, <3>1
    <3>3. buffer[Offset + i] = Last
      BY <1>4, <3>2 DEF Layout, Data
    <3> QED
      BY <1>1, <1>3, <3>1, <3>3
  <2>6. Last' = Last
    BY <1>1 DEF Last
  <2> QED
    BY <1>1, <1>6, <1>9, <2>3, <2>4, <2>5, <2>6 DEF Data, Holds, Extent
<1> QED
  BY <1>10, <1>13, <1>14 DEF Layout

-----------------------------------------------------------------------------
(* The numbers, and where the model ends.                                  *)

Programs == programs + Len(queue) <= MaxPrograms + One(vu = "post")
Announcing ==
  fakePackets >= 0 /\ (ee \in {"send", "stall"} /\ cmd = "path1" => fakePackets > 0)
Switches == hold \in BOOLEAN /\ lost \in BOOLEAN
Numbers ==
  /\ Programs /\ Announcing /\ Switches
  /\ start \in 0..MaxPrograms /\ Len(fifo) <= RingMax

\* A reset that loses a packet leaves nothing to do: the two threads may look once
\* more for work.
NothingLeft ==
  /\ ee = "end" /\ programs = 0 /\ fakePackets = 0 /\ fifo = <<>> /\ queue = <<>>
  /\ xgkick \in Nat
  /\ vu \in {"look", "parked", "drain"}
  /\ gs \notin {"wait", "relock", "transfer", "pop", "advance"}
  /\ {vuEvent, gsEvent} \subseteq {"parked", "running0", "runningN"}
  /\ vuFlag = FALSE /\ gsFlag = FALSE /\ vuToken = 0 /\ gsToken = 0
End == lost => NothingLeft

\* A packet that is built has room in the bound.
LEMMA RoomForOne ==
  ASSUME Core, Numbers, Busy, vu # "post"
  PROVE  Last <= MaxPrograms /\ Len(queue) \in 0..MaxPrograms
<1>1. programs \in Nat /\ programs > 0 /\ Len(queue) \in Nat
  BY QueueFacts DEF Core, Typed, ProgramsDrained
<1>2. programs + Len(queue) <= MaxPrograms
  BY Sizes DEF Numbers, Programs, One
<1> QED
  BY <1>1, <1>2, Sizes DEF Last

LEMMA NextProgramsBound ==
  ASSUME Core, Numbers, [Next]_vars
  PROVE  Programs'
<1> USE DEF Programs, One, vars, vuEventVars, gsEventVars, eeVars, vuVars,
         packVars, sharedVars, gsVars, GoTo, Execute
<1>0. /\ Programs /\ programs \in Nat /\ Len(queue) \in Nat /\ MaxPrograms \in Nat
      /\ \A p : Len(Append(queue, p)) = Len(queue) + 1
  BY QueueFacts, Sizes DEF Core, Typed, Numbers
<1>1. CASE ExecuteVU
  BY <1>0, <1>1 DEF ExecuteVU
<1>2. CASE SendOther
  BY <1>0, <1>2 DEF SendOther
<1>3. CASE Hold
  BY <1>0, <1>3 DEF Hold
<1>4. CASE Resume
  BY <1>0, <1>4 DEF Resume
<1>5. CASE WaitGS
  BY <1>0, <1>5 DEF WaitGS
<1>6. ASSUME NEW why \in {"run", "syncGS"}, WaitVU(why) PROVE Programs'
  BY <1>0, <1>6 DEF WaitVU
<1>7. CASE Send
  BY <1>0, <1>7 DEF Send
<1>8. CASE GenericStall
  BY <1>0, <1>8 DEF GenericStall
<1>9. CASE KickStart
  BY <1>0, <1>9 DEF KickStart
<1>10. CASE SetEvent
  BY <1>0, <1>10 DEF SetEvent
<1>11. CASE VUWake
  BY <1>0, <1>11 DEF VUWake
<1>12. CASE WaitForEmpty
  BY <1>0, <1>12 DEF WaitForEmpty
<1>13. CASE GSWake
  BY <1>0, <1>13 DEF GSWake
<1>14. CASE Reset
  <2>1. programs <= 0 /\ programs' = programs /\ queue' = <<>>
    BY <1>14 DEF Reset, Core, ProgramsDrained, Resetting
  <2> QED
    BY <1>0, <2>1
<1>15. CASE WaitForWork
  BY <1>0, <1>15 DEF WaitForWork
<1>16. CASE ReadTag
  BY <1>0, <1>16 DEF ReadTag
<1>17. ASSUME NEW n \in 1..MaxProgram, XGKick(n) PROVE Programs'
  BY <1>0, <1>17 DEF XGKick
<1>18. CASE Realign
  BY <1>0, <1>18 DEF Realign
<1>19. CASE Copy
  BY <1>0, <1>19 DEF Copy
<1>20. CASE WeakWait
  BY <1>0, <1>20 DEF WeakWait, MustWait
<1>21. CASE StartPacks
  BY <1>0, <1>21 DEF StartPacks, Back
<1>22. CASE LockUnlock
  BY <1>0, <1>22 DEF LockUnlock
<1>23. CASE PacketDone
  BY <1>0, <1>23 DEF PacketDone, Back
<1>24. CASE AddReadAmount
  BY <1>0, <1>24 DEF AddReadAmount
<1>25. CASE PushPacket
  BY <1>0, <1>25 DEF PushPacket
<1>26. CASE PostXGkick
  BY <1>0, <1>26 DEF PostXGkick
<1>27. CASE GSWaitForWork
  BY <1>0, <1>27 DEF GSWaitForWork
<1>28. CASE Lock
  BY <1>0, <1>28 DEF Lock
<1>29. CASE ReadCommand
  BY <1>0, <1>29 DEF ReadCommand
<1>30. CASE TryWait
  BY <1>0, <1>30 DEF TryWait, IsPath1
<1>31. CASE WaitXGkick
  BY <1>0, <1>31 DEF WaitXGkick
<1>32. CASE Transfer
  BY <1>0, <1>32 DEF Transfer
<1>33. CASE PopGSPacketMTVU
  <2>1. queue # <<>> /\ Len(queue') = Len(queue) - 1
    BY <1>0, <1>33, SomethingToPop, QueueFacts DEF PopGSPacketMTVU
  <2> QED
    BY <1>0, <1>33, <2>1 DEF PopGSPacketMTVU
<1>34. CASE AdvanceReadPos
  BY <1>0, <1>34 DEF AdvanceReadPos
<1>35. CASE UNCHANGED vars
  BY <1>0, <1>35 DEF vars
<1> QED
  BY <1>1, <1>2, <1>3, <1>4, <1>5, <1>6, <1>7, <1>8, <1>9, <1>10, <1>11, <1>12,
     <1>13, <1>14, <1>15, <1>16, <1>17, <1>18, <1>19, <1>20, <1>21, <1>22,
     <1>23, <1>24, <1>25, <1>26, <1>27, <1>28, <1>29, <1>30, <1>31, <1>32,
     <1>33, <1>34, <1>35
     DEF Next, EEStep, VUStep, GSStep

LEMMA NextAnnouncing ==
  ASSUME Core, Numbers, [Next]_vars
  PROVE  Announcing'
<1> USE DEF Announcing, Places, vars, vuEventVars, gsEventVars, eeVars, vuVars,
         packVars, sharedVars, gsVars, GoTo, Execute, Commands
<1>0. Announcing /\ Places /\ fakePackets \in Int
  BY DEF Core, Typed, Numbers
<1>1. CASE ExecuteVU
  BY <1>0, <1>1 DEF ExecuteVU
<1>2. CASE SendOther
  BY <1>0, <1>2 DEF SendOther
<1>3. CASE Hold
  BY <1>0, <1>3 DEF Hold
<1>4. CASE Resume
  BY <1>0, <1>4 DEF Resume
<1>5. CASE WaitGS
  BY <1>0, <1>5 DEF WaitGS
<1>6. ASSUME NEW why \in {"run", "syncGS"}, WaitVU(why) PROVE Announcing'
  BY <1>0, <1>6 DEF WaitVU
<1>7. CASE Send
  BY <1>0, <1>7 DEF Send
<1>8. CASE GenericStall
  BY <1>0, <1>8 DEF GenericStall
<1>9. CASE KickStart
  BY <1>0, <1>9 DEF KickStart
<1>10. CASE SetEvent
  BY <1>0, <1>10 DEF SetEvent
<1>11. CASE VUWake
  BY <1>0, <1>11 DEF VUWake
<1>12. CASE WaitForEmpty
  BY <1>0, <1>12 DEF WaitForEmpty
<1>13. CASE GSWake
  BY <1>0, <1>13 DEF GSWake
<1>14. CASE Reset
  BY <1>0, <1>14 DEF Reset
<1>15. CASE WaitForWork
  BY <1>0, <1>15 DEF WaitForWork
<1>16. CASE ReadTag
  BY <1>0, <1>16 DEF ReadTag
<1>17. ASSUME NEW n \in 1..MaxProgram, XGKick(n) PROVE Announcing'
  BY <1>0, <1>17 DEF XGKick
<1>18. CASE Realign
  BY <1>0, <1>18 DEF Realign
<1>19. CASE Copy
  BY <1>0, <1>19 DEF Copy
<1>20. CASE WeakWait
  BY <1>0, <1>20 DEF WeakWait, MustWait
<1>21. CASE StartPacks
  BY <1>0, <1>21 DEF StartPacks, Back
<1>22. CASE LockUnlock
  BY <1>0, <1>22 DEF LockUnlock
<1>23. CASE PacketDone
  BY <1>0, <1>23 DEF PacketDone, Back
<1>24. CASE AddReadAmount
  BY <1>0, <1>24 DEF AddReadAmount
<1>25. CASE PushPacket
  BY <1>0, <1>25 DEF PushPacket
<1>26. CASE PostXGkick
  BY <1>0, <1>26 DEF PostXGkick
<1>27. CASE GSWaitForWork
  BY <1>0, <1>27 DEF GSWaitForWork
<1>28. CASE Lock
  BY <1>0, <1>28 DEF Lock
<1>29. CASE ReadCommand
  BY <1>0, <1>29 DEF ReadCommand
<1>30. CASE TryWait
  BY <1>0, <1>30 DEF TryWait, IsPath1
<1>31. CASE WaitXGkick
  BY <1>0, <1>31 DEF WaitXGkick
<1>32. CASE Transfer
  BY <1>0, <1>32 DEF Transfer
<1>33. CASE PopGSPacketMTVU
  BY <1>0, <1>33 DEF PopGSPacketMTVU
<1>34. CASE AdvanceReadPos
  BY <1>0, <1>34 DEF AdvanceReadPos
<1>35. CASE UNCHANGED vars
  BY <1>0, <1>35 DEF vars
<1> QED
  BY <1>1, <1>2, <1>3, <1>4, <1>5, <1>6, <1>7, <1>8, <1>9, <1>10, <1>11, <1>12,
     <1>13, <1>14, <1>15, <1>16, <1>17, <1>18, <1>19, <1>20, <1>21, <1>22,
     <1>23, <1>24, <1>25, <1>26, <1>27, <1>28, <1>29, <1>30, <1>31, <1>32,
     <1>33, <1>34, <1>35
     DEF Next, EEStep, VUStep, GSStep

LEMMA NextRest ==
  ASSUME Core, Numbers, [Next]_vars
  PROVE  Switches' /\ start' \in 0..MaxPrograms /\ Len(fifo') <= RingMax
<1> DEFINE Rest == Switches /\ start \in 0..MaxPrograms /\ Len(fifo) <= RingMax
<1> SUFFICES Rest'
  BY DEF Switches
<1> USE DEF vars, vuEventVars, gsEventVars, eeVars, vuVars,
         packVars, sharedVars, gsVars, Execute
<1>0. /\ Rest /\ Len(fifo) \in Nat /\ fifo \in Seq(Commands) /\ RingMax \in Nat
      /\ Len(<<>>) = 0 /\ MaxPrograms \in Nat
      /\ \A c : Len(Append(fifo, c)) = Len(fifo) + 1
      /\ fifo # <<>> => Len(Tail(fifo)) = Len(fifo) - 1
  BY Sizes DEF Core, Typed, Numbers
<1> USE DEF Switches
<1>1. CASE ExecuteVU
  BY <1>0, <1>1 DEF ExecuteVU
<1>2. CASE SendOther
  BY <1>0, <1>2 DEF SendOther
<1>3. CASE Hold
  BY <1>0, <1>3 DEF Hold
<1>4. CASE Resume
  BY <1>0, <1>4 DEF Resume
<1>5. CASE WaitGS
  BY <1>0, <1>5 DEF WaitGS
<1>6. ASSUME NEW why \in {"run", "syncGS"}, WaitVU(why) PROVE Rest'
  BY <1>0, <1>6 DEF WaitVU
<1>7. CASE Send
  BY <1>0, <1>7 DEF Send
<1>8. CASE GenericStall
  BY <1>0, <1>8 DEF GenericStall
<1>9. CASE KickStart
  BY <1>0, <1>9 DEF KickStart
<1>10. CASE SetEvent
  BY <1>0, <1>10 DEF SetEvent
<1>11. CASE VUWake
  BY <1>0, <1>11 DEF VUWake
<1>12. CASE WaitForEmpty
  BY <1>0, <1>12 DEF WaitForEmpty
<1>13. CASE GSWake
  BY <1>0, <1>13 DEF GSWake
<1>14. CASE Reset
  <2>1. (xgkick > 0) \in BOOLEAN
    OBVIOUS
  <2>2. hold' \in BOOLEAN /\ lost' \in BOOLEAN
    BY Zenon, <1>14, <2>1 DEF Reset
  <2> QED
    BY <1>0, <1>14, <2>2 DEF Reset
<1>15. CASE WaitForWork
  BY <1>0, <1>15 DEF WaitForWork
<1>16. CASE ReadTag
  BY <1>0, <1>16 DEF ReadTag
<1>17. ASSUME NEW n \in 1..MaxProgram, XGKick(n) PROVE Rest'
  BY <1>0, <1>17 DEF XGKick
<1>18. CASE Realign
  BY <1>0, <1>18 DEF Realign
<1>19. CASE Copy
  BY <1>0, <1>19 DEF Copy
<1>20. CASE WeakWait
  BY <1>0, <1>20 DEF WeakWait, MustWait
<1>21. CASE StartPacks
  <2>1. Len(queue) \in 0..MaxPrograms
    BY <1>21, RoomForOne DEF StartPacks, Busy
  <2> QED
    BY <1>0, <1>21, <2>1 DEF StartPacks
<1>22. CASE LockUnlock
  BY <1>0, <1>22 DEF LockUnlock
<1>23. CASE PacketDone
  BY <1>0, <1>23 DEF PacketDone, Back
<1>24. CASE AddReadAmount
  BY <1>0, <1>24 DEF AddReadAmount
<1>25. CASE PushPacket
  BY <1>0, <1>25 DEF PushPacket
<1>26. CASE PostXGkick
  BY <1>0, <1>26 DEF PostXGkick
<1>27. CASE GSWaitForWork
  BY <1>0, <1>27 DEF GSWaitForWork
<1>28. CASE Lock
  BY <1>0, <1>28 DEF Lock
<1>29. CASE ReadCommand
  BY <1>0, <1>29 DEF ReadCommand
<1>30. CASE TryWait
  BY <1>0, <1>30 DEF TryWait, IsPath1
<1>31. CASE WaitXGkick
  BY <1>0, <1>31 DEF WaitXGkick
<1>32. CASE Transfer
  BY <1>0, <1>32 DEF Transfer
<1>33. CASE PopGSPacketMTVU
  BY <1>0, <1>33 DEF PopGSPacketMTVU
<1>34. CASE AdvanceReadPos
  <2>1. fifo # <<>>
    BY <1>34 DEF AdvanceReadPos, Core, InHand
  <2> QED
    BY <1>0, <1>34, <2>1 DEF AdvanceReadPos
<1>35. CASE UNCHANGED vars
  BY <1>0, <1>35 DEF vars
<1> QED
  BY <1>1, <1>2, <1>3, <1>4, <1>5, <1>6, <1>7, <1>8, <1>9, <1>10, <1>11, <1>12,
     <1>13, <1>14, <1>15, <1>16, <1>17, <1>18, <1>19, <1>20, <1>21, <1>22,
     <1>23, <1>24, <1>25, <1>26, <1>27, <1>28, <1>29, <1>30, <1>31, <1>32,
     <1>33, <1>34, <1>35
     DEF Next, EEStep, VUStep, GSStep

LEMMA NextNumbers ==
  ASSUME Core, Numbers, [Next]_vars
  PROVE  Numbers'
BY NextProgramsBound, NextAnnouncing, NextRest DEF Numbers

\* Where the model ends, the two threads find nothing to do.
LEMMA LastSteps ==
  ASSUME lost, NothingLeft, [Next]_vars
  PROVE  \/ WaitForWork \/ (ReadTag /\ vu' = "look")
         \/ GSWaitForWork \/ (Lock /\ gs = "lock") \/ (ReadCommand /\ gs' = "look")
         \/ UNCHANGED vars
<1>0. /\ ee = "end" /\ programs = 0 /\ fifo = <<>>
      /\ vu \in {"look", "parked", "drain"}
      /\ gs \notin {"wait", "relock", "transfer", "pop", "advance"}
  BY DEF NothingLeft
<1>1. ~EEStep
  BY <1>0 DEF EEStep, Send, GenericStall, KickStart, SetEvent, VUWake, WaitGS,
     WaitForEmpty, GSWake, Reset
<1>2. ~(ExecuteVU \/ SendOther \/ Hold \/ Resume \/ WaitGS)
  BY <1>0 DEF ExecuteVU, SendOther, Hold, Resume, WaitGS
<1>3. \A why : ~WaitVU(why)
  BY <1>0 DEF WaitVU
<1>4. CASE VUStep
  <2>1. \A n : ~XGKick(n)
    BY <1>0 DEF XGKick
  <2>2. ~(Realign \/ Copy \/ WeakWait \/ StartPacks \/ LockUnlock \/ PacketDone
            \/ AddReadAmount \/ PushPacket \/ PostXGkick)
    BY <1>0 DEF Realign, Copy, WeakWait, MustWait, StartPacks, LockUnlock,
       PacketDone, AddReadAmount, PushPacket, PostXGkick
  <2>3. ReadTag => vu' = "look"
    BY <1>0 DEF ReadTag
  <2> QED
    BY <1>4, <2>1, <2>2, <2>3 DEF VUStep
<1>5. CASE GSStep
  <2>1. ~(TryWait \/ WaitXGkick \/ Transfer \/ PopGSPacketMTVU \/ AdvanceReadPos)
    BY <1>0 DEF TryWait, IsPath1, WaitXGkick, Transfer, PopGSPacketMTVU, AdvanceReadPos
  <2>2. Lock => gs = "lock"
    BY <1>0 DEF Lock
  <2>3. ReadCommand => gs' = "look"
    BY <1>0 DEF ReadCommand
  <2> QED
    BY <1>5, <2>1, <2>2, <2>3 DEF GSStep
<1> QED
  BY <1>1, <1>2, <1>3, <1>4, <1>5 DEF Next

LEMMA EndStays ==
  ASSUME lost, NothingLeft, Numbers, Layout, [Next]_vars
  PROVE  NothingLeft' /\ Numbers' /\ Layout'
<1> USE DEF vars, vuEventVars, gsEventVars, eeVars, vuVars, packVars, sharedVars,
         gsVars
<1>1. /\ UNCHANGED <<programs, fifo, eeVars, total, want, start, packVars, sharedVars>>
      /\ vu' \in {"look", "parked", "drain"}
      /\ gs' \notin {"wait", "relock", "transfer", "pop", "advance"}
  BY LastSteps DEF NothingLeft, WaitForWork, ReadTag, GSWaitForWork, Lock, ReadCommand
<1>2. /\ {vuEvent', gsEvent'} \subseteq {"parked", "running0", "runningN"}
      /\ vuFlag' = FALSE /\ gsFlag' = FALSE /\ vuToken' = 0 /\ gsToken' = 0
  <2>1. /\ {vuEvent, gsEvent} \subseteq {"parked", "running0", "runningN"}
        /\ vuFlag = FALSE /\ gsFlag = FALSE /\ vuToken = 0 /\ gsToken = 0
    BY DEF NothingLeft
  <2>2. CASE WaitForWork
    BY <2>1, <2>2 DEF WaitForWork, VUEvent!IdleLook, VUEvent!BusyLook,
       VUEvent!Answer, VUEvent!emptyVars
  <2>3. CASE GSWaitForWork
    BY <2>1, <2>3 DEF GSWaitForWork, GSEvent!IdleLook, GSEvent!BusyLook,
       GSEvent!Answer, GSEvent!emptyVars
  <2>4. CASE ReadTag
    BY <2>1, <2>4 DEF ReadTag
  <2>5. CASE Lock
    BY <2>1, <2>5 DEF Lock
  <2>6. CASE ReadCommand
    BY <2>1, <2>6 DEF ReadCommand
  <2>7. CASE UNCHANGED vars
    BY <2>1, <2>7
  <2> QED
    BY <2>2, <2>3, <2>4, <2>5, <2>6, <2>7, LastSteps
<1>3. NothingLeft'
  BY <1>1, <1>2 DEF NothingLeft
<1>4. Numbers'
  <2>1. vu # "post" /\ vu' # "post"
    BY <1>1 DEF NothingLeft
  <2>2. Programs' /\ Announcing'
    BY <1>1, <2>1 DEF Numbers, Programs, Announcing, One
  <2>3. Switches' /\ start' \in 0..MaxPrograms /\ Len(fifo') <= RingMax
    BY <1>1 DEF Numbers, Switches
  <2> QED
    BY <2>2, <2>3 DEF Numbers
<1>5. Layout'
  <2>1. CASE WaitForWork \/ ReadTag
    BY <2>1, LayoutOfWaits
  <2>2. CASE GSWaitForWork \/ Lock \/ ReadCommand
    <3>1. vu' = vu /\ gs' # "pop" /\ gs # "pop"
      BY <1>1, <2>2 DEF NothingLeft, GSWaitForWork, Lock, ReadCommand
    <3> QED
      BY <1>1, <3>1, ShapeStays DEF layoutVars
  <2>3. CASE UNCHANGED vars
    BY <2>3, ShapeStays DEF layoutVars
  <2> QED
    BY <2>1, <2>2, <2>3, LastSteps
<1> QED
  BY <1>3, <1>4, <1>5

\* A reset finds the two threads idle, and leaves nothing to do.
LEMMA IdleAtReset ==
  ASSUME Core, ee = "reset"
  PROVE  AllIdle /\ gs # "pop"
BY DEF Core, Typed, Places, InHand, ProgramsDrained, CommandsDrained,
   Resetting, AllIdle, Busy

LEMMA EndReached ==
  ASSUME Core, Reset, lost'
  PROVE  NothingLeft'
<1>1. ee = "reset" /\ AllIdle
  BY IdleAtReset DEF Reset
<1>2. /\ UNCHANGED <<programs, fifo, vu, gs, xgkick>>
      /\ UNCHANGED <<vuEvent, vuFlag, vuToken, gsEvent, gsFlag, gsToken>>
      /\ fakePackets' = 0 /\ queue' = <<>>
  BY DEF Reset, vuVars, gsVars, vuEventVars, gsEventVars
<1>3. xgkick > 0
  BY Zenon DEF Reset
<1>4. ee' = "end"
  BY <1>3 DEF Reset, GoTo
<1>5. /\ {vuEvent, gsEvent} \subseteq {"parked", "running0", "runningN"}
      /\ xgkick \in Nat /\ vuToken \in 0..1 /\ gsToken \in 0..1
      /\ vuToken # 1 /\ gsToken # 1 /\ ~vuFlag /\ ~gsFlag
  BY <1>1 DEF Core, Typed, ProgramsDrained, CommandsDrained
<1>6. vuFlag = FALSE /\ gsFlag = FALSE
  BY Zenon, <1>5 DEF Core, ProgramsDrained, CommandsDrained
<1>7. vuToken = 0 /\ gsToken = 0
  BY <1>5
<1> QED
  BY <1>1, <1>2, <1>4, <1>5, <1>6, <1>7 DEF NothingLeft, AllIdle

LEMMA NextEnd ==
  ASSUME Core, [Next]_vars
  PROVE  End'
<1> SUFFICES ASSUME lost' PROVE NothingLeft'
  BY DEF End
<1>1. ~lost
  BY DEF Core
<1>2. Reset
  BY <1>1, LostAtReset
<1> QED
  BY <1>2, EndReached

-----------------------------------------------------------------------------
(* The layout at each step.                                                *)

\* An empty buffer.
Empty ==
  /\ gsPack = Pack(0) /\ queue = <<>> /\ curOffset = 0 /\ curSize = 0
  /\ readAmount = 0 /\ buffer = [i \in Cells |-> Junk]
  /\ total = 0 /\ want = 0
  /\ vu \in {"look", "parked", "drain"} /\ gs # "pop"

LEMMA LayoutOfEmpty == Empty => Layout
<1> SUFFICES ASSUME Empty PROVE Layout
  OBVIOUS
<1>1. /\ gsPack = [offset |-> 0, size |-> 0, read |-> 0] /\ queue = <<>>
      /\ curOffset = 0 /\ curSize = 0 /\ readAmount = 0
      /\ buffer = [i \in Cells |-> Junk] /\ total = 0 /\ want = 0
      /\ vu \in {"look", "parked", "drain"} /\ gs # "pop"
      /\ Len(queue) = 0 /\ Last = 1
  BY DEF Empty, Pack, Last
<1>2. gsPack \in Packs /\ queue \in Seq(Packs)
  <2>1. 0 \in Cells /\ 0 \in 0..MaxProgram /\ 0 \in 0..BuffLimit
    BY Sizes DEF Cells
  <2> QED
    BY <1>1, <2>1 DEF Packs
<1>3. Shape
  BY <1>1, <1>2, Sizes DEF Shape, EndOf, Waiting
<1> DEFINE T == [k \in 1..1 |-> 0]
<1>4. Stream(T)
  <2>1. T \in [1..Last -> Int] /\ \A k \in 1..Last : T[k] = 0
    BY <1>1
  <2>2. Reader(T) = 0 /\ T[Last] = 0
    BY <1>1, <2>1 DEF Reader
  <2> HIDE DEF T
  <2> QED
    BY <1>1, <2>1, <2>2 DEF Stream
<1>5. Data
  <2>1. Junk \in 0..MaxPrograms
    BY Sizes DEF Junk
  <2> QED
    BY <1>1, <2>1 DEF Data
<1> QED
  BY <1>3, <1>4, <1>5 DEF Layout

LEMMA NextLayout ==
  ASSUME Core, Numbers, Layout, [Next]_vars
  PROVE  Layout'
<1>1. gs = "pop" => queue # <<>>
  BY SomethingToPop
<1>2. CASE \/ ExecuteVU \/ SendOther \/ Hold \/ Resume \/ WaitGS
           \/ (\E why \in {"run", "syncGS"} : WaitVU(why))
           \/ Send \/ GenericStall \/ KickStart \/ SetEvent
           \/ VUWake \/ WaitForEmpty \/ GSWake \/ UNCHANGED vars
  <2>1. UNCHANGED layoutVars /\ UNCHANGED <<total, want, vu>> /\ gs' = gs
    BY <1>2 DEF ExecuteVU, SendOther, Hold, Resume, WaitGS, WaitVU, Send,
       GenericStall, KickStart, SetEvent, VUWake, WaitForEmpty, GSWake,
       layoutVars, vars, vuVars, packVars, sharedVars, gsVars
  <2> QED
    BY <2>1, ShapeStays
<1>3. CASE Reset
  <2>1. AllIdle /\ gs # "pop"
    BY <1>3, IdleAtReset DEF Reset
  <2>2. total = 0 /\ want = 0
    BY <2>1 DEF AllIdle, Layout, Shape, Waiting
  <2>3. Empty'
    BY <1>3, <2>1, <2>2 DEF Reset, Empty, AllIdle, vuVars, gsVars, Pack, Junk, Cells
  <2> QED
    BY <2>3, LayoutOfEmpty, PTL
<1>4. CASE \/ WaitForWork \/ ReadTag \/ PostXGkick
           \/ WeakWait \/ StartPacks \/ PacketDone \/ LockUnlock
  BY <1>4, LayoutOfWaits
<1>5. ASSUME NEW n \in 1..MaxProgram, XGKick(n) PROVE Layout'
  BY <1>5, LayoutOfKick
<1>6. CASE Realign
  BY <1>1, <1>6, LayoutOfRealign
<1>7. CASE Copy
  <2>1. Last <= MaxPrograms
    BY <1>7, RoomForOne DEF Copy, Busy
  <2> QED
    BY <1>1, <1>7, <2>1, LayoutOfCopy
<1>8. CASE AddReadAmount
  BY <1>1, <1>8, LayoutOfAmount
<1>9. CASE PushPacket
  BY <1>1, <1>9, LayoutOfPush
<1>10. CASE \/ GSWaitForWork \/ Lock \/ ReadCommand
            \/ TryWait \/ WaitXGkick \/ AdvanceReadPos
  <2>1. UNCHANGED layoutVars /\ UNCHANGED <<total, want, vu>> /\ gs # "pop" /\ gs' # "pop"
    BY <1>10 DEF GSWaitForWork, Lock, ReadCommand, TryWait, IsPath1, WaitXGkick,
       AdvanceReadPos, layoutVars, vuVars, packVars, sharedVars, gsVars
  <2> QED
    BY <2>1, ShapeStays
<1>11. CASE Transfer
  BY <1>11, LayoutOfTransfer
<1>12. CASE PopGSPacketMTVU
  BY <1>1, <1>12, LayoutOfPop DEF PopGSPacketMTVU
<1> QED
  BY <1>2, <1>3, <1>4, <1>5, <1>6, <1>7, <1>8, <1>9, <1>10, <1>11, <1>12
     DEF Next, EEStep, VUStep, GSStep

-----------------------------------------------------------------------------
(* The theorems about the buffer.                                          *)

PackInv == IInv /\ Numbers /\ End /\ Layout

LEMMA PackInitially == Init => PackInv
<1> SUFFICES ASSUME Init PROVE PackInv
  OBVIOUS
<1>1. /\ programs = 0 /\ queue = <<>> /\ fifo = <<>> /\ vu = "look" /\ gs = "look"
      /\ ee = "run" /\ fakePackets = 0 /\ start = 0 /\ hold = FALSE /\ lost = FALSE
  BY DEF Init
<1>2. Numbers
  <2>1. hold \in BOOLEAN /\ lost \in BOOLEAN
    BY <1>1, Zenon
  <2>2. Len(queue) = 0 /\ Len(fifo) = 0
    BY <1>1
  <2>3. Programs /\ Announcing
    BY <1>1, <2>2, Sizes DEF Programs, Announcing, One
  <2> QED
    BY <1>1, <2>1, <2>2, <2>3, Sizes DEF Numbers, Switches
<1>3. End
  BY <1>1 DEF End
<1>4. Empty
  BY <1>1 DEF Init, Empty
<1> QED
  BY <1>2, <1>3, <1>4, Initially, LayoutOfEmpty DEF PackInv

LEMMA PackStep == PackInv /\ [Next]_vars => PackInv'
<1> SUFFICES ASSUME PackInv, [Next]_vars PROVE PackInv'
  OBVIOUS
<1>1. IInv'
  BY Step DEF PackInv
<1>2. CASE lost
  <2>1. NothingLeft' /\ Numbers' /\ Layout'
    BY <1>2, EndStays DEF PackInv, End
  <2> QED
    BY <1>1, <2>1 DEF PackInv, End
<1>3. CASE ~lost
  <2>1. Core
    BY <1>3 DEF PackInv, IInv
  <2> QED
    BY <1>1, <2>1, NextNumbers, NextEnd, NextLayout DEF PackInv
<1> QED
  BY <1>2, <1>3

LEMMA PackAlways == Spec => []PackInv
  BY PackInitially, PackStep, PTL DEF Spec

\* What the EE has announced is at most what there are programs and packets.
LEMMA AnnouncedBound ==
  ASSUME Core, Numbers
  PROVE  programs <= MaxPrograms /\ fakePackets \in 0..MaxPrograms
<1>1. /\ programs \in Nat /\ fakePackets \in Int /\ Len(queue) \in Nat
      /\ xgkick \in Nat /\ fifo \in Seq(Commands) /\ MaxPrograms \in Nat
  BY QueueFacts, Sizes DEF Core, Typed
<1>2. Len(queue) >= One(vu = "post") /\ One(vu = "post") \in {0, 1}
  BY <1>1 DEF Core, Tokens, One
<1>3. programs + Len(queue) <= MaxPrograms + One(vu = "post") /\ fakePackets >= 0
  BY DEF Numbers, Programs, Announcing
<1>4. Count("path1") >= One(gs = "advance" /\ Head(fifo) = "path1")
      /\ Count("path1") \in Nat
  <2>1. Count("path1") \in Nat
    BY <1>1, CountIs
  <2>2. CASE gs = "advance" /\ Head(fifo) = "path1"
    <3>1. fifo # <<>>
      BY <2>2 DEF Core, InHand
    <3>2. Cardinality(Marks(Tail(fifo))) = Cardinality(Marks(fifo)) - 1
      BY <1>1, <2>2, <3>1, MarksOfTail DEF One
    <3>3. Cardinality(Marks(Tail(fifo))) \in Nat /\ Tail(fifo) \in Seq(Commands)
      <4>1. Tail(fifo) \in Seq(Commands)
        BY <1>1, <3>1
      <4> QED
        BY <4>1, MarksFinite
    <3>4. Count("path1") = Cardinality(Marks(fifo))
      BY DEF Count, Marks
    <3> QED
      BY <2>1, <2>2, <3>2, <3>3, <3>4 DEF One
  <2>3. CASE ~(gs = "advance" /\ Head(fifo) = "path1")
    BY <2>1, <2>3 DEF One
  <2> QED
    BY <2>1, <2>2, <2>3
<1>5. One(gs = "advance" /\ Head(fifo) = "path1") \in {0, 1}
  BY DEF One
<1>6. fakePackets + Count("path1") - One(gs = "advance" /\ Head(fifo) = "path1")
        = Len(queue) + programs - One(vu = "post")
  BY DEF Core, Announced
<1> QED
  BY SMTT(60), <1>1, <1>2, <1>3, <1>4, <1>5, <1>6

\* Nothing is written behind the buffer of path 1 ("Gif Path Buffer Overflow!"), or
\* gone through before it is copied, and no amount becomes negative, however the
\* three threads interleave (CopyGSPacketData, RealignPacket, FinishGSPacketMTVU).
THEOREM TypeCorrect == Spec => []TypeOK
<1>1. PackInv => TypeOK
  <2> SUFFICES ASSUME PackInv PROVE TypeOK
    OBVIOUS
  <2>1. Shape /\ buffer \in [Cells -> 0..MaxPrograms]
    BY DEF PackInv, Layout, Data
  <2>2. /\ curOffset \in Nat /\ curSize \in Nat /\ curOffset <= curSize
        /\ curSize <= BuffSize /\ gsPack \in Packs /\ queue \in Seq(Packs)
        /\ total \in 0..MaxProgram /\ want \in 0..MaxProgram
    BY <2>1, ShapeFacts DEF Shape
  <2>3. readAmount >= 0
    <3>1. PICK T : Stream(T)
      BY DEF PackInv, Layout
    <3>2. gs = "pop" => queue # <<>>
      BY SomethingToPop DEF PackInv, IInv, End, NothingLeft
    <3>3. Reader(T) \in Int /\ T[Last] \in Int /\ Reader(T) <= T[Last]
      BY <2>1, <3>1, <3>2, ReaderFacts
    <3>4. gsPack.size \in Nat /\ gsPack.read \in Nat
      BY <2>1, ShapeFacts
    <3>5. readAmount = T[Last] - Reader(T)
                         + (IF vu = "push" THEN gsPack.size + gsPack.read ELSE 0)
      BY <3>1 DEF Stream
    <3> QED
      BY <3>3, <3>4, <3>5
  <2>4. {hold, lost} \subseteq BOOLEAN /\ start \in 0..MaxPrograms /\ Len(fifo) <= RingMax
    BY DEF PackInv, Numbers, Switches
  <2>5. /\ programs \in 0..MaxPrograms /\ fakePackets \in 0..MaxPrograms
        /\ fifo \in Seq({"path1", "other"}) /\ xgkick >= 0
        /\ {vuEvent, gsEvent} \subseteq {"parked", "running0", "runningN"}
        /\ {vuFlag, gsFlag} \subseteq BOOLEAN /\ {vuToken, gsToken} \subseteq {0, 1}
    <3>1. CASE lost
      <4>1. NothingLeft
        BY <3>1 DEF PackInv, End
      <4>2. /\ programs \in 0..MaxPrograms /\ fakePackets \in 0..MaxPrograms
            /\ fifo \in Seq({"path1", "other"}) /\ xgkick >= 0
        BY <4>1, Sizes DEF NothingLeft
      <4>3. {vuFlag, gsFlag} \subseteq BOOLEAN
        BY <4>1, Zenon DEF NothingLeft
      <4>4. /\ {vuEvent, gsEvent} \subseteq {"parked", "running0", "runningN"}
            /\ {vuToken, gsToken} \subseteq {0, 1}
        BY <4>1 DEF NothingLeft
      <4> QED
        BY <4>2, <4>3, <4>4
    <3>2. CASE ~lost
      <4>1. Core
        BY <3>2 DEF PackInv, IInv
      <4>2. programs \in Nat /\ programs <= MaxPrograms /\ fakePackets \in 0..MaxPrograms
        BY <4>1, AnnouncedBound DEF PackInv, Core, Typed
      <4>3. programs \in 0..MaxPrograms
        BY <4>2, Sizes
      <4>4. {vuFlag, gsFlag} \subseteq BOOLEAN
        BY <4>1, Zenon DEF Core, ProgramsDrained, CommandsDrained
      <4>5. /\ {vuEvent, gsEvent} \subseteq {"parked", "running0", "runningN"}
            /\ {vuToken, gsToken} \subseteq {0, 1}
        BY <4>1 DEF Core, ProgramsDrained, CommandsDrained
      <4>6. fifo \in Seq({"path1", "other"}) /\ xgkick >= 0
        BY <4>1 DEF Core, Typed, Commands
      <4> QED
        BY <4>2, <4>3, <4>4, <4>5, <4>6
    <3> QED
      BY <3>1, <3>2
  <2>6. {vuFlag, gsFlag, hold, lost} \subseteq BOOLEAN
    BY <2>4, <2>5, Zenon
  <2>7. 0 <= curOffset
    BY <2>2
  <2> QED
    BY <2>1, <2>2, <2>3, <2>4, <2>5, <2>6, <2>7 DEF TypeOK
<1> QED
  BY <1>1, PackAlways, PTL

\* The GS thread finds every packet of the queue as the program kicked it, and the
\* program its own: what RealignPacket moves and CopyGSPacketData writes, around the
\* end of the buffer as often as there are programs, is never data that are still
\* to be read.
THEOREM PacketsSafe == Spec => []PacketsIntact
<1>1. PackInv => PacketsIntact
  <2> SUFFICES ASSUME PackInv PROVE PacketsIntact
    OBVIOUS
  <2>1. Shape /\ Data
    BY DEF PackInv, Layout
  <2>2. ASSUME NEW i \in Extent(gsPack) PROVE buffer[i] = Len(queue) + 1
    <3> DEFINE o == gsPack.offset
    <3>1. /\ o \in Nat /\ curOffset \in Nat /\ curSize \in Nat /\ curOffset <= curSize
          /\ i \in o..(curOffset - 1)
      BY <2>1, ShapeFacts, PackFacts DEF Shape
    <3>2. i \in o..(curSize - 1)
      <4> HIDE DEF o
      <4> QED
        BY <3>1
    <3> QED
      BY <2>1, <3>2 DEF Data, Last
  <2>3. \A k \in 1..Len(queue) : (k = 1 /\ gs = "pop") \/ Holds(queue[k], k)
    BY <2>1 DEF Data
  <2>4. DOMAIN queue = 1..Len(queue)
    BY <2>1 DEF Shape
  <2> QED
    BY <2>2, <2>3, <2>4 DEF PacketsIntact, Holds
<1> QED
  BY <1>1, PackAlways, PTL

-----------------------------------------------------------------------------
(* Who waits for whom.                                                     *)

\* The MTVU thread has, or has been told of, something to do; so has the GS thread.
VUAtWork == vuEvent = "runningN" \/ vu = "drain" \/ Busy
GSAtWork == gsEvent = "runningN" \/ gs \notin {"look", "parked"}

\* What a thread that waits can rely on: every program but one that the EE has still
\* to announce is known to the MTVU thread; a thread that waits for an empty queue is
\* going to be answered; the GS thread empties the ring of an EE that is stalled; and
\* the part cut off the end of the buffer leaves room for a program before it.
Told ==
  /\ programs > One(ToKick) => VUAtWork
  /\ ee \in {"send", "stall"} /\ then = "kickVU" => cmd = "path1"
VUAnswers == ee = "vuWait" => vuToken = 1 \/ (vuFlag /\ vuEvent # "parked")
GSAnswers == ee = "gsWait" => gsToken = 1 \/ (gsFlag /\ gsEvent # "parked")
StallHeard == ee = "stall" /\ fifo # <<>> => GSAtWork
CutIsShort == gsPack.read > 0 => gsPack.offset = 0 /\ gsPack.read + MaxProgram < BuffLimit

LEMMA NextTold ==
  ASSUME Core, Told, [Next]_vars, ~lost'
  PROVE  Told'
<1> USE DEF Told, ToKick, One, VUAtWork, Busy, Places, ProgramsDrained,
         VUEvent!NotifyOfWork, VUEvent!IdleLook, VUEvent!BusyLook,
         VUEvent!WaitForEmpty, VUEvent!EmptyWake, VUEvent!emptyVars, VUEvent!IsIdle,
         vars, vuEventVars, gsEventVars, eeVars, vuVars,
         packVars, sharedVars, gsVars, GoTo, Execute, Commands
<1>0. Told /\ Places /\ ProgramsDrained /\ programs \in Nat
  BY DEF Core, Typed
<1>1. CASE ExecuteVU
  BY <1>0, <1>1 DEF ExecuteVU
<1>2. CASE SendOther
  BY <1>0, <1>2 DEF SendOther
<1>3. CASE Hold
  BY <1>0, <1>3 DEF Hold
<1>4. CASE Resume
  BY <1>0, <1>4 DEF Resume
<1>5. CASE WaitGS
  BY <1>0, <1>5 DEF WaitGS
<1>6. ASSUME NEW why \in {"run", "syncGS"}, WaitVU(why) PROVE Told'
  BY <1>0, <1>6 DEF WaitVU
<1>7. CASE Send
  BY <1>0, <1>7 DEF Send
<1>8. CASE GenericStall
  BY <1>0, <1>8 DEF GenericStall
<1>9. CASE KickStart
  BY <1>0, <1>9 DEF KickStart
<1>10. CASE SetEvent
  BY <1>0, <1>10 DEF SetEvent
<1>11. CASE VUWake
  BY <1>0, <1>11 DEF VUWake
<1>12. CASE WaitForEmpty
  BY <1>0, <1>12 DEF WaitForEmpty
<1>13. CASE GSWake
  BY <1>0, <1>13 DEF GSWake
<1>14. CASE Reset
  BY <1>0, <1>14 DEF Reset
<1>15. CASE WaitForWork
  BY <1>0, <1>15 DEF WaitForWork
<1>16. CASE ReadTag
  BY <1>0, <1>16 DEF ReadTag
<1>17. ASSUME NEW n \in 1..MaxProgram, XGKick(n) PROVE Told'
  BY <1>0, <1>17 DEF XGKick
<1>18. CASE Realign
  BY <1>0, <1>18 DEF Realign
<1>19. CASE Copy
  BY <1>0, <1>19 DEF Copy
<1>20. CASE WeakWait
  BY <1>0, <1>20 DEF WeakWait, MustWait
<1>21. CASE StartPacks
  BY <1>0, <1>21 DEF StartPacks, Back
<1>22. CASE LockUnlock
  BY <1>0, <1>22 DEF LockUnlock
<1>23. CASE PacketDone
  BY <1>0, <1>23 DEF PacketDone, Back
<1>24. CASE AddReadAmount
  BY <1>0, <1>24 DEF AddReadAmount
<1>25. CASE PushPacket
  BY <1>0, <1>25 DEF PushPacket
<1>26. CASE PostXGkick
  BY <1>0, <1>26 DEF PostXGkick
<1>27. CASE GSWaitForWork
  BY <1>0, <1>27 DEF GSWaitForWork
<1>28. CASE Lock
  BY <1>0, <1>28 DEF Lock
<1>29. CASE ReadCommand
  BY <1>0, <1>29 DEF ReadCommand
<1>30. CASE TryWait
  BY <1>0, <1>30 DEF TryWait, IsPath1
<1>31. CASE WaitXGkick
  BY <1>0, <1>31 DEF WaitXGkick
<1>32. CASE Transfer
  BY <1>0, <1>32 DEF Transfer
<1>33. CASE PopGSPacketMTVU
  BY <1>0, <1>33 DEF PopGSPacketMTVU
<1>34. CASE AdvanceReadPos
  BY <1>0, <1>34 DEF AdvanceReadPos
<1>35. CASE UNCHANGED vars
  BY <1>0, <1>35 DEF vars
<1> QED
  BY <1>1, <1>2, <1>3, <1>4, <1>5, <1>6, <1>7, <1>8, <1>9, <1>10, <1>11, <1>12,
     <1>13, <1>14, <1>15, <1>16, <1>17, <1>18, <1>19, <1>20, <1>21, <1>22,
     <1>23, <1>24, <1>25, <1>26, <1>27, <1>28, <1>29, <1>30, <1>31, <1>32,
     <1>33, <1>34, <1>35
     DEF Next, EEStep, VUStep, GSStep

LEMMA NextVUAnswers ==
  ASSUME Core, VUAnswers, [Next]_vars, ~lost'
  PROVE  VUAnswers'
<1> USE DEF VUAnswers, Places, ProgramsDrained,
         VUEvent!NotifyOfWork, VUEvent!IdleLook, VUEvent!BusyLook, VUEvent!Answer,
         VUEvent!WaitForEmpty, VUEvent!EmptyWake, VUEvent!emptyVars, VUEvent!IsIdle,
         vars, vuEventVars, gsEventVars, eeVars, vuVars,
         packVars, sharedVars, gsVars, GoTo, Execute
<1>0. VUAnswers /\ Places /\ ProgramsDrained
  BY DEF Core
<1>1. CASE ExecuteVU
  BY <1>0, <1>1 DEF ExecuteVU
<1>2. CASE SendOther
  BY <1>0, <1>2 DEF SendOther
<1>3. CASE Hold
  BY <1>0, <1>3 DEF Hold
<1>4. CASE Resume
  BY <1>0, <1>4 DEF Resume
<1>5. CASE WaitGS
  BY <1>0, <1>5 DEF WaitGS
<1>6. ASSUME NEW why \in {"run", "syncGS"}, WaitVU(why) PROVE VUAnswers'
  BY <1>0, <1>6 DEF WaitVU
<1>7. CASE Send
  BY <1>0, <1>7 DEF Send
<1>8. CASE GenericStall
  BY <1>0, <1>8 DEF GenericStall
<1>9. CASE KickStart
  BY <1>0, <1>9 DEF KickStart
<1>10. CASE SetEvent
  BY <1>0, <1>10 DEF SetEvent
<1>11. CASE VUWake
  BY <1>0, <1>11 DEF VUWake
<1>12. CASE WaitForEmpty
  BY <1>0, <1>12 DEF WaitForEmpty
<1>13. CASE GSWake
  BY <1>0, <1>13 DEF GSWake
<1>14. CASE Reset
  BY <1>0, <1>14 DEF Reset
<1>15. CASE WaitForWork
  BY <1>0, <1>15 DEF WaitForWork
<1>16. CASE ReadTag
  BY <1>0, <1>16 DEF ReadTag
<1>17. ASSUME NEW n \in 1..MaxProgram, XGKick(n) PROVE VUAnswers'
  BY <1>0, <1>17 DEF XGKick
<1>18. CASE Realign
  BY <1>0, <1>18 DEF Realign
<1>19. CASE Copy
  BY <1>0, <1>19 DEF Copy
<1>20. CASE WeakWait
  BY <1>0, <1>20 DEF WeakWait, MustWait
<1>21. CASE StartPacks
  BY <1>0, <1>21 DEF StartPacks, Back
<1>22. CASE LockUnlock
  BY <1>0, <1>22 DEF LockUnlock
<1>23. CASE PacketDone
  BY <1>0, <1>23 DEF PacketDone, Back
<1>24. CASE AddReadAmount
  BY <1>0, <1>24 DEF AddReadAmount
<1>25. CASE PushPacket
  BY <1>0, <1>25 DEF PushPacket
<1>26. CASE PostXGkick
  BY <1>0, <1>26 DEF PostXGkick
<1>27. CASE GSWaitForWork
  BY <1>0, <1>27 DEF GSWaitForWork
<1>28. CASE Lock
  BY <1>0, <1>28 DEF Lock
<1>29. CASE ReadCommand
  BY <1>0, <1>29 DEF ReadCommand
<1>30. CASE TryWait
  BY <1>0, <1>30 DEF TryWait, IsPath1
<1>31. CASE WaitXGkick
  BY <1>0, <1>31 DEF WaitXGkick
<1>32. CASE Transfer
  BY <1>0, <1>32 DEF Transfer
<1>33. CASE PopGSPacketMTVU
  BY <1>0, <1>33 DEF PopGSPacketMTVU
<1>34. CASE AdvanceReadPos
  BY <1>0, <1>34 DEF AdvanceReadPos
<1>35. CASE UNCHANGED vars
  BY <1>0, <1>35 DEF vars
<1> QED
  BY <1>1, <1>2, <1>3, <1>4, <1>5, <1>6, <1>7, <1>8, <1>9, <1>10, <1>11, <1>12,
     <1>13, <1>14, <1>15, <1>16, <1>17, <1>18, <1>19, <1>20, <1>21, <1>22,
     <1>23, <1>24, <1>25, <1>26, <1>27, <1>28, <1>29, <1>30, <1>31, <1>32,
     <1>33, <1>34, <1>35
     DEF Next, EEStep, VUStep, GSStep

LEMMA NextGSAnswers ==
  ASSUME Core, GSAnswers, [Next]_vars, ~lost'
  PROVE  GSAnswers'
<1> USE DEF GSAnswers, Places, CommandsDrained,
         GSEvent!NotifyOfWork, GSEvent!IdleLook, GSEvent!BusyLook, GSEvent!Answer,
         GSEvent!IsIdle, GSEvent!WaitForEmpty, GSEvent!EmptyWake, GSEvent!emptyVars,
         vars, vuEventVars, gsEventVars, eeVars, vuVars,
         packVars, sharedVars, gsVars, GoTo, Execute
<1>0. GSAnswers /\ Places /\ CommandsDrained
  BY DEF Core
<1>1. CASE ExecuteVU
  BY <1>0, <1>1 DEF ExecuteVU
<1>2. CASE SendOther
  BY <1>0, <1>2 DEF SendOther
<1>3. CASE Hold
  BY <1>0, <1>3 DEF Hold
<1>4. CASE Resume
  BY <1>0, <1>4 DEF Resume
<1>5. CASE WaitGS
  BY <1>0, <1>5 DEF WaitGS
<1>6. ASSUME NEW why \in {"run", "syncGS"}, WaitVU(why) PROVE GSAnswers'
  BY <1>0, <1>6 DEF WaitVU
<1>7. CASE Send
  BY <1>0, <1>7 DEF Send
<1>8. CASE GenericStall
  BY <1>0, <1>8 DEF GenericStall
<1>9. CASE KickStart
  BY <1>0, <1>9 DEF KickStart
<1>10. CASE SetEvent
  BY <1>0, <1>10 DEF SetEvent
<1>11. CASE VUWake
  BY <1>0, <1>11 DEF VUWake
<1>12. CASE WaitForEmpty
  BY <1>0, <1>12 DEF WaitForEmpty
<1>13. CASE GSWake
  BY <1>0, <1>13 DEF GSWake
<1>14. CASE Reset
  BY <1>0, <1>14 DEF Reset
<1>15. CASE WaitForWork
  BY <1>0, <1>15 DEF WaitForWork
<1>16. CASE ReadTag
  BY <1>0, <1>16 DEF ReadTag
<1>17. ASSUME NEW n \in 1..MaxProgram, XGKick(n) PROVE GSAnswers'
  BY <1>0, <1>17 DEF XGKick
<1>18. CASE Realign
  BY <1>0, <1>18 DEF Realign
<1>19. CASE Copy
  BY <1>0, <1>19 DEF Copy
<1>20. CASE WeakWait
  BY <1>0, <1>20 DEF WeakWait, MustWait
<1>21. CASE StartPacks
  BY <1>0, <1>21 DEF StartPacks, Back
<1>22. CASE LockUnlock
  BY <1>0, <1>22 DEF LockUnlock
<1>23. CASE PacketDone
  BY <1>0, <1>23 DEF PacketDone, Back
<1>24. CASE AddReadAmount
  BY <1>0, <1>24 DEF AddReadAmount
<1>25. CASE PushPacket
  BY <1>0, <1>25 DEF PushPacket
<1>26. CASE PostXGkick
  BY <1>0, <1>26 DEF PostXGkick
<1>27. CASE GSWaitForWork
  BY <1>0, <1>27 DEF GSWaitForWork
<1>28. CASE Lock
  BY <1>0, <1>28 DEF Lock
<1>29. CASE ReadCommand
  BY <1>0, <1>29 DEF ReadCommand
<1>30. CASE TryWait
  BY <1>0, <1>30 DEF TryWait, IsPath1
<1>31. CASE WaitXGkick
  BY <1>0, <1>31 DEF WaitXGkick
<1>32. CASE Transfer
  BY <1>0, <1>32 DEF Transfer
<1>33. CASE PopGSPacketMTVU
  BY <1>0, <1>33 DEF PopGSPacketMTVU
<1>34. CASE AdvanceReadPos
  BY <1>0, <1>34 DEF AdvanceReadPos
<1>35. CASE UNCHANGED vars
  BY <1>0, <1>35 DEF vars
<1> QED
  BY <1>1, <1>2, <1>3, <1>4, <1>5, <1>6, <1>7, <1>8, <1>9, <1>10, <1>11, <1>12,
     <1>13, <1>14, <1>15, <1>16, <1>17, <1>18, <1>19, <1>20, <1>21, <1>22,
     <1>23, <1>24, <1>25, <1>26, <1>27, <1>28, <1>29, <1>30, <1>31, <1>32,
     <1>33, <1>34, <1>35
     DEF Next, EEStep, VUStep, GSStep

LEMMA NextStallHeard ==
  ASSUME Core, StallHeard, [Next]_vars, ~lost'
  PROVE  StallHeard'
<1> USE DEF StallHeard, GSAtWork, Places, InHand, CommandsDrained,
         GSEvent!NotifyOfWork, GSEvent!IdleLook, GSEvent!BusyLook,
         GSEvent!WaitForEmpty, GSEvent!EmptyWake, GSEvent!emptyVars, GSEvent!IsIdle,
         vars, vuEventVars, gsEventVars, eeVars, vuVars,
         packVars, sharedVars, gsVars, GoTo, Execute
<1>0. StallHeard /\ Places /\ InHand /\ CommandsDrained /\ fifo \in Seq(Commands)
  BY DEF Core, Typed
<1>1. CASE ExecuteVU
  BY <1>0, <1>1 DEF ExecuteVU
<1>2. CASE SendOther
  BY <1>0, <1>2 DEF SendOther
<1>3. CASE Hold
  BY <1>0, <1>3 DEF Hold
<1>4. CASE Resume
  BY <1>0, <1>4 DEF Resume
<1>5. CASE WaitGS
  BY <1>0, <1>5 DEF WaitGS
<1>6. ASSUME NEW why \in {"run", "syncGS"}, WaitVU(why) PROVE StallHeard'
  BY <1>0, <1>6 DEF WaitVU
<1>7. CASE Send
  BY <1>0, <1>7 DEF Send
<1>8. CASE GenericStall
  BY <1>0, <1>8 DEF GenericStall
<1>9. CASE KickStart
  BY <1>0, <1>9 DEF KickStart
<1>10. CASE SetEvent
  BY <1>0, <1>10 DEF SetEvent
<1>11. CASE VUWake
  BY <1>0, <1>11 DEF VUWake
<1>12. CASE WaitForEmpty
  BY <1>0, <1>12 DEF WaitForEmpty
<1>13. CASE GSWake
  BY <1>0, <1>13 DEF GSWake
<1>14. CASE Reset
  BY <1>0, <1>14 DEF Reset
<1>15. CASE WaitForWork
  BY <1>0, <1>15 DEF WaitForWork
<1>16. CASE ReadTag
  BY <1>0, <1>16 DEF ReadTag
<1>17. ASSUME NEW n \in 1..MaxProgram, XGKick(n) PROVE StallHeard'
  BY <1>0, <1>17 DEF XGKick
<1>18. CASE Realign
  BY <1>0, <1>18 DEF Realign
<1>19. CASE Copy
  BY <1>0, <1>19 DEF Copy
<1>20. CASE WeakWait
  BY <1>0, <1>20 DEF WeakWait, MustWait
<1>21. CASE StartPacks
  BY <1>0, <1>21 DEF StartPacks, Back
<1>22. CASE LockUnlock
  BY <1>0, <1>22 DEF LockUnlock
<1>23. CASE PacketDone
  BY <1>0, <1>23 DEF PacketDone, Back
<1>24. CASE AddReadAmount
  BY <1>0, <1>24 DEF AddReadAmount
<1>25. CASE PushPacket
  BY <1>0, <1>25 DEF PushPacket
<1>26. CASE PostXGkick
  BY <1>0, <1>26 DEF PostXGkick
<1>27. CASE GSWaitForWork
  BY <1>0, <1>27 DEF GSWaitForWork
<1>28. CASE Lock
  BY <1>0, <1>28 DEF Lock
<1>29. CASE ReadCommand
  BY <1>0, <1>29 DEF ReadCommand
<1>30. CASE TryWait
  BY <1>0, <1>30 DEF TryWait, IsPath1
<1>31. CASE WaitXGkick
  BY <1>0, <1>31 DEF WaitXGkick
<1>32. CASE Transfer
  BY <1>0, <1>32 DEF Transfer
<1>33. CASE PopGSPacketMTVU
  BY <1>0, <1>33 DEF PopGSPacketMTVU
<1>34. CASE AdvanceReadPos
  BY <1>0, <1>34 DEF AdvanceReadPos
<1>35. CASE UNCHANGED vars
  BY <1>0, <1>35 DEF vars
<1> QED
  BY <1>1, <1>2, <1>3, <1>4, <1>5, <1>6, <1>7, <1>8, <1>9, <1>10, <1>11, <1>12,
     <1>13, <1>14, <1>15, <1>16, <1>17, <1>18, <1>19, <1>20, <1>21, <1>22,
     <1>23, <1>24, <1>25, <1>26, <1>27, <1>28, <1>29, <1>30, <1>31, <1>32,
     <1>33, <1>34, <1>35
     DEF Next, EEStep, VUStep, GSStep

LEMMA CutOfRealign ==
  ASSUME Layout, Realign
  PROVE  CutIsShort'
<1> DEFINE left == IF Offset < BuffLimit THEN BuffLimit - Offset ELSE 0
           moved == [gsPack EXCEPT !.offset = 0, !.read = @ + left]
<1>1. Offset \in Nat /\ Offset > MaxProgram /\ gsPack.read = 0 /\ gsPack \in Packs
  BY RealignFacts DEF Realign, Layout, Shape
<1>2. \/ gsPack' = moved
      \/ gsPack' = [moved EXCEPT !.size = @ + (curSize - curOffset) + 0]
  BY DEF Realign, Execute
<1>3. left \in Nat /\ (left = 0 \/ left + MaxProgram < BuffLimit)
  <2> DEFINE here == Offset
  <2>1. /\ here \in Nat /\ here > MaxProgram
        /\ left = IF here < BuffLimit THEN BuffLimit - here ELSE 0
    BY <1>1
  <2> HIDE DEF here, left
  <2> QED
    BY <2>1, Sizes
<1>4. moved \in Packs /\ moved.offset = 0 /\ moved.read = left
  <2>1. left \in 0..BuffLimit
    BY <1>1, Sizes
  <2> HIDE DEF left
  <2>2. left \in Nat /\ 0 + left = left /\ 0 \in Cells
    BY <2>1, Sizes DEF Cells
  <2> QED
    BY <1>1, <2>1, <2>2 DEF Packs
<1>5. gsPack'.offset = 0 /\ gsPack'.read = left
  <2> HIDE DEF moved, left
  <2> QED
    BY <1>2, <1>4 DEF Packs
<1> HIDE DEF left
<1> QED
  BY <1>3, <1>5 DEF CutIsShort

LEMMA CopyKeepsCut ==
  ASSUME Copy, gsPack \in Packs
  PROVE  gsPack'.offset = gsPack.offset /\ gsPack'.read = gsPack.read
<1>1. \/ gsPack' = gsPack
      \/ gsPack' = [gsPack EXCEPT !.size = @ + (curSize - curOffset) + want]
  BY DEF Copy, Execute
<1> QED
  BY <1>1 DEF Packs

LEMMA NextCutIsShort ==
  ASSUME Core, Layout, CutIsShort, [Next]_vars
  PROVE  CutIsShort'
<1> USE DEF CutIsShort, vars, vuEventVars, gsEventVars, eeVars, vuVars, packVars,
         sharedVars, gsVars
<1>0. CutIsShort /\ \A offset : Pack(offset).read = 0
  BY DEF Pack
<1>1. CASE ExecuteVU
  BY <1>0, <1>1 DEF ExecuteVU
<1>2. CASE SendOther
  BY <1>0, <1>2 DEF SendOther
<1>3. CASE Hold
  BY <1>0, <1>3 DEF Hold
<1>4. CASE Resume
  BY <1>0, <1>4 DEF Resume
<1>5. CASE WaitGS
  BY <1>0, <1>5 DEF WaitGS
<1>6. ASSUME NEW why \in {"run", "syncGS"}, WaitVU(why) PROVE CutIsShort'
  BY <1>0, <1>6 DEF WaitVU
<1>7. CASE Send
  BY <1>0, <1>7 DEF Send
<1>8. CASE GenericStall
  BY <1>0, <1>8 DEF GenericStall
<1>9. CASE KickStart
  BY <1>0, <1>9 DEF KickStart
<1>10. CASE SetEvent
  BY <1>0, <1>10 DEF SetEvent
<1>11. CASE VUWake
  BY <1>0, <1>11 DEF VUWake
<1>12. CASE WaitForEmpty
  BY <1>0, <1>12 DEF WaitForEmpty
<1>13. CASE GSWake
  BY <1>0, <1>13 DEF GSWake
<1>14. CASE Reset
  <2>1. gsPack'.read = 0
    BY <1>0, <1>14 DEF Reset
  <2> QED
    BY <2>1
<1>15. CASE WaitForWork
  BY <1>0, <1>15 DEF WaitForWork
<1>16. CASE ReadTag
  BY <1>0, <1>16 DEF ReadTag
<1>17. ASSUME NEW n \in 1..MaxProgram, XGKick(n) PROVE CutIsShort'
  BY <1>0, <1>17 DEF XGKick
<1>18. CASE Realign
  BY <1>0, <1>18, CutOfRealign
<1>19. CASE Copy
  <2>1. gsPack'.offset = gsPack.offset /\ gsPack'.read = gsPack.read
    BY <1>19, CopyKeepsCut DEF Layout, Shape
  <2> QED
    BY <1>0, <2>1
<1>20. CASE WeakWait
  BY <1>0, <1>20 DEF WeakWait, MustWait
<1>21. CASE StartPacks
  BY <1>0, <1>21 DEF StartPacks, Back
<1>22. CASE LockUnlock
  BY <1>0, <1>22 DEF LockUnlock
<1>23. CASE PacketDone
  BY <1>0, <1>23 DEF PacketDone, Back
<1>24. CASE AddReadAmount
  BY <1>0, <1>24 DEF AddReadAmount
<1>25. CASE PushPacket
  <2>1. gsPack'.read = 0
    BY <1>0, <1>25 DEF PushPacket
  <2> QED
    BY <2>1
<1>26. CASE PostXGkick
  BY <1>0, <1>26 DEF PostXGkick
<1>27. CASE GSWaitForWork
  BY <1>0, <1>27 DEF GSWaitForWork
<1>28. CASE Lock
  BY <1>0, <1>28 DEF Lock
<1>29. CASE ReadCommand
  BY <1>0, <1>29 DEF ReadCommand
<1>30. CASE TryWait
  BY <1>0, <1>30 DEF TryWait, IsPath1
<1>31. CASE WaitXGkick
  BY <1>0, <1>31 DEF WaitXGkick
<1>32. CASE Transfer
  BY <1>0, <1>32 DEF Transfer
<1>33. CASE PopGSPacketMTVU
  BY <1>0, <1>33 DEF PopGSPacketMTVU
<1>34. CASE AdvanceReadPos
  BY <1>0, <1>34 DEF AdvanceReadPos
<1>35. CASE UNCHANGED vars
  BY <1>0, <1>35 DEF vars
<1> QED
  BY <1>1, <1>2, <1>3, <1>4, <1>5, <1>6, <1>7, <1>8, <1>9, <1>10, <1>11, <1>12,
     <1>13, <1>14, <1>15, <1>16, <1>17, <1>18, <1>19, <1>20, <1>21, <1>22,
     <1>23, <1>24, <1>25, <1>26, <1>27, <1>28, <1>29, <1>30, <1>31, <1>32,
     <1>33, <1>34, <1>35
     DEF Next, EEStep, VUStep, GSStep

\* A program finds room for itself when there is nothing to be read.
LEMMA RoomWhenRead ==
  ASSUME Layout, CutIsShort, queue = <<>>, gs # "pop"
  PROVE  ~MustWait
<1>1. Shape
  BY DEF Layout
<1>2. PICK T : Stream(T)
  BY DEF Layout
<1>3. CASE vu \notin {"realign", "copy"}
  BY <1>3 DEF MustWait
<1>4. ASSUME vu \in {"realign", "copy"} PROVE ~MustWait
  <2> DEFINE room == Offset - Unread
             o == gsPack.offset
             read == gsPack.read
  <2>1. room = o - read
    <3> DEFINE t == T[Last]
    <3>1. Len(queue) = 0 /\ Last = 1
      BY DEF Last
    <3>2. Reader(T) = t
      BY <3>1 DEF Reader
    <3>3. room = Reader(T) - OwnBase(T) /\ t \in Int
      BY <1>1, <1>2, <1>4, RoomIs, ReaderFacts
    <3>4. OwnBase(T) = t + read - o /\ o \in Nat /\ read \in Nat
      BY <1>1, ShapeFacts DEF OwnBase
    <3> HIDE DEF t, o, read, room
    <3> QED
      BY <3>2, <3>3, <3>4
  <2>2. o = Offset /\ o \in Nat /\ read \in Nat
    BY <1>1, ShapeFacts
  <2>3. CASE vu = "realign"
    <3>1. /\ Offset > MaxProgram /\ gsPack.read = 0 /\ total - want \in Nat
          /\ total - want <= MaxProgram
          /\ CanRealign <=> Offset - Unread >= total - want
      BY <1>1, <2>3, RealignFacts
    <3>2. room >= total - want
      <4> DEFINE toAdd == total - want
      <4>1. toAdd \in Nat /\ toAdd <= MaxProgram /\ o > MaxProgram /\ read = 0
        BY <2>2, <3>1
      <4> HIDE DEF toAdd, o, read, room
      <4>2. room >= toAdd
        BY <2>1, <2>2, <4>1, Sizes
      <4> QED
        BY <4>2 DEF toAdd
    <3> QED
      BY <2>3, <3>1, <3>2 DEF MustWait
  <2>4. CASE vu = "copy"
    <3>1. /\ curSize \in Nat /\ want \in Nat /\ total \in Nat /\ total <= MaxProgram
          /\ curSize = o + total - want
      BY <1>1, <2>2, ShapeFacts, Sizes DEF Shape
    <3>2. read > 0 => o = 0 /\ read + MaxProgram < BuffLimit
      BY DEF CutIsShort
    <3>3. room >= 0 \/ BuffLimit + room > curSize + want
      <4> HIDE DEF o, read, room
      <4> QED
        BY <2>1, <2>2, <3>1, <3>2, Sizes
    <3> QED
      BY <2>4, <3>3 DEF MustWait, CanCopy
  <2> QED
    BY <1>4, <2>3, <2>4
<1> QED
  BY <1>3, <1>4

\* The threads do not wait for one another in a circle.  The GS thread waits on
\* semaXGkick only for a program that the MTVU thread is at or is told of, or is told
\* of by the EE's next step, and never while that thread waits for room.  The MTVU
\* thread waits for room only when a packet is left to be read.  Who waits for an
\* empty queue is answered, and who is stalled on a full ring has woken its reader.
\* (Not said: that the GS thread hears of the packet left to be read; see Unheard.)
NoMutualWait ==
  /\ gs = "wait" /\ xgkick = 0 => ~MustWait /\ (VUAtWork \/ ee = "kickVU")
  /\ MustWait => queue # <<>>
  /\ VUAnswers /\ GSAnswers /\ StallHeard

WaitInv == PackInv /\ (~lost => Told /\ VUAnswers /\ GSAnswers /\ StallHeard /\ CutIsShort)

LEMMA WaitInitially == Init => WaitInv
<1> SUFFICES ASSUME Init PROVE WaitInv
  OBVIOUS
<1>1. programs = 0 /\ ee = "run" /\ gsPack = Pack(0)
  BY DEF Init
<1>2. Told /\ VUAnswers /\ GSAnswers /\ StallHeard /\ CutIsShort
  BY <1>1 DEF Told, One, VUAnswers, GSAnswers, StallHeard, CutIsShort, Pack
<1> QED
  BY <1>2, PackInitially DEF WaitInv

LEMMA WaitStep == WaitInv /\ [Next]_vars => WaitInv'
<1> SUFFICES ASSUME WaitInv, [Next]_vars PROVE WaitInv'
  OBVIOUS
<1>1. PackInv'
  BY PackStep DEF WaitInv
<1>2. ASSUME ~lost' PROVE (Told /\ VUAnswers /\ GSAnswers /\ StallHeard /\ CutIsShort)'
  <2>1. ~lost
    BY <1>2, Ended DEF WaitInv, PackInv, IInv
  <2>2. Core /\ Layout /\ Told /\ VUAnswers /\ GSAnswers /\ StallHeard /\ CutIsShort
    BY <2>1 DEF WaitInv, PackInv, IInv
  <2> QED
    BY <1>2, <2>2, NextTold, NextVUAnswers, NextGSAnswers, NextStallHeard,
       NextCutIsShort
<1> QED
  BY <1>1, <1>2 DEF WaitInv

\* Weak wait, semaXGkick, WaitVU, WaitGS and GenericStall: nobody waits for a thread
\* that waits for it (Gif_MTGS_Wait, MainLoop, VU_Thread::WaitVU).
THEOREM WaitsSafe == Spec => []NoMutualWait
<1>1. WaitInv => NoMutualWait
  <2> SUFFICES ASSUME WaitInv PROVE NoMutualWait
    OBVIOUS
  <2>1. CASE lost
    <3>1. NothingLeft
      BY <2>1 DEF WaitInv, PackInv, End
    <3> QED
      BY <3>1 DEF NothingLeft, NoMutualWait, MustWait, VUAnswers, GSAnswers, StallHeard
  <2>2. CASE ~lost
    <3>1. Core /\ Numbers /\ Layout
      BY <2>2 DEF WaitInv, PackInv, IInv
    <3>2. Told /\ VUAnswers /\ GSAnswers /\ StallHeard /\ CutIsShort
      BY <2>2 DEF WaitInv
    <3>3. MustWait => queue # <<>>
      BY <3>1, <3>2, SomethingToPop, RoomWhenRead
    <3>4. ASSUME gs = "wait", xgkick = 0 PROVE ~MustWait /\ (VUAtWork \/ ee = "kickVU")
      <4>1. Len(queue) = One(vu = "post") /\ One(vu = "post") \in {0, 1}
        BY <3>1, <3>4 DEF Core, Tokens, One
      <4>2. ~MustWait
        <5>1. vu \in {"realign", "copy"} => queue = <<>>
          BY <3>1, <4>1, QueueFacts DEF One
        <5> QED
          BY <3>3, <5>1 DEF MustWait
      <4>3. /\ fakePackets + Count("path1") = programs
            /\ programs \in Nat /\ fakePackets \in Int
        <5>1. One(gs = "advance" /\ Head(fifo) = "path1") = 0
          BY <3>4 DEF One
        <5>2. fakePackets + Count("path1") - 0 = One(vu = "post") + programs - One(vu = "post")
          BY <3>1, <4>1, <5>1 DEF Core, Announced
        <5>3. Count("path1") \in Nat /\ programs \in Nat /\ fakePackets \in Int
          BY <3>1, CountIs DEF Core, Typed
        <5> QED
          BY <4>1, <5>2, <5>3
      <4>4. Count("path1") \in Nat /\ Count("path1") >= 1
        <5>1. fifo \in Seq(Commands) /\ fifo # <<>> /\ Head(fifo) = "path1"
          BY <3>1, <3>4 DEF Core, Typed, InHand
        <5>2. Cardinality(Marks(Tail(fifo))) = Cardinality(Marks(fifo)) - 1
          BY <5>1, MarksOfTail DEF One
        <5>3. Tail(fifo) \in Seq(Commands)
          BY <5>1
        <5>4. Cardinality(Marks(Tail(fifo))) \in Nat /\ Cardinality(Marks(fifo)) \in Nat
          BY <5>1, <5>3, MarksFinite
        <5>5. Count("path1") = Cardinality(Marks(fifo))
          BY DEF Count, Marks
        <5> QED
          BY <5>2, <5>4, <5>5
      <4>5. CASE ~VUAtWork /\ ee # "kickVU"
        <5>1. fakePackets >= 0
          BY <3>1 DEF Numbers, Announcing
        <5>2. programs >= 1
          BY <4>3, <4>4, <5>1
        <5>3. ~(programs > One(ToKick))
          BY <3>2, <4>5 DEF Told
        <5>4. ToKick /\ programs = 1
          BY <4>3, <5>2, <5>3 DEF One
        <5>5. ee \in {"send", "stall"} /\ cmd = "path1"
          BY <3>2, <4>5, <5>4 DEF Told, ToKick
        <5>6. fakePackets > 0
          BY <3>1, <5>5 DEF Numbers, Announcing
        <5> QED
          BY <4>3, <4>4, <5>4, <5>6
      <4> QED
        BY <4>2, <4>5
    <3> QED
      BY <3>2, <3>3, <3>4 DEF NoMutualWait
  <2> QED
    BY <2>1, <2>2
<1> QED
  BY <1>1, WaitInitially, WaitStep, PTL DEF Spec

=============================================================================
