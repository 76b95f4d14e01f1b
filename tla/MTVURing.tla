------------------------------ MODULE MTVURing ------------------------------
(***************************************************************************)
(* The ring of 32-bit words through which the EE hands VU1 programs and    *)
(* data to the MTVU thread (VU_Thread, pcsx2/MTVU.h and MTVU.cpp).         *)
(*                                                                         *)
(* A packet is contiguous: one that does not fit before the end of the     *)
(* buffer is preceded by a NULL packet that sends the reader back to 0.    *)
(* Each access to a position the other thread uses is a step; what a       *)
(* thread does to words that are its own is part of the step after it.     *)
(* The WorkSema semaEvent is module WorkEvent.                             *)
(***************************************************************************)
EXTENDS Integers, Sequences

CONSTANTS
  BufferSize,   \* words in the ring
  Margin,       \* the 4KB safety net of WaitOnSize, in words
  Sizes,        \* words of the packets the EE sends
  IdMod         \* packets are numbered modulo this

\* No packet that may have to wrap is longer than the safety net: an unpack is
\* at most some 1100 words, an upload of a micro program 515, the net 4096.
\* (Loading a state sends 4099 words at once, but right after a Reset.)
ASSUME MTVURingAssumption ==
  /\ BufferSize \in Nat /\ Margin \in Nat /\ IdMod \in Nat \ {0}
  /\ Sizes \subseteq 1..(Margin + 2) /\ Margin + 2 < BufferSize

VARIABLES
  buffer,
  readPos,     \* m_ato_read_pos; the reader's own m_read_pos is the same
               \* whenever it looks at a packet
  writePos,    \* m_ato_write_pos; likewise for m_write_pos
  event, emptyFlag, emptyToken,   \* semaEvent
  ee, size,    \* the EE thread, and the packet it wants to write
  nextId,
  vu,          \* the MTVU thread
  pending,     \* history: packets written and not yet executed, in order
  overrun      \* history: has the EE come round to a reader at position 0?

Event == INSTANCE WorkEvent

ringVars == <<buffer, readPos, writePos, pending, overrun>>
eventVars == <<event, emptyFlag, emptyToken>>
eeVars == <<ee, size, nextId>>
vars == <<ringVars, eventVars, eeVars, vu>>

-----------------------------------------------------------------------------
\* A word carries what its packet is, to tell every word from every other.
Word(id, n, i) == <<id, n, i>>
NULL_PACKET == Word(IdMod, 1, 0)

\* What an executed packet leaves: words that nobody reads again.
Free == Word(IdMod, 1, 1)

\* A packet of n words at p.
Record(p, n, id) == [pos |-> p, size |-> n, id |-> id]

Init ==
  /\ buffer = [i \in 0..(BufferSize - 1) |-> Free]
  /\ readPos = 0 /\ writePos = 0
  /\ Event!Init
  /\ ee = "run" /\ size = 0 /\ nextId = 0
  /\ vu = "look"
  /\ pending = <<>> /\ overrun = FALSE

-----------------------------------------------------------------------------
(* The EE thread.                                                          *)

\* Defect: room for the packet, none for the NULL packet after it.
NeedsWrapTooLate(n) == writePos + n > BufferSize

\* The last word is kept for a NULL packet.
NeedsWrap(n) == writePos + n > BufferSize - 1

\* Defect: the packet may end where the reader is.
RoomToTheEdge(n) == readPos <= writePos \/ readPos >= writePos + n

\* Defect: a reader that has caught up is waited for.
RoomBehindOnly(n) == readPos < writePos \/ readPos > writePos + n + Margin

\* WaitOnSize may return: the reader is behind, or far enough ahead.
RoomFor(n) == readPos <= writePos \/ readPos > writePos + n + Margin

\* ExecuteVU, VifUnpack and the Write functions, up to their first look at the
\* reader.
Request(n) ==
  /\ ee = "run"
  /\ size' = n
  /\ ee' = IF NeedsWrap(n) THEN "wrap" ELSE "room"
  /\ UNCHANGED <<nextId, vu, ringVars, eventVars>>

\* WaitOnSize goes round: it kicks the reader and looks again.
WaitOnSize ==
  /\ \/ ee = "wrap" /\ ~RoomFor(1)
     \/ ee = "room" /\ ~RoomFor(size)
  /\ Event!NotifyOfWork
  /\ UNCHANGED <<vu, eeVars, ringVars>>

\* WaitOnSize finds room, by a position that the reader may leave before the
\* words are written.  After an overrun they would go over packets that the
\* reader then takes for commands: the model ends there.
FindRoom ==
  /\ \/ ee = "wrap" /\ RoomFor(1) /\ ee' = "wrapWrite"
     \/ ee = "room" /\ ~overrun /\ RoomFor(size) /\ ee' = "write"
  /\ UNCHANGED <<size, nextId, vu, ringVars, eventVars>>

\* ReserveSpace at the end of the buffer.
Wrap ==
  /\ ee = "wrapWrite"
  /\ buffer' = [buffer EXCEPT ![writePos] = NULL_PACKET]
  /\ pending' = Append(pending, Record(writePos, 1, IdMod))
  /\ writePos' = 0
  /\ overrun' = (readPos = 0)
  /\ ee' = "room"
  /\ UNCHANGED <<readPos, size, nextId, vu, eventVars>>

\* Defect: the reader is not told.
WriteWithoutKick ==
  /\ ee = "write"
  /\ buffer' = [i \in DOMAIN buffer |->
                  IF i \in writePos..(writePos + size - 1)
                  THEN Word(nextId, size, i - writePos) ELSE buffer[i]]
  /\ pending' = Append(pending, Record(writePos, size, nextId))
  /\ writePos' = writePos + size
  /\ nextId' = (nextId + 1) % IdMod
  /\ ee' = "run" /\ size' = 0
  /\ UNCHANGED <<readPos, overrun, vu, eventVars>>

\* The words, and CommitWritePos.
Write ==
  /\ ee = "write"
  /\ buffer' = [i \in DOMAIN buffer |->
                  IF i \in writePos..(writePos + size - 1)
                  THEN Word(nextId, size, i - writePos) ELSE buffer[i]]
  /\ pending' = Append(pending, Record(writePos, size, nextId))
  /\ writePos' = writePos + size
  /\ nextId' = (nextId + 1) % IdMod
  /\ ee' = "kick" /\ size' = 0
  /\ UNCHANGED <<readPos, overrun, vu, eventVars>>

KickStart ==
  /\ ee = "kick"
  /\ Event!NotifyOfWork
  /\ ee' = "run"
  /\ UNCHANGED <<size, nextId, vu, ringVars>>

\* WaitVU.  "waited" is where its callers go on: they read VU1's memory and
\* registers, save them, change them, or Reset.
WaitVU ==
  /\ ee = "run"
  /\ \/ Event!IsIdle /\ ee' = "waited" /\ UNCHANGED eventVars
     \/ Event!WaitForEmpty /\ ee' = "emptyWait"
  /\ UNCHANGED <<size, nextId, vu, ringVars>>

EmptyWake ==
  /\ ee = "emptyWait"
  /\ Event!EmptyWake
  /\ ee' = "waited"
  /\ UNCHANGED <<size, nextId, vu, ringVars>>

Waited ==
  /\ ee = "waited"
  /\ ee' = "run"
  /\ UNCHANGED <<size, nextId, vu, ringVars, eventVars>>

Reset ==
  /\ ee = "waited"
  /\ readPos' = 0 /\ writePos' = 0
  /\ pending' = <<>>
  /\ ee' = "run"
  /\ UNCHANGED <<buffer, overrun, size, nextId, vu, eventVars>>

-----------------------------------------------------------------------------
(* The MTVU thread, ExecuteRingBuffer.                                     *)

WaitForWork ==
  /\ vu = "look"
  /\ \/ Event!IdleLook("parked") /\ vu' = "parked"
     \/ Event!BusyLook /\ vu' = "drain"
  /\ UNCHANGED <<eeVars, ringVars>>

Awake ==
  /\ vu = "parked"
  /\ Event!BusyLook
  /\ vu' = "drain"
  /\ UNCHANGED <<eeVars, ringVars>>

\* Until it commits its position the thread is at work on the packet there.
ReadTag ==
  /\ vu = "drain"
  /\ vu' = IF readPos # writePos THEN "exec" ELSE "look"
  /\ UNCHANGED <<eeVars, eventVars, ringVars>>

\* CommitReadPos, after the packet or the NULL packet.
CommitReadPos ==
  /\ vu = "exec"
  /\ buffer' = [i \in DOMAIN buffer |->
                  IF i \in readPos..(readPos + buffer[readPos][2] - 1)
                  THEN Free ELSE buffer[i]]
  /\ readPos' = IF buffer[readPos] = NULL_PACKET
                THEN 0 ELSE readPos + buffer[readPos][2]
  /\ pending' = Tail(pending)
  /\ vu' = "drain"
  /\ UNCHANGED <<writePos, overrun, eeVars, eventVars>>

-----------------------------------------------------------------------------
EEStep ==
  \/ WaitOnSize \/ FindRoom \/ Wrap \/ Write \/ KickStart
  \/ EmptyWake \/ Waited \/ Reset

VUStep == WaitForWork \/ Awake \/ ReadTag \/ CommitReadPos

Next == (\E n \in Sizes : Request(n)) \/ WaitVU \/ EEStep \/ VUStep

\* Both threads run when they can; the EE need not ask for anything.
Spec == Init /\ [][Next]_vars /\ WF_vars(EEStep) /\ WF_vars(VUStep)

-----------------------------------------------------------------------------
(* Properties.                                                             *)

\* Where the packet after p begins, for a reader that finds p intact.
After(p) == IF p.id = IdMod THEN 0 ELSE p.pos + p.size

Intact(p) ==
  \A i \in 0..(p.size - 1) : buffer[p.pos + i] = Word(p.id, p.size, i)

\* Every variable has its type, and no position leaves the buffer (the
\* assertions on m_write_pos).
TypeOK ==
  /\ buffer \in [0..(BufferSize - 1) ->
                   (0..IdMod) \X (1..BufferSize) \X (0..BufferSize)]
  /\ readPos \in 0..(BufferSize - 1)
  /\ writePos \in 0..(BufferSize - 1)
  /\ event \in {"parked", "running0", "runningN"}
  /\ emptyFlag \in BOOLEAN /\ emptyToken \in 0..1
  /\ ee \in {"run", "wrap", "wrapWrite", "room", "write", "kick", "emptyWait",
             "waited"}
  /\ size \in Sizes \cup {0}
  /\ nextId \in 0..(IdMod - 1)
  /\ vu \in {"look", "parked", "drain", "exec"}
  /\ \A k \in DOMAIN pending :
       /\ pending[k].pos \in 0..(BufferSize - 1)
       /\ pending[k].size \in 1..BufferSize
       /\ pending[k].id \in 0..IdMod
  /\ overrun \in BOOLEAN

\* "ring-buffer has no complete pending packets when read_pos==write_pos"
EmptyMeansEmpty == readPos = writePos => pending = <<>>

\* No packet is overwritten before it is executed, and from where the reader is
\* it finds them all, in order, each behind the last, up to where the writer
\* is; and the ring never looks empty with packets pending -- as long as the EE
\* has not come round to a reader at position 0.
PendingIntact ==
  overrun \/
  LET at(k) == IF k = 1 THEN readPos ELSE After(pending[k - 1]) IN
  /\ \A k \in DOMAIN pending : Intact(pending[k]) /\ pending[k].pos = at(k)
  /\ writePos = at(Len(pending) + 1)
  /\ EmptyMeansEmpty

\* WaitVU returns with everything executed, the reader off the ring and the
\* positions equal (the assertion IsDone of mtvuFreeze and gifFreeze).
WaitVUDrains ==
  ee = "waited" => pending = <<>> /\ readPos = writePos /\ vu # "exec"

\* The EE does not wait for room for ever: not for a reader that has caught up,
\* nor for one it has caught up with.
RoomComes == ee \in {"wrap", "room"} ~> overrun \/ ee = "kick"
=============================================================================
