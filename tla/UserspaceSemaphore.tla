------------------------- MODULE UserspaceSemaphore -------------------------
(***************************************************************************)
(* Threading::UserspaceSemaphore (common/Threading.h, Semaphore.cpp): a    *)
(* counting semaphore whose fast path is one atomic counter, negative      *)
(* while threads are blocked in the kernel semaphore behind it.            *)
(*                                                                         *)
(* Threads are symmetric, so those inside a call are counted, not named:   *)
(* `blocked` of them are in m_sema.Wait, `spinning` in the loop of         *)
(* WaitWithSpin, and the threads inside Post together still owe `owed`     *)
(* kernel posts.                                                           *)
(***************************************************************************)
EXTENDS Integers

CONSTANTS MaxPosted,   \* bound: units ever posted
          MaxThreads   \* bound: threads blocked or spinning at once

ASSUME UserspaceSemaphoreAssumption == MaxPosted \in Nat /\ MaxThreads \in Nat

VARIABLES counter,   \* m_counter
          sema,      \* m_sema
          owed,      \* kernel posts that threads in Post have still to make
          blocked,   \* threads in m_sema.Wait
          spinning,  \* threads in the spin loop of WaitWithSpin
          posted,    \* history: units posted
          acquired   \* history: units that a wait returned with

vars == <<counter, sema, owed, blocked, spinning, posted, acquired>>

Init ==
  /\ counter = 0 /\ sema = 0 /\ owed = 0
  /\ blocked = 0 /\ spinning = 0
  /\ posted = 0 /\ acquired = 0

Smaller(a, b) == IF a < b THEN a ELSE b

\* fetch_add: it owes one kernel post to each blocked thread it can serve.
AddUnits(n) ==
  /\ posted + n <= MaxPosted
  /\ counter' = counter + n
  /\ posted' = posted + n
  /\ UNCHANGED <<sema, blocked, spinning, acquired>>

\* Defect: a post to the kernel although nobody is blocked.
PostAtZero ==
  /\ AddUnits(1)
  /\ owed' = IF counter <= 0 THEN owed + 1 ELSE owed

\* Defect: the last blocked thread is forgotten.
PostForgetsLast ==
  /\ AddUnits(1)
  /\ owed' = IF counter < -1 THEN owed + 1 ELSE owed

Post ==
  /\ AddUnits(1)
  /\ owed' = IF counter < 0 THEN owed + 1 ELSE owed

\* Defect: the sign of the counter.
PostManyNegative(count) ==
  /\ count > 0
  /\ AddUnits(count)
  /\ owed' = IF counter < 0 THEN owed + Smaller(count, counter) ELSE owed

\* Post(int count); a count of zero or less returns at once.
PostMany(count) ==
  /\ count > 0
  /\ AddUnits(count)
  /\ owed' = IF counter < 0 THEN owed + Smaller(count, -counter) ELSE owed

KernelPost ==
  /\ owed > 0
  /\ owed' = owed - 1
  /\ sema' = sema + 1
  /\ UNCHANGED <<counter, blocked, spinning, posted, acquired>>

\* fetch_sub, and the kernel when there was nothing to take.
TakeOrBlock ==
  /\ counter' = counter - 1
  /\ IF counter <= 0
       THEN blocked' = blocked + 1 /\ UNCHANGED acquired
       ELSE acquired' = acquired + 1 /\ UNCHANGED blocked

Wait ==
  /\ blocked + spinning < MaxThreads
  /\ TakeOrBlock
  /\ UNCHANGED <<sema, owed, spinning, posted>>

KernelWait ==
  /\ blocked > 0 /\ sema > 0
  /\ blocked' = blocked - 1
  /\ sema' = sema - 1
  /\ acquired' = acquired + 1
  /\ UNCHANGED <<counter, owed, spinning, posted>>

\* A TryWait that finds no unit changes nothing and is not a step.
TryWait ==
  /\ counter > 0
  /\ counter' = counter - 1
  /\ acquired' = acquired + 1
  /\ UNCHANGED <<sema, owed, blocked, spinning, posted>>

SpinBegin ==
  /\ blocked + spinning < MaxThreads
  /\ spinning' = spinning + 1
  /\ UNCHANGED <<counter, sema, owed, blocked, posted, acquired>>

SpinTake ==
  /\ spinning > 0
  /\ counter > 0
  /\ counter' = counter - 1
  /\ spinning' = spinning - 1
  /\ acquired' = acquired + 1
  /\ UNCHANGED <<sema, owed, blocked, posted>>

\* The spin window expired: from here it is a plain Wait.
SpinTimeout ==
  /\ spinning > 0
  /\ spinning' = spinning - 1
  /\ TakeOrBlock
  /\ UNCHANGED <<sema, owed, posted>>

Next ==
  \/ Post
  \/ \E count \in 1..MaxPosted : PostMany(count)
  \/ KernelPost \/ Wait \/ KernelWait \/ TryWait
  \/ SpinBegin \/ SpinTake \/ SpinTimeout

\* A thread inside Post finishes it, a blocked thread with a token wakes, and a
\* spinning thread leaves its loop one way or the other.
Spec ==
  /\ Init /\ [][Next]_vars
  /\ WF_vars(KernelPost) /\ WF_vars(KernelWait)
  /\ WF_vars(SpinTake \/ SpinTimeout)

-----------------------------------------------------------------------------
(* Properties.                                                             *)

\* The counter may be negative, nothing else is.
TypeOK ==
  /\ counter \in Int
  /\ sema \in Nat /\ owed \in Nat
  /\ blocked \in Nat /\ spinning \in Nat
  /\ blocked + spinning <= MaxThreads
  /\ posted \in 0..MaxPosted /\ acquired \in Nat

\* Units are conserved: the counter and the threads it has sent to the kernel
\* account for exactly what was posted and not yet acquired.
Conservation == counter + blocked = posted - acquired

\* Every blocked thread the counter no longer reserves a place for has a kernel
\* token, made or owed, and no other token exists.  A thread that takes a unit
\* in user space (counter > 0) therefore never takes one from a blocked thread.
TokensMatch ==
  sema + owed = IF counter < 0 THEN blocked + counter ELSE blocked

\* It is a semaphore: no wait returns without a unit of its own.
NeverOverdrawn == acquired <= posted

\* Both: a unit goes to one wait, and a blocked thread gets the unit it is owed.
CountsUnits == TokensMatch /\ NeverOverdrawn

IInv == TypeOK /\ Conservation /\ TokensMatch

\* Units and threads blocked for them do not stay apart, whoever else spins,
\* tries or posts in batches meanwhile.
UnitsReachWaiters == []<>(blocked = 0 \/ acquired = posted)
=============================================================================
