---------------------- MODULE UserspaceSemaphoreProofs ----------------------
(***************************************************************************)
(* UserspaceSemaphore is a counting semaphore for every number of threads  *)
(* and every batch size.                                                   *)
(***************************************************************************)
EXTENDS UserspaceSemaphore, TLAPS

LEMMA InitIInv == Init => IInv
BY UserspaceSemaphoreAssumption DEF Init, IInv, TypeOK, Conservation, TokensMatch

\* The two conjuncts of the invariant are coupled: a fetch_add or fetch_sub
\* moves the counter across zero, and what it owes or blocks makes up for it.
LEMMA NextIInv == IInv /\ [Next]_vars => IInv'
<1> SUFFICES ASSUME IInv, [Next]_vars PROVE IInv'
  OBVIOUS
<1> USE UserspaceSemaphoreAssumption DEF IInv, TypeOK, Conservation, TokensMatch
<1>1. CASE Post
  BY <1>1 DEF Post, AddUnits
<1>2. ASSUME NEW count \in 1..MaxPosted, PostMany(count) PROVE IInv'
  BY <1>2 DEF PostMany, AddUnits, Smaller
<1>3. CASE KernelPost
  BY <1>3 DEF KernelPost
<1>4. CASE Wait
  BY <1>4 DEF Wait, TakeOrBlock
<1>5. CASE KernelWait
  BY <1>5 DEF KernelWait
<1>6. CASE TryWait
  BY <1>6 DEF TryWait
<1>7. CASE SpinBegin
  BY <1>7 DEF SpinBegin
<1>8. CASE SpinTake
  BY <1>8 DEF SpinTake
<1>9. CASE SpinTimeout
  BY <1>9 DEF SpinTimeout, TakeOrBlock
<1>10. CASE UNCHANGED vars
  BY <1>10 DEF vars
<1> QED
  BY <1>1, <1>2, <1>3, <1>4, <1>5, <1>6, <1>7, <1>8, <1>9, <1>10 DEF Next

\* A wait returns only with a unit that was posted and that no other wait took.
LEMMA EnoughPosted == IInv => NeverOverdrawn
BY DEF IInv, TypeOK, Conservation, TokensMatch, NeverOverdrawn

\* The inductive invariant holds in every reachable state.
THEOREM Invariance == Spec => []IInv
BY InitIInv, NextIInv, PTL DEF Spec

\* Every variable of the semaphore always has its type.
THEOREM TypeCorrect == Spec => []TypeOK
BY Invariance, PTL DEF IInv

\* The kernel tokens are exactly those of the blocked threads, so a thread that
\* takes a unit in user space never takes it from a blocked one.
THEOREM TokensAlwaysMatch == Spec => []TokensMatch
BY Invariance, PTL DEF IInv

\* No more waits return than units were posted.
THEOREM IsASemaphore == Spec => []NeverOverdrawn
BY Invariance, EnoughPosted, PTL

\* It is a counting semaphore.
THEOREM CountsItsUnits == Spec => []CountsUnits
BY TokensAlwaysMatch, IsASemaphore, PTL DEF CountsUnits
=============================================================================
