--------------------------- MODULE WorkSemaProofs ---------------------------
(***************************************************************************)
(* WorkSema keeps its promises for every set of producers and every amount *)
(* of work: the inductive invariant, the invariants it implies, the safety *)
(* part of the refinement of WorkQueue and the refinement of WorkEvent.    *)
(***************************************************************************)
EXTENDS WorkSema, TLAPS

\* A value the state word can have.
Word(v) ==
  /\ v \in Int
  /\ INT_MIN <= v /\ v <= INT_MAX
  /\ IsDead(v) => v < INT_MIN + STATE_FLAG_WAITING_EMPTY

\* The three negative states are distinct and outside the running ones.
LEMMA WordConstants ==
  /\ STATE_SPINNING \in Int /\ STATE_SPINNING < 0 /\ ~IsDead(STATE_SPINNING)
  /\ STATE_SLEEPING \in Int /\ STATE_SLEEPING < 0 /\ ~IsDead(STATE_SLEEPING)
  /\ STATE_SPINNING # STATE_SLEEPING
  /\ IsDead(INT_MIN) /\ INT_MIN < 0
  /\ \A v \in Int : v >= 0 \/ v \in {STATE_SPINNING, STATE_SLEEPING} \/
     IsDead(v)
  /\ \A v \in Int : IsDead(v) => v < 0 /\ v \notin {STATE_SPINNING,
     STATE_SLEEPING}
  /\ Word(INT_MIN) /\ Word(STATE_SPINNING) /\ Word(STATE_SLEEPING) /\ Word(0)
BY Z3 DEF Word, IsDead, INT_MIN, INT_MAX, STATE_SPINNING, STATE_SLEEPING,
   STATE_FLAG_WAITING_EMPTY

\* SPINNING and SLEEPING never look ready; the empty running word does.
LEMMA NamedWords ==
  /\ ~IsReadyForSleep(STATE_SLEEPING)
  /\ ~IsReadyForSleep(STATE_SPINNING)
  /\ IsReadyForSleep(0)
  /\ ~FlagSet(0)
BY Z3 DEF IsReadyForSleep, LowBits, FlagSet, STATE_SLEEPING, STATE_SPINNING,
   STATE_FLAG_WAITING_EMPTY, STATE_RUNNING_0

\* What the masks make of a running word.
LEMMA RunningWord ==
  ASSUME NEW v \in Int, v >= 0, Word(v)
  PROVE  /\ Word(AndFlag(v)) /\ AndFlag(v) >= 0
         /\ IsReadyForSleep(AndFlag(v))
         /\ FlagSet(AndFlag(v)) <=> FlagSet(v)
         /\ Word(LowBits(v) + STATE_FLAG_WAITING_EMPTY)
         /\ LowBits(v) + STATE_FLAG_WAITING_EMPTY >= 0
         /\ FlagSet(LowBits(v) + STATE_FLAG_WAITING_EMPTY)
         /\ IsReadyForSleep(LowBits(v) + STATE_FLAG_WAITING_EMPTY)
              <=> IsReadyForSleep(v)
BY Z3 DEF Word, IsReadyForSleep, LowBits, FlagSet, AndFlag, IsDead, INT_MIN,
   INT_MAX, STATE_FLAG_WAITING_EMPTY, STATE_RUNNING_0, STATE_SPINNING

\* A dead word carries no flag.
LEMMA DeadWord ==
  ASSUME NEW v \in Int, Word(v), IsDead(v)
  PROVE  ~FlagSet(v)
BY Z3 DEF Word, FlagSet, IsDead, INT_MIN, INT_MAX, STATE_FLAG_WAITING_EMPTY,
   STATE_SPINNING

\* What a notification makes of each kind of word: it never kills, revives,
\* sets or clears the flag, and a running word no longer looks ready.
LEMMA NotifiedWord ==
  ASSUME NEW v \in Int, Word(v), NotifyFits(v)
  PROVE  /\ Word(v + 2)
         /\ IsDead(v + 2) <=> IsDead(v)
         /\ ~IsDead(v) => v + 2 >= 0
         /\ v >= 0 => (FlagSet(v + 2) <=> FlagSet(v))
         /\ v \in {STATE_SPINNING, STATE_SLEEPING} => ~FlagSet(v + 2)
         /\ v # STATE_SPINNING => ~IsReadyForSleep(v + 2)
BY Z3 DEF Word, NotifyFits, IsReadyForSleep, LowBits, FlagSet, IsDead,
   INT_MIN,
   INT_MAX, STATE_FLAG_WAITING_EMPTY, STATE_RUNNING_0, STATE_SPINNING,
   STATE_SLEEPING

-----------------------------------------------------------------------------
LEMMA InitIInv == Init => IInv
BY WorkSemaAssumption, WordConstants, NamedWords, SMT
   DEF Init, IInv, TypeOK, WordMatchesWorker, SleepTokens, EmptyTokens,
   NoWorkForgotten, HonestEmpty, WakeIsHonest, Counting, Posting, Parking,
   WaitingEmpty, AllDone, AfterPost, STATE_RUNNING_0, Word

\* Every step keeps the inductive invariant.
LEMMA NextIInv == IInv /\ [Next]_vars => IInv'
<1> SUFFICES ASSUME IInv, [Next]_vars PROVE IInv'
  OBVIOUS
<1> USE WorkSemaAssumption, WordConstants, NamedWords
<1> USE DEF IInv, Posting, Parking, WaitingEmpty, AllDone, AfterPost,
      STATE_RUNNING_0, queueVars, waitVars
<1>0. Word(state)
  BY DEF Word, TypeOK
<1>1. ASSUME NEW p \in Producers, Push(p) PROVE IInv'
  BY <1>1, SMTT(20) DEF Push, TypeOK, WordMatchesWorker, SleepTokens,
     EmptyTokens, NoWorkForgotten, HonestEmpty, WakeIsHonest, Counting
<1>2. ASSUME NEW p \in Producers, NotifyOfWork(p) PROVE IInv'
  <2>1. TypeOK'
    BY <1>2, NotifiedWord, SMTT(20) DEF NotifyOfWork, TypeOK, Word
  <2>2. WordMatchesWorker'
    BY <1>2, <1>0, NotifiedWord, SMTT(20) DEF NotifyOfWork, TypeOK,
       WordMatchesWorker
  <2>3. SleepTokens'
    BY <1>2, SMTT(20) DEF NotifyOfWork, TypeOK, WordMatchesWorker, SleepTokens
  <2>4. EmptyTokens'
    BY <1>2, <1>0, NotifiedWord, SMTT(20) DEF NotifyOfWork, TypeOK,
       EmptyTokens
  <2>5. NoWorkForgotten'
    BY <1>2, <1>0, NotifiedWord, SMTT(20) DEF NotifyOfWork, TypeOK,
       WordMatchesWorker, NoWorkForgotten
  <2>6. HonestEmpty'
    BY <1>2, SMTT(20) DEF NotifyOfWork, HonestEmpty
  <2>7. WakeIsHonest'
    BY <1>2, <1>0, NotifiedWord, SMTT(20) DEF NotifyOfWork, TypeOK,
       WakeIsHonest
  <2>8. Counting'
    BY <1>2, SMTT(20) DEF NotifyOfWork, TypeOK, Counting
  <2> QED
    BY <2>1, <2>2, <2>3, <2>4, <2>5, <2>6, <2>7, <2>8
<1>3. ASSUME NEW p \in Producers, PostSema(p) PROVE IInv'
  BY <1>3, SMTT(20) DEF PostSema, TypeOK, WordMatchesWorker, SleepTokens,
     EmptyTokens, NoWorkForgotten, HonestEmpty, WakeIsHonest, Counting
<1>4. CASE WaitForEmptyAtOnce
  <2>1. TypeOK'
    BY <1>4, SMTT(20) DEF WaitForEmptyAtOnce, Returned, TypeOK
  <2>2. WordMatchesWorker'
    BY <1>4, SMTT(20) DEF WaitForEmptyAtOnce, WordMatchesWorker
  <2>3. SleepTokens'
    BY <1>4, SMTT(20) DEF WaitForEmptyAtOnce, SleepTokens
  <2>4. EmptyTokens'
    BY <1>4, SMTT(20) DEF WaitForEmptyAtOnce, EmptyTokens
  <2>5. NoWorkForgotten'
    BY <1>4, SMTT(20) DEF WaitForEmptyAtOnce, NoWorkForgotten
  <2>6. HonestEmpty'
    BY <1>4, SMTT(20) DEF WaitForEmptyAtOnce, Returned, TypeOK, HonestEmpty,
       NoWorkForgotten
  <2>7. WakeIsHonest'
    BY <1>4, SMTT(20) DEF WaitForEmptyAtOnce, WakeIsHonest
  <2>8. Counting'
    BY <1>4, SMTT(20) DEF WaitForEmptyAtOnce, TypeOK, Counting
  <2> QED
    BY <2>1, <2>2, <2>3, <2>4, <2>5, <2>6, <2>7, <2>8
<1>5. CASE WaitForEmpty
  <2>1. TypeOK'
    BY <1>5, RunningWord, SMTT(20) DEF WaitForEmpty, TypeOK, Word
  <2>2. WordMatchesWorker'
    BY <1>5, <1>0, RunningWord, SMTT(20) DEF WaitForEmpty, TypeOK,
       WordMatchesWorker
  <2>3. SleepTokens'
    BY <1>5, <1>0, RunningWord, SMTT(20) DEF WaitForEmpty, TypeOK, SleepTokens
  <2>4. EmptyTokens'
    BY <1>5, <1>0, RunningWord, SMTT(20) DEF WaitForEmpty, TypeOK, EmptyTokens
  <2>5. NoWorkForgotten'
    BY <1>5, <1>0, RunningWord, SMTT(20) DEF WaitForEmpty, TypeOK,
       NoWorkForgotten
  <2>6. HonestEmpty'
    BY <1>5, SMTT(20) DEF WaitForEmpty, HonestEmpty
  <2>7. WakeIsHonest'
    BY <1>5, <1>0, RunningWord, SMTT(20) DEF WaitForEmpty, TypeOK,
       WakeIsHonest
  <2>8. Counting'
    BY <1>5, SMTT(20) DEF WaitForEmpty, TypeOK, Counting
  <2> QED
    BY <2>1, <2>2, <2>3, <2>4, <2>5, <2>6, <2>7, <2>8
<1>6. CASE EmptyWake
  BY <1>6, SMTT(20) DEF EmptyWake, TypeOK, WordMatchesWorker, SleepTokens,
     EmptyTokens, NoWorkForgotten, HonestEmpty, WakeIsHonest, Counting
<1>7. CASE EmptyReturn
  <2>1. TypeOK'
    BY <1>7, SMTT(20) DEF EmptyReturn, Returned, TypeOK
  <2>2. WordMatchesWorker'
    BY <1>7, SMTT(20) DEF EmptyReturn, WordMatchesWorker
  <2>3. SleepTokens'
    BY <1>7, SMTT(20) DEF EmptyReturn, SleepTokens
  <2>4. EmptyTokens'
    BY <1>7, SMTT(20) DEF EmptyReturn, EmptyTokens
  <2>5. NoWorkForgotten'
    BY <1>7, SMTT(20) DEF EmptyReturn, NoWorkForgotten
  <2>6. HonestEmpty'
    BY <1>7, SMTT(20) DEF EmptyReturn, Returned, HonestEmpty, WakeIsHonest
  <2>7. WakeIsHonest'
    BY <1>7, SMTT(20) DEF EmptyReturn, WakeIsHonest
  <2>8. Counting'
    BY <1>7, SMTT(20) DEF EmptyReturn, Counting
  <2> QED
    BY <2>1, <2>2, <2>3, <2>4, <2>5, <2>6, <2>7, <2>8
<1>8. ASSUME NEW p \in Producers, Process(p) PROVE IInv'
  BY <1>8, SMTT(20) DEF Process, TypeOK, WordMatchesWorker, SleepTokens,
     EmptyTokens, NoWorkForgotten, HonestEmpty, WakeIsHonest, Counting
<1>9. CASE QueueEmpty
  BY <1>9, SMTT(20) DEF QueueEmpty, TypeOK, WordMatchesWorker, SleepTokens,
     EmptyTokens, NoWorkForgotten, HonestEmpty, WakeIsHonest, Counting
<1>10. CASE WaitForWork
  <2>1. TypeOK'
    BY <1>10, RunningWord, SMTT(20) DEF WaitForWork, NextStateWaitForWork,
       BecomeIdle, TypeOK, Word, WordMatchesWorker
  <2>2. WordMatchesWorker'
    BY <1>10, <1>0, RunningWord, SMTT(20) DEF WaitForWork,
       NextStateWaitForWork, BecomeIdle, Word, WordMatchesWorker
  <2>3. SleepTokens'
    BY <1>10, SMTT(20) DEF WaitForWork, NextStateWaitForWork, BecomeIdle,
       SleepTokens
  <2>4. EmptyTokens'
    BY <1>10, <1>0, RunningWord, SMTT(20) DEF WaitForWork,
       NextStateWaitForWork, BecomeIdle, TypeOK, WordMatchesWorker,
          EmptyTokens
  <2>5. NoWorkForgotten'
    BY <1>10, <1>0, RunningWord, SMTT(20) DEF WaitForWork,
       NextStateWaitForWork, BecomeIdle, TypeOK, WordMatchesWorker,
       NoWorkForgotten
  <2>6. HonestEmpty'
    BY <1>10, SMTT(20) DEF WaitForWork, HonestEmpty
  <2>7. WakeIsHonest'
    BY <1>10, <1>0, RunningWord, SMTT(20) DEF WaitForWork,
       NextStateWaitForWork, BecomeIdle, TypeOK, WakeIsHonest,
          WordMatchesWorker,
       NoWorkForgotten, Counting
  <2>8. Counting'
    BY <1>10, SMTT(20) DEF WaitForWork, Counting
  <2> QED
    BY <2>1, <2>2, <2>3, <2>4, <2>5, <2>6, <2>7, <2>8
<1>11. CASE WaitForWorkWithSpin
  <2>1. TypeOK'
    BY <1>11, SMTT(20) DEF WaitForWorkWithSpin, BecomeIdle, TypeOK, Word
  <2>2. WordMatchesWorker'
    BY <1>11, SMTT(20) DEF WaitForWorkWithSpin, BecomeIdle, WordMatchesWorker
  <2>3. SleepTokens'
    BY <1>11, SMTT(20) DEF WaitForWorkWithSpin, BecomeIdle, SleepTokens
  <2>4. EmptyTokens'
    BY <1>11, <1>0, DeadWord, SMTT(20) DEF WaitForWorkWithSpin, BecomeIdle,
       TypeOK, EmptyTokens
  <2>5. NoWorkForgotten'
    BY <1>11, SMTT(20) DEF WaitForWorkWithSpin, BecomeIdle, TypeOK,
       WordMatchesWorker, NoWorkForgotten
  <2>6. HonestEmpty'
    BY <1>11, SMTT(20) DEF WaitForWorkWithSpin, HonestEmpty
  <2>7. WakeIsHonest'
    BY <1>11, SMTT(20) DEF WaitForWorkWithSpin, BecomeIdle, TypeOK,
       WakeIsHonest, WordMatchesWorker, NoWorkForgotten, Counting
  <2>8. Counting'
    BY <1>11, SMTT(20) DEF WaitForWorkWithSpin, Counting
  <2> QED
    BY <2>1, <2>2, <2>3, <2>4, <2>5, <2>6, <2>7, <2>8
<1>12. CASE CheckForWork
  <2>1. TypeOK'
    BY <1>12, RunningWord, SMTT(20) DEF CheckForWork, BecomeIdle, TypeOK,
       Word, WordMatchesWorker
  <2>2. WordMatchesWorker'
    BY <1>12, <1>0, RunningWord, SMTT(20) DEF CheckForWork, BecomeIdle, Word,
       WordMatchesWorker
  <2>3. SleepTokens'
    BY <1>12, SMTT(20) DEF CheckForWork, BecomeIdle, SleepTokens
  <2>4. EmptyTokens'
    BY <1>12, <1>0, RunningWord, SMTT(20) DEF CheckForWork, BecomeIdle,
       TypeOK, WordMatchesWorker, EmptyTokens
  <2>5. NoWorkForgotten'
    BY <1>12, <1>0, RunningWord, SMTT(20) DEF CheckForWork, BecomeIdle,
       TypeOK, WordMatchesWorker, NoWorkForgotten
  <2>6. HonestEmpty'
    BY <1>12, SMTT(20) DEF CheckForWork, HonestEmpty
  <2>7. WakeIsHonest'
    BY <1>12, <1>0, RunningWord, SMTT(20) DEF CheckForWork, BecomeIdle,
       TypeOK, WakeIsHonest, WordMatchesWorker, NoWorkForgotten, Counting
  <2>8. Counting'
    BY <1>12, SMTT(20) DEF CheckForWork, Counting
  <2> QED
    BY <2>1, <2>2, <2>3, <2>4, <2>5, <2>6, <2>7, <2>8
<1>13. CASE PostEmptySema
  BY <1>13, SMTT(20) DEF PostEmptySema, TypeOK, WordMatchesWorker,
     SleepTokens, EmptyTokens, NoWorkForgotten, HonestEmpty, WakeIsHonest,
     Counting
<1>14. CASE SpinSeesWork
  BY <1>14, SMTT(20) DEF SpinSeesWork, TypeOK, WordMatchesWorker, SleepTokens,
     EmptyTokens, NoWorkForgotten, HonestEmpty, WakeIsHonest, Counting
<1>15. CASE SpinTimeout
  <2>1. TypeOK'
    BY <1>15, SMTT(20) DEF SpinTimeout, TypeOK, Word
  <2>2. WordMatchesWorker'
    BY <1>15, SMTT(20) DEF SpinTimeout, WordMatchesWorker
  <2>3. SleepTokens'
    BY <1>15, SMTT(20) DEF SpinTimeout, SleepTokens
  <2>4. EmptyTokens'
    BY <1>15, SMTT(20) DEF SpinTimeout, TypeOK, EmptyTokens
  <2>5. NoWorkForgotten'
    BY <1>15, SMTT(20) DEF SpinTimeout, TypeOK, WordMatchesWorker,
       NoWorkForgotten
  <2>6. HonestEmpty'
    BY <1>15, SMTT(20) DEF SpinTimeout, HonestEmpty
  <2>7. WakeIsHonest'
    BY <1>15, SMTT(20) DEF SpinTimeout, TypeOK, WakeIsHonest,
       WordMatchesWorker
  <2>8. Counting'
    BY <1>15, SMTT(20) DEF SpinTimeout, Counting
  <2> QED
    BY <2>1, <2>2, <2>3, <2>4, <2>5, <2>6, <2>7, <2>8
<1>16. CASE SleepWake
  BY <1>16, SMTT(20) DEF SleepWake, TypeOK, WordMatchesWorker, SleepTokens,
     EmptyTokens, NoWorkForgotten, HonestEmpty, WakeIsHonest, Counting
<1>17. CASE Acknowledge
  <2>1. TypeOK'
    BY <1>17, RunningWord, SMTT(20) DEF Acknowledge, TypeOK, Word,
       WordMatchesWorker
  <2>2. WordMatchesWorker'
    BY <1>17, <1>0, RunningWord, SMTT(20) DEF Acknowledge, Word,
       WordMatchesWorker
  <2>3. SleepTokens'
    BY <1>17, SMTT(20) DEF Acknowledge, SleepTokens
  <2>4. EmptyTokens'
    BY <1>17, <1>0, RunningWord, SMTT(20) DEF Acknowledge, TypeOK,
       WordMatchesWorker, EmptyTokens
  <2>5. NoWorkForgotten'
    BY <1>17, <1>0, RunningWord, SMTT(20) DEF Acknowledge, TypeOK,
       WordMatchesWorker, NoWorkForgotten
  <2>6. HonestEmpty'
    BY <1>17, SMTT(20) DEF Acknowledge, HonestEmpty
  <2>7. WakeIsHonest'
    BY <1>17, <1>0, RunningWord, SMTT(20) DEF Acknowledge, TypeOK,
       WakeIsHonest, WordMatchesWorker
  <2>8. Counting'
    BY <1>17, SMTT(20) DEF Acknowledge, Counting
  <2> QED
    BY <2>1, <2>2, <2>3, <2>4, <2>5, <2>6, <2>7, <2>8
<1>18. CASE Kill
  <2>0. state >= 0
    BY <1>18, <1>0, SMTT(20) DEF Kill, WordMatchesWorker, Word
  <2>1. TypeOK'
    BY <1>18, SMTT(20) DEF Kill, TypeOK, Word
  <2>2. WordMatchesWorker'
    BY <1>18, SMTT(20) DEF Kill, WordMatchesWorker
  <2>3. SleepTokens'
    BY <1>18, SMTT(20) DEF Kill, SleepTokens
  <2>4. EmptyTokens'
    BY <1>18, <2>0, SMTT(20) DEF Kill, Word, EmptyTokens
  <2>5. NoWorkForgotten'
    BY <1>18, SMTT(20) DEF Kill, NoWorkForgotten
  <2>6. HonestEmpty'
    BY <1>18, SMTT(20) DEF Kill, HonestEmpty
  <2>7. WakeIsHonest'
    BY <1>18, SMTT(20) DEF Kill, WakeIsHonest
  <2>8. Counting'
    BY <1>18, SMTT(20) DEF Kill, Counting
  <2> QED
    BY <2>1, <2>2, <2>3, <2>4, <2>5, <2>6, <2>7, <2>8
<1>19. CASE Reset
  <2>1. TypeOK'
    BY <1>19, SMTT(20) DEF Reset, TypeOK, Word
  <2>2. WordMatchesWorker'
    BY <1>19, SMTT(20) DEF Reset, WordMatchesWorker
  <2>3. SleepTokens'
    BY <1>19, SMTT(20) DEF Reset, SleepTokens
  <2>4. EmptyTokens'
    BY <1>19, SMTT(20) DEF Reset, EmptyTokens
  <2>5. NoWorkForgotten'
    BY <1>19, SMTT(20) DEF Reset, NoWorkForgotten, Counting
  <2>6. HonestEmpty'
    BY <1>19, SMTT(20) DEF Reset, TypeOK, HonestEmpty, Counting
  <2>7. WakeIsHonest'
    BY <1>19, SMTT(20) DEF Reset, WakeIsHonest
  <2>8. Counting'
    BY <1>19, SMTT(20) DEF Reset, TypeOK, Counting
  <2> QED
    BY <2>1, <2>2, <2>3, <2>4, <2>5, <2>6, <2>7, <2>8
<1>20. CASE UNCHANGED vars
  BY <1>20, SMTT(20) DEF vars, TypeOK, WordMatchesWorker, SleepTokens,
     EmptyTokens, NoWorkForgotten, HonestEmpty, WakeIsHonest, Counting
<1> QED
  BY <1>1, <1>2, <1>3, <1>4, <1>5, <1>6, <1>7, <1>8, <1>9, <1>10, <1>11,
     <1>12, <1>13, <1>14, <1>15, <1>16, <1>17, <1>18, <1>19, <1>20 DEF Next,
     WorkerStep, WaiterStep

-----------------------------------------------------------------------------
\* The inductive invariant holds in every reachable state.
THEOREM Invariance == Spec => []IInv
BY InitIInv, NextIInv, PTL DEF Spec, SafeSpec

\* Every variable of the semaphore always has its type.
THEOREM TypeCorrect == Spec => []TypeOK
BY Invariance, PTL DEF IInv

\* No wake-up of the worker is lost or left over.
THEOREM NoLostWakeup == Spec => []SleepTokens
BY Invariance, PTL DEF IInv

\* One WaitForEmpty is represented by exactly one flag, owed post or token.
THEOREM OneEmptyToken == Spec => []EmptyTokens
BY Invariance, PTL DEF IInv

\* WaitForEmpty returns true only when all that was notified is finished.
THEOREM WaitForEmptyIsHonest == Spec => []HonestEmpty
BY Invariance, PTL DEF IInv

-----------------------------------------------------------------------------
\* The refinement mapping reads the abstract worker off the word.
LEMMA AbstractWorkerOf ==
  ASSUME NEW v \in Int
  PROVE  /\ v >= 0 => AbstractWorker(v) = "awake"
         /\ v \in {STATE_SPINNING, STATE_SLEEPING}
              => AbstractWorker(v) = "parked"
         /\ IsDead(v) => AbstractWorker(v) = "dead"
BY WordConstants, SMT DEF AbstractWorker

LEMMA InitRefines == Init => WQ!Init
BY AbstractWorkerOf, WorkSemaAssumption, SMT DEF Init, WQ!Init, WQ!Zero,
   STATE_RUNNING_0

\* Every step is a step of the abstract queue or leaves it unchanged.
LEMMA StepRefines == IInv /\ [Next]_vars => [WQ!Next]_(WQ!vars)
<1> SUFFICES ASSUME IInv, [Next]_vars PROVE [WQ!Next]_(WQ!vars)
  OBVIOUS
<1> USE WorkSemaAssumption, WordConstants, NamedWords, AbstractWorkerOf
<1> USE DEF IInv, queueVars, waitVars, STATE_RUNNING_0
<1>0. Word(state)
  BY DEF Word, TypeOK
<1>a. wpc \in {"idle", "drain", "ack"}
        => state >= 0 /\ AbstractWorker(state) = "awake"
  BY SMT DEF WordMatchesWorker, TypeOK, Parking
<1>1. ASSUME NEW p \in Producers, Push(p) PROVE WQ!Add(p)
  BY <1>1, SMTT(30) DEF Push, WQ!Add
<1>2. ASSUME NEW p \in Producers, NotifyOfWork(p) PROVE WQ!Notify(p)
  BY <1>2, <1>0, NotifiedWord, SMTT(30) DEF NotifyOfWork, WQ!Notify, TypeOK
<1>3. ASSUME NEW p \in Producers, PostSema(p) PROVE UNCHANGED WQ!vars
  BY <1>3, SMTT(30) DEF PostSema, WQ!vars
<1>4. ASSUME WaitForEmptyAtOnce PROVE WQ!WaitAtOnce
  BY <1>4, SMTT(30) DEF WaitForEmptyAtOnce, Returned, WQ!WaitAtOnce,
     WQ!AllDone, TypeOK, NoWorkForgotten, AllDone
<1>5. ASSUME WaitForEmpty PROVE WQ!BeginWait
  BY <1>5, <1>0, RunningWord, SMTT(30) DEF WaitForEmpty, WQ!BeginWait, TypeOK
<1>6. ASSUME EmptyWake PROVE UNCHANGED WQ!vars
  BY <1>6, SMTT(30) DEF EmptyWake, WQ!vars
<1>7. ASSUME EmptyReturn PROVE WQ!EndWait
  BY <1>7, SMTT(30) DEF EmptyReturn, Returned, WQ!EndWait, WQ!AllDone, TypeOK,
     WakeIsHonest, AllDone
<1>8. ASSUME NEW p \in Producers, Process(p) PROVE WQ!Process(p)
  BY <1>8, <1>a, SMT DEF Process, WQ!Process, TypeOK
<1>9. ASSUME QueueEmpty PROVE UNCHANGED WQ!vars
  BY <1>9, <1>0, SMTT(30) DEF QueueEmpty, WQ!vars, WQ!AllDone,
     Word, TypeOK, WordMatchesWorker, NoWorkForgotten, HonestEmpty,
        WakeIsHonest,
     AllDone, Counting
<1>10. ASSUME WaitForWork PROVE WQ!Park \/ UNCHANGED WQ!vars
  <2>1. CASE IsReadyForSleep(state)
    BY <1>10, <1>a, <2>1, SMT DEF WaitForWork, NextStateWaitForWork,
       BecomeIdle,
       WQ!Park, WQ!AllDone, AllDone, NoWorkForgotten
  <2>2. CASE ~IsReadyForSleep(state)
    <3>1. state' = AndFlag(state) /\ UNCHANGED <<ppc, queueVars, waitVars>>
      BY <1>10, <2>2 DEF WaitForWork, NextStateWaitForWork, BecomeIdle
    <3>2. AbstractWorker(state') = "awake" /\ wpc = "idle"
      BY <1>0, <1>a, <1>10, <3>1, RunningWord, SMT DEF Word, WaitForWork
    <3> QED
      BY <1>a, <3>1, <3>2 DEF WQ!vars
  <2> QED
    BY <2>1, <2>2
<1>11. ASSUME WaitForWorkWithSpin PROVE WQ!Park \/ UNCHANGED WQ!vars
  BY <1>11, <1>0, RunningWord, DeadWord, SMTT(30) DEF WaitForWorkWithSpin,
     BecomeIdle, WQ!Park, WQ!vars, WQ!AllDone,
     Word, TypeOK, WordMatchesWorker, NoWorkForgotten, HonestEmpty,
        WakeIsHonest,
     AllDone, Counting
<1>12. ASSUME CheckForWork PROVE UNCHANGED WQ!vars
  <2>1. state' \in {STATE_RUNNING_0, AndFlag(state)} /\ wpc = "idle"
    BY <1>12 DEF CheckForWork, BecomeIdle
  <2>2. AbstractWorker(state') = "awake"
    BY <1>0, <1>a, <2>1, RunningWord, SMT DEF Word
  <2> QED
    BY <1>12, <1>a, <2>1, <2>2 DEF CheckForWork, WQ!vars
<1>13. ASSUME PostEmptySema PROVE UNCHANGED WQ!vars
  BY <1>13, <1>0, SMTT(30) DEF PostEmptySema, WQ!vars, WQ!AllDone,
     Word, TypeOK, WordMatchesWorker, NoWorkForgotten, HonestEmpty,
        WakeIsHonest,
     AllDone, Counting
<1>14. ASSUME SpinSeesWork PROVE UNCHANGED WQ!vars
  BY <1>14, <1>0, SMTT(30) DEF SpinSeesWork, WQ!vars, WQ!AllDone,
     Word, TypeOK, WordMatchesWorker, NoWorkForgotten, HonestEmpty,
        WakeIsHonest,
     AllDone, Counting
<1>15. ASSUME SpinTimeout PROVE UNCHANGED WQ!vars
  BY <1>15, <1>0, SMTT(30) DEF SpinTimeout, WQ!vars, WQ!AllDone,
     Word, TypeOK, WordMatchesWorker, NoWorkForgotten, HonestEmpty,
        WakeIsHonest,
     AllDone, Counting
<1>16. ASSUME SleepWake PROVE UNCHANGED WQ!vars
  BY <1>16, <1>0, SMTT(30) DEF SleepWake, WQ!vars, WQ!AllDone,
     Word, TypeOK, WordMatchesWorker, NoWorkForgotten, HonestEmpty,
        WakeIsHonest,
     AllDone, Counting
<1>17. ASSUME Acknowledge PROVE UNCHANGED WQ!vars
  <2>1. AbstractWorker(state') = "awake"
    BY <1>0, <1>a, <1>17, RunningWord, SMT DEF Acknowledge, Word
  <2> QED
    BY <1>17, <1>a, <2>1 DEF Acknowledge, WQ!vars
<1>18. ASSUME Kill PROVE WQ!Die
  <2>1. AbstractWorker(state') = "dead"
    BY <1>18, SMT DEF Kill, Word
  <2> QED
    BY <1>18, <1>a, <2>1 DEF Kill, WQ!Die
<1>19. ASSUME Reset PROVE WQ!Revive
  BY <1>19, <1>0, SMTT(30) DEF Reset, WQ!Revive, WQ!vars, WQ!AllDone,
     Word, TypeOK, WordMatchesWorker, NoWorkForgotten, HonestEmpty,
        WakeIsHonest,
     AllDone, Counting
<1>20. ASSUME UNCHANGED vars PROVE UNCHANGED WQ!vars
  BY <1>20 DEF vars, WQ!vars
<1> QED
  BY <1>1, <1>2, <1>3, <1>4, <1>5, <1>6, <1>7, <1>8, <1>9, <1>10, <1>11,
     <1>12, <1>13, <1>14, <1>15, <1>16, <1>17, <1>18, <1>19, <1>20
     DEF Next, WorkerStep, WaiterStep, WQ!Next

\* Whatever the interleaving, the semaphore behaves as the queue of WorkQueue:
\* it parks only when all it was notified of is done, a notification wakes it
\* at once, and a wait ends only with its promise kept or a dead worker.
THEOREM ImplementsSafely == SafeSpec => WQ!SafeSpec
<1>1. IInv /\ [Next]_vars => IInv'
  BY NextIInv
<1> QED
  BY <1>1, InitIInv, InitRefines, StepRefines, PTL DEF SafeSpec, WQ!SafeSpec

-----------------------------------------------------------------------------
\* The empty word is a running one that nobody notified or waits for.
LEMMA InitRefinesEvent == Init => WE!Init
BY AbstractWorkerOf, NamedWords, SMT DEF Init, WE!Init, NotifiedWorker,
   WaitingEmpty, Posting, AfterPost, IsReadyForSleep, STATE_RUNNING_0

\* Every step is one of the word without its bits, or changes nothing there.
LEMMA StepRefinesEvent == IInv /\ [Next]_vars => [WE!Next]_(WE!vars)
<1> SUFFICES ASSUME IInv, [Next]_vars PROVE [WE!Next]_(WE!vars)
  OBVIOUS
<1> USE WorkSemaAssumption, WordConstants, NamedWords, AbstractWorkerOf
<1> USE DEF IInv, queueVars, waitVars, STATE_RUNNING_0
<1>0. Word(state) /\ state \in Int /\ emptySema \in Nat
  BY DEF Word, TypeOK
<1>a. wpc \in {"idle", "drain", "ack"}
        => state >= 0 /\ AbstractWorker(state) = "awake"
  BY SMT DEF WordMatchesWorker, TypeOK, Parking
<1>b. ASSUME UNCHANGED <<state, emptySema>>,
             Posting' <=> Posting, NotifiedWorker' <=> NotifiedWorker
      PROVE  UNCHANGED WE!vars
  BY <1>b, SMT DEF WE!vars, WaitingEmpty
<1>1. ASSUME NEW p \in Producers, Push(p) PROVE UNCHANGED WE!vars
  BY <1>b, <1>1, SMT DEF Push, Posting, NotifiedWorker
<1>2. ASSUME NEW p \in Producers, NotifyOfWork(p) PROVE WE!NotifyOfWork
  <2>1. /\ state' = state + 2 /\ NotifyFits(state)
        /\ UNCHANGED <<emptySema, wpc>>
    BY <1>2 DEF NotifyOfWork
  <2>2. WaitingEmpty' <=> WaitingEmpty
    BY <1>0, <2>1, NotifiedWord, SMT DEF WaitingEmpty
  <2>3. CASE IsDead(state)
    <3>1. AbstractWorker(state) = "dead" /\ AbstractWorker(state') = "dead"
      BY <1>0, <2>1, <2>3, NotifiedWord, SMT DEF Word
    <3> QED
      BY <2>1, <2>2, <3>1, SMT DEF WE!NotifyOfWork, WE!emptyVars, Posting,
         WaitingEmpty
  <2>4. CASE ~IsDead(state)
    <3>1. AbstractWorker(state) # "dead" /\ AbstractWorker(state') = "awake"
      BY <1>0, <2>1, <2>4, NotifiedWord, SMT DEF Word
    <3>2. NotifiedWorker'
      BY <1>0, <2>1, <2>4, NotifiedWord, SMT DEF NotifiedWorker,
         IsReadyForSleep, WordMatchesWorker
    <3> QED
      BY <2>1, <2>2, <3>1, <3>2, SMT DEF WE!NotifyOfWork, WE!emptyVars,
         Posting, WaitingEmpty
  <2> QED
    BY <2>3, <2>4
<1>3. ASSUME NEW p \in Producers, PostSema(p) PROVE UNCHANGED WE!vars
  BY <1>b, <1>3, SMT DEF PostSema, Posting, NotifiedWorker
<1>4. ASSUME WaitForEmptyAtOnce PROVE UNCHANGED WE!vars
  BY <1>b, <1>4, SMT DEF WaitForEmptyAtOnce, Posting, NotifiedWorker
<1>5. ASSUME WaitForEmpty PROVE WE!WaitForEmpty
  <2>1. /\ state >= 0 /\ state' = LowBits(state) + STATE_FLAG_WAITING_EMPTY
        /\ UNCHANGED <<emptySema, wpc>>
    BY <1>5 DEF WaitForEmpty
  <2>2. /\ AbstractWorker(state) = "awake" /\ AbstractWorker(state') = "awake"
        /\ WaitingEmpty'
        /\ NotifiedWorker' <=> NotifiedWorker
    BY <1>0, <2>1, RunningWord, SMT DEF Word, WaitingEmpty, NotifiedWorker,
       IsReadyForSleep
  <2> QED
    BY <2>1, <2>2, SMT DEF WE!WaitForEmpty, Posting
<1>6. ASSUME EmptyWake PROVE WE!EmptyWake
  <2>1. ~Posting /\ ~Posting'
    BY <1>6, SMT DEF EmptyWake, EmptyTokens, Posting
  <2> QED
    BY <1>0, <1>6, <2>1, SMT DEF EmptyWake, WE!EmptyWake, NotifiedWorker,
       WaitingEmpty
<1>7. ASSUME EmptyReturn PROVE UNCHANGED WE!vars
  BY <1>b, <1>7, SMT DEF EmptyReturn, Posting, NotifiedWorker
<1>8. ASSUME NEW p \in Producers, Process(p) PROVE UNCHANGED WE!vars
  BY <1>b, <1>8, SMT DEF Process, Posting, NotifiedWorker
<1>9. ASSUME QueueEmpty PROVE UNCHANGED WE!vars
  BY <1>b, <1>9, SMT DEF QueueEmpty, Posting, NotifiedWorker, AfterPost
\* A look of the worker that finds nothing, whatever it makes of the word.
<1>c. ASSUME NEW to, NEW posting, NEW at,
             wpc \in {"idle"}, BecomeIdle(to, posting, at),
             to \in {STATE_SPINNING, STATE_SLEEPING, STATE_RUNNING_0},
             posting \in DOMAIN AfterPost, at \notin DOMAIN AfterPost,
             to = 0 => {posting, at} = {"postCheck", "idle"},
             emptySema' = emptySema
      PROVE  WE!IdleLook("parked") \/ WE!IdleLook("running0")
  <2>1. state >= 0 /\ AbstractWorker(state) = "awake"
    BY <1>a, <1>c
  <2>2. ~NotifiedWorker /\ ~Posting
    BY <1>c, SMT DEF NotifiedWorker, BecomeIdle, IsReadyForSleep, Posting,
       AfterPost
  <2>3. ~WaitingEmpty' /\ state' = to
    BY <1>c, SMT DEF WaitingEmpty, BecomeIdle
  <2>4. Posting' <=> WaitingEmpty
    BY <1>c, <2>1, SMT DEF Posting, BecomeIdle, WaitingEmpty
  <2>5. WE!Answer
    BY <1>0, <1>c, <2>2, <2>3, <2>4, SMT DEF WE!Answer
  <2>6. CASE to = 0
    <3>1. AbstractWorker(state') = "awake"
      BY <2>3, <2>6, SMT
    <3>2. ~NotifiedWorker'
      BY <1>c, <2>3, <2>6, SMT DEF NotifiedWorker, BecomeIdle, IsReadyForSleep
    <3> QED
      BY <2>1, <2>2, <2>5, <3>1, <3>2, SMT DEF WE!IdleLook
  <2>7. CASE to # 0
    <3>1. AbstractWorker(state') = "parked"
      BY <1>c, <2>3, <2>7, SMT
    <3> QED
      BY <2>1, <2>2, <2>5, <3>1, SMT DEF WE!IdleLook
  <2> QED
    BY <2>6, <2>7
\* A look that finds a notification, or the look after one.
<1>d. ASSUME wpc \in {"idle", "ack"}, NotifiedWorker,
             state' = AndFlag(state), wpc' = "drain", emptySema' = emptySema
      PROVE  WE!BusyLook
  <2>1. /\ AbstractWorker(state) = "awake" /\ AbstractWorker(state') = "awake"
        /\ state >= 0 /\ state' >= 0
        /\ IsReadyForSleep(state')
        /\ FlagSet(state') <=> FlagSet(state)
    BY <1>0, <1>a, <1>d, RunningWord, SMT DEF Word
  <2>2. ~NotifiedWorker' /\ ~Posting /\ ~Posting'
    BY <1>d, <2>1, SMT DEF NotifiedWorker, IsReadyForSleep, Posting, AfterPost
  <2>3. WaitingEmpty' <=> WaitingEmpty
    BY <2>1 DEF WaitingEmpty
  <2> QED
    BY <1>d, <2>1, <2>2, <2>3, SMT DEF WE!BusyLook, WE!emptyVars,
       WaitingEmpty
<1>10. ASSUME WaitForWork PROVE WE!Next
  <2>1. CASE IsReadyForSleep(state)
    <3>1. wpc = "idle" /\ BecomeIdle(STATE_SLEEPING, "postSleep", "sleep")
      BY <1>10, <2>1 DEF WaitForWork, NextStateWaitForWork
    <3> QED
      BY <1>10, <1>c, <3>1, SMT DEF WaitForWork, AfterPost, WE!Next
  <2>2. CASE ~IsReadyForSleep(state)
    BY <1>10, <1>d, <2>2, SMT DEF WaitForWork, NextStateWaitForWork,
       BecomeIdle, NotifiedWorker, IsReadyForSleep, WE!Next
  <2> QED
    BY <2>1, <2>2
<1>11. ASSUME WaitForWorkWithSpin PROVE WE!Next \/ UNCHANGED WE!vars
  <2>1. CASE IsReadyForSleep(state)
    <3>1. wpc = "idle" /\ BecomeIdle(STATE_SPINNING, "postSpin", "spin")
      BY <1>11, <2>1 DEF WaitForWorkWithSpin
    <3> QED
      BY <1>11, <1>c, <3>1, SMT DEF WaitForWorkWithSpin, AfterPost, WE!Next
  <2>2. CASE ~IsReadyForSleep(state)
    BY <1>11, <1>b, <2>2, SMT DEF WaitForWorkWithSpin, BecomeIdle, Posting,
       NotifiedWorker, IsReadyForSleep, AfterPost
  <2> QED
    BY <2>1, <2>2
<1>12. ASSUME CheckForWork PROVE WE!Next
  <2>1. CASE IsReadyForSleep(state)
    <3>1. wpc = "idle" /\ BecomeIdle(STATE_RUNNING_0, "postCheck", "idle")
      BY <1>12, <2>1 DEF CheckForWork
    <3> QED
      BY <1>12, <1>c, <3>1, SMT DEF CheckForWork, AfterPost, WE!Next
  <2>2. CASE ~IsReadyForSleep(state)
    BY <1>12, <1>d, <2>2, SMT DEF CheckForWork, BecomeIdle, NotifiedWorker,
       IsReadyForSleep, WE!Next
  <2> QED
    BY <2>1, <2>2
\* The post moves from the worker's hands into the semaphore.
<1>13. ASSUME PostEmptySema PROVE UNCHANGED WE!vars
  <2>1. Posting /\ ~Posting' /\ emptySema' = emptySema + 1 /\ state' = state
    BY <1>13, SMT DEF PostEmptySema, Posting, AfterPost
  <2>2. CASE wpc = "postDead"
    <3>1. AbstractWorker(state) = "dead"
      BY <1>0, <2>2 DEF WordMatchesWorker
    <3> QED
      BY <1>0, <2>1, <3>1, SMT DEF WE!vars, WaitingEmpty
  <2>3. CASE wpc # "postDead"
    <3>1. NotifiedWorker' <=> NotifiedWorker
      BY <1>13, <2>1, <2>3, SMT DEF PostEmptySema, NotifiedWorker, AfterPost
    <3> QED
      BY <1>0, <2>1, <3>1, SMT DEF WE!vars, WaitingEmpty
  <2> QED
    BY <2>2, <2>3
<1>14. ASSUME SpinSeesWork PROVE UNCHANGED WE!vars
  BY <1>b, <1>14, SMT DEF SpinSeesWork, Posting, NotifiedWorker, AfterPost
<1>15. ASSUME SpinTimeout PROVE UNCHANGED WE!vars
  <2>1. /\ AbstractWorker(state) = "parked"
        /\ AbstractWorker(state') = "parked"
        /\ ~WaitingEmpty /\ ~WaitingEmpty'
    BY <1>0, <1>15, SMT DEF SpinTimeout, WordMatchesWorker, WaitingEmpty
  <2> QED
    BY <1>15, <2>1, SMT DEF SpinTimeout, WE!vars, Posting, AfterPost,
       WaitingEmpty
<1>16. ASSUME SleepWake PROVE UNCHANGED WE!vars
  BY <1>b, <1>16, SMT DEF SleepWake, Posting, NotifiedWorker, AfterPost
<1>17. ASSUME Acknowledge PROVE WE!BusyLook
  BY <1>17, <1>d, SMT DEF Acknowledge, NotifiedWorker
<1>18. ASSUME Kill PROVE WE!Kill
  <2>1. /\ state >= 0 /\ AbstractWorker(state) = "awake"
        /\ AbstractWorker(state') = "dead" /\ ~WaitingEmpty'
    BY <1>a, <1>18, SMT DEF Kill, WaitingEmpty, Word
  <2>2. ~Posting /\ (Posting' <=> WaitingEmpty)
    BY <1>18, <2>1, SMT DEF Kill, Posting, AfterPost, WaitingEmpty
  <2>3. WE!Answer
    BY <1>0, <1>18, <2>1, <2>2, SMT DEF Kill, WE!Answer
  <2> QED
    BY <2>1, <2>3, SMT DEF WE!Kill
<1>19. ASSUME Reset PROVE WE!Reset
  <2>1. /\ AbstractWorker(state) = "dead" /\ AbstractWorker(state') = "awake"
        /\ ~WaitingEmpty /\ ~WaitingEmpty' /\ ~Posting /\ ~Posting'
    BY <1>0, <1>19, SMT DEF Reset, WordMatchesWorker, WaitingEmpty, Posting,
       AfterPost
  <2>2. ~NotifiedWorker'
    BY <1>19, SMT DEF Reset, NotifiedWorker, IsReadyForSleep
  <2> QED
    BY <1>19, <2>1, <2>2, SMT DEF Reset, WE!Reset, WE!emptyVars,
         WaitingEmpty
<1>20. ASSUME UNCHANGED vars PROVE UNCHANGED WE!vars
  BY <1>b, <1>20, SMT DEF vars, Posting, NotifiedWorker
<1> QED
  BY <1>1, <1>2, <1>3, <1>4, <1>5, <1>6, <1>7, <1>8, <1>9, <1>10, <1>11,
     <1>12, <1>13, <1>14, <1>15, <1>16, <1>17, <1>18, <1>19, <1>20
     DEF Next, WorkerStep, WaiterStep, WE!Next

\* The models of the two rings rest on WorkEvent: whatever the word's users do
\* and however their steps interleave, the word behaves as that event.
THEOREM ImplementsEvent == Spec => ImplementsWorkEvent
<1>1. IInv /\ [Next]_vars => IInv'
  BY NextIInv
<1> QED
  BY <1>1, InitIInv, InitRefinesEvent, StepRefinesEvent, PTL
     DEF Spec, SafeSpec, ImplementsWorkEvent, WE!Spec
=============================================================================
