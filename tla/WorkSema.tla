------------------------------ MODULE WorkSema ------------------------------
(***************************************************************************)
(* Threading::WorkSema (common/Threading.h, common/Semaphore.cpp): one     *)
(* atomic 32-bit word and two kernel semaphores through which producers    *)
(* wake the thread that drains their queue, and through which one thread   *)
(* waits until the queue is empty.                                         *)
(*                                                                         *)
(* Each atomic operation of the code is one action.  A compare-exchange    *)
(* loop whose new value depends on the word alone is the step in which it  *)
(* succeeds.  The queue is abstracted to counters: how many items each     *)
(* producer added, how many of them a notification covers, how many the    *)
(* worker has finished.                                                    *)
(***************************************************************************)
EXTENDS Integers

CONSTANTS Producers,  \* the threads that add work and call NotifyOfWork
          Waiter,     \* the one of them that calls WaitForEmpty
          MaxWork     \* bound: items each producer adds

ASSUME WorkSemaAssumption == Waiter \in Producers /\ MaxWork \in Nat

VARIABLES state,      \* m_state
          sema,       \* m_sema, the worker sleeps on it
          emptySema,  \* m_empty_sema, the waiter sleeps on it
          wpc,        \* where the worker is
          ppc,        \* ppc[p]: where thread p is
          pushed,     \* pushed[p]: items p added to the queue
          notified,   \* notified[p]: of those, covered by a notification
          done,       \* done[p]: of those, finished (or discarded by a revival)
          promise,    \* what was notified when the last WaitForEmpty looked
          ret         \* what the last WaitForEmpty returned

queueVars == <<pushed, notified, done>>
waitVars == <<promise, ret>>
vars == <<state, sema, emptySema, wpc, ppc, queueVars, waitVars>>

-----------------------------------------------------------------------------
(* The state word.                                                         *)

INT_MIN == -2147483647 - 1
INT_MAX == 2147483647
STATE_SPINNING == -2
STATE_SLEEPING == -1
STATE_RUNNING_0 == 0
STATE_FLAG_WAITING_EMPTY == 1073741824   \* 1 << 30

\* Bit 30 and the bits below it of a two's complement word: % and \div round
\* towards minus infinity, so both are right for negative words too.
FlagSet(v) == (v \div STATE_FLAG_WAITING_EMPTY) % 2 = 1
LowBits(v) == v % STATE_FLAG_WAITING_EMPTY
AndFlag(v) == IF FlagSet(v) THEN STATE_FLAG_WAITING_EMPTY ELSE 0

IsDead(v) == v < STATE_SPINNING
IsReadyForSleep(v) == LowBits(v) = STATE_RUNNING_0

\* new_state | flag: SLEEPING has every bit set, so the flag vanishes in it.
NextStateWaitForWork(v) ==
  IF IsReadyForSleep(v) THEN STATE_SLEEPING ELSE AndFlag(v)

\* Environment bound: fewer than 2^29 notifications between two looks of the
\* worker, so that fetch_add never carries into bit 30.
NotifyFits(v) ==
  \/ v \in {STATE_SPINNING, STATE_SLEEPING}
  \/ LowBits(v) + 2 < STATE_FLAG_WAITING_EMPTY

-----------------------------------------------------------------------------
Init ==
  /\ state = STATE_RUNNING_0
  /\ sema = 0
  /\ emptySema = 0
  /\ wpc = "idle"
  /\ ppc = [p \in Producers |-> "ready"]
  /\ pushed = [p \in Producers |-> 0]
  /\ notified = [p \in Producers |-> 0]
  /\ done = [p \in Producers |-> 0]
  /\ promise = [p \in Producers |-> 0]
  /\ ret = "none"

-----------------------------------------------------------------------------
(* Producers.                                                              *)

\* "Threads adding work first add their work to the queue, then call
\* NotifyOfWork()": one notification may cover several items.
Push(p) ==
  /\ ppc[p] = "ready"
  /\ pushed[p] < MaxWork
  /\ pushed' = [pushed EXCEPT ![p] = @ + 1]
  /\ UNCHANGED <<state, sema, emptySema, wpc, ppc, notified, done, waitVars>>

\* Defect: a post for a spinning worker too.
NotifyPostsSpinner(p) ==
  /\ ppc[p] = "ready"
  /\ notified[p] < pushed[p]
  /\ NotifyFits(state)
  /\ state' = state + 2
  /\ notified' = [notified EXCEPT ![p] = pushed[p]]
  /\ ppc' = [ppc EXCEPT ![p] = IF state < 0 THEN "post" ELSE "ready"]
  /\ UNCHANGED <<sema, emptySema, wpc, pushed, done, waitVars>>

\* Defect: the post is for the wrong one of the two negative words.
NotifyForgetsSleeper(p) ==
  /\ ppc[p] = "ready"
  /\ notified[p] < pushed[p]
  /\ NotifyFits(state)
  /\ state' = state + 2
  /\ notified' = [notified EXCEPT ![p] = pushed[p]]
  /\ ppc' = [ppc EXCEPT
               ![p] = IF state = STATE_SPINNING THEN "post" ELSE "ready"]
  /\ UNCHANGED <<sema, emptySema, wpc, pushed, done, waitVars>>

NotifyOfWork(p) ==
  /\ ppc[p] = "ready"
  /\ notified[p] < pushed[p]
  /\ NotifyFits(state)
  /\ state' = state + 2
  /\ notified' = [notified EXCEPT ![p] = pushed[p]]
  /\ ppc' = [ppc EXCEPT
               ![p] = IF state = STATE_SLEEPING THEN "post" ELSE "ready"]
  /\ UNCHANGED <<sema, emptySema, wpc, pushed, done, waitVars>>

PostSema(p) ==
  /\ ppc[p] = "post"
  /\ sema' = sema + 1
  /\ ppc' = [ppc EXCEPT ![p] = "ready"]
  /\ UNCHANGED <<state, emptySema, wpc, queueVars, waitVars>>

-----------------------------------------------------------------------------
(* WaitForEmpty and WaitForEmptyWithSpin: the spinning one looks at the    *)
(* word several times before one of these two steps.                       *)

Returned(v) == IF IsDead(v) THEN "dead" ELSE "empty"

\* Defect: RUNNING_0 is taken for idle.
WaitForEmptyTooSoon ==
  /\ ppc[Waiter] = "ready"
  /\ state <= 0
  /\ promise' = notified
  /\ ret' = Returned(state)
  /\ UNCHANGED <<state, sema, emptySema, wpc, ppc, queueVars>>

WaitForEmptyAtOnce ==
  /\ ppc[Waiter] = "ready"
  /\ state < 0
  /\ promise' = notified
  /\ ret' = Returned(state)
  /\ UNCHANGED <<state, sema, emptySema, wpc, ppc, queueVars>>

WaitForEmpty ==
  /\ ppc[Waiter] = "ready"
  /\ state >= 0
  /\ state' = LowBits(state) + STATE_FLAG_WAITING_EMPTY
  /\ promise' = notified
  /\ ret' = "none"
  /\ ppc' = [ppc EXCEPT ![Waiter] = "emptyWait"]
  /\ UNCHANGED <<sema, emptySema, wpc, queueVars>>

EmptyWake ==
  /\ ppc[Waiter] = "emptyWait"
  /\ emptySema > 0
  /\ emptySema' = emptySema - 1
  /\ ppc' = [ppc EXCEPT ![Waiter] = "emptyRead"]
  /\ UNCHANGED <<state, sema, wpc, queueVars, waitVars>>

EmptyReturn ==
  /\ ppc[Waiter] = "emptyRead"
  /\ ret' = Returned(state)
  /\ ppc' = [ppc EXCEPT ![Waiter] = "ready"]
  /\ UNCHANGED <<state, sema, emptySema, wpc, queueVars, promise>>

-----------------------------------------------------------------------------
(* The worker.  "idle": it will look for work; "drain": it runs its queue. *)

Process(p) ==
  /\ wpc = "drain"
  /\ done[p] < pushed[p]
  /\ done' = [done EXCEPT ![p] = @ + 1]
  /\ UNCHANGED <<state, sema, emptySema, wpc, ppc, pushed, notified, waitVars>>

QueueEmpty ==
  /\ wpc = "drain"
  /\ \A p \in Producers : done[p] = pushed[p]
  /\ wpc' = "idle"
  /\ UNCHANGED <<state, sema, emptySema, ppc, queueVars, waitVars>>

\* The word of an idle worker that has nothing to do becomes `to`; the waiter,
\* if it asked, is posted on the way to pc `at`.
BecomeIdle(to, posting, at) ==
  /\ IsReadyForSleep(state)
  /\ state' = to
  /\ wpc' = IF FlagSet(state) THEN posting ELSE at

WaitForWork ==
  /\ wpc = "idle"
  /\ \/ BecomeIdle(NextStateWaitForWork(state), "postSleep", "sleep")
     \/ /\ ~IsReadyForSleep(state)
        /\ state' = NextStateWaitForWork(state)
        /\ wpc' = "drain"
  /\ UNCHANGED <<sema, emptySema, ppc, queueVars, waitVars>>

WaitForWorkWithSpin ==
  /\ wpc = "idle"
  /\ \/ BecomeIdle(STATE_SPINNING, "postSpin", "spin")
     \/ /\ ~IsReadyForSleep(state)
        /\ wpc' = "ack"
        /\ UNCHANGED state
  /\ UNCHANGED <<sema, emptySema, ppc, queueVars, waitVars>>

\* A worker told there is no work looks again later; it does not drain.
CheckForWork ==
  /\ wpc = "idle"
  /\ \/ BecomeIdle(STATE_RUNNING_0, "postCheck", "idle")
     \/ /\ ~IsReadyForSleep(state)
        /\ state' = AndFlag(state)
        /\ wpc' = "drain"
  /\ UNCHANGED <<sema, emptySema, ppc, queueVars, waitVars>>

AfterPost == [postSleep |-> "sleep", postSpin |-> "spin",
              postCheck |-> "idle", postDead |-> "dead"]

PostEmptySema ==
  /\ wpc \in DOMAIN AfterPost
  /\ emptySema' = emptySema + 1
  /\ wpc' = AfterPost[wpc]
  /\ UNCHANGED <<state, sema, ppc, queueVars, waitVars>>

SpinSeesWork ==
  /\ wpc = "spin"
  /\ state >= 0
  /\ wpc' = "ack"
  /\ UNCHANGED <<state, sema, emptySema, ppc, queueVars, waitVars>>

\* Defect: a plain store, where the code compares first.
SpinTimeoutStores ==
  /\ wpc = "spin"
  /\ state' = STATE_SLEEPING
  /\ wpc' = "sleep"
  /\ UNCHANGED <<sema, emptySema, ppc, queueVars, waitVars>>

SpinTimeout ==
  /\ wpc = "spin"
  /\ state < 0
  /\ state' = STATE_SLEEPING
  /\ wpc' = "sleep"
  /\ UNCHANGED <<sema, emptySema, ppc, queueVars, waitVars>>

SleepWake ==
  /\ wpc = "sleep"
  /\ sema > 0
  /\ sema' = sema - 1
  /\ wpc' = "ack"
  /\ UNCHANGED <<state, emptySema, ppc, queueVars, waitVars>>

\* Defect: a store of RUNNING_0, without the flag.
AcknowledgeDropsFlag ==
  /\ wpc = "ack"
  /\ state' = STATE_RUNNING_0
  /\ wpc' = "drain"
  /\ UNCHANGED <<sema, emptySema, ppc, queueVars, waitVars>>

\* m_state.fetch_and(STATE_FLAG_WAITING_EMPTY)
Acknowledge ==
  /\ wpc = "ack"
  /\ state' = AndFlag(state)
  /\ wpc' = "drain"
  /\ UNCHANGED <<sema, emptySema, ppc, queueVars, waitVars>>

\* Defect: fetch_or instead of exchange.
KillKeepsFlag ==
  /\ wpc \in {"idle", "drain"}
  /\ state' = INT_MIN + state
  /\ wpc' = IF FlagSet(state) THEN "postDead" ELSE "dead"
  /\ UNCHANGED <<sema, emptySema, ppc, queueVars, waitVars>>

Kill ==
  /\ wpc \in {"idle", "drain"}
  /\ state' = INT_MIN
  /\ wpc' = IF FlagSet(state) THEN "postDead" ELSE "dead"
  /\ UNCHANGED <<sema, emptySema, ppc, queueVars, waitVars>>

\* The callers empty the queue before a revival (MTGS.cpp ThreadEntryPoint and
\* MainLoop, MTVU.cpp Open) and never revive a worker under a WaitForEmpty: the
\* thread that waits is the one that asks for the restart.
Reset ==
  /\ wpc = "dead"
  /\ ppc[Waiter] \notin {"emptyWait", "emptyRead"}
  /\ state' = STATE_RUNNING_0
  /\ wpc' = "idle"
  /\ done' = pushed
  /\ UNCHANGED <<sema, emptySema, ppc, pushed, notified, waitVars>>

-----------------------------------------------------------------------------
WorkerStep ==
  \/ \E p \in Producers : Process(p)
  \/ QueueEmpty \/ WaitForWork \/ WaitForWorkWithSpin \/ CheckForWork
  \/ PostEmptySema \/ SpinSeesWork \/ SpinTimeout \/ SleepWake \/ Acknowledge

WaiterStep == EmptyWake \/ EmptyReturn

Next ==
  \/ \E p \in Producers : Push(p) \/ NotifyOfWork(p) \/ PostSema(p)
  \/ WaitForEmptyAtOnce \/ WaitForEmpty \/ WaiterStep
  \/ WorkerStep \/ Kill \/ Reset

SafeSpec == Init /\ [][Next]_vars

\* The scheduler runs the worker, a waiter whose token is there, and a notifier
\* that owes a post.  Nobody has to push, notify, wait, die or revive.
Fairness ==
  /\ WF_vars(WorkerStep)
  /\ WF_vars(WaiterStep)
  /\ \A p \in Producers : WF_vars(PostSema(p))

Spec == SafeSpec /\ Fairness

-----------------------------------------------------------------------------
(* Properties.                                                             *)

Posting == wpc \in DOMAIN AfterPost
Parking == wpc \in {"postSleep", "sleep"}
WaitingEmpty == state >= 0 /\ FlagSet(state)
AllDone(work) == \A p \in Producers : work[p] <= done[p]

\* Every variable has its type; the word is a value that its enum documents.
TypeOK ==
  /\ state \in Int
  /\ INT_MIN <= state /\ state <= INT_MAX
  /\ IsDead(state) => state < INT_MIN + STATE_FLAG_WAITING_EMPTY
  /\ sema \in Nat
  /\ emptySema \in Nat
  /\ wpc \in {"idle", "drain", "ack", "spin", "sleep", "dead",
              "postSpin", "postSleep", "postCheck", "postDead"}
  /\ ppc \in [Producers -> {"ready", "post", "emptyWait", "emptyRead"}]
  /\ pushed \in [Producers -> 0..MaxWork]
  /\ notified \in [Producers -> 0..MaxWork]
  /\ done \in [Producers -> 0..MaxWork]
  /\ promise \in [Producers -> 0..MaxWork]
  /\ ret \in {"none", "empty", "dead"}

\* The word says what the worker does: it is a dead one exactly while the
\* worker is dead (the asserts !IsDead of CheckForWork and the waits), SPINNING
\* and SLEEPING only while the worker spins or is on its way to sleep.
WordMatchesWorker ==
  /\ IsDead(state) <=> wpc \in {"postDead", "dead"}
  /\ state = STATE_SPINNING => wpc \in {"postSpin", "spin"}
  /\ state = STATE_SLEEPING => Parking

\* No wake-up is lost and none is left over: when a notification has taken the
\* word of a parking worker out of SLEEPING there is exactly one token for
\* it, posted or about to be by exactly one notifier; at any other time none.
SleepTokens ==
  LET owing == {p \in Producers : ppc[p] = "post"} IN
  IF Parking /\ state # STATE_SLEEPING
    THEN \/ sema = 1 /\ owing = {}
         \/ sema = 0 /\ \E p \in Producers : owing = {p}
    ELSE sema = 0 /\ owing = {}

\* A thread in WaitForEmpty is represented in exactly one place: the flag of a
\* running word, the post the worker is about to make, or the token.  Nothing
\* stands for a thread that does not wait, so the assertion against two
\* waiters holds and no token of one wait can end the next.
EmptyTokens ==
  IF ppc[Waiter] = "emptyWait"
    THEN \/ WaitingEmpty /\ ~Posting /\ emptySema = 0
         \/ ~WaitingEmpty /\ Posting /\ emptySema = 0
         \/ ~WaitingEmpty /\ ~Posting /\ emptySema = 1
    ELSE ~WaitingEmpty /\ ~Posting /\ emptySema = 0

\* A worker that would find nothing to do has nothing to do.
NoWorkForgotten ==
  \/ state \in {STATE_SPINNING, STATE_SLEEPING}
  \/ state >= 0 /\ IsReadyForSleep(state) /\ wpc \in {"idle", "postCheck"}
  => AllDone(notified)

\* "Wait for the worker thread to finish processing all entries in the queue":
\* when WaitForEmpty returns true, everything any thread had notified when
\* it looked at the word is finished.
HonestEmpty == ret = "empty" => AllDone(promise)

\* Strengthening of HonestEmpty: the post that ends a wait is made when the
\* promise is kept or the worker is dead.
WakeIsHonest ==
  \/ ppc[Waiter] = "emptyRead"
  \/ ppc[Waiter] = "emptyWait" /\ ~WaitingEmpty
  => AllDone(promise) \/ IsDead(state)

\* How far each count can be ahead of another.
Counting ==
  \A p \in Producers :
    /\ promise[p] <= notified[p]
    /\ notified[p] <= pushed[p]
    /\ done[p] <= pushed[p]
    /\ p # Waiter => ppc[p] \in {"ready", "post"}

IInv ==
  /\ TypeOK
  /\ WordMatchesWorker
  /\ SleepTokens
  /\ EmptyTokens
  /\ NoWorkForgotten
  /\ HonestEmpty
  /\ WakeIsHonest
  /\ Counting

-----------------------------------------------------------------------------
(* The abstract queue this word implements.  A worker is parked while its  *)
(* word says so: a notification un-parks it before its token is posted.    *)

AbstractWorker(v) ==
  CASE v \in {STATE_SPINNING, STATE_SLEEPING} -> "parked"
    [] IsDead(v) -> "dead"
    [] OTHER -> "awake"

WQ == INSTANCE WorkQueue WITH
  added <- pushed,
  worker <- AbstractWorker(state),
  waiting <- ppc[Waiter] \in {"emptyWait", "emptyRead"}

\* WorkSema implements WorkQueue, its liveness included.
ImplementsWorkQueue == WQ!Spec

\* The word without its bits: a worker that was notified and has not yet
\* acknowledged it is a notified one whatever the low bits of the word are
\* (SPINNING + 2 is RUNNING_0).
NotifiedWorker ==
  \/ LowBits(state) # STATE_RUNNING_0
  \/ wpc \in {"ack", "spin", "sleep", "postSpin", "postSleep"}

WE == INSTANCE WorkEvent WITH
  event <- IF AbstractWorker(state) # "awake" THEN AbstractWorker(state)
           ELSE IF NotifiedWorker THEN "runningN" ELSE "running0",
  emptyFlag <- WaitingEmpty,
  emptyToken <- emptySema + (IF Posting THEN 1 ELSE 0)

\* WorkSema implements WorkEvent, on which the models of its users rest: every
\* atomic step of the word is one of its actions or changes nothing there.
ImplementsWorkEvent == WE!Spec

\* Work that was notified is eventually finished, unless the worker dies.
NotifiedWorkGetsDone ==
  \A p \in Producers, n \in 1..MaxWork :
    notified[p] >= n ~> done[p] >= n \/ IsDead(state)
=============================================================================
