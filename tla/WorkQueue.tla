----------------------------- MODULE WorkQueue -----------------------------
(***************************************************************************)
(* What Threading::WorkSema promises, without its state word and its two   *)
(* kernel semaphores: producers add work to a queue and notify, a worker   *)
(* drains the queue and may park only when everything it was notified of   *)
(* is done, and one thread may wait for the queue to be empty.  WorkSema   *)
(* (the module) implements this one.                                       *)
(***************************************************************************)
EXTENDS Integers

CONSTANTS Producers,  \* the threads that add work and notify
          MaxWork     \* bound: items each of them adds

VARIABLES added,      \* added[p]: items p put in the queue
          notified,   \* notified[p]: of those, covered by a notification
          done,       \* done[p]: of those, finished by the worker
          worker,     \* "awake", "parked" (nothing to do) or "dead"
          waiting,    \* is a WaitForEmpty in progress?
          promise,    \* what was notified when that wait began
          ret         \* what the last WaitForEmpty returned

vars == <<added, notified, done, worker, waiting, promise, ret>>

Zero == [p \in Producers |-> 0]

AllDone(work) == \A p \in Producers : work[p] <= done[p]

Init ==
  /\ added = Zero
  /\ notified = Zero
  /\ done = Zero
  /\ worker = "awake"
  /\ waiting = FALSE
  /\ promise = Zero
  /\ ret = "none"

Add(p) ==
  /\ added[p] < MaxWork
  /\ added' = [added EXCEPT ![p] = @ + 1]
  /\ UNCHANGED <<notified, done, worker, waiting, promise, ret>>

\* A notification reaches a parked worker at once: no later step of the
\* notifier can be needed for the worker to count as awake.
Notify(p) ==
  /\ notified' = [notified EXCEPT ![p] = added[p]]
  /\ worker' = IF worker = "parked" THEN "awake" ELSE worker
  /\ UNCHANGED <<added, done, waiting, promise, ret>>

Process(p) ==
  /\ worker = "awake"
  /\ done[p] < added[p]
  /\ done' = [done EXCEPT ![p] = @ + 1]
  /\ UNCHANGED <<added, notified, worker, waiting, promise, ret>>

Park ==
  /\ worker = "awake"
  /\ AllDone(notified)
  /\ worker' = "parked"
  /\ UNCHANGED <<added, notified, done, waiting, promise, ret>>

Die ==
  /\ worker = "awake"
  /\ worker' = "dead"
  /\ UNCHANGED <<added, notified, done, waiting, promise, ret>>

\* A revived worker starts from an empty queue.
Revive ==
  /\ worker = "dead"
  /\ ~waiting
  /\ worker' = "awake"
  /\ done' = added
  /\ UNCHANGED <<added, notified, waiting, promise, ret>>

BeginWait ==
  /\ ~waiting
  /\ waiting' = TRUE
  /\ promise' = notified
  /\ ret' = "none"
  /\ UNCHANGED <<added, notified, done, worker>>

EndWait ==
  /\ waiting
  /\ waiting' = FALSE
  /\ \/ AllDone(promise) /\ ret' = "empty"
     \/ worker = "dead" /\ ret' = "dead"
  /\ UNCHANGED <<added, notified, done, worker, promise>>

\* The wait that need not block.
WaitAtOnce ==
  /\ ~waiting
  /\ promise' = notified
  /\ \/ AllDone(notified) /\ ret' = "empty"
     \/ worker = "dead" /\ ret' = "dead"
  /\ UNCHANGED <<added, notified, done, worker, waiting>>

Next ==
  \/ \E p \in Producers : Add(p) \/ Notify(p) \/ Process(p)
  \/ Park \/ Die \/ Revive
  \/ BeginWait \/ EndWait \/ WaitAtOnce

ProcessNotified == \E p \in Producers : done[p] < notified[p] /\ Process(p)

SafeSpec == Init /\ [][Next]_vars

Spec == SafeSpec /\ WF_vars(ProcessNotified) /\ WF_vars(EndWait)
=============================================================================
