----------------------------- MODULE WorkEvent -----------------------------
(***************************************************************************)
(* Threading::WorkSema as its users need to see it: what the worker is     *)
(* known to be doing, and one thread that may wait for it to be idle.      *)
(* WorkSema (the module, the real word) implements it; the modules of the  *)
(* two rings are built on its actions.                                     *)
(*                                                                         *)
(* A notification un-parks the worker in the step that changes the word,   *)
(* and an idle look answers the waiting thread in the same step.           *)
(***************************************************************************)
EXTENDS Naturals

VARIABLES event,       \* "parked", "running0", "runningN" or "dead"
          emptyFlag,   \* does a thread wait for an idle worker?
          emptyToken   \* has it been answered, and not woken yet?

vars == <<event, emptyFlag, emptyToken>>
emptyVars == <<emptyFlag, emptyToken>>

Init == event = "running0" /\ emptyFlag = FALSE /\ emptyToken = 0

NotifyOfWork ==
  /\ event' = IF event = "dead" THEN "dead" ELSE "runningN"
  /\ UNCHANGED emptyVars

\* The flag is taken down, and the thread that put it up is posted.
Answer ==
  /\ emptyFlag' = FALSE
  /\ emptyToken' = IF emptyFlag THEN emptyToken + 1 ELSE emptyToken

\* The worker looks and finds no notification: it parks, or (CheckForWork) not.
IdleLook(to) ==
  /\ event = "running0"
  /\ event' = to
  /\ Answer

\* It looks, or wakes, and finds one.
BusyLook ==
  /\ event = "runningN"
  /\ event' = "running0"
  /\ UNCHANGED emptyVars

\* WaitForEmpty, when it need not block, when it must, and when it wakes.
IsIdle == event \in {"parked", "dead"}

WaitForEmpty ==
  /\ event \in {"running0", "runningN"}
  /\ emptyFlag' = TRUE
  /\ UNCHANGED <<event, emptyToken>>

EmptyWake ==
  /\ emptyToken > 0
  /\ emptyToken' = emptyToken - 1
  /\ UNCHANGED <<event, emptyFlag>>

Kill ==
  /\ event \in {"running0", "runningN"}
  /\ event' = "dead"
  /\ Answer

Reset ==
  /\ event = "dead"
  /\ event' = "running0"
  /\ UNCHANGED emptyVars

Next ==
  \/ NotifyOfWork \/ IdleLook("parked") \/ IdleLook("running0") \/ BusyLook
  \/ WaitForEmpty \/ EmptyWake \/ Kill \/ Reset

Spec == Init /\ [][Next]_vars
=============================================================================
