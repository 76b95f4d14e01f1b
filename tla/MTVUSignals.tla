---------------------------- MODULE MTVUSignals ----------------------------
(***************************************************************************)
(* How the MTVU thread hands the EE the SIGNAL, FINISH and LABEL registers *)
(* that a VU1 program writes through path 1, and the end and the T bit of  *)
(* the program: mtvuInterrupts, gsSignal and gsLabel, raised by            *)
(* Gif_HandlerAD_MTVU (pcsx2/Gif_Unit.cpp) and the recompiled program, and *)
(* polled by VU_Thread::Get_MTVUChanges (pcsx2/MTVU.cpp).                  *)
(*                                                                         *)
(* Each access to a word that both threads use is a step.  A label is a    *)
(* set of bits to write, its data under its mask.  The masks of IMR and    *)
(* the interrupts they let through are left out, and so is VPU_STAT.       *)
(***************************************************************************)
EXTENDS Integers

CONSTANTS
  Bits,     \* of the label register
  Ends,     \* the interrupts that are one flag and no more, beside FINISH
  IdMod     \* SIGNALs are numbered modulo this, from 1; 0 is none

ASSUME MTVUSignalsAssumption ==
  /\ Ends \subseteq {"VUEBIT", "VUTBIT"}
  /\ IdMod \in Nat /\ IdMod > 2

VARIABLES
  mtvuInterrupts,     \* the flags that are up
  gsSignal, gsLabel,  \* gsSignal is also the number of the last one stored
  vu,                 \* the MTVU thread
  ee, todo, taken,    \* the EE thread, its copy of the flags, and of gsSignal
  LBLID,
  csrSignal, queued,  \* CSR.SIGNAL, gsSIGNAL.queued
  gsFINISHPending,
  got,                \* history: the last SIGNAL that the EE took, or 0 after a
                      \* "Double SIGNAL Not Handled" has been logged
  labels,             \* history: what the labels executed so far make of LBLID
  leftover,           \* history: is gsLabel one of before the last reset?
  due                 \* history: interrupts raised and not handled since

flagVars == <<mtvuInterrupts, gsSignal, gsLabel>>
eeVars == <<ee, todo, taken>>
csrVars == <<csrSignal, queued, gsFINISHPending>>
labelVars == <<LBLID, labels, leftover>>
vars == <<flagVars, vu, eeVars, csrVars, labelVars, got, due>>

-----------------------------------------------------------------------------
Plain == {"FINISH"} \cup Ends
Interrupts == {"SIGNAL", "LABEL"} \cup Plain

\* "keep" is a bit that the mask leaves out.
Label == [Bits -> {"keep", "0", "1"}]
NoLabel == [b \in Bits |-> "keep"]
Zero == [b \in Bits |-> "0"]

\* (old & ~msk) | (data & msk), of data and mask alike.
Merge(old, new) == [b \in Bits |-> IF new[b] = "keep" THEN old[b] ELSE new[b]]

Succ(id) == IF id = IdMod THEN 1 ELSE id + 1

Init ==
  /\ mtvuInterrupts = {} /\ gsSignal = IdMod /\ gsLabel = NoLabel
  /\ vu = "run"
  /\ ee = "run" /\ todo = {} /\ taken = 0
  /\ LBLID = Zero /\ labels = Zero /\ leftover = FALSE
  /\ csrSignal = FALSE /\ queued = FALSE /\ gsFINISHPending = FALSE
  /\ got = IdMod
  /\ due = {}

-----------------------------------------------------------------------------
(* The MTVU thread: Gif_HandlerAD_MTVU.                                    *)

\* SIGNAL: the flag is looked at, then the value stored, then the flag raised.
SignalLook ==
  /\ vu = "run"
  /\ got' = IF "SIGNAL" \in mtvuInterrupts THEN 0 ELSE got
  /\ vu' = "store"
  /\ UNCHANGED <<flagVars, eeVars, csrVars, labelVars, due>>

SignalStore ==
  /\ vu = "store"
  /\ gsSignal' = Succ(gsSignal)
  /\ due' = due \cup {"SIGNAL"}
  /\ vu' = "raiseSignal"
  /\ UNCHANGED <<mtvuInterrupts, gsLabel, eeVars, csrVars, labelVars, got>>

\* Defect: the label goes over one that waits.
LabelStored(l) ==
  /\ vu = "run"
  /\ gsLabel' = l
  /\ labels' = Merge(labels, l)
  /\ due' = due \cup {"LABEL"}
  /\ vu' = "raiseLabel"
  /\ UNCHANGED <<mtvuInterrupts, gsSignal, eeVars, csrVars, LBLID, leftover,
                 got>>

\* LABEL: the exchange that succeeds; one that fails has only read.
LabelExchange(l) ==
  /\ vu = "run"
  /\ gsLabel' = Merge(gsLabel, l)
  /\ labels' = Merge(labels, l)
  /\ due' = due \cup {"LABEL"}
  /\ vu' = "raiseLabel"
  /\ UNCHANGED <<mtvuInterrupts, gsSignal, eeVars, csrVars, LBLID, leftover,
                 got>>

\* fetch_or, after the value.
Raise ==
  /\ \/ vu = "raiseSignal" /\ mtvuInterrupts' = mtvuInterrupts \cup {"SIGNAL"}
     \/ vu = "raiseLabel" /\ mtvuInterrupts' = mtvuInterrupts \cup {"LABEL"}
  /\ vu' = "run"
  /\ UNCHANGED <<gsSignal, gsLabel, eeVars, csrVars, labelVars, got, due>>

\* FINISH, and the program's end and T bit.  A flag that is up already is
\* logged, and stays up.
RaisePlain(i) ==
  /\ vu = "run"
  /\ mtvuInterrupts' = mtvuInterrupts \cup {i}
  /\ due' = due \cup {i}
  /\ UNCHANGED <<gsSignal, gsLabel, vu, eeVars, csrVars, labelVars, got>>

-----------------------------------------------------------------------------
(* The EE thread: Get_MTVUChanges.                                         *)

\* The flags are looked at once, and then taken one by one in this order.
Before(i) ==
  CASE i = "SIGNAL" -> {}
    [] i = "FINISH" -> {"SIGNAL"}
    [] i = "LABEL" -> {"SIGNAL", "FINISH"}
    [] i = "VUEBIT" -> {"SIGNAL", "FINISH", "LABEL"}
    [] OTHER -> {"SIGNAL", "FINISH", "LABEL", "VUEBIT"}

Current(i) == i \in todo /\ todo \cap Before(i) = {}

\* Defect: no early return.
PollNothing ==
  /\ ee = "run"
  /\ todo' = mtvuInterrupts
  /\ ee' = "look"
  /\ UNCHANGED <<flagVars, vu, taken, csrVars, labelVars, got, due>>

Poll ==
  /\ ee = "run"
  /\ mtvuInterrupts # {}
  /\ todo' = mtvuInterrupts
  /\ ee' = "look"
  /\ UNCHANGED <<flagVars, vu, taken, csrVars, labelVars, got, due>>

\* Defect: the flag goes before the value is looked at, and again after.
ClearThenLoad ==
  /\ ee = "look"
  /\ Current("SIGNAL")
  /\ mtvuInterrupts' = mtvuInterrupts \ {"SIGNAL"}
  /\ taken' = gsSignal
  /\ ee' = "loaded"
  /\ UNCHANGED <<gsSignal, gsLabel, vu, todo, csrVars, labelVars, got, due>>

LoadSignal ==
  /\ ee = "look"
  /\ Current("SIGNAL")
  /\ taken' = gsSignal
  /\ ee' = "loaded"
  /\ UNCHANGED <<flagVars, vu, todo, csrVars, labelVars, got, due>>

\* Defect: the flag stays up, and the same value is there at the next poll.
KeepSignal ==
  /\ ee = "loaded"
  /\ got' = IF got = 0 THEN 0 ELSE taken
  /\ ee' = "cleared"
  /\ UNCHANGED <<flagVars, vu, todo, taken, csrVars, labelVars, due>>

\* "Prevent that with release semantics": the value first, then the flag.
ClearSignal ==
  /\ ee = "loaded"
  /\ mtvuInterrupts' = mtvuInterrupts \ {"SIGNAL"}
  /\ got' = IF got = 0 THEN 0 ELSE taken
  /\ ee' = "cleared"
  /\ UNCHANGED <<gsSignal, gsLabel, vu, todo, taken, csrVars, labelVars, due>>

\* Defect: the copy of all the flags is cleared at the first of them.
ClearAll(i) ==
  /\ ee = "look"
  /\ Current(i)
  /\ mtvuInterrupts' = {}
  /\ ee' = "cleared"
  /\ UNCHANGED <<gsSignal, gsLabel, vu, todo, taken, csrVars, labelVars, got,
                 due>>

Clear(i) ==
  /\ ee = "look"
  /\ Current(i)
  /\ mtvuInterrupts' = mtvuInterrupts \ {i}
  /\ ee' = "cleared"
  /\ UNCHANGED <<gsSignal, gsLabel, vu, todo, taken, csrVars, labelVars, got,
                 due>>

Handled(i) ==
  /\ ee = "cleared"
  /\ Current(i)
  /\ todo' = todo \ {i}
  /\ ee' = IF todo = {i} THEN "run" ELSE "look"
  /\ due' = due \ {i}

\* A SIGNAL while CSR.SIGNAL is up waits in gsSIGNAL, over one that waits there.
FireSignal ==
  /\ Handled("SIGNAL")
  /\ csrSignal' = TRUE
  /\ queued' = (queued \/ csrSignal)
  /\ taken' = 0
  /\ UNCHANGED <<flagVars, vu, gsFINISHPending, labelVars, got>>

\* FINISH is pending, or Gif_FinishIRQ makes it CSR.FINISH at once (the other
\* paths are idle).
FirePlain(i) ==
  /\ Handled(i)
  /\ \/ i = "FINISH" /\ gsFINISHPending' \in BOOLEAN
     \/ i \in Ends /\ UNCHANGED gsFINISHPending
  /\ UNCHANGED <<flagVars, vu, taken, csrSignal, queued, labelVars, got>>

\* gsLabel.exchange(0): perhaps of nothing, when the flag was up twice.
ExchangeLabel ==
  /\ Handled("LABEL")
  /\ gsLabel' = NoLabel
  /\ LBLID' = Merge(LBLID, gsLabel)
  /\ leftover' = FALSE
  /\ UNCHANGED <<mtvuInterrupts, gsSignal, vu, taken, csrVars, labels, got>>

-----------------------------------------------------------------------------
(* What else the EE does with these registers, between two polls.          *)

\* The guest writes CSR.SIGNAL: a SIGNAL that waited comes up now.
WriteCSRSignal ==
  /\ ee = "run"
  /\ csrSignal' = queued
  /\ queued' = FALSE
  /\ UNCHANGED <<flagVars, vu, eeVars, gsFINISHPending, labelVars, got, due>>

\* Gif_FinishIRQ, when Gif_Unit::Execute leaves the paths idle; or the guest
\* writes CSR.FINISH, and nothing is pending any more.
FinishIRQ ==
  /\ ee = "run"
  /\ gsFINISHPending' = FALSE
  /\ UNCHANGED <<flagVars, vu, eeVars, csrSignal, queued, labelVars, got, due>>

\* The guest resets the GS: its registers, and the SIGNAL and FINISH that wait.
ResetCSR ==
  /\ ee = "run"
  /\ csrSignal' = FALSE /\ queued' = FALSE /\ gsFINISHPending' = FALSE
  /\ LBLID' = Zero /\ labels' = Merge(Zero, gsLabel)
  /\ UNCHANGED <<flagVars, vu, eeVars, leftover, got, due>>

\* VMManager::Reset: WaitVU, VU_Thread::Reset, and the registers of the GS and
\* the GIF unit.  gsSignal and gsLabel are not reset.
Reset ==
  /\ ee = "run" /\ vu = "run"
  /\ mtvuInterrupts' = {} /\ due' = {}
  /\ LBLID' = Zero /\ labels' = Merge(Zero, gsLabel)
  /\ leftover' = (gsLabel # NoLabel)
  /\ csrSignal' = FALSE /\ queued' = FALSE /\ gsFINISHPending' = FALSE
  /\ got' = IF got = 0 THEN 0 ELSE gsSignal
  /\ UNCHANGED <<gsSignal, gsLabel, vu, eeVars>>

-----------------------------------------------------------------------------
VUStep == SignalStore \/ Raise

EEStep ==
  \/ Poll \/ LoadSignal \/ ClearSignal \/ FireSignal \/ ExchangeLabel
  \/ \E i \in Interrupts \ {"SIGNAL"} : Clear(i)
  \/ \E i \in Plain : FirePlain(i)

Next ==
  \/ SignalLook \/ VUStep
  \/ \E l \in Label : LabelExchange(l)
  \/ \E i \in Plain : RaisePlain(i)
  \/ EEStep
  \/ WriteCSRSignal \/ FinishIRQ \/ ResetCSR \/ Reset

\* The EE polls at every event test; the MTVU thread ends what it began.
Spec == Init /\ [][Next]_vars /\ WF_vars(EEStep) /\ WF_vars(VUStep)

-----------------------------------------------------------------------------
(* Properties.                                                             *)

TypeOK ==
  /\ mtvuInterrupts \subseteq Interrupts
  /\ gsSignal \in 1..IdMod
  /\ gsLabel \in Label
  /\ vu \in {"run", "store", "raiseSignal", "raiseLabel"}
  /\ ee \in {"run", "look", "loaded", "cleared"}
  /\ todo \subseteq Interrupts /\ (todo = {} <=> ee = "run")
  /\ taken \in 0..IdMod
  /\ LBLID \in [Bits -> {"0", "1"}] /\ labels \in [Bits -> {"0", "1"}]
  /\ leftover \in BOOLEAN
  /\ csrSignal \in BOOLEAN /\ queued \in BOOLEAN /\ gsFINISHPending \in BOOLEAN
  /\ got \in 0..IdMod
  /\ due \subseteq Interrupts

\* No label is lost and none applied twice, however the labels of the program
\* and the polls of the EE interleave: LBLID with what waits in gsLabel is what
\* all the labels make of it, in order ("It's okay to coalesce label updates").
LabelsComeThrough == Merge(LBLID, gsLabel) = labels

\* "... or the other thread could add more work before we clear the flag,
\* resulting in an update with the flag unset": a label that waits has its flag
\* up, or a thread about to raise it or to take the label.
LabelFlagged ==
  gsLabel # NoLabel =>
    \/ "LABEL" \in mtvuInterrupts
    \/ vu = "raiseLabel"
    \/ ee = "cleared" /\ Current("LABEL")
    \/ leftover

\* Both: a label is in LBLID, or on a way that ends there.
LabelsArrive == LabelsComeThrough /\ LabelFlagged

\* "... without noticing the double signal": a SIGNAL that the EE has not taken
\* is never overwritten without the error having been logged.
NoSilentOverwrite == vu = "store" => got \in {0, gsSignal}

\* Until a double is logged, each time the EE takes a SIGNAL it is the one after
\* the last that it took: none is left out and none taken twice.  Nothing else
\* moves it on but a reset, which drops the one that waits.
Takes == ee = "loaded" /\ ee' = "cleared"
TakesNext == got' = IF got = 0 THEN 0 ELSE Succ(got)
TakesNone == got' \in {0, got} \/ (Reset /\ got' = gsSignal)

SignalsInOrder == [][IF Takes THEN TakesNext ELSE TakesNone]_vars

\* Whatever the program raises is handled after it was raised.
RaisedIsHandled == \A i \in Interrupts : i \in due ~> i \notin due
=============================================================================
