------------------------- MODULE MTVUSignalsProofs -------------------------
(***************************************************************************)
(* Proofs about MTVUSignals, for every number of label bits and SIGNALs.   *)
(***************************************************************************)
EXTENDS MTVUSignals, TLAPS

-----------------------------------------------------------------------------
(* Labels.                                                                 *)

LEMMA MergeType ==
  ASSUME NEW old \in Label, NEW new \in Label
  PROVE  Merge(old, new) \in Label
BY DEF Merge, Label

LEMMA MergeBits ==
  ASSUME NEW old \in [Bits -> {"0", "1"}], NEW new \in Label
  PROVE  Merge(old, new) \in [Bits -> {"0", "1"}]
BY DEF Merge, Label

\* A label that waits may take in another: the register gets the same.
LEMMA MergeAssociative ==
  ASSUME NEW reg \in [Bits -> {"0", "1"}], NEW old \in Label, NEW new \in Label
  PROVE  Merge(reg, Merge(old, new)) = Merge(Merge(reg, old), new)
BY DEF Merge, Label

LEMMA MergeNothing ==
  ASSUME NEW reg \in [Bits -> {"0", "1"}]
  PROVE  Merge(reg, NoLabel) = reg
BY DEF Merge, NoLabel

LEMMA NoLabelType == NoLabel \in Label
BY DEF NoLabel, Label

LEMMA SuccType ==
  ASSUME NEW id \in 1..IdMod
  PROVE  /\ Succ(id) \in 1..IdMod
         /\ Succ(id) # id
BY MTVUSignalsAssumption DEF Succ

-----------------------------------------------------------------------------
(* Types.                                                                  *)

LEMMA InitTypeOK == Init => TypeOK
<1> SUFFICES ASSUME Init PROVE TypeOK
  OBVIOUS
<1> USE DEF Init
<1>1. /\ gsSignal \in 1..IdMod /\ taken \in 0..IdMod /\ got \in 0..IdMod
  BY MTVUSignalsAssumption
<1>2. LBLID \in [Bits -> {"0", "1"}] /\ labels \in [Bits -> {"0", "1"}]
  BY DEF Zero
<1> QED
  BY <1>1, <1>2, NoLabelType DEF TypeOK

LEMMA NextTypeOK ==
  ASSUME TypeOK, [Next]_vars
  PROVE  TypeOK'
<1> USE DEF TypeOK, flagVars, eeVars, csrVars, labelVars
<1>1. CASE SignalLook
  BY <1>1, MTVUSignalsAssumption DEF SignalLook
<1>2. CASE SignalStore
  BY <1>2, SuccType, MTVUSignalsAssumption DEF SignalStore, Interrupts
<1>3. CASE Raise
  BY <1>3 DEF Raise, Interrupts
<1>4. ASSUME NEW l \in Label, LabelExchange(l)
      PROVE  TypeOK'
  BY <1>4, MergeType, MergeBits DEF LabelExchange, Interrupts
<1>5. ASSUME NEW i \in Plain, RaisePlain(i)
      PROVE  TypeOK'
  BY <1>5 DEF RaisePlain, Interrupts
<1>6. CASE Poll
  BY <1>6 DEF Poll
<1>7. CASE LoadSignal
  BY <1>7 DEF LoadSignal, Current
<1>8. CASE ClearSignal
  BY <1>8, MTVUSignalsAssumption DEF ClearSignal
<1>9. CASE FireSignal
  <2>1. todo' \subseteq Interrupts /\ (todo' = {} <=> ee' = "run")
    BY <1>9 DEF FireSignal, Handled, Current
  <2>2. taken' \in 0..IdMod
    BY <1>9, MTVUSignalsAssumption DEF FireSignal
  <2> QED
    BY <1>9, <2>1, <2>2 DEF FireSignal, Handled
<1>10. CASE ExchangeLabel
  BY <1>10, MergeBits, NoLabelType DEF ExchangeLabel, Handled, Current
<1>11. ASSUME NEW i \in Interrupts, Clear(i)
       PROVE  TypeOK'
  BY <1>11 DEF Clear, Current
<1>12. ASSUME NEW i \in Plain, FirePlain(i)
       PROVE  TypeOK'
  BY <1>12 DEF FirePlain, Handled, Current
<1>13. CASE WriteCSRSignal \/ FinishIRQ
  BY <1>13 DEF WriteCSRSignal, FinishIRQ
<1>14. CASE ResetCSR \/ Reset
  <2>1. Zero \in [Bits -> {"0", "1"}]
    BY DEF Zero
  <2>2. LBLID' \in [Bits -> {"0", "1"}] /\ labels' \in [Bits -> {"0", "1"}]
    BY <1>14, <2>1, MergeBits DEF ResetCSR, Reset
  <2>3. got' \in 0..IdMod
    BY <1>14, MTVUSignalsAssumption DEF ResetCSR, Reset
  <2> QED
    BY <1>14, <2>2, <2>3 DEF ResetCSR, Reset
<1>15. CASE UNCHANGED vars
  BY <1>15 DEF vars
<1> HIDE DEF TypeOK
<1> QED
  BY <1>1, <1>2, <1>3, <1>4, <1>5, <1>6, <1>7, <1>8, <1>9, <1>10, <1>11,
     <1>12, <1>13, <1>14, <1>15 DEF Next, VUStep, EEStep

\* Every variable keeps its type.
THEOREM TypeCorrect == Spec => []TypeOK
<1>1. TypeOK /\ [Next]_vars => TypeOK'
  BY NextTypeOK
<1> QED
  BY <1>1, InitTypeOK, PTL DEF Spec

-----------------------------------------------------------------------------
(* Labels come through: the exchange of the EE and those of the MTVU       *)
(* thread are atomic, and a flag that is down has nobody who waits for it. *)

LabelInv == LabelsComeThrough /\ LabelFlagged

LEMMA NextLabelInv ==
  ASSUME TypeOK, LabelInv, [Next]_vars
  PROVE  LabelInv'
<1> USE DEF TypeOK, LabelInv, flagVars, eeVars, csrVars, labelVars
<1>1. CASE SignalLook
  BY <1>1 DEF SignalLook, LabelsComeThrough, LabelFlagged, Current
<1>2. CASE SignalStore
  BY <1>2 DEF SignalStore, LabelsComeThrough, LabelFlagged, Current
<1>3. CASE Raise
  BY <1>3 DEF Raise, LabelsComeThrough, LabelFlagged, Current
<1>4. ASSUME NEW l \in Label, LabelExchange(l) PROVE LabelInv'
  <2>1. LabelsComeThrough'
    BY <1>4, MergeAssociative DEF LabelExchange, LabelsComeThrough
  <2> QED
    BY <1>4, <2>1 DEF LabelExchange, LabelFlagged
<1>5. ASSUME NEW i \in Plain, RaisePlain(i) PROVE LabelInv'
  BY <1>5 DEF RaisePlain, LabelsComeThrough, LabelFlagged, Current
<1>6. CASE Poll
  BY <1>6 DEF Poll, LabelsComeThrough, LabelFlagged
<1>7. CASE LoadSignal
  BY <1>7 DEF LoadSignal, LabelsComeThrough, LabelFlagged
<1>8. CASE ClearSignal
  BY <1>8 DEF ClearSignal, LabelsComeThrough, LabelFlagged
<1>9. CASE FireSignal
  <2>1. ~Current("LABEL")
    BY <1>9 DEF FireSignal, Handled, Current, Before
  <2> QED
    BY <1>9, <2>1 DEF FireSignal, LabelsComeThrough, LabelFlagged
<1>10. CASE ExchangeLabel
  <2>1. LabelsComeThrough'
    BY <1>10, MergeNothing DEF ExchangeLabel, LabelsComeThrough
  <2> QED
    BY <1>10, <2>1 DEF ExchangeLabel, LabelFlagged
<1>11. ASSUME NEW i \in Interrupts, i # "SIGNAL", Clear(i) PROVE LabelInv'
  <2>1. ee # "cleared" /\ (i = "LABEL" => Current("LABEL")')
    BY <1>11 DEF Clear, Current
  <2> QED
    BY <1>11, <2>1 DEF Clear, LabelsComeThrough, LabelFlagged
<1>12. ASSUME NEW i \in Plain, FirePlain(i) PROVE LabelInv'
  <2>1. ~Current("LABEL")
    BY <1>12, MTVUSignalsAssumption
       DEF FirePlain, Handled, Current, Before, Plain
  <2> QED
    BY <1>12, <2>1 DEF FirePlain, LabelsComeThrough, LabelFlagged
<1>13. CASE WriteCSRSignal \/ FinishIRQ
  BY <1>13 DEF WriteCSRSignal, FinishIRQ, LabelsComeThrough, LabelFlagged,
     Current
<1>14. CASE ResetCSR \/ Reset
  BY <1>14 DEF ResetCSR, Reset, LabelsComeThrough, LabelFlagged, Current
<1>15. CASE UNCHANGED vars
  BY <1>15 DEF vars, LabelsComeThrough, LabelFlagged, Current
<1> HIDE DEF TypeOK, LabelInv
<1> QED
  BY <1>1, <1>2, <1>3, <1>4, <1>5, <1>6, <1>7, <1>8, <1>9, <1>10, <1>11,
     <1>12, <1>13, <1>14, <1>15 DEF Next, VUStep, EEStep

\* No label is lost, none is applied twice, and none waits unnoticed.
THEOREM LabelsSafe == Spec => []LabelsArrive
<1>1. Init => LabelInv
  <2> SUFFICES ASSUME Init PROVE LabelInv
    OBVIOUS
  <2>1. Zero \in [Bits -> {"0", "1"}]
    BY DEF Zero
  <2> QED
    BY <2>1, MergeNothing DEF Init, LabelInv, LabelsComeThrough, LabelFlagged
<1>2. TypeOK /\ LabelInv /\ [Next]_vars => LabelInv'
  BY NextLabelInv
<1> QED
  BY <1>1, <1>2, TypeCorrect, PTL DEF Spec, LabelInv, LabelsArrive

-----------------------------------------------------------------------------
(* SIGNALs come in order.  Until a double is logged, the one stored is the *)
(* one taken or the one after it, and its flag says which, once raised.    *)

Waits == "SIGNAL" \in mtvuInterrupts \/ vu = "raiseSignal"

SignalInv ==
  /\ ee = "loaded" => Current("SIGNAL")
  /\ ee \in {"look", "loaded"} /\ "SIGNAL" \in todo =>
       "SIGNAL" \in mtvuInterrupts
  /\ got # 0 =>
       /\ gsSignal = IF Waits THEN Succ(got) ELSE got
       /\ vu \in {"store", "raiseSignal"} => "SIGNAL" \notin mtvuInterrupts
       /\ ee = "loaded" => taken = gsSignal

LEMMA NextSignalInv ==
  ASSUME TypeOK, SignalInv, [Next]_vars
  PROVE  SignalInv' /\ IF Takes THEN TakesNext ELSE TakesNone
<1> DEFINE Step == IF Takes THEN TakesNext ELSE TakesNone
<1> SUFFICES SignalInv' /\ Step
  OBVIOUS
<1> USE DEF TypeOK, flagVars, eeVars, csrVars, labelVars, SignalInv, Waits,
        Current, Before, Takes, TakesNext, TakesNone
<1>1. CASE SignalLook
  BY <1>1 DEF SignalLook
<1>2. CASE SignalStore
  BY <1>2, SuccType DEF SignalStore
<1>3. CASE Raise
  BY <1>3 DEF Raise
<1>4. ASSUME NEW l \in Label, LabelExchange(l) PROVE SignalInv' /\ Step
  BY <1>4 DEF LabelExchange
<1>5. ASSUME NEW i \in Plain, RaisePlain(i) PROVE SignalInv' /\ Step
  BY <1>5, MTVUSignalsAssumption DEF RaisePlain, Plain
<1>6. CASE Poll
  BY <1>6 DEF Poll
<1>7. CASE LoadSignal
  BY <1>7 DEF LoadSignal
<1>8. CASE ClearSignal
  BY <1>8, SuccType DEF ClearSignal
<1>9. CASE FireSignal
  BY <1>9 DEF FireSignal, Handled
<1>10. CASE ExchangeLabel
  BY <1>10 DEF ExchangeLabel, Handled
<1>11. ASSUME NEW i \in Interrupts, i # "SIGNAL", Clear(i)
       PROVE  SignalInv' /\ Step
  BY <1>11 DEF Clear
<1>12. ASSUME NEW i \in Plain, FirePlain(i) PROVE SignalInv' /\ Step
  BY <1>12, MTVUSignalsAssumption DEF FirePlain, Handled, Plain
<1>13. CASE WriteCSRSignal \/ FinishIRQ
  BY <1>13 DEF WriteCSRSignal, FinishIRQ
<1>14. CASE ResetCSR \/ Reset
  BY <1>14 DEF ResetCSR, Reset
<1>15. CASE UNCHANGED vars
  BY <1>15 DEF vars
<1> HIDE DEF TypeOK, SignalInv, Step
<1> QED
  BY <1>1, <1>2, <1>3, <1>4, <1>5, <1>6, <1>7, <1>8, <1>9, <1>10, <1>11,
     <1>12, <1>13, <1>14, <1>15 DEF Next, VUStep, EEStep

LEMMA SignalInvariant == Spec => []SignalInv
<1>1. Init => SignalInv
  BY MTVUSignalsAssumption DEF Init, SignalInv, Waits, Current
<1>2. TypeOK /\ SignalInv /\ [Next]_vars => SignalInv'
  BY NextSignalInv
<1> QED
  BY <1>1, <1>2, TypeCorrect, PTL DEF Spec

\* A SIGNAL that the EE has not taken is overwritten only after the error of a
\* double one has been logged.
THEOREM NoSilentOverwriteSafe == Spec => []NoSilentOverwrite
<1>1. SignalInv => NoSilentOverwrite
  BY DEF SignalInv, Waits, NoSilentOverwrite
<1> QED
  BY <1>1, SignalInvariant, PTL

\* Until then every SIGNAL is taken, in order and once: each taking moves on by
\* one, and no other step but a reset moves at all.
THEOREM SignalsSafe == Spec => SignalsInOrder
<1>1. TypeOK /\ SignalInv /\ [Next]_vars =>
        [IF Takes THEN TakesNext ELSE TakesNone]_vars
  BY NextSignalInv
<1> QED
  BY <1>1, TypeCorrect, SignalInvariant, PTL DEF Spec, SignalsInOrder
=============================================================================
