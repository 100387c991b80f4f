--------------------------- MODULE StepLoop_proofs ---------------------------
(***************************************************************************)
(* The integration loop: time, states and output rows stay together for    *)
(* every step size, output interval, end time, tolerance and budget.       *)
(*                                                                         *)
(* The events at a time point: for every program of when-clauses, whatever *)
(* its length, every rise of a condition is acted on, once, and an event   *)
(* loop that settles has reached a fixed point.                            *)
(***************************************************************************)

EXTENDS StepLoop, EventIteration, SequenceTheorems, WellFoundedInduction, TLAPS

-----------------------------------------------------------------------------
(***************************************************************************)
(*                          THE INTEGRATION LOOP                           *)
(***************************************************************************)

Attempt == {"solve", "recover", "trial", "retrial", "cross"}

Integrated(s) == s + skipped + snapped = time + doubled

(***************************************************************************)
(* The inductive invariant.                                                *)
(*                                                                         *)
(* An attempt starts from saved states that belong to the time, and once a *)
(* step has been made the states are that one step ahead of them.          *)
(***************************************************************************)
StatesInv ==
  hasStates =>
    /\ pc \in {"top", "events", "solve", "recover"} => Integrated(integrated)
    /\ pc \in Attempt => Integrated(saved)
    /\ pc \in {"trial", "retrial", "cross"} => integrated = saved + dtStep

\* The next row is less than a step overdue; before an attempt it has been
\* written; and where events are iterated time is not just below the grid.
GridInv ==
  /\ nextPrint = Len(rows) * Interval
  /\ pc \in {"top", "events"} => time < nextPrint + Dt
  /\ pc \in Attempt => hasStates /\ time < nextPrint
  /\ pc = "events" => time >= nextPrint \/ time + Eps < nextPrint
  /\ ~hasStates => emptySteps * Dt <= time

IInv == TypeOK /\ StatesInv /\ GridInv /\ RowsKeepPace

-----------------------------------------------------------------------------

\* The only products of the model.
LEMMA Products ==
  \A n, m \in Nat : n * m \in Nat /\ (n + 1) * m = n * m + m /\ 0 * m = 0
  OBVIOUS

\* A row is appended; the rows before it stay.
LEMMA RowAppended ==
  ASSUME NEW s \in Seq(Nat), NEW t \in Nat
  PROVE  /\ Append(s, t) \in Seq(Nat)
         /\ Len(Append(s, t)) = Len(s) + 1
         /\ \A k \in 1..Len(s) : Append(s, t)[k] = s[k]
         /\ Append(s, t)[Len(s) + 1] = t
  OBVIOUS

LEMMA TypeInit == Init => TypeOK
  BY StepAssumption DEF Init, TypeOK, Labels, Over

LEMMA RowTyped ==
  ASSUME TypeOK, WriteRow
  PROVE  rows' \in Seq(Nat) /\ nextPrint' \in Nat
<1>1. rows \in Seq(Nat) /\ time \in Nat /\ nextPrint \in Nat /\ Interval \in Nat
  BY StepAssumption DEF TypeOK
<1>2. CASE time + Eps >= nextPrint
  BY <1>1, <1>2, RowAppended DEF WriteRow
<1>3. CASE ~(time + Eps >= nextPrint)
  BY <1>1, <1>3 DEF WriteRow
<1> QED
  BY <1>2, <1>3

LEMMA TypeStep == TypeOK /\ [Next]_vars => TypeOK'
<1> SUFFICES ASSUME TypeOK, [Next]_vars PROVE TypeOK'
  OBVIOUS
<1> USE StepAssumption DEF vars, model, clock, stepping, UnmovedClock
<1>1. CASE Snap
  BY <1>1 DEF Snap, TypeOK, Labels, Over
<1>2. CASE LoopEnds
  BY <1>2 DEF LoopEnds, TypeOK, Labels, Over
<1>3. CASE EventsConverge
  <2>1. rows' \in Seq(Nat) /\ nextPrint' \in Nat
    BY <1>3, RowTyped DEF EventsConverge
  <2>2. CASE hasStates
    BY <1>3, <2>1, <2>2 DEF EventsConverge, TypeOK, Labels, Over
  <2>3. CASE ~hasStates
    <3>1. (emptySteps + 1) * Dt \in Nat
      BY Products DEF TypeOK
    <3> QED
      BY <1>3, <2>1, <2>3, <3>1 DEF EventsConverge, TypeOK, Labels, Over
  <2> QED
    BY <2>2, <2>3
<1>4. CASE EventsEnd
  BY <1>4 DEF EventsEnd, TypeOK, Labels, Over
<1>5. CASE SolverOk
  BY <1>5 DEF SolverOk, Smaller, Larger, TypeOK, Labels, Over
<1>6. CASE SolverFails
  BY <1>6 DEF SolverFails, TypeOK, Labels, Over
<1>7. CASE MicroStep
  BY <1>7 DEF MicroStep, TypeOK, Labels, Over
<1>8. CASE RecoverTerminates
  BY <1>8 DEF RecoverTerminates, TypeOK, Labels, Over
<1>9. CASE RecoverFails
  <2>1. CASE Nudge
    <3>1. nudges' \in 0..NudgeMax
      BY <2>1 DEF Nudge, TypeOK
    <3> QED
      BY <1>9, <2>1, <3>1 DEF RecoverFails, Nudge, TypeOK, Labels, Over
  <2>2. CASE NoNudge
    BY <1>9, <2>2 DEF RecoverFails, NoNudge, TypeOK, Labels, Over
  <2> QED
    BY <1>9, <2>1, <2>2 DEF RecoverFails
<1>10. CASE TrialOk
  BY <1>10 DEF TrialOk, TypeOK, Labels, Over
<1>11. CASE TrialZeroResidual
  BY <1>11 DEF TrialZeroResidual, TypeOK, Labels, Over
<1>12. CASE TrialFails
  BY <1>12 DEF TrialFails, TypeOK, Labels, Over
<1>13. CASE RetrialOk
  BY <1>13 DEF RetrialOk, Larger, TypeOK, Labels, Over
<1>14. CASE RetrialFails
  <2>1. CASE Nudge
    <3>1. nudges' \in 0..NudgeMax
      BY <2>1 DEF Nudge, TypeOK
    <3> QED
      BY <1>14, <2>1, <3>1 DEF RetrialFails, Nudge, TypeOK, Labels, Over
  <2>2. CASE NoNudge
    BY <1>14, <2>2 DEF RetrialFails, NoNudge, TypeOK, Labels, Over
  <2> QED
    BY <1>14, <2>1, <2>2 DEF RetrialFails
<1>15. CASE NoCrossing
  BY <1>15 DEF NoCrossing, TypeOK, Labels, Over
<1>16. CASE Crossing
  BY <1>16 DEF Crossing, CrossingTimes, TypeOK, Labels, Over
<1>17. CASE CrossingFails
  BY <1>17 DEF CrossingFails, TypeOK, Labels, Over
<1>18. CASE Done \/ UNCHANGED vars
  BY <1>18 DEF Done, TypeOK, Labels, Over
<1> QED
  BY <1>1, <1>2, <1>3, <1>4, <1>5, <1>6, <1>7, <1>8, <1>9, <1>10,
     <1>11, <1>12, <1>13, <1>14, <1>15, <1>16, <1>17, <1>18 DEF Next, Loop

LEMMA StatesInit == Init => StatesInv
  BY DEF Init, StatesInv, Integrated, Attempt

\* An attempt that succeeds moves the states by the step it made; one that is
\* given up, restored or rewound leaves the account balanced.
LEMMA StatesStep == TypeOK /\ StatesInv /\ [Next]_vars => StatesInv'
<1> SUFFICES ASSUME TypeOK, StatesInv, [Next]_vars PROVE StatesInv'
  OBVIOUS
<1> USE DEF TypeOK, StatesInv, Integrated, Attempt
<1> USE DEF vars, model, clock, stepping, UnmovedClock
<1>1. CASE Snap
  <2>1. /\ time \in Nat /\ nextPrint \in Nat /\ integrated \in Nat /\ skipped \in Nat
        /\ snapped \in Nat /\ doubled \in Nat
    OBVIOUS
  <2>2. snapped' = snapped + (time' - time) /\ time' \in Nat
    BY <1>1, <2>1 DEF Snap
  <2>3. pc = "top" /\ pc' = "events" /\ UNCHANGED <<hasStates, integrated, skipped, doubled>>
    BY <1>1 DEF Snap
  <2>4. hasStates => integrated + skipped + snapped = time + doubled
    BY <2>3
  <2>5. hasStates => integrated' + skipped' + snapped' = time' + doubled'
    BY ONLY <2>1, <2>2, <2>3, <2>4
  <2> QED
    BY <2>3, <2>5
<1>2. CASE LoopEnds
  BY <1>2 DEF LoopEnds
<1>3. CASE EventsConverge
  BY <1>3 DEF EventsConverge, WriteRow
<1>4. CASE EventsEnd
  BY <1>4 DEF EventsEnd
<1>5. CASE SolverOk
  BY <1>5 DEF SolverOk, Smaller, Larger
<1>6. CASE SolverFails
  BY <1>6 DEF SolverFails
<1>7. CASE MicroStep
  BY <1>7 DEF MicroStep
<1>8. CASE RecoverTerminates
  BY <1>8 DEF RecoverTerminates
<1>9. CASE RecoverFails
  <2>1. CASE Nudge
    BY <1>9, <2>1 DEF RecoverFails, Nudge
  <2>2. CASE NoNudge
    BY <1>9, <2>2 DEF RecoverFails, NoNudge
  <2> QED
    BY <1>9, <2>1, <2>2 DEF RecoverFails
<1>10. CASE TrialOk
  BY <1>10 DEF TrialOk
<1>11. CASE TrialZeroResidual
  <2>1. /\ dtStep \in Nat /\ saved \in Nat /\ integrated \in Nat /\ skipped \in Nat
        /\ snapped \in Nat /\ doubled \in Nat /\ time \in Nat
    BY StepAssumption
  <2>2. pc = "trial" /\ pc' = "top" /\ UNCHANGED <<hasStates, time, skipped, snapped>>
    BY <1>11 DEF TrialZeroResidual
  <2>3. \/ doubled' = doubled + dtStep /\ integrated' = integrated
        \/ doubled' = doubled /\ integrated' = saved
    BY <1>11 DEF TrialZeroResidual
  <2>4. hasStates => /\ saved + skipped + snapped = time + doubled
                     /\ integrated = saved + dtStep
    BY <2>2
  <2>5. hasStates => integrated' + skipped' + snapped' = time' + doubled'
    BY ONLY <2>1, <2>2, <2>3, <2>4
  <2> QED
    BY <2>2, <2>5
<1>12. CASE TrialFails
  BY <1>12 DEF TrialFails
<1>13. CASE RetrialOk
  BY <1>13 DEF RetrialOk, Larger
<1>14. CASE RetrialFails
  <2>1. CASE Nudge
    BY <1>14, <2>1 DEF RetrialFails, Nudge
  <2>2. CASE NoNudge
    BY <1>14, <2>2 DEF RetrialFails, NoNudge
  <2> QED
    BY <1>14, <2>1, <2>2 DEF RetrialFails
<1>15. CASE NoCrossing
  BY <1>15 DEF NoCrossing
<1>16. CASE Crossing
  BY <1>16 DEF Crossing, CrossingTimes
<1>17. CASE CrossingFails
  BY <1>17 DEF CrossingFails
<1>18. CASE Done \/ UNCHANGED vars
  BY <1>18 DEF Done
<1> QED
  BY <1>1, <1>2, <1>3, <1>4, <1>5, <1>6, <1>7, <1>8, <1>9, <1>10,
     <1>11, <1>12, <1>13, <1>14, <1>15, <1>16, <1>17, <1>18 DEF Next, Loop

\* The k-th row is less than a step after the k-th point of the grid.
RowsOnGrid ==
  \A k \in 1..Len(rows) :
    (k - 1) * Interval <= rows[k] /\ rows[k] < (k - 1) * Interval + Dt

\* After the events the row that was due has been written and the grid is
\* ahead of time.
LEMMA RowWritten ==
  ASSUME TypeOK, GridInv, RowsOnGrid, pc = "events", WriteRow
  PROVE  /\ nextPrint' = Len(rows') * Interval
         /\ time < nextPrint'
         /\ RowsOnGrid'
<1> DEFINE n == Len(rows)
<1>1. /\ rows \in Seq(Nat) /\ time \in Nat /\ nextPrint \in Nat /\ Eps \in Nat
      /\ Interval \in Nat /\ Dt \in Nat /\ Dt <= Interval
  BY StepAssumption DEF TypeOK
<1>2. /\ nextPrint = n * Interval /\ time < nextPrint + Dt
      /\ time >= nextPrint \/ time + Eps < nextPrint
  BY DEF GridInv
<1>3. n \in Nat /\ (n + 1) * Interval = n * Interval + Interval
  BY <1>1, Products
<1>4. CASE time + Eps >= nextPrint
  <2>1. rows' = Append(rows, time) /\ nextPrint' = nextPrint + Interval
    BY <1>4 DEF WriteRow
  <2>2. Len(rows') = n + 1 /\ rows'[n + 1] = time /\ \A k \in 1..n : rows'[k] = rows[k]
    BY <1>1, <2>1, RowAppended
  <2>3. nextPrint <= time
    BY <1>1, <1>2, <1>4
  <2>4. ASSUME NEW k \in 1..Len(rows')
        PROVE  (k - 1) * Interval <= rows'[k] /\ rows'[k] < (k - 1) * Interval + Dt
    <3>1. CASE k = n + 1
      <4>1. k - 1 = n
        BY <1>3, <3>1
      <4> QED
        BY <1>2, <2>2, <2>3, <3>1, <4>1
    <3>2. CASE k # n + 1
      <4>1. k \in 1..n
        BY <1>3, <2>2, <3>2
      <4> QED
        BY <2>2, <4>1 DEF RowsOnGrid
    <3> QED
      BY <3>1, <3>2
  <2>5. nextPrint' = Len(rows') * Interval
    BY <1>2, <1>3, <2>1, <2>2
  <2>6. time < nextPrint'
    BY <1>1, <1>2, <2>1
  <2> QED
    BY <2>4, <2>5, <2>6 DEF RowsOnGrid
<1>5. CASE ~(time + Eps >= nextPrint)
  <2>1. rows' = rows /\ nextPrint' = nextPrint
    BY <1>5 DEF WriteRow
  <2>2. time < nextPrint'
    BY <1>1, <1>2, <1>5, <2>1
  <2> QED
    BY <1>2, <2>1, <2>2 DEF RowsOnGrid
<1> QED
  BY <1>4, <1>5

LEMMA GridInit == Init => GridInv /\ RowsKeepPace
<1>1. Interval \in Nat /\ 0 * Interval = 0 /\ Dt \in Nat \ {0} /\ 0 * Dt = 0
  BY StepAssumption, Products
<1> QED
  BY <1>1 DEF Init, GridInv, RowsKeepPace, Attempt

\* Time never gets a whole step past the next row.
LEMMA GridStep ==
  ASSUME TypeOK, TypeOK', GridInv, RowsOnGrid, [Next]_vars
  PROVE  GridInv' /\ RowsOnGrid'
<1>1. /\ time \in Nat /\ nextPrint \in Nat /\ Eps \in Nat /\ emptySteps \in Nat
      /\ Dt \in Nat \ {0} /\ Interval \in Nat
      /\ dtStep \in 1..Dt /\ emptySteps * Dt \in Nat
  BY StepAssumption, Products DEF TypeOK
<1> USE DEF GridInv, Attempt
<1> USE DEF vars, model, clock, stepping, UnmovedClock
<1>2. CASE Snap
  <2>1. UNCHANGED <<nextPrint, rows>>
    BY <1>2 DEF Snap
  <2>2. RowsOnGrid'
    BY <2>1 DEF RowsOnGrid
  <2> QED
    BY <1>1, <1>2, <2>1, <2>2 DEF Snap
<1>3. CASE LoopEnds
  <2>1. UNCHANGED <<nextPrint, rows>>
    BY <1>3 DEF LoopEnds, Over
  <2>2. RowsOnGrid'
    BY <2>1 DEF RowsOnGrid
  <2> QED
    BY <1>1, <1>3, <2>1, <2>2 DEF LoopEnds, Over
<1>4. CASE EventsConverge
  <2>1. nextPrint' = Len(rows') * Interval /\ time < nextPrint' /\ RowsOnGrid'
    BY <1>4, RowWritten DEF EventsConverge
  <2>2. nextPrint' \in Nat
    BY DEF TypeOK
  <2>3. CASE hasStates
    BY <1>1, <1>4, <2>1, <2>2, <2>3 DEF EventsConverge
  <2>4. CASE ~hasStates
    <3>1. time' = emptySteps * Dt + Dt /\ emptySteps' * Dt = time'
      BY <1>1, <1>4, <2>4, Products DEF EventsConverge
    <3>2. time' < nextPrint' + Dt
      BY <1>1, <2>1, <2>2, <2>4, <3>1
    <3> QED
      BY <1>1, <1>4, <2>1, <2>4, <3>1, <3>2 DEF EventsConverge
  <2> QED
    BY <2>3, <2>4
<1>5. CASE EventsEnd
  <2>1. UNCHANGED <<nextPrint, rows>>
    BY <1>5 DEF EventsEnd, Over
  <2>2. RowsOnGrid'
    BY <2>1 DEF RowsOnGrid
  <2> QED
    BY <1>1, <1>5, <2>1, <2>2 DEF EventsEnd, Over
<1>6. CASE SolverOk
  <2>1. UNCHANGED <<nextPrint, rows>>
    BY <1>6 DEF SolverOk, Smaller, Larger
  <2>2. RowsOnGrid'
    BY <2>1 DEF RowsOnGrid
  <2> QED
    BY <1>1, <1>6, <2>1, <2>2 DEF SolverOk, Smaller, Larger
<1>7. CASE SolverFails
  <2>1. UNCHANGED <<nextPrint, rows>>
    BY <1>7 DEF SolverFails
  <2>2. RowsOnGrid'
    BY <2>1 DEF RowsOnGrid
  <2> QED
    BY <1>1, <1>7, <2>1, <2>2 DEF SolverFails
<1>8. CASE MicroStep
  <2>1. UNCHANGED <<nextPrint, rows>>
    BY <1>8 DEF MicroStep
  <2>2. RowsOnGrid'
    BY <2>1 DEF RowsOnGrid
  <2> QED
    BY <1>1, <1>8, <2>1, <2>2 DEF MicroStep
<1>9. CASE RecoverTerminates
  <2>1. UNCHANGED <<nextPrint, rows>>
    BY <1>9 DEF RecoverTerminates
  <2>2. RowsOnGrid'
    BY <2>1 DEF RowsOnGrid
  <2> QED
    BY <1>1, <1>9, <2>1, <2>2 DEF RecoverTerminates
<1>10. CASE RecoverFails
  <2>1. UNCHANGED <<nextPrint, rows, hasStates>>
    BY <1>10 DEF RecoverFails, Nudge, NoNudge
  <2>2. RowsOnGrid'
    BY <2>1 DEF RowsOnGrid
  <2>3. CASE Nudge
    BY <1>1, <1>10, <2>1, <2>2, <2>3 DEF RecoverFails, Nudge
  <2>4. CASE NoNudge
    BY <1>10, <2>1, <2>2, <2>4 DEF RecoverFails, NoNudge
  <2> QED
    BY <1>10, <2>3, <2>4 DEF RecoverFails
<1>11. CASE TrialOk
  <2>1. UNCHANGED <<nextPrint, rows>>
    BY <1>11 DEF TrialOk
  <2>2. RowsOnGrid'
    BY <2>1 DEF RowsOnGrid
  <2> QED
    BY <1>1, <1>11, <2>1, <2>2 DEF TrialOk
<1>12. CASE TrialZeroResidual
  <2>1. UNCHANGED <<nextPrint, rows>>
    BY <1>12 DEF TrialZeroResidual
  <2>2. RowsOnGrid'
    BY <2>1 DEF RowsOnGrid
  <2> QED
    BY <1>1, <1>12, <2>1, <2>2 DEF TrialZeroResidual
<1>13. CASE TrialFails
  <2>1. UNCHANGED <<nextPrint, rows>>
    BY <1>13 DEF TrialFails
  <2>2. RowsOnGrid'
    BY <2>1 DEF RowsOnGrid
  <2> QED
    BY <1>1, <1>13, <2>1, <2>2 DEF TrialFails
<1>14. CASE RetrialOk
  <2>1. UNCHANGED <<nextPrint, rows>>
    BY <1>14 DEF RetrialOk, Larger
  <2>2. RowsOnGrid'
    BY <2>1 DEF RowsOnGrid
  <2> QED
    BY <1>1, <1>14, <2>1, <2>2 DEF RetrialOk, Larger
<1>15. CASE RetrialFails
  <2>1. UNCHANGED <<nextPrint, rows, hasStates>>
    BY <1>15 DEF RetrialFails, Nudge, NoNudge
  <2>2. RowsOnGrid'
    BY <2>1 DEF RowsOnGrid
  <2>3. CASE Nudge
    BY <1>1, <1>15, <2>1, <2>2, <2>3 DEF RetrialFails, Nudge
  <2>4. CASE NoNudge
    BY <1>15, <2>1, <2>2, <2>4 DEF RetrialFails, NoNudge
  <2> QED
    BY <1>15, <2>3, <2>4 DEF RetrialFails
<1>16. CASE NoCrossing
  <2>1. UNCHANGED <<nextPrint, rows>>
    BY <1>16 DEF NoCrossing
  <2>2. RowsOnGrid'
    BY <2>1 DEF RowsOnGrid
  <2> QED
    BY <1>1, <1>16, <2>1, <2>2 DEF NoCrossing
<1>17. CASE Crossing
  <2>1. UNCHANGED <<nextPrint, rows>>
    BY <1>17 DEF Crossing, CrossingTimes
  <2>2. RowsOnGrid'
    BY <2>1 DEF RowsOnGrid
  <2> QED
    BY <1>1, <1>17, <2>1, <2>2 DEF Crossing, CrossingTimes
<1>18. CASE CrossingFails
  <2>1. UNCHANGED <<nextPrint, rows>>
    BY <1>18 DEF CrossingFails
  <2>2. RowsOnGrid'
    BY <2>1 DEF RowsOnGrid
  <2> QED
    BY <1>1, <1>18, <2>1, <2>2 DEF CrossingFails
<1>19. CASE Done \/ UNCHANGED vars
  <2>1. UNCHANGED <<nextPrint, rows>>
    BY <1>19 DEF Done, Over
  <2>2. RowsOnGrid'
    BY <2>1 DEF RowsOnGrid
  <2> QED
    BY <1>1, <1>19, <2>1, <2>2 DEF Done, Over
<1> QED
  BY <1>2, <1>3, <1>4, <1>5, <1>6, <1>7, <1>8, <1>9, <1>10,
     <1>11, <1>12, <1>13, <1>14, <1>15, <1>16, <1>17, <1>18, <1>19 DEF Next, Loop

\* When the loop ends, time is past the end but less than a step past the
\* row it would write next.
LEMMA EndStep ==
  ASSUME TypeOK, TypeOK', GridInv, RowsKeepPace, [Next]_vars, pc' = "finished"
  PROVE  EndTime < Len(rows') * Interval + Dt
<1>1. CASE LoopEnds
  BY <1>1, StepAssumption DEF LoopEnds, GridInv, TypeOK, clock
<1>2. CASE ~LoopEnds
  <2>1. pc = "finished" /\ rows' = rows
    BY <1>2 DEF Next, Loop, Done, vars, clock, Over, Snap, EventsConverge, EventsEnd,
                SolverOk, SolverFails, MicroStep, RecoverTerminates, RecoverFails, Nudge,
                NoNudge, TrialOk, TrialZeroResidual, TrialFails, RetrialOk,
                RetrialFails, NoCrossing, Crossing, CrossingFails
  <2> QED
    BY <2>1 DEF RowsKeepPace
<1> QED
  BY <1>1, <1>2

LEMMA Inductive == IInv /\ [Next]_vars => IInv'
<1> SUFFICES ASSUME IInv, [Next]_vars PROVE IInv'
  OBVIOUS
<1>1. TypeOK /\ StatesInv /\ GridInv /\ RowsKeepPace /\ RowsOnGrid
  BY DEF IInv, RowsKeepPace, RowsOnGrid
<1>2. TypeOK'
  BY <1>1, TypeStep
<1>3. StatesInv'
  BY <1>1, StatesStep
<1>4. GridInv' /\ RowsOnGrid'
  BY <1>1, <1>2, GridStep
<1>5. pc' = "finished" => EndTime < Len(rows') * Interval + Dt
  BY <1>1, <1>2, EndStep
<1> QED
  BY <1>2, <1>3, <1>4, <1>5 DEF IInv, RowsKeepPace, RowsOnGrid

LEMMA Invariance == Spec => []IInv
<1>1. Init => IInv
  BY TypeInit, StatesInit, GridInit DEF IInv
<1> QED
  BY <1>1, Inductive, PTL DEF Spec

-----------------------------------------------------------------------------

\* The variables keep their types; the recoveries stay within their budget.
THEOREM TypeCorrect == Spec => []TypeOK
<1>1. IInv => TypeOK
  BY DEF IInv
<1> QED
  BY <1>1, Invariance, PTL

\* At the top of every pass the states have been integrated over the time that
\* has passed, but for nudges, snaps and passes given up (run_step.rs).
THEOREM StatesFollowTime == Spec => []TimeIsIntegrated
<1>1. IInv => TimeIsIntegrated
  BY DEF IInv, StatesInv, Integrated, TimeIsIntegrated
<1> QED
  BY <1>1, Invariance, PTL

\* Every point of the output grid gets its row, less than a step late.
THEOREM RowsFollowGrid == Spec => []RowsKeepPace
<1>1. IInv => RowsKeepPace
  BY DEF IInv
<1> QED
  BY <1>1, Invariance, PTL

-----------------------------------------------------------------------------
(***************************************************************************)
(*                           EVENTS AND PRE                                *)
(***************************************************************************)

(* Induction over numbers, from the order of the natural numbers: a set has*)
(* a smallest member, so T leaves nothing out.                             *)
LEMMA Smallest ==
  ASSUME NEW T, T \subseteq Nat, T # {}
  PROVE  \E m \in T : \A k \in T : m <= k
<1>1. PICK m \in T : \A k \in T : ~(<<k, m>> \in OpToRel(<, Nat))
  BY WFMin, NatLessThanWellFounded
<1>2. ASSUME NEW k \in T
      PROVE  m <= k
  <2>1. k \in Nat /\ m \in Nat
    OBVIOUS
  <2>2. ~(k < m)
    BY <1>1, <2>1 DEF OpToRel
  <2>3. QED
    BY <2>1, <2>2
<1>3. QED
  BY <1>2

LEMMA NatInducts ==
  ASSUME NEW T, 0 \in T, \A n \in Nat : n \in T => n + 1 \in T
  PROVE  \A n \in Nat : n \in T
<1>1. SUFFICES ASSUME Nat \ T # {}
               PROVE  FALSE
  OBVIOUS
<1>2. PICK m \in Nat \ T : \A k \in Nat \ T : m <= k
  BY <1>1, Smallest
<1>3. m # 0 /\ m - 1 \in Nat /\ m - 1 \in T
  BY <1>2
<1>4. QED
  BY <1>2, <1>3

-----------------------------------------------------------------------------
Start(p, now, left) ==
  [registers |-> StoreEquations(p, now, left), new |-> <<>>, seen |-> <<>>, acts |-> {},
   taken |-> FALSE]

\* What the evaluation has done after n branches, given f of fewer.
After(f, s, p, in, left, slots, n) ==
  IF n = 0 THEN {s} ELSE {Branch(p, in, left, slots, done, n) : done \in f[n - 1]}

\* f is the function CalcDerivs defines, up to the m-th branch.
Runs(f, s, p, in, left, slots, m) ==
  f = [n \in 0..m |-> After(f, s, p, in, left, slots, n)]

LEMMA RunsAt ==
  ASSUME NEW f, NEW s, NEW p, NEW in, NEW left, NEW slots, NEW m, Runs(f, s, p, in, left, slots, m)
  PROVE  \A n \in 0..m : f[n] = After(f, s, p, in, left, slots, n)
<1> DEFINE g == [n \in 0..m |-> After(f, s, p, in, left, slots, n)]
<1>1. f = g
  BY DEF Runs
<1>2. \A n \in 0..m : g[n] = After(f, s, p, in, left, slots, n)
  OBVIOUS
<1>3. QED
  BY <1>1, <1>2, Zenon

LEMMA RunsExists ==
  ASSUME NEW s, NEW p, NEW in, NEW left, NEW slots
  PROVE  \A m \in Nat : \E f : Runs(f, s, p, in, left, slots, m)
<1> DEFINE T == {m \in Nat : \E f : Runs(f, s, p, in, left, slots, m)}
<1>1. 0 \in T
  <2>1. Runs([n \in 0..0 |-> {s}], s, p, in, left, slots, 0)
    BY DEF Runs, After
  <2>2. QED
    BY <2>1
<1>2. ASSUME NEW m \in Nat, m \in T
      PROVE  m + 1 \in T
  <2>1. PICK f : Runs(f, s, p, in, left, slots, m)
    BY <1>2
  <2>2. \A n \in 0..m : f[n] = After(f, s, p, in, left, slots, n)
    BY <2>1, RunsAt
  <2> DEFINE g == [n \in 0..(m + 1) |-> IF n <= m THEN f[n]
                                        ELSE {Branch(p, in, left, slots, done, n) : done \in f[m]}]
  <2>3. ASSUME NEW n \in 0..(m + 1)
        PROVE  g[n] = After(g, s, p, in, left, slots, n)
    <3>1. CASE n <= m
      <4>1. f[n] = After(f, s, p, in, left, slots, n)
        BY <2>2, <3>1
      <4>2. n # 0 => g[n - 1] = f[n - 1]
        BY <3>1
      <4>3. g[n] = f[n]
        BY <3>1
      <4> HIDE DEF g
      <4>4. QED
        BY <4>1, <4>2, <4>3 DEF After
    <3>2. CASE n = m + 1
      <4>1. n - 1 = m /\ n # 0 /\ ~(n <= m)
        BY <3>2
      <4>2. g[n] = {Branch(p, in, left, slots, done, n) : done \in f[m]}
        BY <4>1
      <4>3. g[n - 1] = f[m]
        BY <4>1
      <4> HIDE DEF g
      <4>4. QED
        BY <4>1, <4>2, <4>3 DEF After
    <3>3. QED
      BY <3>1, <3>2
  <2>4. Runs(g, s, p, in, left, slots, m + 1)
    <3>1. g = [n \in 0..(m + 1) |-> g[n]]
      OBVIOUS
    <3> HIDE DEF g
    <3>2. QED
      BY <2>3, <3>1 DEF Runs
  <2>5. QED
    BY <2>4
<1>3. \A m \in Nat : m \in T
  <2> HIDE DEF T
  <2>1. QED
    BY <1>1, <1>2, NatInducts
<1>4. QED
  BY <1>3

LEMMA CalcDerivsRuns ==
  ASSUME NEW p, NEW in, NEW now, NEW left, NEW slots, Len(p.branches) \in Nat
  PROVE  \E f : /\ Runs(f, Start(p, now, left), p, in, left, slots, Len(p.branches))
                /\ CalcDerivs(p, in, now, left, slots) = f[Len(p.branches)]
<1> DEFINE f == CHOOSE g : Runs(g, Start(p, now, left), p, in, left, slots, Len(p.branches))
<1>1. Runs(f, Start(p, now, left), p, in, left, slots, Len(p.branches))
  BY RunsExists
<1>2. CalcDerivs(p, in, now, left, slots) = f[Len(p.branches)]
  BY DEF CalcDerivs, Runs, After, Start
<1>3. QED
  BY <1>1, <1>2

\* Branch j acts, and the branches after it up to i are else-branches of its clause.
Chain(branches, A, i) ==
  \E j \in 1..i : j \in A /\ \A k \in (j + 1)..i : branches[k].elsewhen

\* What an evaluation of the first n branches has done.
Sound(d, p, now, left, slots, n) ==
  /\ d.new \in Seq(BOOLEAN) /\ Len(d.new) = n
  /\ d.seen \in Seq(BOOLEAN) /\ Len(d.seen) = n
  /\ d.acts \subseteq 1..n
  /\ d.taken \in BOOLEAN
  /\ d.taken => Chain(p.branches, d.acts, n)
  /\ \A i \in d.acts : d.new[i] /\ d.seen[i] /\ ~slots[i]
  /\ \A i \in 1..n : ~p.branches[i].elsewhen => d.new[i] = d.seen[i]
  /\ \A i \in 1..n : ~d.seen[i] => ~d.new[i]
  /\ \A i \in 1..n : d.seen[i] /\ ~slots[i] => Chain(p.branches, d.acts, i)
  /\ d.acts = {} => d.registers = StoreEquations(p, now, left)

LEMMA ChainGrows ==
  ASSUME NEW branches, NEW A, NEW B, A \subseteq B, NEW i, Chain(branches, A, i)
  PROVE  Chain(branches, B, i)
BY DEF Chain

LEMMA ChainExtends ==
  ASSUME NEW branches, NEW A, NEW n \in Nat, Chain(branches, A, n), branches[n + 1].elsewhen
  PROVE  Chain(branches, A, n + 1)
<1>1. PICK j \in 1..n : j \in A /\ \A k \in (j + 1)..n : branches[k].elsewhen
  BY DEF Chain
<1>2. j \in 1..(n + 1) /\ \A k \in (j + 1)..(n + 1) : k = n + 1 \/ k \in (j + 1)..n
  BY <1>1
<1>3. QED
  BY <1>1, <1>2 DEF Chain

LEMMA ChainStarts ==
  ASSUME NEW branches, NEW A, NEW n \in Nat, n # 0, n \in A
  PROVE  Chain(branches, A, n)
<1>1. n \in 1..n /\ (n + 1)..n = {}
  OBVIOUS
<1>2. QED
  BY <1>1, Zenon DEF Chain

LEMMA BranchSound ==
  ASSUME NEW p, NEW in, NEW now, NEW left, NEW slots, NEW d, NEW n \in Nat, NEW m, m = n + 1,
         p.branches[m].elsewhen \in BOOLEAN,
         Sound(d, p, now, left, slots, n)
  PROVE  Sound(Branch(p, in, left, slots, d, m), p, now, left, slots, m)
<1> DEFINE b == p.branches[m]
           seen == Holds(b.cond, in, d.registers, left) /\ (b.clocked => in[Tick])
           passed == b.elsewhen /\ d.taken
           edge == ~passed /\ Edge(seen, slots[m])
           e == Branch(p, in, left, slots, d, m)
<1>1. seen \in BOOLEAN /\ passed \in BOOLEAN /\ edge \in BOOLEAN
  BY DEF Edge, Holds
<1>2. /\ e.new = Append(d.new, seen /\ ~passed)
      /\ e.seen = Append(d.seen, seen)
      /\ e.acts = IF edge THEN d.acts \cup {m} ELSE d.acts
      /\ e.taken = (edge \/ passed)
      /\ ~edge => e.registers = d.registers
  BY DEF Branch
<1>3. edge <=> ~passed /\ seen /\ ~slots[m]
  BY DEF Edge
<1>4. passed <=> b.elsewhen /\ d.taken
  OBVIOUS
<1> HIDE DEF seen, passed, edge, e
<1>5. /\ e.new \in Seq(BOOLEAN) /\ Len(e.new) = m /\ e.new[m] = (seen /\ ~passed)
      /\ \A i \in 1..n : e.new[i] = d.new[i]
  BY <1>1, <1>2, AppendProperties DEF Sound
<1>6. /\ e.seen \in Seq(BOOLEAN) /\ Len(e.seen) = m /\ e.seen[m] = seen
      /\ \A i \in 1..n : e.seen[i] = d.seen[i]
  BY <1>1, <1>2, AppendProperties DEF Sound
<1>7. 1..m = (1..n) \cup {m} /\ m \notin 1..n /\ m \in Nat /\ m # 0
  OBVIOUS
<1>8. d.acts \subseteq 1..n /\ d.acts \subseteq e.acts
  BY <1>2 DEF Sound
<1>9. e.acts \subseteq 1..m
  BY <1>2, <1>7, <1>8
<1>10. passed => Chain(p.branches, e.acts, m)
  <2>1. SUFFICES ASSUME passed
                 PROVE  Chain(p.branches, e.acts, m)
    OBVIOUS
  <2>2. Chain(p.branches, d.acts, n) /\ b.elsewhen
    BY <1>4, <2>1 DEF Sound
  <2>3. Chain(p.branches, d.acts, m)
    BY <2>2, ChainExtends
  <2>4. QED
    BY <1>8, <2>3, ChainGrows
<1>11. edge => Chain(p.branches, e.acts, m)
  BY <1>2, <1>7, ChainStarts
<1>12. \A i \in e.acts : e.new[i] /\ e.seen[i] /\ ~slots[i]
  <2>1. \A i \in d.acts : e.new[i] /\ e.seen[i] /\ ~slots[i]
    BY <1>5, <1>6, <1>8 DEF Sound
  <2>2. edge => e.new[m] /\ e.seen[m] /\ ~slots[m]
    BY <1>3, <1>5, <1>6
  <2>3. CASE edge
    <3>1. e.acts = d.acts \cup {m}
      BY <1>2, <2>3
    <3>2. QED
      BY <2>1, <2>2, <2>3, <3>1, Zenon
  <2>4. CASE ~edge
    <3>1. e.acts = d.acts
      BY <1>2, <2>4
    <3>2. QED
      BY <2>1, <3>1, Zenon
  <2>5. QED
    BY <2>3, <2>4, Zenon
<1>13. \A i \in 1..m : ~p.branches[i].elsewhen => e.new[i] = e.seen[i]
  <2>1. \A i \in 1..n : ~p.branches[i].elsewhen => e.new[i] = e.seen[i]
    BY <1>5, <1>6 DEF Sound
  <2>2. ~p.branches[m].elsewhen => e.new[m] = e.seen[m]
    BY <1>1, <1>4, <1>5, <1>6
  <2>3. QED
    BY <1>7, <2>1, <2>2, Zenon
<1>14. \A i \in 1..m : ~e.seen[i] => ~e.new[i]
  <2>1. \A i \in 1..n : ~e.seen[i] => ~e.new[i]
    BY <1>5, <1>6 DEF Sound
  <2>2. ~e.seen[m] => ~e.new[m]
    BY <1>1, <1>5, <1>6
  <2>3. QED
    BY <1>7, <2>1, <2>2, Zenon
<1>15. \A i \in 1..m : e.seen[i] /\ ~slots[i] => Chain(p.branches, e.acts, i)
  <2>1. ASSUME NEW i \in 1..n, e.seen[i], ~slots[i]
        PROVE  Chain(p.branches, e.acts, i)
    <3>1. Chain(p.branches, d.acts, i)
      BY <1>6, <2>1 DEF Sound
    <3>2. QED
      BY <1>8, <3>1, ChainGrows
  <2>2. e.seen[m] /\ ~slots[m] => Chain(p.branches, e.acts, m)
    BY <1>3, <1>6, <1>10, <1>11
  <2>3. QED
    BY <1>7, <2>1, <2>2, Zenon
<1>16. e.acts = {} => e.registers = StoreEquations(p, now, left)
  BY <1>2, <1>8 DEF Sound
<1>17. e.taken \in BOOLEAN /\ (e.taken => Chain(p.branches, e.acts, m))
  BY <1>1, <1>2, <1>10, <1>11
<1>18. Sound(e, p, now, left, slots, m)
  BY <1>5, <1>6, <1>9, <1>12, <1>13, <1>14, <1>15, <1>16, <1>17 DEF Sound
<1>19. QED
  BY <1>18 DEF e

\* An evaluation has one outcome, and it is sound.
LEMMA Evaluation ==
  ASSUME NEW p \in Programs, NEW in, NEW now, NEW left, NEW slots
  PROVE  \E d : /\ CalcDerivs(p, in, now, left, slots) = {d}
                /\ Sound(d, p, now, left, slots, Len(p.branches))
<1>1. PICK N \in Nat : N = Len(p.branches)
  BY ProgramsAreWellFormed, LenProperties
<1>2. \A i \in 1..N : p.branches[i].elsewhen \in BOOLEAN
  <2>1. \A i \in 1..N : p.branches[i] \in Branches
    BY <1>1, ProgramsAreWellFormed, ElementOfSeq
  <2>2. QED
    BY <2>1 DEF Branches
<1>3. PICK s : s = Start(p, now, left)
  OBVIOUS
<1>4. PICK f : Runs(f, s, p, in, left, slots, N) /\ CalcDerivs(p, in, now, left, slots) = f[N]
  BY <1>1, <1>3, CalcDerivsRuns
<1>5. \A n \in 0..N : f[n] = After(f, s, p, in, left, slots, n)
  BY <1>4, RunsAt
<1> DEFINE P(n) == n \in 0..N => \E d : f[n] = {d} /\ Sound(d, p, now, left, slots, n)
           T == {n \in Nat : P(n)}
<1>6. 0 \in T
  <2>1. f[0] = {s}
    <3>1. f[0] = After(f, s, p, in, left, slots, 0)
      <4>1. 0 \in 0..N
        OBVIOUS
      <4>2. QED
        BY <1>5, <4>1, Zenon
    <3>2. QED
      BY <3>1 DEF After
  <2>2. PICK e : e = <<>>
    OBVIOUS
  <2>3. e \in Seq(BOOLEAN) /\ Len(e) = 0
    BY <2>2, EmptySeq
  <2>4. /\ s.new = e /\ s.seen = e /\ s.acts = {} /\ s.taken = FALSE
        /\ s.registers = StoreEquations(p, now, left)
    BY <1>3, <2>2 DEF Start
  <2>5. 1..0 = {}
    OBVIOUS
  <2>6. Sound(s, p, now, left, slots, 0)
    BY <2>3, <2>4, <2>5 DEF Sound
  <2>7. QED
    BY <2>1, <2>6
<1>7. ASSUME NEW n \in Nat, n \in T
      PROVE  n + 1 \in T
  <2>1. PICK m \in Nat : m = n + 1
    OBVIOUS
  <2>2. SUFFICES ASSUME m \in 0..N
                 PROVE  \E d : f[m] = {d} /\ Sound(d, p, now, left, slots, m)
    BY <2>1
  <2>3. n \in 0..N /\ m # 0 /\ m - 1 = n /\ m \in 1..N
    BY <2>1, <2>2
  <2>4. PICK d : f[n] = {d} /\ Sound(d, p, now, left, slots, n)
    BY <1>7, <2>3, Zenon
  <2>5. f[m] = {Branch(p, in, left, slots, done, m) : done \in f[n]}
    BY <1>5, <2>2, <2>3 DEF After
  <2>6. f[m] = {Branch(p, in, left, slots, d, m)}
    BY <2>4, <2>5
  <2>7. Sound(Branch(p, in, left, slots, d, m), p, now, left, slots, m)
    BY <1>2, <2>1, <2>3, <2>4, BranchSound
  <2>8. QED
    BY <2>6, <2>7
<1>8. \A n \in Nat : n \in T
  <2> HIDE DEF T
  <2>1. QED
    BY <1>6, <1>7, NatInducts
<1>9. N \in 0..N
  OBVIOUS
<1>10. \E d : f[N] = {d} /\ Sound(d, p, now, left, slots, N)
  BY <1>8, <1>9, Zenon
<1>11. QED
  BY <1>1, <1>4, <1>10

LEMMA SlotsAre ==
  ASSUME NEW p \in Programs
  PROVE  /\ Len(p.branches) \in Nat
         /\ Slots(p) = 1..Len(p.branches)
BY ProgramsAreWellFormed, LenProperties DEF Slots

\* Register equations read registers as they were before the event only.
LEMMA StoredTwice ==
  ASSUME NEW p, NEW now, NEW left
  PROVE  StoreEquations(p, StoreEquations(p, now, left), left) = StoreEquations(p, now, left)
BY DEF StoreEquations

LEMMA SameStart ==
  ASSUME NEW p, NEW in, NEW now, NEW again, NEW left, NEW slots,
         StoreEquations(p, again, left) = StoreEquations(p, now, left)
  PROVE  CalcDerivs(p, in, again, left, slots) = CalcDerivs(p, in, now, left, slots)
BY DEF CalcDerivs

-----------------------------------------------------------------------------
(* The slots.  Only a solver that evaluates with the registers themselves  *)
(* acts in its stages.  Unless the loop was cut short, the slot of a branch*)
(* whose condition did not hold is zero, and a branch that is no           *)
(* else-branch and has a zero slot is such a branch.                       *)
SlotsInv ==
  /\ program.solver # "direct" => staged = {}
  /\ ending # "cut" => \A i \in armed : ~whenPre[i]
  /\ ending = "cut" \/ program.solver = "direct" \/
       \A i \in Slots(program) : ~program.branches[i].elsewhen /\ ~whenPre[i] => i \in armed

(* While the time point is evaluated, a branch that was armed when it was  *)
(* reached has been acted on, or it has a zero slot and is still armed.    *)
RiseInv ==
  phase \in {"iterating", "committing", "sampled"} =>
    \A i \in started : Chain(program.branches, acted, i) \/ (~whenPre[i] /\ i \in armed)

EventInv ==
  /\ program \in Programs
  /\ armed \subseteq Slots(program)
  /\ started \subseteq Slots(program)
  /\ SlotsInv
  /\ RiseInv
  /\ SettledIsStable

\* An evaluation with the slots as they are acts on what has risen.
LEMMA RisesActed ==
  ASSUME EventInv, phase \in {"iterating", "committing", "sampled"},
         NEW d, NEW now, NEW left,
         Sound(d, program, now, left, whenPre, Len(program.branches))
  PROVE  \A i \in started : Chain(program.branches, acted \cup d.acts, i)
                              \/ (~d.seen[i] /\ ~d.new[i] /\ ~whenPre[i] /\ i \in Unarmed(d.seen))
<1>1. SUFFICES ASSUME NEW i \in started, ~Chain(program.branches, acted \cup d.acts, i)
               PROVE  ~d.seen[i] /\ ~d.new[i] /\ ~whenPre[i] /\ i \in Unarmed(d.seen)
  OBVIOUS
<1>2. i \in Slots(program) /\ i \in 1..Len(program.branches)
  BY SlotsAre DEF EventInv
<1>3. ~Chain(program.branches, acted, i)
  <2>1. acted \subseteq acted \cup d.acts
    OBVIOUS
  <2>2. QED
    BY <1>1, <2>1, ChainGrows
<1>4. ~Chain(program.branches, d.acts, i)
  <2>1. d.acts \subseteq acted \cup d.acts
    OBVIOUS
  <2>2. QED
    BY <1>1, <2>1, ChainGrows
<1>5. ~whenPre[i]
  BY <1>3 DEF EventInv, RiseInv
<1>6. ~d.seen[i]
  BY <1>2, <1>4, <1>5 DEF Sound
<1>7. ~d.new[i]
  BY <1>2, <1>6 DEF Sound
<1>8. QED
  BY <1>2, <1>5, <1>6, <1>7 DEF Unarmed

\* An evaluation whose slots are taken over leaves a slot per condition.
LEMMA SlotsTaken ==
  ASSUME NEW d, NEW now, NEW left, program \in Programs,
         Sound(d, program, now, left, whenPre, Len(program.branches))
  PROVE  /\ Unarmed(d.seen) \subseteq Slots(program)
         /\ \A i \in Unarmed(d.seen) : ~d.new[i]
         /\ \A i \in Slots(program) : ~program.branches[i].elsewhen /\ ~d.new[i]
                                        => i \in Unarmed(d.seen)
<1>1. Slots(program) = 1..Len(program.branches)
  BY SlotsAre
<1>2. QED
  BY <1>1 DEF Sound, Unarmed

LEMMA OutcomeOf ==
  ASSUME EventInv, NEW out \in Outcomes
  PROVE  /\ Outcomes = {out}
         /\ Sound(out, program, registers, pre, whenPre, Len(program.branches))
<1>1. PICK d : /\ CalcDerivs(program, inputs, registers, pre, whenPre) = {d}
               /\ Sound(d, program, registers, pre, whenPre, Len(program.branches))
  BY Evaluation DEF EventInv
<1>2. Outcomes = {d} /\ out = d
  BY <1>1 DEF Outcomes
<1>3. QED
  BY <1>1, <1>2

\* An evaluation that leaves the slots as they are has acted on nothing,
\* and one more from its registers is the same evaluation.
LEMMA ConvergedIsStable ==
  ASSUME EventInv, NEW out \in Outcomes, Converged(out.new),
         Evaluated(out), whenPre' = out.new
  PROVE  Outcomes' = {out} /\ out.acts = {} /\ out.registers = registers'
<1>1. /\ CalcDerivs(program, inputs, registers, pre, whenPre) = {out}
      /\ Sound(out, program, registers, pre, whenPre, Len(program.branches))
  BY OutcomeOf DEF Outcomes
<1>2. out.new = whenPre /\ whenPre' = whenPre
  BY DEF Converged
<1>3. out.acts = {}
  BY <1>1, <1>2 DEF Sound
<1>4. registers' = StoreEquations(program, registers, pre)
  BY <1>1, <1>3 DEF Sound, Evaluated
<1>5. StoreEquations(program, registers', pre) = StoreEquations(program, registers, pre)
  BY <1>4, StoredTwice
<1>6. CalcDerivs(program, inputs, registers', pre, whenPre) = {out}
  BY <1>1, <1>5, SameStart
<1>7. program' = program /\ inputs' = inputs /\ pre' = pre
  BY DEF Evaluated
<1>8. Outcomes' = {out}
  BY <1>2, <1>6, <1>7 DEF Outcomes
<1>9. QED
  BY <1>3, <1>8 DEF Evaluated

-----------------------------------------------------------------------------
(* Each action preserves the invariant.                                    *)

LEMMA EventStarts == EventInit => EventInv
<1> SUFFICES ASSUME EventInit
             PROVE  EventInv
  OBVIOUS
<1>2. \A i \in Slots(program) : ~whenPre[i]
  BY DEF EventInit, NoEdge
<1>3. SlotsInv /\ RiseInv /\ SettledIsStable
  BY <1>2 DEF EventInit, SlotsInv, RiseInv, SettledIsStable
<1>4. QED
  BY <1>3 DEF EventInit, EventInv

LEMMA BeginPassPreserves == EventInv /\ BeginPass => EventInv'
<1> SUFFICES ASSUME EventInv, BeginPass
             PROVE  EventInv'
  OBVIOUS
<1>2. program' = program /\ whenPre' = whenPre /\ ending' = ending /\ phase' = "iterating"
  BY DEF BeginPass
<1>3. armed' = armed \ staged /\ started' \subseteq armed' /\ staged' = {}
  BY DEF BeginPass
<1>4. SlotsInv'
  BY <1>2, <1>3 DEF EventInv, SlotsInv
<1>5. RiseInv'
  <2>1. \A i \in started' : ~whenPre[i] /\ i \in armed'
    BY <1>3 DEF BeginPass, EventInv, SlotsInv
  <2>2. QED
    BY <1>2, <2>1 DEF RiseInv
<1>6. SettledIsStable'
  BY <1>2 DEF SettledIsStable
<1>7. QED
  BY <1>2, <1>3, <1>4, <1>5, <1>6 DEF EventInv, Slots

LEMMA AlgContinuesPreserves ==
  ASSUME EventInv, NEW out \in Outcomes, AlgContinues(out)
  PROVE  EventInv'
<1>1. /\ program' = program /\ whenPre' = whenPre /\ ending' = ending /\ armed' = armed
      /\ started' = started /\ staged' = staged /\ acted \subseteq acted'
      /\ phase = "iterating" /\ phase' = "iterating"
  BY DEF AlgContinues, Evaluated
<1>2. SlotsInv'
  BY <1>1 DEF EventInv, SlotsInv
<1>3. RiseInv'
  BY <1>1, ChainGrows DEF EventInv, RiseInv
<1>4. SettledIsStable'
  BY <1>1 DEF SettledIsStable
<1>5. QED
  BY <1>1, <1>2, <1>3, <1>4 DEF EventInv, Slots

LEMMA CutShortPreserves ==
  ASSUME EventInv, NEW out \in Outcomes, CutShort(out)
  PROVE  EventInv'
<1>1. /\ program' = program /\ whenPre' = whenPre /\ ending' = "cut"
      /\ armed' = Unarmed(out.seen) /\ started' = started /\ staged' = staged
      /\ acted' = acted \cup out.acts /\ phase = "iterating"
  BY DEF CutShort, Evaluated
<1>2. Sound(out, program, registers, pre, whenPre, Len(program.branches))
  BY OutcomeOf
<1>3. armed' \subseteq Slots(program)
  BY <1>1, <1>2, SlotsTaken DEF EventInv
<1>4. SlotsInv'
  BY <1>1 DEF EventInv, SlotsInv
<1>5. RiseInv'
  <2>1. \A i \in started : Chain(program.branches, acted \cup out.acts, i)
                             \/ (~whenPre[i] /\ i \in Unarmed(out.seen))
    BY <1>1, <1>2, RisesActed
  <2>2. QED
    BY <1>1, <2>1 DEF RiseInv
<1>6. SettledIsStable'
  BY <1>1 DEF SettledIsStable
<1>7. QED
  BY <1>1, <1>3, <1>4, <1>5, <1>6 DEF EventInv, Slots

LEMMA SettlePreserves ==
  ASSUME EventInv, NEW out \in Outcomes, Settle(out)
  PROVE  EventInv'
<1>1. /\ program' = program /\ whenPre' = out.new
      /\ armed' = Unarmed(out.seen) /\ started' = started /\ staged' = staged
      /\ acted' = acted \cup out.acts /\ phase = "iterating" /\ Evaluated(out)
  BY DEF Settle, Evaluated
<1>2. Sound(out, program, registers, pre, whenPre, Len(program.branches))
  BY OutcomeOf
<1>3. /\ armed' \subseteq Slots(program)
      /\ \A i \in armed' : ~whenPre'[i]
      /\ \A i \in Slots(program) : ~program.branches[i].elsewhen /\ ~whenPre'[i] => i \in armed'
  BY <1>1, <1>2, SlotsTaken DEF EventInv
<1>4. SlotsInv'
  BY <1>1, <1>3 DEF EventInv, SlotsInv, Slots
<1>5. RiseInv'
  <2>1. \A i \in started : Chain(program.branches, acted \cup out.acts, i)
                             \/ (~out.new[i] /\ i \in Unarmed(out.seen))
    BY <1>1, <1>2, RisesActed
  <2>2. QED
    BY <1>1, <2>1 DEF RiseInv
<1>6. SettledIsStable'
  <2>1. SUFFICES ASSUME phase' = "committing", ending' = "settled"
                 PROVE  \A o \in Outcomes' : o.acts = {} /\ o.registers = registers'
    BY DEF SettledIsStable
  <2>2. Converged(out.new)
    BY <1>1, <2>1 DEF Settle
  <2>3. QED
    BY <1>1, <2>2, ConvergedIsStable
<1>7. QED
  BY <1>1, <1>3, <1>4, <1>5, <1>6 DEF EventInv, Slots

LEMMA AcceptUnsolvedPreserves == EventInv /\ AcceptUnsolved => EventInv'
<1> SUFFICES ASSUME EventInv, AcceptUnsolved
             PROVE  EventInv'
  OBVIOUS
<1>2. /\ program' = program /\ whenPre' = whenPre /\ ending' = "cut" /\ armed' = armed
      /\ started' = started /\ staged' = staged /\ acted' = acted /\ phase = "iterating"
  BY DEF AcceptUnsolved
<1>3. SlotsInv' /\ RiseInv' /\ SettledIsStable'
  BY <1>2 DEF EventInv, SlotsInv, RiseInv, SettledIsStable
<1>4. QED
  BY <1>2, <1>3 DEF EventInv, Slots

LEMMA StopPreserves == EventInv /\ Stop => EventInv'
<1> SUFFICES ASSUME EventInv, Stop
             PROVE  EventInv'
  OBVIOUS
<1>2. /\ program' = program /\ whenPre' = whenPre /\ ending' = ending /\ armed' = armed
      /\ started' = started /\ staged' = staged /\ phase' = "stopped"
  BY DEF Stop
<1>3. SlotsInv' /\ RiseInv' /\ SettledIsStable'
  BY <1>2 DEF EventInv, SlotsInv, RiseInv, SettledIsStable
<1>4. QED
  BY <1>2, <1>3 DEF EventInv, Slots

LEMMA NothingToCommitPreserves == EventInv /\ NothingToCommit => EventInv'
<1> SUFFICES ASSUME EventInv, NothingToCommit
             PROVE  EventInv'
  OBVIOUS
<1>2. /\ program' = program /\ whenPre' = whenPre /\ ending' = ending /\ armed' = armed
      /\ started' = started /\ staged' = staged /\ acted' = acted
      /\ phase = "committing" /\ phase' = "sampled"
  BY DEF NothingToCommit
<1>3. SlotsInv' /\ RiseInv' /\ SettledIsStable'
  BY <1>2 DEF EventInv, SlotsInv, RiseInv, SettledIsStable
<1>4. QED
  BY <1>2, <1>3 DEF EventInv, Slots

LEMMA CommitPrePreserves == EventInv /\ CommitPre => EventInv'
<1> SUFFICES ASSUME EventInv, CommitPre
             PROVE  EventInv'
  OBVIOUS
<1>2. PICK again \in CalcDerivs(program, inputs, registers, registers, whenPre) :
         /\ whenPre' = again.new /\ armed' = Unarmed(again.seen)
         /\ acted' = acted \cup again.acts
  BY DEF CommitPre
<1>3. Sound(again, program, registers, registers, whenPre, Len(program.branches))
  BY <1>2, Evaluation DEF EventInv
<1>4. /\ program' = program /\ started' = started /\ staged' = staged
      /\ phase = "committing" /\ phase' = "sampled"
  BY DEF CommitPre
<1>5. /\ armed' \subseteq Slots(program)
      /\ \A i \in armed' : ~whenPre'[i]
      /\ \A i \in Slots(program) : ~program.branches[i].elsewhen /\ ~whenPre'[i] => i \in armed'
  BY <1>2, <1>3, SlotsTaken DEF EventInv
<1>6. SlotsInv'
  BY <1>4, <1>5 DEF EventInv, SlotsInv, Slots
<1>7. RiseInv'
  <2>1. \A i \in started : Chain(program.branches, acted \cup again.acts, i)
                             \/ (~again.new[i] /\ i \in Unarmed(again.seen))
    BY <1>3, <1>4, RisesActed
  <2>2. QED
    BY <1>2, <1>4, <2>1 DEF RiseInv
<1>8. SettledIsStable'
  BY <1>4 DEF SettledIsStable
<1>9. QED
  BY <1>4, <1>5, <1>6, <1>7, <1>8 DEF EventInv, Slots

LEMMA CommitUnsolvedPreserves == EventInv /\ CommitUnsolved => EventInv'
<1> SUFFICES ASSUME EventInv, CommitUnsolved
             PROVE  EventInv'
  OBVIOUS
<1>2. /\ program' = program /\ whenPre' = NoEdge(program) /\ ending' = "cut" /\ armed' = armed
      /\ started' = started /\ staged' = staged /\ acted' = acted
      /\ phase = "committing" /\ phase' = "sampled"
  BY DEF CommitUnsolved
<1>3. \A i \in Slots(program) : ~whenPre'[i]
  BY <1>2 DEF NoEdge
<1>4. SlotsInv'
  BY <1>2 DEF EventInv, SlotsInv
<1>5. RiseInv'
  BY <1>2, <1>3 DEF EventInv, RiseInv
<1>6. SettledIsStable'
  BY <1>2 DEF SettledIsStable
<1>7. QED
  BY <1>2, <1>4, <1>5, <1>6 DEF EventInv, Slots

LEMMA StagePreserves ==
  ASSUME EventInv, NEW in, Stage(in)
  PROVE  EventInv'
<1>1. /\ program' = program /\ whenPre' = whenPre /\ ending' = ending /\ armed' = armed
      /\ started' = started /\ acted' = acted /\ phase = "sampled" /\ phase' = "sampled"
      /\ program.solver = "direct"
  BY DEF Stage
<1>2. SlotsInv' /\ RiseInv' /\ SettledIsStable'
  BY <1>1 DEF EventInv, SlotsInv, RiseInv, SettledIsStable
<1>3. QED
  BY <1>1, <1>2 DEF EventInv, Slots

LEMMA LocatePreserves == EventInv /\ Locate => EventInv'
<1> SUFFICES ASSUME EventInv, Locate
             PROVE  EventInv'
  OBVIOUS
<1>2. /\ program' = program /\ whenPre' = whenPre /\ ending' = ending /\ armed' = armed
      /\ started' = started /\ acted' = acted /\ phase = "sampled" /\ phase' = "sampled"
      /\ staged' = {}
  BY DEF Locate
<1>3. SlotsInv' /\ RiseInv' /\ SettledIsStable'
  BY <1>2 DEF EventInv, SlotsInv, RiseInv, SettledIsStable
<1>4. QED
  BY <1>2, <1>3 DEF EventInv, Slots

LEMMA AdvancePreserves ==
  ASSUME EventInv, NEW in, Advance(in)
  PROVE  EventInv'
<1>1. /\ program' = program /\ whenPre' = whenPre /\ ending' = ending /\ armed' = armed
      /\ started' = started /\ staged' = staged /\ phase' = "ready"
  BY DEF Advance
<1>2. SlotsInv' /\ RiseInv' /\ SettledIsStable'
  BY <1>1 DEF EventInv, SlotsInv, RiseInv, SettledIsStable
<1>3. QED
  BY <1>1, <1>2 DEF EventInv, Slots

LEMMA EventStutters == EventInv /\ UNCHANGED eventVars => EventInv'
<1> SUFFICES ASSUME EventInv, UNCHANGED eventVars
             PROVE  EventInv'
  OBVIOUS
<1>2. /\ program' = program /\ inputs' = inputs /\ registers' = registers /\ pre' = pre
      /\ whenPre' = whenPre /\ phase' = phase /\ ending' = ending /\ acted' = acted
      /\ armed' = armed /\ started' = started /\ staged' = staged
  BY DEF eventVars, history
<1>3. Outcomes' = Outcomes
  BY <1>2 DEF Outcomes
<1>4. SlotsInv' /\ RiseInv' /\ SettledIsStable'
  BY <1>2, <1>3 DEF EventInv, SlotsInv, RiseInv, SettledIsStable
<1>5. QED
  BY <1>2, <1>4 DEF EventInv, Slots

LEMMA EventStep == EventInv /\ [EventNext]_eventVars => EventInv'
<1>1. SUFFICES ASSUME EventInv, EventNext
               PROVE  EventInv'
  BY EventStutters
<1>2. CASE EventLoop
  BY <1>1, <1>2, BeginPassPreserves, AlgContinuesPreserves, CutShortPreserves,
     SettlePreserves, AcceptUnsolvedPreserves, StopPreserves, NothingToCommitPreserves,
     CommitPrePreserves, CommitUnsolvedPreserves DEF EventLoop
<1>3. CASE Locate
  BY <1>1, <1>3, LocatePreserves
<1>4. CASE \E in \in [Inputs -> BOOLEAN] : Stage(in) \/ Advance(in)
  BY <1>1, <1>4, StagePreserves, AdvancePreserves
<1>5. QED
  BY <1>1, <1>2, <1>3, <1>4 DEF EventNext

THEOREM EventInvariant == EventSpec => []EventInv
<1>1. QED
  BY EventStarts, EventStep, PTL DEF EventSpec

(* Of every program, no rise of a condition between two time points is lost*)
(* by the resets of the slots (solver/mod.rs, driver/run_step.rs).         *)
THEOREM NoRiseIsLost == EventSpec => []RisesAreActedOn
<1>1. EventInv => RisesAreActedOn
  <2>1. SUFFICES ASSUME EventInv, phase = "sampled", NEW i \in started \ armed
                 PROVE  Chain(program.branches, acted, i)
    BY DEF RisesAreActedOn, Chain
  <2>2. QED
    BY <2>1 DEF EventInv, RiseInv
<1>2. QED
  BY <1>1, EventInvariant, PTL

(* Of every program, an event loop that settled has reached a fixed point. *)
THEOREM SettlingIsSound == EventSpec => []SettledIsStable
<1>1. EventInv => SettledIsStable
  BY DEF EventInv
<1>2. QED
  BY <1>1, EventInvariant, PTL

\* What acts in an evaluation with the current slots was armed.
LEMMA ActsArmed ==
  ASSUME EventInv, ending # "cut", program.solver # "direct",
         NEW d, NEW now, NEW left,
         Sound(d, program, now, left, whenPre, Len(program.branches))
  PROVE  \A i \in d.acts : program.branches[i].elsewhen \/ i \in armed
<1>1. \A i \in d.acts : i \in Slots(program) /\ ~whenPre[i]
  BY SlotsAre DEF Sound, EventInv
<1>2. QED
  BY <1>1 DEF EventInv, SlotsInv

(* No step of any program makes a branch act twice for one rise.           *)
THEOREM EdgesAreRises == EventSpec => ActsOnRise
<1>1. ASSUME EventInv, [EventNext]_eventVars
      PROVE  [ending = "cut" \/ program.solver = "direct"
                \/ \A i \in acts' : program.branches[i].elsewhen \/ i \in armed]_eventVars
  <2>1. SUFFICES ASSUME EventNext, ending # "cut", program.solver # "direct"
                 PROVE  \A i \in acts' : program.branches[i].elsewhen \/ i \in armed
    BY <1>1
  <2>2. CASE acts' = {}
    BY <2>2
  <2>3. CASE \E out \in Outcomes : AlgContinues(out) \/ CutShort(out) \/ Settle(out)
    <3>1. PICK out \in Outcomes : Evaluated(out)
      BY <2>3 DEF AlgContinues, CutShort, Settle
    <3>2. Sound(out, program, registers, pre, whenPre, Len(program.branches))
      BY <1>1, OutcomeOf
    <3>3. \A i \in out.acts : program.branches[i].elsewhen \/ i \in armed
      BY <1>1, <2>1, <3>2, ActsArmed
    <3>4. QED
      BY <3>1, <3>3 DEF Evaluated
  <2>4. CASE CommitPre
    <3>1. PICK again \in CalcDerivs(program, inputs, registers, registers, whenPre) :
             acts' = again.acts
      BY <2>4 DEF CommitPre
    <3>2. Sound(again, program, registers, registers, whenPre, Len(program.branches))
      BY <1>1, <3>1, Evaluation DEF EventInv
    <3>3. QED
      BY <1>1, <2>1, <3>1, <3>2, ActsArmed
  <2>5. QED
    BY <2>1, <2>2, <2>3, <2>4 DEF EventNext, EventLoop, BeginPass, AcceptUnsolved, Stop,
       NothingToCommit, CommitUnsolved, Stage, Locate, Advance
<1>2. QED
  BY <1>1, EventInvariant, PTL DEF EventSpec, ActsOnRise

=============================================================================
