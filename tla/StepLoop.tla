------------------------------ MODULE StepLoop ------------------------------
(***************************************************************************)
(* The integration loop of a compiled model with a built-in solver.        *)
(*                                                                         *)
(* A pass of the loop iterates the events at the current time, writes an   *)
(* output row when one is due, attempts a step of the active size, checks  *)
(* the end of the step with a trial evaluation and, if an indicator has    *)
(* changed sign, goes back and steps to the crossing only.  Attempts that  *)
(* fail are repeated smaller, restored and nudged past, or end the run.    *)
(*                                                                         *)
(* Time is in ticks.  One tick stands for every small step the code takes: *)
(* the floor of the event step and of the active step, the micro-steps of  *)
(* the recovery and the nudge.  A numeric result is a free choice: whether *)
(* a solver step, a trial or a recovery succeeds, and where a crossing is  *)
(* located.  The poll at the top of a pass is SimControl's.                *)
(*                                                                         *)
(* integrated, skipped, snapped, doubled and rows are history: no guard    *)
(* reads them.                                                             *)
(***************************************************************************)

EXTENDS Naturals, Sequences

CONSTANTS
  Dt,           \* dt: the nominal step
  Interval,     \* output_interval
  EndTime,      \* t_end
  Eps,          \* epsilon, the tolerance of the output grid
  NudgeMax,     \* SWITCH_DISCONTINUITY_NUDGE_MAX
  Streak,       \* clean steps before a reduced step grows again
  MaxDoubled    \* bound of the history doubled

ASSUME StepAssumption ==
  /\ Dt \in Nat \ {0} /\ Interval \in Nat \ {0} /\ Dt <= Interval
  /\ EndTime \in Nat /\ Eps \in Nat
  /\ NudgeMax \in Nat /\ Streak \in Nat \ {0} /\ MaxDoubled \in Nat

VARIABLES
  pc,           \* see Labels
  hasStates,    \* the model has continuous states
  hasSwitch,    \* and ideal switches
  time,         \* the loop's time
  nextPrint,    \* next_print
  dtActive,     \* dt_active: the step the next pass attempts
  dtStep,       \* dt_step: the step this pass made
  streak,       \* switch_recover_streak
  nudges,       \* switch_discontinuity_nudges
  emptySteps,   \* passes of a model without states
  saved,        \* ticks integrated into save_states
  integrated,   \* ticks integrated into states
  skipped,      \* ticks passed over by nudges
  snapped,      \* ticks passed over by the snap to the output grid
  doubled,      \* ticks that passes given up have left in states
  rows          \* times of the output rows

model == <<hasStates, hasSwitch>>
clock == <<time, nextPrint, emptySteps, rows, snapped>>
stepping == <<dtActive, dtStep, streak>>
vars == <<pc, model, clock, stepping, nudges, saved, integrated, skipped, doubled>>

Over == {"finished", "terminated", "failed"}
Labels == {"top", "events", "solve", "recover", "trial", "retrial", "cross"} \union Over

Smaller(a, b) == IF a <= b THEN a ELSE b
Larger(a, b) == IF a <= b THEN b ELSE a

Init ==
  /\ pc = "top"
  /\ hasStates \in BOOLEAN /\ hasSwitch \in BOOLEAN
  /\ hasSwitch => hasStates
  /\ time = 0 /\ nextPrint = 0 /\ emptySteps = 0 /\ rows = <<>>
  /\ dtActive = Dt /\ dtStep = Dt /\ streak = 0 /\ nudges = 0
  /\ saved = 0 /\ integrated = 0 /\ skipped = 0 /\ snapped = 0
  /\ doubled = 0

-----------------------------------------------------------------------------
(* The top of a pass: time, events, output.                                *)

\* The loop condition, with its tolerance.
LoopEnds ==
  /\ pc = "top" /\ time > EndTime + Eps
  /\ pc' = "finished"
  /\ UNCHANGED <<model, clock, stepping, nudges, saved, integrated, skipped, doubled>>

\* Within epsilon below the output grid, time is moved onto it.
Snap ==
  /\ pc = "top" /\ time <= EndTime + Eps
  /\ pc' = "events"
  /\ IF time < nextPrint /\ nextPrint - time <= Eps
       THEN /\ time' = nextPrint
            /\ snapped' = snapped + (nextPrint - time)
       ELSE UNCHANGED <<time, snapped>>
  /\ UNCHANGED <<model, nextPrint, emptySteps, rows, stepping, nudges, saved,
                 integrated, skipped, doubled>>

\* Mutant: the grid restarts at the row just written.
WriteRowDrift ==
  IF time + Eps >= nextPrint
    THEN /\ rows' = Append(rows, time)
         /\ nextPrint' = time + Interval
    ELSE UNCHANGED <<rows, nextPrint>>

\* A row is due; the grid moves by one interval.
WriteRow ==
  IF time + Eps >= nextPrint
    THEN /\ rows' = Append(rows, time)
         /\ nextPrint' = nextPrint + Interval
    ELSE UNCHANGED <<rows, nextPrint>>

\* Event iteration has converged.  A model without states goes on to its
\* next multiple of dt; otherwise the attempt's starting point is saved.
EventsConverge ==
  /\ pc = "events"
  /\ WriteRow
  /\ IF hasStates
       THEN /\ pc' = "solve"
            /\ saved' = integrated /\ dtStep' = dtActive
            /\ UNCHANGED <<time, emptySteps, integrated>>
       ELSE /\ pc' = "top"
            /\ emptySteps' = emptySteps + 1
            /\ time' = (emptySteps + 1) * Dt
            /\ integrated' = time'
            /\ UNCHANGED <<saved, dtStep>>
  /\ UNCHANGED <<model, snapped, dtActive, streak, nudges, skipped, doubled>>

\* terminate() in the model, or event iteration fails.
EventsEnd ==
  /\ pc = "events"
  /\ pc' \in {"terminated", "failed"}
  /\ UNCHANGED <<model, clock, stepping, nudges, saved, integrated, skipped, doubled>>

-----------------------------------------------------------------------------
(* The attempt.                                                            *)

UnmovedClock == UNCHANGED <<model, clock>>

\* A clean step lets a reduced step size grow back, one doubling a step.
SolverOk ==
  /\ pc = "solve"
  /\ pc' = "trial"
  /\ integrated' = integrated + dtStep
  /\ streak' = Larger(streak, 1) - 1
  /\ dtActive' = IF streak' = 0 THEN Smaller(2 * dtActive, Dt) ELSE dtActive
  /\ UnmovedClock
  /\ UNCHANGED <<dtStep, nudges, saved, skipped, doubled>>

\* Only a Newton failure of a model with ideal switches is recovered from.
SolverFails ==
  /\ pc = "solve"
  /\ pc' \in (IF hasSwitch THEN {"recover", "failed"} ELSE {"failed"})
  /\ UnmovedClock
  /\ UNCHANGED <<stepping, nudges, saved, integrated, skipped, doubled>>

\* A smaller step from the saved point succeeds: one of the fixed scales, one
\* found by bisection, or one after the events were iterated again.
MicroStep ==
  /\ pc = "recover"
  /\ pc' = "trial"
  /\ \E d \in 1..Dt :
       /\ integrated' = saved + d
       /\ dtStep' = d /\ dtActive' = d
  /\ streak' = Streak
  /\ UnmovedClock
  /\ UNCHANGED <<nudges, saved, skipped, doubled>>

\* Iterating the events again ended the run.
RecoverTerminates ==
  /\ pc = "recover"
  /\ pc' = "terminated"
  /\ UnmovedClock
  /\ UNCHANGED <<stepping, nudges, saved, integrated, skipped, doubled>>

\* Restore the saved point and pass over the discontinuity.
Nudge ==
  /\ nudges < NudgeMax
  /\ nudges' = nudges + 1
  /\ integrated' = saved
  /\ time' = time + 1 /\ skipped' = skipped + 1
  /\ pc' = "top"
  /\ UNCHANGED <<model, nextPrint, emptySteps, rows, snapped, stepping, saved, doubled>>

NoNudge ==
  /\ nudges = NudgeMax
  /\ pc' = "failed"
  /\ UNCHANGED <<model, clock, stepping, nudges, saved, integrated, skipped, doubled>>

RecoverFails == pc = "recover" /\ (Nudge \/ NoNudge)

TrialOk ==
  /\ pc = "trial"
  /\ pc' = "cross"
  /\ UnmovedClock
  /\ UNCHANGED <<stepping, nudges, saved, integrated, skipped, doubled>>

\* Newton failed with a residual small enough: the pass is given up, nothing
\* is restored, time stays, and nothing counts how often.  The states keep the
\* step; past its bound the history takes no more of it, on either side.
\* RUSTMODLICA_STRICT_NEWTON=1 disables the action.
TrialZeroResidual ==
  /\ pc = "trial"
  /\ pc' = "top"
  /\ IF doubled + dtStep <= MaxDoubled
       THEN doubled' = doubled + dtStep /\ UNCHANGED integrated
       ELSE integrated' = saved /\ UNCHANGED doubled
  /\ UnmovedClock
  /\ UNCHANGED <<stepping, nudges, saved, skipped>>

TrialFails ==
  /\ pc = "trial"
  /\ pc' \in (IF hasSwitch THEN {"retrial", "failed"} ELSE {"failed"})
  /\ UnmovedClock
  /\ UNCHANGED <<stepping, nudges, saved, integrated, skipped, doubled>>

\* The trial is repeated with the switches open and accepted as it is, or
\* accepted degraded: then the next step is half as long.
RetrialOk ==
  /\ pc = "retrial"
  /\ pc' = "cross"
  /\ \/ UNCHANGED <<dtActive, streak>>
     \/ /\ dtActive' = Larger(dtStep \div 2, 1)
        /\ streak' = Larger(streak, Streak)
  /\ UnmovedClock
  /\ UNCHANGED <<dtStep, nudges, saved, integrated, skipped, doubled>>

RetrialFails == pc = "retrial" /\ (Nudge \/ NoNudge)

-----------------------------------------------------------------------------
(* The end of the attempt: accept it or go back to a crossing.             *)

\* Mutant: the located step has no floor.
CrossingTimesNoFloor == 0..dtStep

\* The located crossing, at least the floor.
CrossingTimes == 1..dtStep

NoCrossing ==
  /\ pc = "cross"
  /\ pc' = "top"
  /\ time' = time + dtStep /\ nudges' = 0
  /\ UNCHANGED <<model, nextPrint, emptySteps, rows, snapped, stepping, saved,
                 integrated, skipped, doubled>>

\* Mutant: the step to the crossing starts from the end of the attempt.
CrossingUnrestored ==
  /\ pc = "cross"
  /\ pc' = "top"
  /\ \E d \in CrossingTimes :
       /\ integrated' = integrated + d
       /\ time' = time + d
  /\ nudges' = 0
  /\ UNCHANGED <<model, nextPrint, emptySteps, rows, snapped, stepping, saved,
                 skipped, doubled>>

\* An indicator changed sign: restore the saved point, step to the crossing.
Crossing ==
  /\ pc = "cross"
  /\ pc' = "top"
  /\ \E d \in CrossingTimes :
       /\ integrated' = saved + d
       /\ time' = time + d
  /\ nudges' = 0
  /\ UNCHANGED <<model, nextPrint, emptySteps, rows, snapped, stepping, saved,
                 skipped, doubled>>

\* The step to the crossing fails, also when repeated, or trips too many
\* assertions.
CrossingFails ==
  /\ pc = "cross"
  /\ pc' = "failed"
  /\ integrated' \in saved..(saved + dtStep)
  /\ UnmovedClock
  /\ UNCHANGED <<stepping, nudges, saved, skipped, doubled>>

-----------------------------------------------------------------------------

Loop ==
  \/ Snap \/ LoopEnds
  \/ EventsConverge \/ EventsEnd
  \/ SolverOk \/ SolverFails
  \/ MicroStep \/ RecoverTerminates \/ RecoverFails
  \/ TrialOk \/ TrialZeroResidual \/ TrialFails
  \/ RetrialOk \/ RetrialFails
  \/ NoCrossing \/ Crossing \/ CrossingFails

Done == pc \in Over /\ UNCHANGED vars

Next == Loop \/ Done

\* The loop is sequential code: it goes on as long as it can.
Spec == Init /\ [][Next]_vars /\ WF_vars(Loop)

-----------------------------------------------------------------------------
(* Properties *)

TypeOK ==
  /\ pc \in Labels /\ hasStates \in BOOLEAN /\ hasSwitch \in BOOLEAN
  /\ time \in Nat /\ nextPrint \in Nat /\ emptySteps \in Nat
  /\ dtActive \in 1..Dt /\ dtStep \in 1..Dt /\ streak \in 0..Streak
  /\ nudges \in 0..NudgeMax
  /\ saved \in Nat /\ integrated \in Nat /\ skipped \in Nat /\ snapped \in Nat
  /\ doubled \in Nat
  /\ rows \in Seq(Nat)

\* Whatever was attempted, restored, repeated and nudged, the states at the
\* top of a pass are integrated over exactly the time that has passed, but
\* for the nudges, the snaps to the grid and the passes given up.
TimeIsIntegrated ==
  pc \in {"top", "events"} /\ hasStates
    => integrated + skipped + snapped = time + doubled

\* The k-th row is written at the k-th point of the output grid or less than
\* one step after it, and a run that reaches its end time has written all of
\* them but those of its last step.
RowsKeepPace ==
  /\ \A k \in 1..Len(rows) :
       /\ (k - 1) * Interval <= rows[k]
       /\ rows[k] < (k - 1) * Interval + Dt
  /\ pc = "finished" => EndTime < Len(rows) * Interval + Dt

\* The run ends, unless passes are given up with a small residual for ever: a
\* crossing, a nudge and a recovered step, however often and in whatever order,
\* advance time or use up a budget.  A pass given up does neither, and the loop
\* has no limit on them (run_step.rs:551): a model whose trial fails in that
\* way at one time is never left but by a Stop.
Terminates == <>(pc \in Over) \/ []<><<TrialZeroResidual>>_vars

=============================================================================
