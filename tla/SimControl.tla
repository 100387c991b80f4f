----------------------------- MODULE SimControl -----------------------------
(***************************************************************************)
(* Cooperative run control of a simulation.                                *)
(*                                                                         *)
(* Three atomic flags (cancel, pause, step_once) are written by the user   *)
(* interface through the registry of active runs and read by the           *)
(* integrator thread, which calls poll_step at the top of every            *)
(* integration step.  All accesses are sequentially consistent, so each    *)
(* load, store and swap is one step here.  The registry's mutex is held    *)
(* for a whole request: requests exclude each other, but not the           *)
(* integrator, which may poll between any two stores of a request.         *)
(*                                                                         *)
(* The variables cancel, pause, stepOnce, ui and rpc are the program's     *)
(* state; grant, stepRequests, stepEntries and slipped are history, read   *)
(* by the properties only.                                                 *)
(***************************************************************************)

EXTENDS Naturals

CONSTANTS
  MaxPolls,     \* bound: integration steps the run would take undisturbed
  MaxRequests   \* bound: requests the user makes during the run

ASSUME BoundsAssumption == MaxPolls \in Nat /\ MaxRequests \in Nat

VARIABLES
  cancel, pause, stepOnce,  \* the flags
  ui,            \* store the request in progress performs next, or "idle"
  rpc,           \* where the integrator thread is: see IntegratorLabels
  polls,         \* calls of poll_step
  requests,      \* requests begun
  grant,         \* how the latest poll got past the pause: "free" or "token"
  stepRequests,  \* Step requests begun
  stepEntries,   \* boundaries crossed on a step token
  slipped        \* boundaries crossed free while pause has been set

flags == <<cancel, pause, stepOnce>>
history == <<grant, stepRequests, stepEntries, slipped>>
vars == <<flags, ui, rpc, polls, requests, history>>

UiLabels == {"idle", "cancelPause", "cancelStep", "resumePause", "stepPause"}
Polling == {"checkCancel", "checkPause", "swapStep"}
Stopped == {"cancelled", "finished"}
IntegratorLabels == {"work", "recheck"} \union Polling \union Stopped

Init ==
  /\ cancel = FALSE /\ pause = FALSE /\ stepOnce = FALSE
  /\ ui = "idle" /\ rpc = "work"
  /\ polls = 0 /\ requests = 0
  /\ grant = "free" /\ stepRequests = 0 /\ stepEntries = 0 /\ slipped = 0

-----------------------------------------------------------------------------
(* The user interface.  The first store of a request is the action that    *)
(* begins it; ui names the store that comes next.                          *)

Begin(next) ==
  /\ ui = "idle"
  /\ requests < MaxRequests
  /\ requests' = requests + 1
  /\ ui' = next

ContinueAt(here, next) ==
  /\ ui = here
  /\ ui' = next
  /\ UNCHANGED requests

RequestCancel ==
  /\ Begin("cancelPause")
  /\ cancel' = TRUE
  /\ UNCHANGED <<pause, stepOnce, rpc, polls, history>>

\* Clearing pause restarts the count of boundaries that slipped past it.
ClearPause ==
  /\ pause' = FALSE
  /\ slipped' = 0

CancelClearPause ==
  /\ ContinueAt("cancelPause", "cancelStep")
  /\ ClearPause
  /\ UNCHANGED <<cancel, stepOnce, rpc, polls, grant, stepRequests, stepEntries>>

CancelSetStep ==
  /\ ContinueAt("cancelStep", "idle")
  /\ stepOnce' = TRUE
  /\ UNCHANGED <<cancel, pause, rpc, polls, history>>

RequestPause ==
  /\ Begin("idle")
  /\ pause' = TRUE
  /\ UNCHANGED <<cancel, stepOnce, rpc, polls, history>>

RequestResume ==
  /\ Begin("resumePause")
  /\ stepOnce' = FALSE
  /\ UNCHANGED <<cancel, pause, rpc, polls, history>>

ResumeClearPause ==
  /\ ContinueAt("resumePause", "idle")
  /\ ClearPause
  /\ UNCHANGED <<cancel, stepOnce, rpc, polls, grant, stepRequests, stepEntries>>

RequestStep ==
  /\ Begin("stepPause")
  /\ stepOnce' = TRUE
  /\ stepRequests' = stepRequests + 1
  /\ UNCHANGED <<cancel, pause, rpc, polls, grant, stepEntries, slipped>>

StepSetPause ==
  /\ ContinueAt("stepPause", "idle")
  /\ pause' = TRUE
  /\ UNCHANGED <<cancel, stepOnce, rpc, polls, history>>

NewRequest == RequestCancel \/ RequestPause \/ RequestResume \/ RequestStep

FinishRequest ==
  \/ CancelClearPause \/ CancelSetStep
  \/ ResumeClearPause
  \/ StepSetPause

-----------------------------------------------------------------------------
(* The integrator thread: one pass of the stepping loop is "work", then a  *)
(* call of poll_step.                                                      *)

UiUnchanged == UNCHANGED <<ui, requests, stepRequests>>

\* The loop condition holds: the next pass begins with poll_step.
BeginPoll ==
  /\ rpc = "work"
  /\ polls < MaxPolls
  /\ polls' = polls + 1
  /\ rpc' = "checkCancel"
  /\ UiUnchanged
  /\ UNCHANGED <<flags, grant, stepEntries, slipped>>

\* time > t_end, terminate(), or an error of the step itself.
Finish ==
  /\ rpc = "work"
  /\ rpc' = "finished"
  /\ UiUnchanged
  /\ UNCHANGED <<flags, polls, grant, stepEntries, slipped>>

CheckCancel ==
  /\ rpc = "checkCancel"
  /\ rpc' = IF cancel THEN "cancelled" ELSE "checkPause"
  /\ UiUnchanged
  /\ UNCHANGED <<flags, polls, grant, stepEntries, slipped>>

CheckPause ==
  /\ rpc = "checkPause"
  /\ IF pause
       THEN rpc' = "swapStep" /\ UNCHANGED grant
       ELSE rpc' = "recheck" /\ grant' = "free"
  /\ UiUnchanged
  /\ UNCHANGED <<flags, polls, stepEntries, slipped>>

\* Mutant: the token is loaded, not swapped, and serves again.
SwapStepLoad ==
  /\ rpc = "swapStep"
  /\ IF stepOnce
       THEN rpc' = "recheck" /\ grant' = "token"
       ELSE rpc' = "checkCancel" /\ UNCHANGED grant
  /\ UiUnchanged
  /\ UNCHANGED <<flags, polls, stepEntries, slipped>>

\* Mutant: a paused poll sleeps once and goes on.
SwapStepNoLoop ==
  /\ rpc = "swapStep"
  /\ stepOnce' = FALSE
  /\ rpc' = "recheck"
  /\ grant' = IF stepOnce THEN "token" ELSE "free"
  /\ UiUnchanged
  /\ UNCHANGED <<cancel, pause, polls, stepEntries, slipped>>

\* Mutant: a paused poll waits for a token only.
SwapStepTokenOnly ==
  /\ rpc = "swapStep"
  /\ stepOnce' = FALSE
  /\ IF stepOnce
       THEN rpc' = "recheck" /\ grant' = "token"
       ELSE UNCHANGED <<rpc, grant>>
  /\ UiUnchanged
  /\ UNCHANGED <<cancel, pause, polls, stepEntries, slipped>>

\* The token is taken and cleared in one swap.  Without one the thread
\* sleeps 15 ms and starts over from the cancel flag.
SwapStep ==
  /\ rpc = "swapStep"
  /\ stepOnce' = FALSE
  /\ IF stepOnce
       THEN rpc' = "recheck" /\ grant' = "token"
       ELSE rpc' = "checkCancel" /\ UNCHANGED grant
  /\ UiUnchanged
  /\ UNCHANGED <<cancel, pause, polls, stepEntries, slipped>>

\* The cancel flag is read again before the boundary is crossed.
Recheck ==
  /\ rpc = "recheck"
  /\ rpc' = IF cancel THEN "cancelled" ELSE "work"
  /\ IF cancel
       THEN UNCHANGED <<stepEntries, slipped>>
       ELSE /\ stepEntries' = stepEntries + (IF grant = "token" THEN 1 ELSE 0)
            /\ slipped' = slipped + (IF pause /\ grant = "free" THEN 1 ELSE 0)
  /\ UiUnchanged
  /\ UNCHANGED <<flags, polls, grant>>

Integrate ==
  \/ BeginPoll \/ Finish
  \/ CheckCancel \/ CheckPause \/ SwapStep \/ Recheck

-----------------------------------------------------------------------------

\* Nothing is left to do: the run is over and no request is under way.
Done ==
  /\ rpc \in Stopped
  /\ ui = "idle"
  /\ UNCHANGED vars

Next == NewRequest \/ FinishRequest \/ Integrate \/ Done

Spec == Init /\ [][Next]_vars

\* The integrator thread and the thread inside a request keep running; a
\* user owes no further request.
Fairness == WF_vars(Integrate) /\ WF_vars(FinishRequest)

FairSpec == Spec /\ Fairness

-----------------------------------------------------------------------------
(* Properties *)

TypeOK ==
  /\ cancel \in BOOLEAN /\ pause \in BOOLEAN /\ stepOnce \in BOOLEAN
  /\ ui \in UiLabels /\ rpc \in IntegratorLabels
  /\ polls \in Nat /\ requests \in Nat
  /\ grant \in {"free", "token"}
  /\ stepRequests \in Nat /\ stepEntries \in Nat /\ slipped \in Nat

\* Between requests, a live run that is not paused carries no step token:
\* a Step that was overtaken by Resume cannot let a later Pause leak.
NoStaleToken ==
  ui = "idle" /\ ~cancel => (stepOnce => pause)

\* Stepping never crosses more boundaries than Step was requested, not even
\* when the request that wakes a paused loop is a Cancel (which also raises
\* the token).
StepsArePaidFor == stepEntries <= stepRequests

\* After pause is set, at most one boundary is crossed without a token: the
\* one whose poll had already read the flag.
PauseHolds == slipped <= 1

\* No boundary is crossed once the cancel flag is set, whatever the poll had
\* read before.
CancelIsFinal == [][rpc = "recheck" /\ rpc' = "work" => ~cancel]_vars

\* A Stop ends the run, also a paused one, and also when Pause or Step
\* requests arrive after it.
StopTerminates == cancel ~> rpc \in Stopped

\* A run left with pause cleared is not kept waiting in poll_step.
ResumeReleases == <>[](~pause) => []<>(rpc \notin Polling)

\* A Step that reaches a paused run is taken: the token does not stay up.
StepIsTaken == stepOnce /\ pause ~> ~stepOnce \/ rpc \in Stopped

\* A paused poll sleeps and looks again (control.rs:290): each of the three
\* requests gets it out, also when others follow.
PollsAreReleased == StopTerminates /\ ResumeReleases /\ StepIsTaken

\* The flag protocol implements the gate.  A Resume takes effect with its
\* first store and a Cancel with its first; a token counts once pause is set.
gateHeld == pause /\ ~cancel /\ ui # "resumePause"
gateCredit == gateHeld /\ stepOnce
gatePhase ==
  CASE rpc = "work" -> "work"
    [] rpc \in Polling -> "ask"
    [] rpc = "recheck" -> "granted"
    [] rpc \in Stopped -> "stopped"

Gate == INSTANCE StepGate
  WITH held <- gateHeld, credit <- gateCredit,
       cancelled <- cancel, phase <- gatePhase

ImplementsGate == Gate!GateSpec

=============================================================================
