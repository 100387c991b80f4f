----------------------------- MODULE TieredJit -----------------------------
(***************************************************************************)
(* Tiered compilation and speculation guards of a running simulation.      *)
(*                                                                         *)
(* A process simulates one model after another.  At every step boundary a  *)
(* run asks its scheduler which code to call; the scheduler has better     *)
(* code compiled in a background thread, one tier at a time, and installs  *)
(* it at a later boundary.  The threads of all runs, also of runs that are *)
(* over, share the environment variables the compiler reads, under a lock  *)
(* of their own, and the registry of speculation guards.                   *)
(*                                                                         *)
(* Code is known by the run it was compiled for, its tier, and the         *)
(* generation of the guards compiled into it (0: none).  A registry is     *)
(* taken to hold one guard; guards are numbered through the process, so    *)
(* those of another generation are not found in it.  Tiering is switched   *)
(* on, and nothing forces the folding off.  A run's own compilation is one *)
(* step and reads the environment without the lock; that a dual            *)
(* compilation withdraws the guards while it compiles the generic code is  *)
(* left out.                                                               *)
(***************************************************************************)

EXTENDS Naturals, Sequences

CONSTANTS
  Runs,         \* bound: runs of the process
  StartTiers,   \* the tiers the policy picks for the models considered
  Threshold,    \* tierup_step_threshold
  MaxThreads,   \* bound: threads ever started
  MaxRefused,   \* bound: threads the system refuses to start
  None          \* no upgrade

ASSUME TieredAssumption ==
  /\ Runs \in Nat \ {0} /\ StartTiers \subseteq 0..2 /\ Threshold \in Nat \ {0}
  /\ MaxThreads \in Nat \ {0} /\ MaxRefused \in Nat

Interpreter == 0
FastJit == 1
OptimizedJit == 2
ProfileGuided == 3
Tiers == Interpreter..ProfileGuided

VARIABLES
  mpc,          \* the run: "idle", "boundary" or "call"
  run,          \* its number
  code,         \* active_calc_derivs
  profile,      \* the run's model has a training profile
  generic,      \* the deopt manager holds a generic fallback
  deoptPending, \* its deopt_pending flag
  locked,       \* tiered_locked_by_deopt
  tier,         \* current_tier
  steps,        \* step_count, as far as the threshold
  inFlight,     \* tierup_in_flight
  pending,      \* per run: pending_upgrade
  threads,      \* every tier-up started, see Thread
  refused,      \* threads not started
  lock,         \* TIER_UP_ENV_LOCK: "free", "held" or "poisoned"
  optLevel,     \* RUSTMODLICA_CRANELIFT_OPT_LEVEL
  fold,         \* RUSTMODLICA_CONST_FOLD and RUSTMODLICA_EQ_DCE
  registry,     \* the guards: their generation, and whether they all hold
  signal        \* DEOPT_PENDING

deopt == <<generic, deoptPending, locked>>
scheduler == <<tier, steps, inFlight, refused>>
environment == <<lock, optLevel, fold>>
guards == <<registry, signal>>
vars == <<mpc, run, code, profile, deopt, scheduler, pending, threads, environment, guards>>

Code == [run : 1..Runs, tier : Tiers, guards : Nat]
Ended == {"done", "failed", "mismatched"}
ThreadLabels == {"spawned", "locking", "compiling"} \union Ended
\* profiled: the profile of its run.  fold: what it found, to be set back.
Thread == [run : 1..Runs, tier : Tiers, profiled : BOOLEAN, pc : ThreadLabels,
           fold : {"user", "0"}]

\* cranelift_opt_level, skip_const_fold and skip_eq_dce of a tier.
OptLevel(t) == IF t \in {Interpreter, FastJit} THEN "none" ELSE "speed"
SkipsFolding(t) == t \in {Interpreter, FastJit}

\* The guards a compilation finds in the registry.
ActiveGuards == IF registry.holds THEN registry.generation ELSE 0

Init ==
  /\ mpc = "idle" /\ run = 0
  /\ code \in [run : {1}, tier : {Interpreter}, guards : {0}]
  /\ profile = FALSE /\ generic = FALSE /\ deoptPending = FALSE /\ locked = FALSE
  /\ tier = Interpreter /\ steps = 0 /\ inFlight = FALSE /\ refused = 0
  /\ pending = [r \in 1..Runs |-> None]
  /\ threads = <<>>
  /\ lock = "free" /\ optLevel = "user" /\ fold = "user"
  /\ registry = [generation |-> 0, holds |-> TRUE] /\ signal = FALSE

-----------------------------------------------------------------------------
(* The run.                                                                *)

NewGuards == registry' = [generation |-> registry.generation + 1, holds |-> TRUE]

\* Every compilation of a model with a profile fills the registry anew; without
\* one it keeps what an earlier compilation left there.
Refill(profiled) == IF profiled THEN NewGuards ELSE UNCHANGED registry

\* A run is compiled and set up.
BeginRun ==
  /\ mpc = "idle" /\ run < Runs
  /\ mpc' = "boundary"
  /\ run' = run + 1
  /\ profile' \in BOOLEAN
  /\ Refill(profile')
  /\ tier' \in StartTiers
  /\ code' = [run |-> run', tier |-> tier', guards |-> ActiveGuards']
  /\ generic' \in (IF registry'.generation = 0 THEN {FALSE} ELSE BOOLEAN)
  /\ deoptPending' = FALSE /\ locked' = FALSE
  /\ steps' = 0 /\ inFlight' = FALSE
  /\ UNCHANGED <<refused, pending, threads, environment, signal>>

\* The loop is over.  Nobody waits for the threads.
EndRun ==
  /\ mpc = "boundary"
  /\ mpc' = "idle"
  /\ UNCHANGED <<run, code, profile, deopt, scheduler, pending, threads, environment, guards>>

\* The next tier, once the run has made enough steps.
ShouldTierUp(t, n) ==
  CASE n < Threshold -> None
    [] n >= Threshold /\ t \in {Interpreter, FastJit} -> t + 1
    [] n >= Threshold /\ t = OptimizedJit /\ profile -> ProfileGuided
    [] OTHER -> None

\* The thread is started, or the system refuses it and the next step asks
\* again.
RequestTierUp(t) ==
  \/ /\ Len(threads) < MaxThreads
     /\ threads' = Append(threads,
          [run |-> run, tier |-> t, profiled |-> profile, fold |-> "user",
           pc |-> IF t = ProfileGuided THEN "spawned" ELSE "locking"])
     /\ inFlight' = TRUE
     /\ UNCHANGED refused
  \/ /\ refused < MaxRefused
     /\ refused' = refused + 1
     /\ inFlight' = FALSE
     /\ UNCHANGED threads

\* Mutant: an attempt is over only when the next one begins.
OnStepStuck ==
  /\ steps' = IF steps < Threshold THEN steps + 1 ELSE steps
  /\ pending' = [pending EXCEPT ![run] = None]
  /\ IF pending[run] # None
       THEN code' = pending[run] /\ tier' = pending[run].tier
       ELSE UNCHANGED <<code, tier>>
  /\ IF ~inFlight /\ ShouldTierUp(tier', steps') # None
       THEN RequestTierUp(ShouldTierUp(tier', steps'))
       ELSE UNCHANGED <<inFlight, threads, refused>>

\* An upgrade that is ready is installed, and the next one is asked for unless
\* one is under way.  An attempt that failed stays under way for good.
OnStep ==
  /\ steps' = IF steps < Threshold THEN steps + 1 ELSE steps
  /\ pending' = [pending EXCEPT ![run] = None]
  /\ IF pending[run] # None
       THEN code' = pending[run] /\ tier' = pending[run].tier
       ELSE UNCHANGED <<code, tier>>
  /\ IF (pending[run] # None \/ ~inFlight) /\ ShouldTierUp(tier', steps') # None
       THEN RequestTierUp(ShouldTierUp(tier', steps'))
       ELSE /\ inFlight' = (inFlight /\ pending[run] = None)
            /\ UNCHANGED <<threads, refused>>

\* A step boundary: the guards are checked against the states, the deopt
\* manager is asked whether a deoptimization is pending, and unless the run is
\* locked to its generic code the scheduler says what to call.
Boundary ==
  /\ mpc = "boundary" /\ mpc' = "call"
  /\ \E valid \in (IF registry.generation = 0 THEN {TRUE} ELSE BOOLEAN) :
       registry' = [registry EXCEPT !.holds = @ /\ valid]
  /\ deoptPending' = FALSE
  /\ locked' = (locked \/ (deoptPending /\ generic))
  /\ IF locked'
       THEN /\ code' = IF deoptPending /\ generic THEN [code EXCEPT !.guards = 0] ELSE code
            /\ UNCHANGED <<scheduler, pending, threads>>
       ELSE OnStep
  /\ UNCHANGED <<run, profile, generic, environment, signal>>

\* The code is called.  A guard that is not in the registry, or does not hold,
\* raises the signal; the values computed are the same.
CallCode ==
  /\ mpc = "call"
  /\ mpc' = "boundary"
  /\ signal' = (signal \/ code.guards \notin {0, ActiveGuards})
  /\ UNCHANGED <<run, code, profile, deopt, scheduler, pending, threads, environment, registry>>

-----------------------------------------------------------------------------
(* The background threads.                                                 *)

Main == <<mpc, run, code, profile, deopt, scheduler>>

At(i, label) == i \in 1..Len(threads) /\ threads[i].pc = label
Goto(i, label) == threads' = [threads EXCEPT ![i].pc = label]

\* A thread for the last tier fills the registry anew before it waits for the
\* lock, whichever run it serves now.
Speculate(i) ==
  /\ At(i, "spawned")
  /\ NewGuards
  /\ Goto(i, "locking")
  /\ UNCHANGED <<Main, pending, environment, signal>>

\* Mutant: the environment is changed without taking the lock.
EnterUnlocked(i) ==
  /\ At(i, "locking")
  /\ lock' = lock
  /\ optLevel' = OptLevel(threads[i].tier)
  /\ fold' = IF SkipsFolding(threads[i].tier) THEN "0" ELSE fold
  /\ threads' = [threads EXCEPT ![i].pc = "compiling", ![i].fold = fold]
  /\ Refill(threads[i].profiled)
  /\ UNCHANGED <<Main, pending, signal>>

\* Under the lock, the variables are set as the tier wants them and the
\* compilation begins.
Enter(i) ==
  /\ At(i, "locking") /\ lock = "free"
  /\ lock' = "held"
  /\ optLevel' = OptLevel(threads[i].tier)
  /\ fold' = IF SkipsFolding(threads[i].tier) THEN "0" ELSE fold
  /\ threads' = [threads EXCEPT ![i].pc = "compiling", ![i].fold = fold]
  /\ Refill(threads[i].profiled)
  /\ UNCHANGED <<Main, pending, signal>>

\* A thread that finds the lock poisoned panics in its turn.
EnterFails(i) ==
  /\ At(i, "locking") /\ lock = "poisoned"
  /\ Goto(i, "failed")
  /\ UNCHANGED <<Main, pending, environment, guards>>

\* What thread i compiled.
Compiled(i) == [run |-> threads[i].run, tier |-> threads[i].tier, guards |-> ActiveGuards]

\* Mutant: the upgrade goes to the run under way.
OfferLatest(i) == pending' = [pending EXCEPT ![run] = Compiled(i)]

\* The upgrade goes to the scheduler that asked for it.
Offer(i) == pending' = [pending EXCEPT ![threads[i].run] = Compiled(i)]

\* The folding variables are set back, the level is not; the lock is released.
Restore(i, label) ==
  /\ threads' = [threads EXCEPT ![i].pc = label, ![i].fold = "user"]
  /\ fold' = threads[i].fold
  /\ lock' = "free"
  /\ UNCHANGED optLevel

\* The last tier is compiled a second time without its guards.  If that fails
\* halfway they stay withdrawn, and the upgrade is offered all the same.
DualCompile(i) ==
  \E kept \in (IF threads[i].tier = ProfileGuided THEN BOOLEAN ELSE {TRUE}) :
    registry' = [registry EXCEPT !.holds = @ /\ kept]

CompileOk(i) ==
  /\ At(i, "compiling")
  /\ Offer(i)
  /\ DualCompile(i)
  /\ Restore(i, "done")
  /\ UNCHANGED <<Main, signal>>

CompileFails(i) ==
  /\ At(i, "compiling")
  /\ Restore(i, "failed")
  /\ UNCHANGED <<Main, pending, guards>>

\* Other variables than the run has: the thread returns, the lock is released,
\* the environment stays as the thread has set it.
LayoutMismatch(i) ==
  /\ At(i, "compiling")
  /\ threads' = [threads EXCEPT ![i].pc = "mismatched", ![i].fold = "user"]
  /\ lock' = "free"
  /\ UNCHANGED <<Main, pending, optLevel, fold, guards>>

\* The compilation panics: the lock is poisoned for the rest of the process.
Panic(i) ==
  /\ At(i, "compiling")
  /\ threads' = [threads EXCEPT ![i].pc = "failed", ![i].fold = "user"]
  /\ lock' = "poisoned"
  /\ UNCHANGED <<Main, pending, optLevel, fold, guards>>

ThreadStep(i) ==
  \/ Speculate(i) \/ Enter(i) \/ EnterFails(i)
  \/ CompileOk(i) \/ CompileFails(i) \/ LayoutMismatch(i) \/ Panic(i)

Pass == Boundary \/ CallCode

Done ==
  /\ mpc = "idle" /\ run = Runs
  /\ \A i \in 1..Len(threads) : threads[i].pc \in Ended
  /\ UNCHANGED vars

Next ==
  \/ BeginRun \/ EndRun \/ Pass
  \/ \E i \in 1..Len(threads) : ThreadStep(i)
  \/ Done

\* The loop and the threads keep going; nobody owes a further run, nor the end
\* of one.
Fairness == WF_vars(Pass) /\ \A i \in 1..MaxThreads : WF_vars(ThreadStep(i))

Spec == Init /\ [][Next]_vars /\ Fairness

-----------------------------------------------------------------------------
(* Properties *)

Running == mpc # "idle"
Alive(i) == threads[i].pc \notin Ended
Mine(i) == threads[i].run = run

TypeOK ==
  /\ mpc \in {"idle", "boundary", "call"} /\ run \in 0..Runs
  /\ code \in Code /\ tier \in Tiers
  /\ profile \in BOOLEAN /\ generic \in BOOLEAN /\ deoptPending \in BOOLEAN
  /\ locked \in BOOLEAN /\ inFlight \in BOOLEAN /\ signal \in BOOLEAN
  /\ steps \in 0..Threshold /\ refused \in 0..MaxRefused
  /\ pending \in [1..Runs -> Code \union {None}]
  /\ threads \in Seq(Thread)
  /\ Len(threads) <= MaxThreads
  /\ lock \in {"free", "held", "poisoned"}
  /\ optLevel \in {"user", "none", "speed"} /\ fold \in {"user", "0"}
  /\ registry \in [generation : Nat, holds : BOOLEAN]

\* A run only ever calls code compiled for it, of the tier it believes to be on,
\* although threads of earlier runs are still compiling.
CallsItsOwnCode == Running => code.run = run /\ code.tier = tier

\* A run climbs one tier at a time and never comes back down: no attempt of a
\* run overtakes another.
ClimbsByOne == [][run' = run => tier' \in {tier, tier + 1}]_vars

\* A thread that found another layout has left the folding off: it returns
\* before the variables are set back (tiered.rs:425).
LeftOff == \E j \in 1..Len(threads) :
             threads[j].pc = "mismatched" /\ SkipsFolding(threads[j].tier)

\* While a thread compiles, the compiler reads the settings of its tier: the
\* level, and the folding off for a tier that skips it and on for one that does
\* not.  One defect is excepted: after a mismatch in a tier without folding the
\* folding stays off, for the optimizing tiers of later runs too.
CompilesAsItsTier ==
  \A i \in 1..Len(threads) :
    threads[i].pc = "compiling" =>
      /\ optLevel = OptLevel(threads[i].tier)
      /\ fold = "0" <=> SkipsFolding(threads[i].tier) \/ LeftOff

\* A run that goes on climbs to the next tier, unless its attempt fails or its
\* thread cannot be started at all.
Climbs ==
  \A r \in 1..Runs, t \in Interpreter..FastJit :
    Running /\ run = r /\ tier = t
      ~> ~Running \/ run # r \/ tier > t
         \/ \E i \in 1..Len(threads) : Mine(i) /\ threads[i].pc \in {"failed", "mismatched"}

=============================================================================
