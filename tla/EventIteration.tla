--------------------------- MODULE EventIteration ---------------------------
(***************************************************************************)
(* When-clauses at one time point and between two of them                  *)
(* (simulation/events.rs, simulation/driver/run_step.rs, solver/mod.rs and *)
(* the code generated for a when-clause, jit/translator/algorithm).        *)
(*                                                                         *)
(* A program has registers (discrete variables, and states set by reinit), *)
(* register equations y = pre(x), and when-clauses: a sequence of branches *)
(* "r = not pre(r)" or "r = pre(r)", each under a condition. An else-branch*)
(* belongs to the clause of the branch before it. Conditions read inputs,  *)
(* which stand for the relations of time and states and are fixed at a time*)
(* point, registers, or pre of registers. A clocked branch lies in a       *)
(* partition that is evaluated only when its clock ticks.                  *)
(***************************************************************************)
EXTENDS Naturals, Sequences

CONSTANTS
    Inputs,             \* relations of time and states
    Tick,               \* the input that says that the clock ticks
    Registers,
    Programs,           \* the compiled models considered
    AlgFixedPointMax,   \* ALG_FIXED_POINT_MAX
    EventIterMax        \* passes of the event loop before it gives up

Conditions == [of: {"input"}, name: Inputs, holds: {TRUE}]
    \cup [of: {"current", "pre"}, name: Registers, holds: BOOLEAN]

Branches == [elsewhen: BOOLEAN, clocked: BOOLEAN, cond: Conditions,
             sets: Registers, flips: BOOLEAN]

ASSUME EventBounds == AlgFixedPointMax \in Nat \ {0} /\ EventIterMax \in Nat
ASSUME ClockIsAnInput == Tick \in Inputs
ASSUME ProgramsAreWellFormed == \A p \in Programs :
    /\ p.branches \in Seq(Branches) /\ ~p.branches[1].elsewhen
    /\ p.equations \in UNION {[S -> Registers] : S \in SUBSET Registers}
    /\ \A i \in DOMAIN p.branches : p.branches[i].sets \notin DOMAIN p.equations
    /\ p.loops \in BOOLEAN /\ p.states \in BOOLEAN
    /\ p.solver \in {"scratch", "direct"}

VARIABLES
    program,    \* calc_derivs
    inputs,     \* the relations at this time
    registers,  \* discrete_vals
    pre,        \* pre_discrete_vals
    whenPre,    \* the pre slot of each branch in when_states
    phase,      \* ready, iterating, committing, sampled, stopped
    algIter,    \* evaluations of the algebraic fixed point
    eventIter,  \* passes of the event loop
    ending,     \* how the last event loop ended: settled, gave up, cut short
    acts,       \* history: branches that acted in the last evaluation
    acted,      \* history: branches that acted since the time point was reached
    armed,      \* history: branches whose condition did not hold when last evaluated
    started,    \* history: armed when the time point was reached and the slots were true
    staged      \* history: branches that acted in a stage of the solver

history == <<acts, acted, armed, started, staged>>
counters == <<algIter, eventIter>>
eventVars == <<program, inputs, registers, pre, whenPre, phase, counters, ending, history>>

Slots(p) == DOMAIN p.branches
NoEdge(p) == [i \in Slots(p) |-> FALSE]

-----------------------------------------------------------------------------
(* One evaluation of calc_derivs: register equations, then the branches.   *)

Holds(c, in, now, left) ==
    c.holds = CASE c.of = "input"   -> in[c.name]
                [] c.of = "current" -> now[c.name]
                [] c.of = "pre"     -> left[c.name]

StoreEquations(p, now, left) ==
    [r \in Registers |-> IF r \in DOMAIN p.equations THEN left[p.equations[r]] ELSE now[r]]

\* Mutant: a branch acts as long as its condition holds.
EdgeOnLevel(holds, slot) == holds

(* The condition holds and the pre slot is zero.                           *)
Edge(holds, slot) == holds /\ ~slot

(* A branch: `new` is what it leaves in its slot of when_states, which was *)
(* zeroed before, `seen` whether its condition holds where it stands, also *)
(* when an earlier branch of the clause acts and it is not looked at.      *)
Branch(p, in, left, slots, done, i) ==
    LET b == p.branches[i]
        seen == Holds(b.cond, in, done.registers, left) /\ (b.clocked => in[Tick])
        skipped == b.elsewhen /\ done.taken
        edge == ~skipped /\ Edge(seen, slots[i])
    IN [registers |-> IF edge THEN [done.registers EXCEPT ![b.sets] = (b.flips # left[b.sets])]
                              ELSE done.registers,
        new |-> Append(done.new, seen /\ ~skipped),
        seen |-> Append(done.seen, seen),
        acts |-> IF edge THEN done.acts \cup {i} ELSE done.acts,
        taken |-> edge \/ skipped]

(* The register equations, then the branches in their order.  There is one *)
(* outcome; as a set, TLC computes it once.                                *)
CalcDerivs(p, in, now, left, slots) ==
    LET Done[n \in 0..Len(p.branches)] ==
            IF n = 0 THEN {[registers |-> StoreEquations(p, now, left), new |-> << >>,
                            seen |-> << >>, acts |-> {}, taken |-> FALSE]}
                     ELSE {Branch(p, in, left, slots, done, n) : done \in Done[n - 1]}
    IN Done[Len(p.branches)]

(* An evaluation whose algebraic loop is not solved returns before its     *)
(* branches; equations before the loop have been stored.                   *)
Unsolved(p, now, left) == {now, StoreEquations(p, now, left)}

-----------------------------------------------------------------------------
(* The event loop at a time point.                                         *)

BeginPass ==
    /\ phase = "ready"
    /\ pre' = registers
    /\ phase' = "iterating" /\ algIter' = 0 /\ eventIter' = 0
    /\ acts' = {} /\ acted' = {} /\ staged' = {}
    /\ armed' = armed \ staged
    /\ started' = IF ending = "cut" THEN {} ELSE armed'
    /\ UNCHANGED <<program, inputs, registers, whenPre, ending>>

Outcomes == CalcDerivs(program, inputs, registers, pre, whenPre)

DoAlgIter == program.loops /\ ~program.states

AlgIterates == DoAlgIter /\ algIter < AlgFixedPointMax

Unarmed(seen) == {i \in Slots(program) : ~seen[i]}

(* What every evaluation of the loop leaves.                               *)
Evaluated(out) ==
    /\ phase = "iterating"
    /\ registers' = out.registers
    /\ acts' = out.acts /\ acted' = acted \cup out.acts
    /\ UNCHANGED <<program, inputs, pre, started, staged>>

(* The outputs still change: once more, the slots as they are.             *)
AlgContinues(out) ==
    /\ AlgIterates /\ algIter + 1 < AlgFixedPointMax
    /\ Evaluated(out)
    /\ algIter' = algIter + 1
    /\ UNCHANGED <<whenPre, phase, eventIter, ending, armed>>

(* The loop ends before the slots are compared: the outputs agree with     *)
(* those of the evaluation before, or KINSOL has solved for them, or a     *)
(* Newton failure has been recovered by other starting values.             *)
CutShort(out) ==
    /\ program.loops
    /\ Evaluated(out)
    /\ armed' = Unarmed(out.seen)
    /\ phase' = "committing" /\ ending' = "cut"
    /\ UNCHANGED <<whenPre, counters>>

(* A Newton failure is accepted with the values it has reached.            *)
AcceptUnsolved ==
    /\ phase = "iterating" /\ program.loops
    /\ registers' \in Unsolved(program, registers, pre)
    /\ phase' = "committing" /\ ending' = "cut" /\ acts' = {}
    /\ UNCHANGED <<program, inputs, pre, whenPre, counters, acted, armed, started, staged>>

\* Mutant: the last slot decides.
ConvergedByLast(new) == whenPre[Len(new)] = new[Len(new)]

(* No slot differs from the condition just computed.                       *)
Converged(new) == whenPre = new

\* Mutant: the passes are not counted.
PassesUncounted == eventIter
Passes == eventIter + 1

(* The slots are compared and taken over; the loop ends when none differed *)
(* or when it has been repeated too often.                                 *)
Settle(out) ==
    /\ AlgIterates => algIter + 1 = AlgFixedPointMax
    /\ Evaluated(out)
    /\ whenPre' = out.new
    /\ armed' = Unarmed(out.seen)
    /\ algIter' = IF AlgIterates THEN algIter + 1 ELSE algIter
    /\ \/ /\ Converged(out.new)
          /\ phase' = "committing" /\ ending' = "settled" /\ UNCHANGED eventIter
       \/ /\ ~Converged(out.new) /\ eventIter < EventIterMax
          /\ eventIter' = Passes /\ UNCHANGED <<phase, ending>>
       \/ /\ ~Converged(out.new) /\ eventIter = EventIterMax
          /\ phase' = "committing" /\ ending' = "gave up" /\ UNCHANGED eventIter

(* A branch has called terminate(), or the failure of an evaluation is not *)
(* accepted.                                                               *)
Stop ==
    /\ \/ phase = "iterating" /\ \E out \in Outcomes : out.acts # {}
       \/ phase \in {"iterating", "committing"} /\ program.loops
    /\ phase' = "stopped" /\ acts' = {}
    /\ UNCHANGED <<program, inputs, registers, pre, whenPre, counters, ending,
                   acted, armed, started, staged>>
-----------------------------------------------------------------------------
(* commit_pre_after_event_and_reeval: pre := x, and one more evaluation.   *)

NothingToCommit ==
    /\ phase = "committing" /\ pre = registers
    /\ phase' = "sampled" /\ acts' = {}
    /\ UNCHANGED <<program, inputs, registers, pre, whenPre, counters, ending,
                   acted, armed, started, staged>>

\* Mutant: the slots stay as the event loop has left them.
CommitPreStale ==
    /\ phase = "committing" /\ pre # registers
    /\ \E again \in CalcDerivs(program, inputs, registers, registers, whenPre) :
        /\ registers' = again.registers /\ pre' = again.registers
        /\ acts' = again.acts /\ acted' = acted \cup again.acts
        /\ armed' = Unarmed(again.seen)
    /\ phase' = "sampled" /\ ending' = "settled"
    /\ UNCHANGED <<program, inputs, whenPre, counters, started, staged>>

CommitPre ==
    /\ phase = "committing" /\ pre # registers
    /\ \E again \in CalcDerivs(program, inputs, registers, registers, whenPre) :
        /\ registers' = again.registers /\ pre' = again.registers
        /\ whenPre' = again.new
        /\ acts' = again.acts /\ acted' = acted \cup again.acts
        /\ armed' = Unarmed(again.seen)
    /\ phase' = "sampled" /\ ending' = "settled"
    /\ UNCHANGED <<program, inputs, counters, started, staged>>

(* The evaluation is accepted unsolved: its slots are those it was given.  *)
CommitUnsolved ==
    /\ phase = "committing" /\ pre # registers /\ program.loops
    /\ registers' \in Unsolved(program, registers, registers) /\ pre' = registers'
    /\ whenPre' = NoEdge(program)
    /\ phase' = "sampled" /\ ending' = "cut" /\ acts' = {}
    /\ UNCHANGED <<program, inputs, counters, acted, armed, started, staged>>
-----------------------------------------------------------------------------
(* From a time point to the next.  Runge-Kutta stages and the trial        *)
(* evaluation work on copies and leave no trace; the other solvers give    *)
(* calc_derivs the registers and slots themselves.                         *)

Stage(in) ==
    /\ phase = "sampled" /\ program.states /\ program.solver = "direct"
    /\ \E there \in CalcDerivs(program, in, registers, pre, whenPre) :
        /\ registers' = there.registers
        /\ acts' = there.acts /\ staged' = staged \cup there.acts
    /\ UNCHANGED <<program, inputs, pre, whenPre, phase, counters, ending,
                   acted, armed, started>>

(* A relation changes within the step: registers are as they were before   *)
(* it (save_discrete, taken when pre = registers), and it is repeated.     *)
Locate ==
    /\ phase = "sampled" /\ program.states
    /\ registers' = pre /\ acts' = {} /\ staged' = {}
    /\ UNCHANGED <<program, inputs, pre, whenPre, phase, counters, ending,
                   acted, armed, started>>

Advance(in) ==
    /\ phase = "sampled"
    /\ inputs' = in /\ phase' = "ready" /\ acts' = {}
    /\ UNCHANGED <<program, registers, pre, whenPre, counters, ending,
                   acted, armed, started, staged>>

-----------------------------------------------------------------------------
EventInit ==
    /\ program \in Programs
    /\ inputs \in [Inputs -> BOOLEAN]
    /\ registers = [r \in Registers |-> FALSE] /\ pre = registers
    /\ whenPre = NoEdge(program)
    /\ phase = "ready" /\ algIter = 0 /\ eventIter = 0 /\ ending = "settled"
    /\ acts = {} /\ acted = {} /\ staged = {}
    /\ armed = Slots(program) /\ started = armed

EventLoop ==
    \/ BeginPass
    \/ \E out \in Outcomes : AlgContinues(out) \/ CutShort(out) \/ Settle(out)
    \/ AcceptUnsolved \/ Stop
    \/ NothingToCommit \/ CommitPre \/ CommitUnsolved

EventNext ==
    \/ EventLoop
    \/ Locate
    \/ \E in \in [Inputs -> BOOLEAN] : Stage(in) \/ Advance(in)

(* The loop never waits: whoever starts it runs it to its end.             *)
EventSpec == EventInit /\ [][EventNext]_eventVars /\ WF_eventVars(EventLoop)

-----------------------------------------------------------------------------
(* A branch acts only when its condition has become true since it was last *)
(* evaluated ("edges fire only on a real 0->1 transition", solver/mod.rs:  *)
(* 189), except an else-branch, in a model whose solver evaluates with the *)
(* registers themselves, or after an event loop that was cut short.        *)
ActsOnRise == [][ending = "cut" \/ program.solver = "direct"
    \/ \A i \in acts' : program.branches[i].elsewhen \/ i \in armed]_eventVars

(* At a sample, each condition that has become true since the time point   *)
(* before has been acted on, by its branch or an earlier one of the clause:*)
(* neither the reset of the slots, nor branches that are not evaluated,    *)
(* nor the evaluation that commits pre lose a rise.  Except after an event *)
(* loop that was cut short and had nothing to commit: it leaves the slots  *)
(* of conditions that fell.                                                *)
RisesAreActedOn == phase = "sampled" => \A i \in started \ armed :
    \E j \in 1..i : j \in acted
        /\ \A k \in j + 1..i : program.branches[k].elsewhen

(* When the event loop has settled, one more evaluation at this time would *)
(* act on nothing and change no register.                                  *)
SettledIsStable == phase = "committing" /\ ending = "settled" =>
    \A out \in Outcomes : out.acts = {} /\ out.registers = registers

(* An event loop ends, though branches may undo each other's conditions    *)
(* and outputs need not converge.                                          *)
IterationEnds == phase = "iterating" ~> phase \in {"sampled", "stopped"}
=============================================================================
