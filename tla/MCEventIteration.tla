-------------------------- MODULE MCEventIteration ---------------------------
(* An instance of EventIteration for TLC. *)
EXTENDS EventIteration

CONSTANT First      \* the register the first branch sets

\* Every program of two branches, in one when-clause or two, over one relation,
\* two registers and a clock; a register no branch sets may follow the other one.
\* The first branch sets the first register: programs that differ in the names
\* of the registers only are taken once.  Clocks tick in models without loops.
MCConditions == {c \in Conditions :
    (c.of = "input" => c.name # Tick) /\ (c.of = "pre" => c.holds)}
MCBranches == {b \in Branches : b.cond \in MCConditions}

Clauses == {<<f, g>> : f \in {b \in MCBranches : ~b.elsewhen /\ b.sets = First /\ b.flips},
                       g \in MCBranches}
WellFormed(bs) ==
    /\ IF bs[2].elsewhen THEN bs[1].clocked = bs[2].clocked
                         ELSE bs[1].sets # bs[2].sets
    /\ bs[2].flips \/ bs[2].sets = First
Free(bs) == Registers \ {bs[i].sets : i \in DOMAIN bs}
Equations(bs) == {<< >>} \cup UNION {[{y} -> Registers \ {y}] : y \in Free(bs)}

Kinds == {[loops |-> FALSE, states |-> TRUE, solver |-> "scratch"],
          [loops |-> FALSE, states |-> TRUE, solver |-> "direct"],
          [loops |-> TRUE, states |-> TRUE, solver |-> "scratch"],
          [loops |-> TRUE, states |-> FALSE, solver |-> "scratch"]}

MCPrograms == UNION {
    {[branches |-> bs, equations |-> e, loops |-> k.loops, states |-> k.states,
      solver |-> k.solver] : e \in Equations(bs),
                                  k \in {d \in Kinds : d.loops => ~bs[1].clocked}} :
    bs \in {c \in Clauses : WellFormed(c)}}
=============================================================================
