----------------------- MODULE MCRegressionWorkspace -------------------------
(* An instance of RegressionWorkspace for TLC. *)
EXTENDS RegressionWorkspace

\* Three cases, two of them discovered; two features, one of which depends on
\* the other; two files.  Cases that are touched in two ways, and no case.
MCTraces == {
  [discovered |-> {1, 2}, category |-> <<"basic", "msl", "basic">>,
   cases |-> [f |-> {1, 2}, g |-> {2, 3}], deps |-> [f |-> {"g"}, g |-> {}],
   features |-> [a |-> {"f"}, b |-> {"g"}], files |-> <<{}, {"a"}, {"a", "b"}>>],
  [discovered |-> {1, 3}, category |-> <<"basic", "msl", "basic">>,
   cases |-> [f |-> {2}, g |-> {1}], deps |-> [f |-> {"f", "g"}, g |-> {"f"}],
   features |-> [a |-> {"f", "g"}, b |-> {}], files |-> <<{}, {}, {"b"}>>],
  [discovered |-> {}, category |-> <<"basic", "msl", "basic">>,
   cases |-> [f |-> {}, g |-> {}], deps |-> [f |-> {}, g |-> {}],
   features |-> [a |-> {"f"}, b |-> {}], files |-> <<{}, {}, {}>>]}

MCRequests ==
  {[strategy |-> "relation", changed |-> c, categories |-> {}, features |-> << >>,
    indirect |-> (m = 0), max |-> m] : c \in {{"a"}, {"a", "b"}}, m \in {0, 2}}
  \cup {[strategy |-> "feature", changed |-> {}, categories |-> {}, features |-> <<"g", "f">>,
         indirect |-> TRUE, max |-> 0],
        [strategy |-> "category", changed |-> {}, categories |-> {"msl"}, features |-> << >>,
         indirect |-> FALSE, max |-> 0]}

\* Processes differ in nothing but their name.
Symmetry == Permutations(Procs)
=============================================================================
