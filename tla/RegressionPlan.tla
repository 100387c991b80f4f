--------------------------- MODULE RegressionPlan ---------------------------
(***************************************************************************)
(* Which cases a regression workspace runs, and in which order             *)
(* (modai-worker/src/planner.rs).                                          *)
(*                                                                         *)
(* Cases are numbers in the order of their names.  The traceability file   *)
(* is a record: the cases of each feature, the features it depends on, the *)
(* features of each source file and the source files of each case.  What   *)
(* the file does not name has an empty entry.                              *)
(***************************************************************************)
EXTENDS Integers, FiniteSets, SequencesExt

IsTrace(t) ==
    /\ DOMAIN t.files \subseteq Nat /\ IsFiniteSet(DOMAIN t.files)
    /\ t.discovered \subseteq DOMAIN t.files
    /\ \A f \in DOMAIN t.cases : /\ t.cases[f] \subseteq DOMAIN t.files
                                 /\ t.deps[f] \subseteq DOMAIN t.cases
    /\ \A s \in DOMAIN t.features : t.features[s] \subseteq DOMAIN t.cases

IsRequest(t, req) ==
    /\ req.strategy \in {"category", "feature", "relation"}
    /\ req.changed \subseteq DOMAIN t.features
    /\ req.features \in Seq(DOMAIN t.cases)
    /\ req.max \in Nat

(* add_case: a case keeps the priority of the first reason to plan it.     *)
\* Mutant: the last reason counts.
AddCasesAnew(plan, cases, priority) ==
    [c \in DOMAIN plan \cup cases |-> IF c \in cases THEN priority ELSE plan[c]]
AddCases(plan, cases, priority) ==
    [c \in DOMAIN plan \cup cases |-> IF c \in DOMAIN plan THEN plan[c] ELSE priority]

NoCases == << >>

CasesOf(trace, features) == UNION {trace.cases[f] : f \in features}
Dependencies(trace, features) == UNION {trace.deps[f] : f \in features}

ByCategory(trace, req) ==
    AddCases(NoCases, {c \in trace.discovered :
                          req.categories = {} \/ trace.category[c] \in req.categories}, 60)

(* One feature after the other, each followed by those it depends on.      *)
AddFeature(trace, plan, f, indirect) ==
    LET direct == AddCases(plan, trace.cases[f], 90)
    IN  IF indirect THEN AddCases(direct, CasesOf(trace, trace.deps[f]), 70) ELSE direct

ByFeature(trace, req) ==
    LET Plan[n \in 0..Len(req.features)] ==
            IF n = 0 THEN NoCases
                     ELSE AddFeature(trace, Plan[n - 1], req.features[n], req.indirect)
    IN  Plan[Len(req.features)]

(* What the changed files touch: cases, then features, then what depends   *)
(* on these; everything when that is nothing.                              *)
Edited(trace, req) == {c \in DOMAIN trace.files : trace.files[c] \cap req.changed # {}}
Touched(trace, req) == UNION {trace.features[s] : s \in req.changed}

ByRelation(trace, req) ==
    LET source   == AddCases(NoCases, Edited(trace, req), 100)
        direct   == AddCases(source, CasesOf(trace, Touched(trace, req)), 95)
        around   == CasesOf(trace, Dependencies(trace, Touched(trace, req)))
        indirect == IF req.indirect THEN AddCases(direct, around, 75) ELSE direct
    IN  IF DOMAIN indirect = {} THEN AddCases(NoCases, trace.discovered, 40) ELSE indirect

Priorities(trace, req) ==
    CASE req.strategy = "category" -> ByCategory(trace, req)
      [] req.strategy = "feature"  -> ByFeature(trace, req)
      [] req.strategy = "relation" -> ByRelation(trace, req)

(* The highest priorities first, in the order of names among equals.       *)
Before(priority, a, b) ==
    priority[a] > priority[b] \/ (priority[a] = priority[b] /\ a < b)

Sorted(priority) ==
    CHOOSE s \in [1..Cardinality(DOMAIN priority) -> DOMAIN priority] :
        /\ ToSet(s) = DOMAIN priority
        /\ \A i, j \in DOMAIN s : i < j => Before(priority, s[i], s[j])

(* Only max of them, when max is not 0.                                    *)
BuildPlan(trace, req) ==
    LET priority == Priorities(trace, req)
        sorted == Sorted(priority)
        kept == IF req.max > 0 /\ Len(sorted) > req.max THEN SubSeq(sorted, 1, req.max) ELSE sorted
    IN  [cases |-> kept,
         skipped |-> (trace.discovered \cup DOMAIN priority) \ ToSet(kept)]
=============================================================================
