---------------------- MODULE RegressionWorkspace_proofs ----------------------
(***************************************************************************)
(* What the state file of a regression workspace can be trusted for,       *)
(* however many processes plan, run and cancel workspaces, and wherever    *)
(* they are killed; and for every traceability file and request, that the  *)
(* plan is in the order in which the change concerns the cases.            *)
(***************************************************************************)
EXTENDS RegressionWorkspace, FiniteSetTheorems, SequenceTheorems, FunctionTheorems,
        WellFoundedInduction, TLAPS

Statuses == {"Planned", "Running", "Cancelled", "Completed", "Failed"}
Final == {"Completed", "Failed"}
Records == [case: Cases, ok: BOOLEAN, run: Nat]
States == [plan: Plans, status: Statuses, records: Seq(Records)]
Logs == [whole: BOOLEAN, records: Seq(Records)]
Activities == [op: {"none", "create", "run", "cancel"}, id: Ids, no: Nat, mixed: BOOLEAN,
               pc: {"idle", "read", "empty", "fill", "cases", "emptyLog", "fillLog"},
               state: States \cup {Absent}]

Types ==
    /\ trace \in Traces /\ now \in Ids /\ ops \in Nat
    /\ file \in [Ids -> States \cup {Absent, Torn}]
    /\ log \in [Ids -> Logs]
    /\ procs \in [Procs -> Activities]

(* The records of a state are those of one run of its plan.                *)
OneRun(s) ==
    /\ [i \in DOMAIN s.records |-> s.records[i].case] = s.plan.cases
    /\ \A r, t \in ToSet(s.records) : r.run = t.run
    /\ (s.status = "Completed") <=> (\A r \in ToSet(s.records) : r.ok)

LogOf(s) == [whole |-> TRUE, records |-> s.records]

(* What a process carries, at each of its steps.                           *)
Carries(a) ==
    /\ a.pc = "idle" <=> a = Idle
    /\ a.pc \notin {"idle", "read"} => a.state \in States
    /\ a.pc = "read" => a.op \in {"run", "cancel"}
    /\ a.pc = "cases" => a.op = "run" /\ a.state.status = "Running"
    /\ a.pc \in {"emptyLog", "fillLog"} => a.state.status \in Final
    /\ a.state \in States =>
          /\ a.state.status = "Running" => a.op = "run"
          /\ a.state.status \in Final => a.op = "run" /\ OneRun(a.state)

ProcsInv == \A p \in Procs : Carries(procs[p])

FilesInv == \A id \in Ids : Readable(id) /\ file[id].status \in Final => OneRun(file[id])

(* A workspace that never had two operations at once: file and log are of  *)
(* the same run, because the file is marked as running before the log is   *)
(* written and holds the result only after it.                             *)
Ends(a) == a.pc \in {"empty", "fill"} /\ a.state.status \in Final

AloneInv ==
    \A id \in Ids \ shared :
       /\ \A p, q \in Busy(id) : p = q
       /\ Readable(id) /\ file[id].status \in Final => log[id] = LogOf(file[id])
       /\ \A p \in Busy(id) :
             /\ ~procs[p].mixed
             /\ Ends(procs[p]) => log[id] = LogOf(procs[p].state)
             /\ \/ procs[p].pc \in {"cases", "emptyLog", "fillLog"}
                \/ procs[p].pc = "empty" /\ procs[p].state.status \in Final
                => Readable(id) /\ file[id].status = "Running"

IInv == Types /\ ProcsInv /\ FilesInv /\ AloneInv /\ FileIsExplained

-----------------------------------------------------------------------------
(***************************************************************************)
(*                               THE PLANS                                 *)
(***************************************************************************)

(* Priorities of some cases of a traceability file.                        *)
IsPlan(t, plan) ==
    /\ DOMAIN plan \subseteq DOMAIN t.files
    /\ plan \in [DOMAIN plan -> Nat]

LEMMA AddCasesTyped ==
  ASSUME NEW t, NEW plan, IsPlan(t, plan), NEW cases \in SUBSET DOMAIN t.files,
         NEW priority \in Nat
  PROVE  IsPlan(t, AddCases(plan, cases, priority))
<1>1. PICK added : added = AddCases(plan, cases, priority)
  OBVIOUS
<1>2. /\ DOMAIN added = DOMAIN plan \cup cases
      /\ \A c \in DOMAIN plan : added[c] = plan[c]
      /\ \A c \in cases \ DOMAIN plan : added[c] = priority
  BY <1>1 DEF AddCases
<1>3. \A c \in DOMAIN plan : plan[c] \in Nat
  BY DEF IsPlan
<1>4. \A c \in DOMAIN added : added[c] \in Nat
  BY <1>2, <1>3
<1>5. added \in [DOMAIN added -> Nat]
  BY <1>1, <1>4 DEF AddCases
<1>6. IsPlan(t, added)
  BY <1>2, <1>5 DEF IsPlan
<1>7. QED
  BY <1>1, <1>6

LEMMA NoCasesTyped ==
  ASSUME NEW t
  PROVE  IsPlan(t, NoCases) /\ DOMAIN NoCases = {}
BY DEF IsPlan, NoCases

LEMMA TraceTyped ==
  ASSUME NEW t, IsTrace(t)
  PROVE  /\ \A F \in SUBSET DOMAIN t.cases :
              /\ CasesOf(t, F) \subseteq DOMAIN t.files
              /\ Dependencies(t, F) \subseteq DOMAIN t.cases
         /\ \A req : IsRequest(t, req) =>
              /\ Edited(t, req) \subseteq DOMAIN t.files
              /\ Touched(t, req) \subseteq DOMAIN t.cases
<1>1. ASSUME NEW F \in SUBSET DOMAIN t.cases
      PROVE  /\ CasesOf(t, F) \subseteq DOMAIN t.files
             /\ Dependencies(t, F) \subseteq DOMAIN t.cases
  <2>1. \A f \in F : t.cases[f] \subseteq DOMAIN t.files /\ t.deps[f] \subseteq DOMAIN t.cases
    BY DEF IsTrace
  <2>2. QED
    BY <2>1, Zenon DEF CasesOf, Dependencies
<1>2. ASSUME NEW req, IsRequest(t, req)
      PROVE  /\ Edited(t, req) \subseteq DOMAIN t.files
             /\ Touched(t, req) \subseteq DOMAIN t.cases
  <2>1. \A s \in req.changed : t.features[s] \subseteq DOMAIN t.cases
    BY <1>2 DEF IsTrace, IsRequest
  <2>2. Touched(t, req) \subseteq DOMAIN t.cases
    BY <2>1, Zenon DEF Touched
  <2>3. Edited(t, req) \subseteq DOMAIN t.files
    BY DEF Edited
  <2>4. QED
    BY <2>2, <2>3
<1>3. QED
  BY <1>1, <1>2

-----------------------------------------------------------------------------
(* The order is one of all planned cases.                                  *)

LEMMA BeforeIsOrder ==
  ASSUME NEW plan, DOMAIN plan \subseteq Nat, plan \in [DOMAIN plan -> Nat]
  PROVE  /\ \A a \in DOMAIN plan : ~Before(plan, a, a)
         /\ \A a, b \in DOMAIN plan : a = b \/ Before(plan, a, b) \/ Before(plan, b, a)
         /\ \A a, b, c \in DOMAIN plan :
               Before(plan, a, b) /\ Before(plan, b, c) => Before(plan, a, c)
<1>1. \A a \in DOMAIN plan : a \in Nat /\ plan[a] \in Nat
  OBVIOUS
<1>2. QED
  BY <1>1 DEF Before

(* A case's place is the number of cases up to it.                         *)
Upto(plan, c) == {d \in DOMAIN plan : d = c \/ Before(plan, d, c)}
Place(plan, c) == Cardinality(Upto(plan, c))

LEMMA Places ==
  ASSUME NEW plan, DOMAIN plan \subseteq Nat, plan \in [DOMAIN plan -> Nat],
         IsFiniteSet(DOMAIN plan)
  PROVE  /\ \A c \in DOMAIN plan : Place(plan, c) \in 1..Cardinality(DOMAIN plan)
         /\ \A a, b \in DOMAIN plan : Before(plan, a, b) => Place(plan, a) < Place(plan, b)
<1>1. \A c \in DOMAIN plan : /\ IsFiniteSet(Upto(plan, c)) /\ c \in Upto(plan, c)
                             /\ Place(plan, c) \in Nat
                             /\ Place(plan, c) <= Cardinality(DOMAIN plan)
  <2>1. TAKE c \in DOMAIN plan
  <2>2. Upto(plan, c) \in SUBSET DOMAIN plan /\ c \in Upto(plan, c)
    BY DEF Upto
  <2>3. QED
    BY <2>2, FS_Subset, FS_CardinalityType DEF Place
<1>2. \A c \in DOMAIN plan : Place(plan, c) # 0
  BY <1>1, FS_EmptySet DEF Place
<1>3. Cardinality(DOMAIN plan) \in Nat
  BY FS_CardinalityType
<1>4. ASSUME NEW a \in DOMAIN plan, NEW b \in DOMAIN plan, Before(plan, a, b)
      PROVE  Place(plan, a) < Place(plan, b)
  <2>1. Upto(plan, a) \subseteq Upto(plan, b)
    BY <1>4, BeforeIsOrder DEF Upto
  <2>2. b \notin Upto(plan, a)
    BY <1>4, BeforeIsOrder DEF Upto
  <2>3. Upto(plan, a) # Upto(plan, b)
    BY <1>1, <2>2
  <2>4. Upto(plan, a) \in SUBSET Upto(plan, b) /\ IsFiniteSet(Upto(plan, b))
    BY <1>1, <2>1
  <2>5. Place(plan, a) <= Place(plan, b) /\ Place(plan, a) # Place(plan, b)
    BY <2>3, <2>4, FS_Subset DEF Place
  <2>6. QED
    BY <1>1, <2>5
<1>5. QED
  BY <1>1, <1>2, <1>3, <1>4

(* So the planned cases can be put in their order ...                      *)
LEMMA SortedIsSorted ==
  ASSUME NEW plan, DOMAIN plan \subseteq Nat, plan \in [DOMAIN plan -> Nat],
         IsFiniteSet(DOMAIN plan)
  PROVE  LET s == Sorted(plan)
         IN  /\ s \in [1..Cardinality(DOMAIN plan) -> DOMAIN plan]
             /\ ToSet(s) = DOMAIN plan
             /\ \A i, j \in DOMAIN s : i < j => Before(plan, s[i], s[j])
<1> DEFINE D == DOMAIN plan
           N == Cardinality(D)
           place == [c \in D |-> Place(plan, c)]
           at == [i \in 1..N |-> CHOOSE c \in D : place[c] = i]
<1>1. N \in Nat
  BY FS_CardinalityType
<1>2. \A a, b \in D : a # b => place[a] # place[b]
  <2>1. TAKE a, b \in D
  <2>2. place[a] \in 1..N /\ place[b] \in 1..N
    BY Places
  <2>3. a # b => place[a] < place[b] \/ place[b] < place[a]
    BY BeforeIsOrder, Places
  <2> HIDE DEF place
  <2>4. QED
    BY <1>1, <2>2, <2>3
<1>3. place \in Injection(D, 1..N)
  <2>1. place \in [D -> 1..N]
    BY Places
  <2> HIDE DEF place
  <2>2. IsInjective(place)
    BY <1>2, <2>1 DEF IsInjective
  <2>3. QED
    BY <2>1, <2>2 DEF Injection
<1>4. place \in Surjection(D, 1..N)
  <2>1. IsFiniteSet(1..N) /\ Cardinality(1..N) = N
    BY <1>1, FS_Interval
  <2> HIDE DEF place
  <2>2. QED
    BY <1>3, <2>1, FS_Injection
<1>5. \A i \in 1..N : \E c \in D : place[c] = i
  BY <1>4 DEF Surjection
<1>6. \A i \in 1..N : at[i] \in D /\ place[at[i]] = i
  <2> HIDE DEF place
  <2>1. TAKE i \in 1..N
  <2>2. at[i] = CHOOSE c \in D : place[c] = i
    OBVIOUS
  <2>3. QED
    BY <1>5, <2>2
<1>7. at \in [1..N -> D]
  BY <1>6
<1> HIDE DEF at
<1>8. ToSet(at) = D
  <2>1. \A c \in D : place[c] \in 1..N /\ at[place[c]] = c
    <3>1. TAKE c \in D
    <3>2. place[c] \in 1..N
      BY Places
    <3> HIDE DEF place
    <3>3. QED
      BY <1>2, <1>6, <3>2
  <2> HIDE DEF place
  <2>2. QED
    BY <1>7, <2>1 DEF ToSet
<1>9. \A i, j \in DOMAIN at : i < j => Before(plan, at[i], at[j])
  <2>1. SUFFICES ASSUME NEW i \in 1..N, NEW j \in 1..N, i < j
                 PROVE  Before(plan, at[i], at[j])
    BY <1>7
  <2>2. at[i] \in D /\ at[j] \in D /\ Place(plan, at[i]) = i /\ Place(plan, at[j]) = j
    BY <1>6
  <2>3. at[i] # at[j] /\ ~Before(plan, at[j], at[i])
    <3>1. Before(plan, at[j], at[i]) => j < i
      BY <2>2, Places
    <3>2. QED
      BY <1>1, <2>1, <2>2, <3>1
  <2>4. QED
    BY <2>2, <2>3, BeforeIsOrder
<1>10. QED
  <2> HIDE DEF place
  <2>1. \E s \in [1..N -> D] : /\ ToSet(s) = D
                              /\ \A i, j \in DOMAIN s : i < j => Before(plan, s[i], s[j])
    BY <1>7, <1>8, <1>9
  <2>2. QED
    BY <2>1 DEF Sorted

-----------------------------------------------------------------------------
(* Induction over numbers, from the order of the natural numbers: a set has*)
(* a smallest member, so T leaves nothing out.                             *)
LEMMA Smallest ==
  ASSUME NEW T, T \subseteq Nat, T # {}
  PROVE  \E m \in T : \A k \in T : m <= k
<1>1. PICK m \in T : \A k \in T : ~(<<k, m>> \in OpToRel(<, Nat))
  BY WFMin, NatLessThanWellFounded
<1>2. ASSUME NEW k \in T
      PROVE  m <= k
  <2>1. k \in Nat /\ m \in Nat
    OBVIOUS
  <2>2. ~(k < m)
    BY <1>1, <2>1 DEF OpToRel
  <2>3. QED
    BY <2>1, <2>2
<1>3. QED
  BY <1>2

LEMMA NatInducts ==
  ASSUME NEW T, 0 \in T, \A n \in Nat : n \in T => n + 1 \in T
  PROVE  \A n \in Nat : n \in T
<1>1. SUFFICES ASSUME Nat \ T # {}
               PROVE  FALSE
  OBVIOUS
<1>2. PICK m \in Nat \ T : \A k \in Nat \ T : m <= k
  BY <1>1, Smallest
<1>3. m # 0 /\ m - 1 \in Nat /\ m - 1 \in T
  BY <1>2
<1>4. QED
  BY <1>2, <1>3

-----------------------------------------------------------------------------
(* Every strategy gives priorities to cases of the file.                   *)

LEMMA AddFeatureTyped ==
  ASSUME NEW t, IsTrace(t), NEW plan, IsPlan(t, plan), NEW f \in DOMAIN t.cases, NEW indirect
  PROVE  IsPlan(t, AddFeature(t, plan, f, indirect))
<1>1. t.cases[f] \in SUBSET DOMAIN t.files /\ t.deps[f] \in SUBSET DOMAIN t.cases
  BY DEF IsTrace
<1>2. CasesOf(t, t.deps[f]) \in SUBSET DOMAIN t.files
  BY <1>1, TraceTyped
<1>3. IsPlan(t, AddCases(plan, t.cases[f], 90))
  BY <1>1, AddCasesTyped
<1>4. IsPlan(t, AddCases(AddCases(plan, t.cases[f], 90), CasesOf(t, t.deps[f]), 70))
  BY <1>2, <1>3, AddCasesTyped
<1>5. QED
  BY <1>3, <1>4 DEF AddFeature

\* The plan after the first n features, given that after fewer.
AfterFeatures(P, t, req, n) ==
  IF n = 0 THEN NoCases ELSE AddFeature(t, P[n - 1], req.features[n], req.indirect)

\* P is the function ByFeature defines, up to the m-th feature.
Builds(P, t, req, m) == P = [n \in 0..m |-> AfterFeatures(P, t, req, n)]

LEMMA PlansAt ==
  ASSUME NEW P, NEW t, NEW req, NEW m, Builds(P, t, req, m)
  PROVE  \A n \in 0..m : P[n] = AfterFeatures(P, t, req, n)
<1> DEFINE Q == [n \in 0..m |-> AfterFeatures(P, t, req, n)]
<1>1. P = Q
  BY DEF Builds
<1>2. \A n \in 0..m : Q[n] = AfterFeatures(P, t, req, n)
  OBVIOUS
<1>3. QED
  BY <1>1, <1>2, Zenon

LEMMA PlansExist ==
  ASSUME NEW t, NEW req
  PROVE  \A m \in Nat : \E P : Builds(P, t, req, m)
<1> DEFINE T == {m \in Nat : \E P : Builds(P, t, req, m)}
<1>1. 0 \in T
  <2>1. Builds([n \in 0..0 |-> NoCases], t, req, 0)
    BY DEF Builds, AfterFeatures
  <2>2. QED
    BY <2>1
<1>2. ASSUME NEW m \in Nat, m \in T
      PROVE  m + 1 \in T
  <2>1. PICK P : Builds(P, t, req, m)
    BY <1>2
  <2>2. \A n \in 0..m : P[n] = AfterFeatures(P, t, req, n)
    BY <2>1, PlansAt
  <2> DEFINE Q == [n \in 0..(m + 1) |-> IF n <= m THEN P[n]
                      ELSE AddFeature(t, P[m], req.features[n], req.indirect)]
  <2>3. ASSUME NEW n \in 0..(m + 1)
        PROVE  Q[n] = AfterFeatures(Q, t, req, n)
    <3>1. CASE n <= m
      <4>1. P[n] = AfterFeatures(P, t, req, n)
        BY <2>2, <3>1
      <4>2. n # 0 => Q[n - 1] = P[n - 1]
        BY <3>1
      <4>3. Q[n] = P[n]
        BY <3>1
      <4> HIDE DEF Q
      <4>4. QED
        BY <4>1, <4>2, <4>3 DEF AfterFeatures
    <3>2. CASE n = m + 1
      <4>1. n - 1 = m /\ n # 0 /\ ~(n <= m)
        BY <3>2
      <4>2. Q[n] = AddFeature(t, P[m], req.features[n], req.indirect)
        BY <4>1
      <4>3. Q[n - 1] = P[m]
        BY <4>1
      <4> HIDE DEF Q
      <4>4. QED
        BY <4>1, <4>2, <4>3 DEF AfterFeatures
    <3>3. QED
      BY <3>1, <3>2
  <2>4. Builds(Q, t, req, m + 1)
    <3>1. Q = [n \in 0..(m + 1) |-> Q[n]]
      OBVIOUS
    <3> HIDE DEF Q
    <3>2. QED
      BY <2>3, <3>1 DEF Builds
  <2>5. QED
    BY <2>4
<1>3. \A m \in Nat : m \in T
  <2> HIDE DEF T
  <2>1. QED
    BY <1>1, <1>2, NatInducts
<1>4. QED
  BY <1>3

LEMMA ByFeatureTyped ==
  ASSUME NEW t, IsTrace(t), NEW req, IsRequest(t, req)
  PROVE  IsPlan(t, ByFeature(t, req))
<1>1. PICK N \in Nat : N = Len(req.features)
  BY LenProperties DEF IsRequest
<1>2. \A n \in 1..N : req.features[n] \in DOMAIN t.cases
  BY <1>1, ElementOfSeq DEF IsRequest
<1> DEFINE P == CHOOSE Q : Builds(Q, t, req, N)
<1>3. Builds(P, t, req, N)
  BY PlansExist
<1>4. ByFeature(t, req) = P[N]
  BY <1>1 DEF ByFeature, Builds, AfterFeatures
<1>5. \A n \in 0..N : P[n] = AfterFeatures(P, t, req, n)
  BY <1>3, PlansAt
<1> HIDE DEF P
<1> DEFINE T == {n \in Nat : n \in 0..N => IsPlan(t, P[n])}
<1>6. 0 \in T
  BY <1>5, NoCasesTyped DEF AfterFeatures
<1>7. ASSUME NEW n \in Nat, n \in T
      PROVE  n + 1 \in T
  <2>1. SUFFICES ASSUME n + 1 \in 0..N
                 PROVE  IsPlan(t, P[n + 1])
    OBVIOUS
  <2>2. n \in 0..N /\ n + 1 \in 1..N /\ n + 1 # 0 /\ (n + 1) - 1 = n
    BY <2>1
  <2>3. IsPlan(t, P[n])
    BY <1>7, <2>2
  <2>4. P[n + 1] = AddFeature(t, P[n], req.features[n + 1], req.indirect)
    BY <1>5, <2>1, <2>2 DEF AfterFeatures
  <2>5. QED
    BY <1>2, <2>2, <2>3, <2>4, AddFeatureTyped
<1>8. N \in T
  <2> HIDE DEF T
  <2>1. QED
    BY <1>6, <1>7, NatInducts
<1>9. QED
  BY <1>4, <1>8

LEMMA ByCategoryTyped ==
  ASSUME NEW t, IsTrace(t), NEW req
  PROVE  IsPlan(t, ByCategory(t, req))
<1>1. {c \in t.discovered : req.categories = {} \/ t.category[c] \in req.categories}
         \in SUBSET DOMAIN t.files
  BY DEF IsTrace
<1>2. QED
  BY <1>1, NoCasesTyped, AddCasesTyped DEF ByCategory

(* What each case gets by relation.                                        *)
Around(t, req) ==
    IF req.indirect THEN CasesOf(t, Dependencies(t, Touched(t, req))) ELSE {}
Concerned(t, req) ==
    Edited(t, req) \cup CasesOf(t, Touched(t, req)) \cup Around(t, req)

LEMMA ByRelationGives ==
  ASSUME NEW t, NEW req, NEW plan, plan = ByRelation(t, req)
  PROVE  /\ Concerned(t, req) # {} =>
              /\ DOMAIN plan = Concerned(t, req)
              /\ \A c \in DOMAIN plan :
                    plan[c] = IF c \in Edited(t, req) THEN 100
                              ELSE IF c \in CasesOf(t, Touched(t, req)) THEN 95 ELSE 75
         /\ Concerned(t, req) = {} =>
              /\ DOMAIN plan = t.discovered
              /\ \A c \in DOMAIN plan : plan[c] = 40
<1>1. PICK around : around = CasesOf(t, Dependencies(t, Touched(t, req)))
  OBVIOUS
<1>2. PICK source : source = AddCases(NoCases, Edited(t, req), 100)
  OBVIOUS
<1>3. PICK direct : direct = AddCases(source, CasesOf(t, Touched(t, req)), 95)
  OBVIOUS
<1>4. PICK indirect : indirect = IF req.indirect THEN AddCases(direct, around, 75) ELSE direct
  OBVIOUS
<1>5. plan = IF DOMAIN indirect = {} THEN AddCases(NoCases, t.discovered, 40) ELSE indirect
  BY <1>1, <1>2, <1>3, <1>4 DEF ByRelation
<1>6. DOMAIN source = Edited(t, req) /\ \A c \in DOMAIN source : source[c] = 100
  BY <1>2, NoCasesTyped DEF AddCases
<1>7. /\ DOMAIN direct = Edited(t, req) \cup CasesOf(t, Touched(t, req))
      /\ \A c \in DOMAIN direct : direct[c] = IF c \in Edited(t, req) THEN 100 ELSE 95
  BY <1>3, <1>6 DEF AddCases
<1>8. /\ DOMAIN indirect = Concerned(t, req)
      /\ \A c \in DOMAIN indirect :
            indirect[c] = IF c \in Edited(t, req) THEN 100
                          ELSE IF c \in CasesOf(t, Touched(t, req)) THEN 95 ELSE 75
  <2>1. CASE req.indirect
    <3>1. indirect = AddCases(direct, around, 75) /\ Around(t, req) = around
      BY <1>1, <1>4, <2>1 DEF Around
    <3>2. QED
      BY <1>7, <3>1 DEF AddCases, Concerned
  <2>2. CASE ~req.indirect
    <3>1. indirect = direct /\ Around(t, req) = {}
      BY <1>4, <2>2 DEF Around
    <3>2. QED
      BY <1>7, <3>1 DEF Concerned
  <2>3. QED
    BY <2>1, <2>2
<1>9. CASE Concerned(t, req) # {}
  BY <1>5, <1>8, <1>9
<1>10. CASE Concerned(t, req) = {}
  <2>1. plan = AddCases(NoCases, t.discovered, 40)
    BY <1>5, <1>8, <1>10
  <2>2. QED
    BY <1>10, <2>1, NoCasesTyped DEF AddCases
<1>11. QED
  BY <1>9, <1>10

LEMMA ByRelationTyped ==
  ASSUME NEW t, IsTrace(t), NEW req, IsRequest(t, req)
  PROVE  IsPlan(t, ByRelation(t, req))
<1>1. /\ Edited(t, req) \in SUBSET DOMAIN t.files /\ Touched(t, req) \in SUBSET DOMAIN t.cases
      /\ t.discovered \in SUBSET DOMAIN t.files
  BY TraceTyped DEF IsTrace
<1>2. /\ CasesOf(t, Touched(t, req)) \in SUBSET DOMAIN t.files
      /\ CasesOf(t, Dependencies(t, Touched(t, req))) \in SUBSET DOMAIN t.files
  BY <1>1, TraceTyped
<1>3. PICK source : source = AddCases(NoCases, Edited(t, req), 100)
  OBVIOUS
<1>4. PICK direct : direct = AddCases(source, CasesOf(t, Touched(t, req)), 95)
  OBVIOUS
<1>5. PICK indirect : indirect = AddCases(direct, CasesOf(t, Dependencies(t, Touched(t, req))), 75)
  OBVIOUS
<1>6. PICK all : all = AddCases(NoCases, t.discovered, 40)
  OBVIOUS
<1>7. IsPlan(t, source) /\ IsPlan(t, all)
  BY <1>1, <1>3, <1>6, NoCasesTyped, AddCasesTyped
<1>8. IsPlan(t, direct)
  BY <1>2, <1>4, <1>7, AddCasesTyped
<1>9. IsPlan(t, indirect)
  BY <1>2, <1>5, <1>8, AddCasesTyped
<1>10. ByRelation(t, req) \in {direct, indirect, all}
  BY <1>3, <1>4, <1>5, <1>6 DEF ByRelation
<1>11. QED
  BY <1>7, <1>8, <1>9, <1>10

LEMMA PrioritiesTyped ==
  ASSUME NEW t, IsTrace(t), NEW req, IsRequest(t, req)
  PROVE  IsPlan(t, Priorities(t, req))
<1>1. Priorities(t, req) \in {ByCategory(t, req), ByFeature(t, req), ByRelation(t, req)}
  BY DEF Priorities, IsRequest
<1>2. QED
  BY <1>1, ByCategoryTyped, ByFeatureTyped, ByRelationTyped

-----------------------------------------------------------------------------
(* A plan is the beginning of the cases in their order.                    *)

LEMMA BuildPlanGives ==
  ASSUME NEW t, IsTrace(t), NEW req, IsRequest(t, req),
         NEW plan, plan = BuildPlan(t, req), NEW P, P = Priorities(t, req)
  PROVE  /\ plan.cases \in Seq(DOMAIN P)
         /\ \A i, j \in DOMAIN plan.cases : i < j => Before(P, plan.cases[i], plan.cases[j])
         /\ plan.skipped = (t.discovered \cup DOMAIN P) \ ToSet(plan.cases)
         /\ \A i \in DOMAIN plan.cases, c \in DOMAIN P \ ToSet(plan.cases) :
               Before(P, plan.cases[i], c)
<1>1. /\ DOMAIN P \subseteq DOMAIN t.files /\ DOMAIN P \subseteq Nat
      /\ P \in [DOMAIN P -> Nat] /\ IsFiniteSet(DOMAIN P)
  <2>1. IsPlan(t, P)
    BY PrioritiesTyped
  <2>2. DOMAIN P \subseteq DOMAIN t.files /\ P \in [DOMAIN P -> Nat]
    BY <2>1 DEF IsPlan
  <2>3. DOMAIN t.files \subseteq Nat /\ IsFiniteSet(DOMAIN t.files)
    BY DEF IsTrace
  <2>4. QED
    BY <2>2, <2>3, FS_Subset
<1>2. PICK N : N = Cardinality(DOMAIN P)
  OBVIOUS
<1>3. N \in Nat
  BY <1>1, <1>2, FS_CardinalityType
<1>4. PICK s : s = Sorted(P)
  OBVIOUS
<1>5. /\ s \in [1..N -> DOMAIN P] /\ ToSet(s) = DOMAIN P
      /\ \A i, j \in 1..N : i < j => Before(P, s[i], s[j])
  BY <1>1, <1>2, <1>4, SortedIsSorted
<1>6. s \in Seq(DOMAIN P) /\ Len(s) = N
  BY <1>3, <1>5
<1>7. PICK kept : kept = IF req.max > 0 /\ Len(s) > req.max THEN SubSeq(s, 1, req.max) ELSE s
  OBVIOUS
<1>8. plan = [cases |-> kept, skipped |-> (t.discovered \cup DOMAIN P) \ ToSet(kept)]
  BY <1>4, <1>7 DEF BuildPlan
<1>9. plan.cases = kept /\ plan.skipped = (t.discovered \cup DOMAIN P) \ ToSet(kept)
  BY <1>8
<1>10. PICK M \in 0..N : /\ kept \in Seq(DOMAIN P) /\ Len(kept) = M
                         /\ \A i \in 1..M : kept[i] = s[i]
  <2>1. CASE req.max > 0 /\ Len(s) > req.max
    <3>1. req.max \in 0..N /\ req.max \in 1..N /\ \A i \in 1..req.max : s[i] \in DOMAIN P
      BY <1>3, <1>5, <1>6, <2>1 DEF IsRequest
    <3>2. PICK M \in 0..N : M = req.max /\ 1 <= M
      BY <3>1
    <3>3. /\ SubSeq(s, 1, M) \in Seq(DOMAIN P) /\ Len(SubSeq(s, 1, M)) = M
          /\ \A i \in 1..M : SubSeq(s, 1, M)[i] = s[i]
      BY <3>1, <3>2, SubSeqProperties
    <3>4. QED
      BY <1>7, <2>1, <3>2, <3>3
  <2>2. CASE ~(req.max > 0 /\ Len(s) > req.max)
    BY <1>3, <1>6, <1>7, <2>2
  <2>3. QED
    BY <2>1, <2>2
<1>11. DOMAIN kept = 1..M
  BY <1>10
<1>12. \A i, j \in 1..M : i < j => Before(P, kept[i], kept[j])
  BY <1>3, <1>5, <1>10
<1>13. ASSUME NEW i \in 1..M, NEW c \in DOMAIN P \ ToSet(kept)
       PROVE  Before(P, kept[i], c)
  <2>1. PICK j \in 1..N : c = s[j]
    BY <1>5 DEF ToSet
  <2>2. j \notin 1..M
    BY <1>10, <1>11, <1>13, <2>1 DEF ToSet
  <2>3. i < j /\ i \in 1..N
    BY <1>3, <2>2
  <2>4. QED
    BY <1>5, <1>10, <2>1, <2>3
<1>14. QED
  BY <1>9, <1>10, <1>11, <1>12, <1>13

(* What CreateWorkspace writes is a plan.                                  *)
LEMMA BuildPlanTyped ==
  ASSUME NEW t \in Traces, NEW req \in Requests
  PROVE  BuildPlan(t, req) \in Plans
<1>1. IsTrace(t) /\ IsRequest(t, req)
  BY PlanAssumption
<1>2. PICK P : P = Priorities(t, req)
  OBVIOUS
<1>3. PICK plan : plan = BuildPlan(t, req)
  OBVIOUS
<1>4. DOMAIN P \subseteq DOMAIN t.files /\ t.discovered \subseteq DOMAIN t.files
  BY <1>1, <1>2, PrioritiesTyped DEF IsPlan, IsTrace
<1>5. DOMAIN t.files \subseteq Cases
  BY DEF Cases
<1>6. /\ plan.cases \in Seq(DOMAIN P)
      /\ plan.skipped = (t.discovered \cup DOMAIN P) \ ToSet(plan.cases)
  BY <1>1, <1>2, <1>3, BuildPlanGives
<1>7. plan.cases \in Seq(Cases) /\ plan.skipped \in SUBSET Cases
  <2>1. DOMAIN P \subseteq Cases
    BY <1>4, <1>5
  <2>2. plan.cases \in Seq(Cases)
    BY <1>6, <2>1
  <2>3. plan.skipped \in SUBSET Cases
    BY <1>4, <1>5, <1>6
  <2>4. QED
    BY <2>2, <2>3
<1>8. plan = [cases |-> plan.cases, skipped |-> plan.skipped]
  BY <1>3 DEF BuildPlan
<1>9. QED
  BY <1>3, <1>7, <1>8 DEF Plans

-----------------------------------------------------------------------------
(* By relation, priorities are in the order of impact.                     *)

LEMMA ImpactIs ==
  ASSUME NEW req, NEW c \in DOMAIN trace.files
  PROVE  Impact(req, c) = IF c \in Edited(trace, req) THEN 3
                          ELSE IF c \in CasesOf(trace, Touched(trace, req)) THEN 2
                          ELSE IF c \in Around(trace, req) THEN 1 ELSE 0
<1>1. c \in Edited(trace, req) <=> trace.files[c] \cap req.changed # {}
  BY DEF Edited
<1>2. \A f : f \in Touched(trace, req) <=> \E s \in req.changed : f \in trace.features[s]
  BY Zenon DEF Touched
<1>3. c \in CasesOf(trace, Touched(trace, req))
         <=> \E s \in req.changed : \E f \in trace.features[s] : c \in trace.cases[f]
  <2>1. c \in CasesOf(trace, Touched(trace, req))
           <=> \E f \in Touched(trace, req) : c \in trace.cases[f]
    BY Zenon DEF CasesOf
  <2>2. QED
    BY <1>2, <2>1, Zenon
<1>4. c \in CasesOf(trace, Dependencies(trace, Touched(trace, req)))
         <=> \E s \in req.changed : \E f \in trace.features[s] :
                \E d \in trace.deps[f] : c \in trace.cases[d]
  <2>1. c \in CasesOf(trace, Dependencies(trace, Touched(trace, req)))
           <=> \E d \in Dependencies(trace, Touched(trace, req)) : c \in trace.cases[d]
    BY Zenon DEF CasesOf
  <2>2. \A d : d \in Dependencies(trace, Touched(trace, req))
                  <=> \E f \in Touched(trace, req) : d \in trace.deps[f]
    BY Zenon DEF Dependencies
  <2>3. QED
    BY <1>2, <2>1, <2>2, Zenon
<1>5. c \in Around(trace, req)
         <=> req.indirect /\ c \in CasesOf(trace, Dependencies(trace, Touched(trace, req)))
  BY DEF Around
<1>6. QED
  BY <1>1, <1>3, <1>4, <1>5 DEF Impact

LEMMA RelationIsByImpact ==
  ASSUME NEW req, IsTrace(trace), IsRequest(trace, req), req.strategy = "relation"
  PROVE  IsByImpact(BuildPlan(trace, req), req)
<1>1. PICK P : P = Priorities(trace, req)
  OBVIOUS
<1>2. P = ByRelation(trace, req)
  BY <1>1 DEF Priorities
<1>3. DOMAIN P \subseteq DOMAIN trace.files
  BY <1>1, PrioritiesTyped DEF IsPlan
<1>4. ASSUME NEW c \in DOMAIN trace.files, Impact(req, c) > 0
      PROVE  c \in DOMAIN P
  <2>1. c \in Concerned(trace, req)
    BY <1>4, ImpactIs DEF Concerned
  <2>2. QED
    BY <1>2, <2>1, ByRelationGives
<1>5. ASSUME NEW a \in DOMAIN P, NEW b \in DOMAIN P, Before(P, a, b)
      PROVE  Ordered(req, a, b)
  <2>1. a \in DOMAIN trace.files /\ b \in DOMAIN trace.files
    BY <1>3
  <2>2. CASE Concerned(trace, req) # {}
    <3>1. \A c \in DOMAIN P : /\ c \in DOMAIN trace.files /\ c \in Concerned(trace, req)
                              /\ P[c] = IF c \in Edited(trace, req) THEN 100
                                        ELSE IF c \in CasesOf(trace, Touched(trace, req)) THEN 95
                                        ELSE 75
      BY <1>2, <1>3, <2>2, ByRelationGives
    <3>2. \A c \in DOMAIN P :
             \/ P[c] = 100 /\ Impact(req, c) = 3
             \/ P[c] = 95 /\ Impact(req, c) = 2
             \/ P[c] = 75 /\ Impact(req, c) = 1
      BY <3>1, ImpactIs DEF Concerned
    <3>3. QED
      BY <1>5, <3>2 DEF Before, Ordered
  <2>3. CASE Concerned(trace, req) = {}
    <3>1. P[a] = 40 /\ P[b] = 40
      BY <1>2, <2>3, ByRelationGives
    <3>2. Impact(req, a) = 0 /\ Impact(req, b) = 0
      BY <2>1, <2>3, ImpactIs DEF Concerned
    <3>3. QED
      BY <1>5, <3>1, <3>2 DEF Before, Ordered
  <2>4. QED
    BY <2>2, <2>3
<1>6. PICK plan : plan = BuildPlan(trace, req)
  OBVIOUS
<1>7. /\ plan.cases \in Seq(DOMAIN P)
      /\ \A i, j \in DOMAIN plan.cases : i < j => Before(P, plan.cases[i], plan.cases[j])
      /\ plan.skipped = (trace.discovered \cup DOMAIN P) \ ToSet(plan.cases)
      /\ \A i \in DOMAIN plan.cases, c \in DOMAIN P \ ToSet(plan.cases) :
            Before(P, plan.cases[i], c)
  BY <1>1, <1>6, BuildPlanGives
<1>8. \A i \in DOMAIN plan.cases : plan.cases[i] \in DOMAIN P
  BY <1>7
<1>9. trace.discovered \subseteq DOMAIN trace.files
  BY DEF IsTrace
<1>10. \A i, j \in DOMAIN plan.cases : i < j => Ordered(req, plan.cases[i], plan.cases[j])
  BY <1>5, <1>7, <1>8
<1>11. ASSUME NEW i \in DOMAIN plan.cases, NEW c \in plan.skipped, Impact(req, c) > 0
       PROVE  Ordered(req, plan.cases[i], c)
  <2>1. c \in DOMAIN trace.files /\ c \notin ToSet(plan.cases)
    BY <1>3, <1>7, <1>9
  <2>2. c \in DOMAIN P
    BY <1>4, <1>11, <2>1
  <2>3. QED
    BY <1>5, <1>7, <1>8, <2>1, <2>2
<1>12. \A c \in DOMAIN trace.files :
          Impact(req, c) > 0 => c \in ToSet(plan.cases) \cup plan.skipped
  BY <1>4, <1>7
<1>13. IsByImpact(plan, req)
  BY <1>10, <1>11, <1>12 DEF IsByImpact
<1>14. QED
  BY <1>6, <1>13

-----------------------------------------------------------------------------
(***************************************************************************)
(*                             THE WORKSPACES                              *)
(***************************************************************************)
(* Types.                                                                  *)

LEMMA StateFacts ==
  /\ \A s \in States : /\ s # Torn /\ s # Absent
                       /\ s.plan \in Plans /\ s.status \in Statuses
                       /\ s.records \in Seq(Records)
  /\ \A s \in States, t \in Statuses :
        LET r == [s EXCEPT !.status = t]
        IN  r \in States /\ r.status = t /\ r.plan = s.plan /\ r.records = s.records
<1>1. \A s \in States : s.plan \in Plans /\ s.status \in Statuses /\ s.records \in Seq(Records)
  BY DEF States
<1>2. \A s \in States : s # Torn /\ s # Absent
  BY <1>1 DEF Torn, Absent, Statuses
<1>3. \A s \in States, t \in Statuses :
        LET r == [s EXCEPT !.status = t]
        IN  r \in States /\ r.status = t /\ r.plan = s.plan /\ r.records = s.records
  BY DEF States
<1>4. QED
  BY <1>1, <1>2, <1>3

LEMMA ReadableFile ==
  ASSUME Types, NEW id \in Ids
  PROVE  Readable(id) <=> file[id] \in States
BY StateFacts DEF Types, Readable

(* What the steps do to a process that is not idle.                        *)
LEMMA WentTo ==
  ASSUME Types, NEW p \in Procs, NEW pc \in {"fill", "cases", "emptyLog", "fillLog", "empty"},
         Goto(p, pc)
  PROVE  /\ procs' \in [Procs -> Activities]
         /\ procs'[p].pc = pc
         /\ procs'[p].op = procs[p].op /\ procs'[p].id = procs[p].id
         /\ procs'[p].state = procs[p].state /\ procs'[p].mixed = procs[p].mixed
         /\ \A q \in Procs \ {p} : procs'[q] = procs[q]
<1>1. procs \in [Procs -> Activities] /\ procs' = [procs EXCEPT ![p].pc = pc]
  BY DEF Types, Goto
<1>2. procs[p] \in Activities
  BY <1>1
<1>3. [procs[p] EXCEPT !.pc = pc] \in Activities
  BY <1>2 DEF Activities
<1>4. procs' = [procs EXCEPT ![p] = [procs[p] EXCEPT !.pc = pc]]
  BY <1>1
<1>5. QED
  BY <1>1, <1>2, <1>3, <1>4 DEF Activities

LEMMA Returned ==
  ASSUME Types, NEW p \in Procs, Return(p)
  PROVE  /\ procs' \in [Procs -> Activities]
         /\ procs'[p] = Idle
         /\ \A q \in Procs \ {p} : procs'[q] = procs[q]
<1>1. procs \in [Procs -> Activities] /\ procs' = [procs EXCEPT ![p] = Idle]
  BY DEF Types, Return
<1>2. 0 \in Ids
  BY WorkerBounds DEF Ids
<1>3. Idle \in Activities
  BY <1>2 DEF Idle, Activities
<1>4. QED
  BY <1>1, <1>3

-----------------------------------------------------------------------------
(* A step of one process on its workspace.                                 *)

Acts(p, id) ==
    /\ procs[p].pc # "idle" /\ procs[p].id = id
    /\ procs'[p].pc = "idle" \/ procs'[p].id = id
    /\ \A q \in Procs \ {p} :
          /\ procs'[q].pc = procs[q].pc /\ procs'[q].id = procs[q].id
          /\ procs'[q].op = procs[q].op /\ procs'[q].state = procs[q].state
          /\ q \in Busy(id) \/ procs'[q] = procs[q]
    /\ \A j \in Ids \ {id} : file'[j] = file[j] /\ log'[j] = log[j]
    /\ shared' = shared /\ cutShort \subseteq cutShort'

(* What it must leave behind, while it is the only one.                    *)
LeavesAlone(p, id) ==
    /\ file[id] \in States /\ file[id].status \in Final => log[id] = LogOf(file[id])
    /\ procs[p].pc # "idle" =>
          /\ ~procs[p].mixed
          /\ Ends(procs[p]) => log[id] = LogOf(procs[p].state)
          /\ \/ procs[p].pc \in {"cases", "emptyLog", "fillLog"}
             \/ procs[p].pc = "empty" /\ procs[p].state.status \in Final
             => file[id] \in States /\ file[id].status = "Running"

LeavesExplained(p, id) ==
    /\ file[id] = Torn => procs[p].pc = "fill"
    /\ file[id] \in States /\ file[id].status = "Running" =>
          procs[p].pc # "idle" /\ procs[p].op = "run"

LEMMA OthersCarry ==
  ASSUME ProcsInv, NEW p \in Procs, NEW id \in Ids, Acts(p, id), Carries(procs'[p])
  PROVE  ProcsInv'
<1>1. SUFFICES ASSUME NEW q \in Procs \ {p} PROVE Carries(procs'[q])
  BY DEF ProcsInv
<1>2. Carries(procs[q])
  BY DEF ProcsInv
<1>3. CASE procs'[q] = procs[q]
  BY <1>2, <1>3
<1>4. CASE q \in Busy(id)
  <2>1. procs[q].pc # "idle"
    BY <1>4 DEF Busy
  <2>2. /\ procs'[q].pc = procs[q].pc /\ procs'[q].op = procs[q].op
        /\ procs'[q].state = procs[q].state
    BY DEF Acts
  <2>3. procs[q] # Idle /\ procs'[q] # Idle
    BY <2>1, <2>2 DEF Idle
  <2>4. QED
    BY <1>2, <2>1, <2>2, <2>3 DEF Carries
<1>5. QED
  BY <1>3, <1>4 DEF Acts

LEMMA OthersBusy ==
  ASSUME NEW p \in Procs, NEW id \in Ids, Acts(p, id), NEW j \in Ids \ {id}
  PROVE  Busy(j)' = Busy(j) /\ \A q \in Busy(j) : q # p /\ procs'[q] = procs[q]
<1>1. p \notin Busy(j) /\ p \notin Busy(j)'
  BY DEF Acts, Busy
<1>2. \A q \in Procs \ {p} : q \in Busy(j)' <=> q \in Busy(j)
  BY DEF Acts, Busy
<1>3. \A q \in Busy(j) : q \notin Busy(id)
  BY DEF Busy
<1>4. Busy(j) \subseteq Procs /\ Busy(j)' \subseteq Procs
  BY DEF Busy
<1>5. Busy(j)' = Busy(j)
  BY <1>1, <1>2, <1>4
<1>6. \A q \in Busy(j) : q # p /\ procs'[q] = procs[q]
  <2>1. \A q \in Busy(j) : q \in Procs \ {p} /\ q \notin Busy(id)
    BY <1>1, <1>3, <1>4
  <2>2. QED
    BY <2>1 DEF Acts
<1>7. QED
  BY <1>5, <1>6

LEMMA AloneKeeps ==
  ASSUME Types, Types', AloneInv, NEW p \in Procs, NEW id \in Ids, Acts(p, id),
         id \notin shared => LeavesAlone(p, id)'
  PROVE  AloneInv'
<1>1. SUFFICES ASSUME NEW j \in Ids \ shared
               PROVE  (/\ \A q, r \in Busy(j) : q = r
                       /\ Readable(j) /\ file[j].status \in Final => log[j] = LogOf(file[j])
                       /\ \A q \in Busy(j) :
                             /\ ~procs[q].mixed
                             /\ Ends(procs[q]) => log[j] = LogOf(procs[q].state)
                             /\ \/ procs[q].pc \in {"cases", "emptyLog", "fillLog"}
                                \/ procs[q].pc = "empty" /\ procs[q].state.status \in Final
                                => Readable(j) /\ file[j].status = "Running")'
  BY DEF AloneInv, Acts
<1>2. CASE j # id
  <2>1. file'[j] = file[j] /\ log'[j] = log[j]
    BY <1>2 DEF Acts
  <2>2. Readable(j)' <=> Readable(j)
    BY <2>1 DEF Readable
  <2>3. Busy(j)' = Busy(j) /\ \A q \in Busy(j) : procs'[q] = procs[q]
    BY <1>2, OthersBusy
  <2>4. QED
    BY <2>1, <2>2, <2>3 DEF AloneInv
<1>3. CASE j = id
  <2>1. \A q \in Busy(id) : q = p
    BY <1>3 DEF AloneInv, Acts, Busy
  <2>2. \A q \in Busy(id)' : q = p /\ procs'[p].pc # "idle"
    BY <2>1 DEF Acts, Busy
  <2>3. Readable(id)' <=> file'[id] \in States
    BY StateFacts DEF Types, Readable
  <2>4. LeavesAlone(p, id)'
    BY <1>3
  <2>5. QED
    BY <1>3, <2>2, <2>3, <2>4 DEF LeavesAlone
<1>4. QED
  BY <1>2, <1>3

LEMMA ExplainedKeeps ==
  ASSUME Types, Types', FileIsExplained, NEW p \in Procs, NEW id \in Ids, Acts(p, id),
         id \notin cutShort' \cup shared => LeavesExplained(p, id)'
  PROVE  FileIsExplained'
<1>1. SUFFICES ASSUME NEW j \in Ids \ (cutShort' \cup shared)
               PROVE  (/\ file[j] = Torn => \E q \in Busy(j) : procs[q].pc = "fill"
                       /\ Readable(j) /\ file[j].status = "Running" =>
                             \E q \in Busy(j) : procs[q].op = "run")'
  BY DEF FileIsExplained, Acts
<1>2. CASE j # id
  <2>1. file'[j] = file[j]
    BY <1>2 DEF Acts
  <2>2. Readable(j)' <=> Readable(j)
    BY <2>1 DEF Readable
  <2>3. Busy(j)' = Busy(j) /\ \A q \in Busy(j) : procs'[q] = procs[q]
    BY <1>2, OthersBusy
  <2>4. j \in Ids \ (cutShort \cup shared)
    BY DEF Acts
  <2>5. QED
    BY <2>1, <2>2, <2>3, <2>4 DEF FileIsExplained
<1>3. CASE j = id
  <2>1. Readable(id)' <=> file'[id] \in States
    BY StateFacts DEF Types, Readable
  <2>2. procs'[p].pc # "idle" => p \in Busy(id)'
    BY DEF Acts, Busy
  <2>3. QED
    BY <1>3, <2>1, <2>2 DEF LeavesExplained
<1>4. QED
  BY <1>2, <1>3

LEMMA ActsKeeps ==
  ASSUME IInv, Types', NEW p \in Procs, NEW id \in Ids, Acts(p, id), Carries(procs'[p]),
         file'[id] \in States /\ file'[id].status \in Final => OneRun(file'[id]),
         id \notin shared => LeavesAlone(p, id)',
         id \notin cutShort' \cup shared => LeavesExplained(p, id)'
  PROVE  IInv'
<1>1. ProcsInv' /\ AloneInv' /\ FileIsExplained'
  BY OthersCarry, AloneKeeps, ExplainedKeeps DEF IInv
<1>2. FilesInv'
  <2>1. SUFFICES ASSUME NEW j \in Ids, Readable(j)', file'[j].status \in Final
                 PROVE  OneRun(file'[j])
    BY DEF FilesInv
  <2>2. CASE j = id
    BY <2>1, <2>2, StateFacts DEF Types, Readable
  <2>3. CASE j # id
    <3>1. file'[j] = file[j]
      BY <2>3 DEF Acts
    <3>2. QED
      BY <2>1, <3>1 DEF IInv, FilesInv, Readable
  <2>4. QED
    BY <2>2, <2>3
<1>3. QED
  BY <1>1, <1>2 DEF IInv

-----------------------------------------------------------------------------
(* The actions.                                                            *)

(* A process that begins on a workspace.                                   *)
LEMMA BeginKeeps ==
  ASSUME IInv, NEW p \in Procs, NEW op \in {"create", "run", "cancel"}, NEW id \in Ids,
         NEW pc \in {"read", "empty"}, NEW state \in States \cup {Absent},
         Begin(p, op, id, pc, state),
         pc = "read" => op \in {"run", "cancel"} /\ state = Absent,
         pc = "empty" => state \in States /\ state.status = "Planned"
  PROVE  IInv'
<1>1. /\ procs' \in [Procs -> Activities]
      /\ procs[p] = Idle
      /\ procs'[p].op = op /\ procs'[p].id = id /\ procs'[p].pc = pc
      /\ procs'[p].state = state /\ procs'[p].mixed = FALSE
      /\ \A q \in Procs \ {p} : procs'[q] = procs[q]
      /\ ops' \in Nat
      /\ shared' = IF Busy(id) = {} THEN shared ELSE shared \cup {id}
      /\ UNCHANGED <<trace, now, file, log, cutShort>>
  <2> DEFINE a == [op |-> op, id |-> id, pc |-> pc, no |-> ops + 1, mixed |-> FALSE,
                   state |-> state]
  <2>1. ops + 1 \in Nat
    BY DEF IInv, Types
  <2>2. a \in Activities
    BY <2>1 DEF Activities
  <2>3. procs' = [procs EXCEPT ![p] = a] /\ procs \in [Procs -> Activities]
    BY DEF Begin, IInv, Types
  <2>4. /\ procs' \in [Procs -> Activities] /\ procs'[p] = a
        /\ \A q \in Procs \ {p} : procs'[q] = procs[q]
    BY <2>2, <2>3
  <2>5. QED
    BY <2>1, <2>4 DEF Begin
<1>2. Types'
  BY <1>1 DEF IInv, Types
<1>3. procs'[p] # Idle /\ procs[p].pc = "idle"
  BY <1>1 DEF Idle
<1>4. ProcsInv'
  <2>1. Carries(procs'[p])
    BY <1>1, <1>3, StateFacts DEF Carries, Final
  <2>2. QED
    BY <1>1, <2>1 DEF IInv, ProcsInv
<1>5. \A j \in Ids : Readable(j)' <=> Readable(j)
  BY <1>1 DEF Readable
<1>6. FilesInv'
  BY <1>1, <1>5 DEF IInv, FilesInv
<1>7. \A j \in Ids : /\ j # id => Busy(j)' = Busy(j) /\ \A q \in Busy(j) : procs'[q] = procs[q]
                     /\ \A q \in Busy(j) : q \in Busy(j)' /\ procs'[q] = procs[q]
                     /\ Busy(j)' \subseteq Busy(j) \cup {p}
  BY <1>1, <1>3 DEF Busy
<1>8. AloneInv'
  <2>1. SUFFICES ASSUME NEW j \in Ids \ shared'
                 PROVE  (/\ \A q, r \in Busy(j) : q = r
                         /\ Readable(j) /\ file[j].status \in Final => log[j] = LogOf(file[j])
                         /\ \A q \in Busy(j) :
                               /\ ~procs[q].mixed
                               /\ Ends(procs[q]) => log[j] = LogOf(procs[q].state)
                               /\ \/ procs[q].pc \in {"cases", "emptyLog", "fillLog"}
                                  \/ procs[q].pc = "empty" /\ procs[q].state.status \in Final
                                  => Readable(j) /\ file[j].status = "Running")'
    BY DEF AloneInv
  <2>2. j \in Ids \ shared
    BY <1>1
  <2>3. CASE j # id
    BY <1>1, <1>5, <1>7, <2>2, <2>3 DEF IInv, AloneInv
  <2>4. CASE j = id
    <3>1. Busy(id) = {}
      BY <1>1, <2>4
    <3>2. \A q \in Busy(id)' : q = p
      BY <1>7, <3>1
    <3>3. ~Ends(procs'[p]) /\ (pc = "empty" => state.status \notin Final)
      BY <1>1 DEF Ends, Final
    <3>4. Readable(id) /\ file[id].status \in Final => log[id] = LogOf(file[id])
      BY <2>2, <2>4 DEF IInv, AloneInv
    <3>5. QED
      BY <1>1, <1>5, <2>4, <3>2, <3>3, <3>4
  <2>5. QED
    BY <2>3, <2>4
<1>9. FileIsExplained'
  BY <1>1, <1>5, <1>7 DEF IInv, FileIsExplained
<1>10. QED
  BY <1>2, <1>4, <1>6, <1>8, <1>9 DEF IInv

LEMMA CreateKeeps ==
  ASSUME IInv, NEW p \in Procs, CreateWorkspace(p)
  PROVE  IInv'
<1>1. PICK req \in Requests :
         Begin(p, "create", now, "empty",
               [plan |-> BuildPlan(trace, req), status |-> "Planned", records |-> << >>])
  BY DEF CreateWorkspace
<1> DEFINE state == [plan |-> BuildPlan(trace, req), status |-> "Planned", records |-> << >>]
<1>2. BuildPlan(trace, req) \in Plans /\ now \in Ids
  BY BuildPlanTyped DEF IInv, Types
<1>3. state \in States /\ state.status = "Planned"
  BY <1>2 DEF States, Statuses
<1> HIDE DEF state
<1>4. QED
  BY <1>1, <1>2, <1>3, BeginKeeps DEF state

LEMMA ReopenKeeps ==
  ASSUME IInv, NEW p \in Procs, NEW op \in {"run", "cancel"}, Reopen(p, op)
  PROVE  IInv'
<1>1. PICK id \in Ids : Begin(p, op, id, "read", Absent)
  BY DEF Reopen
<1>2. QED
  BY <1>1, BeginKeeps

LEMMA TickKeeps ==
  ASSUME IInv, Tick
  PROVE  IInv'
<1>1. UNCHANGED <<trace, file, log, procs, ops, cutShort, shared>> /\ now' \in Ids
  BY WorkerBounds DEF IInv, Types, Tick, Ids
<1>2. Types' /\ ProcsInv' /\ FilesInv' /\ AloneInv' /\ FileIsExplained'
  BY <1>1 DEF IInv, Types, ProcsInv, FilesInv, AloneInv, FileIsExplained, Readable, Busy
<1>3. QED
  BY <1>2 DEF IInv

(* A process in the middle of an operation.                                *)
LEMMA Working ==
  ASSUME IInv, NEW p \in Procs
  PROVE  /\ procs[p] \in Activities /\ procs[p].id \in Ids /\ Carries(procs[p])
         /\ procs[p].pc \notin {"idle", "read"} =>
               procs[p].state \in States /\ procs[p].state.status \in Statuses
         /\ procs \in [Procs -> Activities]
BY StateFacts DEF IInv, Types, ProcsInv, Carries, Activities

LEMMA GiveUpKeeps ==
  ASSUME IInv, NEW p \in Procs, GiveUp(p)
  PROVE  IInv'
<1> SUFFICES ASSUME NEW id \in Ids, id = procs[p].id PROVE IInv'
  BY Working
<1>1. /\ procs' \in [Procs -> Activities] /\ procs'[p] = Idle
      /\ \A q \in Procs \ {p} : procs'[q] = procs[q]
  BY Returned DEF GiveUp, IInv
<1>2. /\ procs[p] # Idle /\ cutShort' = cutShort \cup {id}
      /\ UNCHANGED <<trace, now, file, log, ops, shared>>
  BY DEF GiveUp
<1>3. id \in Ids /\ procs[p].pc # "idle"
  BY <1>2, Working DEF Carries
<1>4. Types'
  BY <1>1, <1>2 DEF IInv, Types
<1>5. Acts(p, id)
  BY <1>1, <1>2, <1>3 DEF Acts, Idle
<1>6. Carries(procs'[p])
  BY <1>1, StateFacts DEF Carries, Idle
<1>7. \A f \in States : f = file[id] => (f.status \in Final => OneRun(f))
  BY <1>3, ReadableFile DEF IInv, FilesInv
<1>8. id \notin shared => LeavesAlone(p, id)'
  <2>1. id \notin shared /\ file[id] \in States /\ file[id].status \in Final =>
           log[id] = LogOf(file[id])
    BY <1>3, ReadableFile DEF IInv, AloneInv
  <2>2. QED
    BY <1>1, <1>2, <2>1 DEF LeavesAlone, Idle
<1>9. id \in cutShort'
  BY <1>2
<1>10. QED
  BY <1>2, <1>3, <1>4, <1>5, <1>6, <1>7, <1>8, <1>9, ActsKeeps

LEMMA ReadKeeps ==
  ASSUME IInv, NEW p \in Procs, ReadState(p)
  PROVE  IInv'
<1> SUFFICES ASSUME NEW id \in Ids, id = procs[p].id PROVE IInv'
  BY Working
<1> DEFINE status == IF procs[p].op = "run" THEN "Running" ELSE "Cancelled"
           state == [file[id] EXCEPT !.status = status]
<1>1. /\ procs[p].pc = "read" /\ procs[p].op \in {"run", "cancel"} /\ id \in Ids
      /\ UNCHANGED <<trace, now, file, log, ops, cutShort, shared>>
      /\ procs[p] \in Activities /\ procs \in [Procs -> Activities]
  BY Working DEF ReadState, Carries
<1>2. /\ file[id] \in States /\ file[id].status \in Final => OneRun(file[id])
      /\ id \notin shared /\ file[id] \in States /\ file[id].status \in Final =>
           log[id] = LogOf(file[id])
  BY <1>1, ReadableFile DEF IInv, FilesInv, AloneInv
<1>3. id \notin shared => ~procs[p].mixed
  BY <1>1 DEF IInv, AloneInv, Busy
<1>4. id \notin cutShort \cup shared => file[id] # Torn
  <2>1. id \notin shared => \A q \in Busy(id) : q = p
    BY <1>1 DEF IInv, AloneInv, Busy
  <2>2. QED
    BY <1>1, <2>1 DEF IInv, FileIsExplained
<1>5. id \notin cutShort \cup shared /\ file[id] \in States /\ file[id].status = "Running" =>
         procs[p].op = "run"
  <2>1. id \notin shared => \A q \in Busy(id) : q = p
    BY <1>1 DEF IInv, AloneInv, Busy
  <2>2. QED
    BY <1>1, <2>1, ReadableFile DEF IInv, FileIsExplained
<1>6. CASE Readable(id)
  <2>1. file[id] \in States /\ status \in Statuses
    BY <1>1, <1>6, ReadableFile DEF IInv, Statuses
  <2>2. state \in States /\ state.status = status
    BY <2>1, StateFacts
  <2> DEFINE a == [procs[p] EXCEPT !.state = state, !.pc = "empty"]
  <2>3. procs' = [procs EXCEPT ![p] = a]
    BY <1>1, <1>6 DEF ReadState
  <2>4. /\ a \in Activities /\ a.pc = "empty" /\ a.op = procs[p].op /\ a.id = id
        /\ a.state = state /\ a.mixed = procs[p].mixed
    <3> HIDE DEF state
    <3>1. QED
      BY <1>1, <2>2 DEF Activities
  <2>5. /\ procs' \in [Procs -> Activities] /\ procs'[p] = a
        /\ \A q \in Procs \ {p} : procs'[q] = procs[q]
    <3> HIDE DEF a
    <3>1. QED
      BY <1>1, <2>3, <2>4
  <2>6. Types'
    BY <1>1, <2>5 DEF IInv, Types
  <2> HIDE DEF a, state
  <2>7. Acts(p, id)
    BY <1>1, <2>4, <2>5 DEF Acts
  <2>8. Carries(procs'[p])
    BY <1>1, <2>2, <2>4, <2>5 DEF Carries, Idle, Final
  <2>9. id \notin shared => LeavesAlone(p, id)'
    BY <1>1, <1>2, <1>3, <2>2, <2>4, <2>5 DEF LeavesAlone, Ends, Final
  <2>10. id \notin cutShort' \cup shared => LeavesExplained(p, id)'
    BY <1>1, <1>4, <1>5, <2>4, <2>5 DEF LeavesExplained
  <2>11. QED
    BY <1>1, <1>2, <2>6, <2>7, <2>8, <2>9, <2>10, ActsKeeps
<1>7. CASE ~Readable(id)
  <2>1. /\ procs' \in [Procs -> Activities] /\ procs'[p] = Idle
        /\ \A q \in Procs \ {p} : procs'[q] = procs[q]
    BY <1>7, Returned DEF ReadState, IInv
  <2>2. file[id] \notin States
    BY <1>1, <1>7, ReadableFile DEF IInv
  <2>3. Types'
    BY <1>1, <2>1 DEF IInv, Types
  <2>4. Acts(p, id)
    BY <1>1, <2>1 DEF Acts, Idle
  <2>5. Carries(procs'[p])
    BY <2>1, StateFacts DEF Carries, Idle
  <2>6. id \notin shared => LeavesAlone(p, id)'
    BY <1>1, <2>1, <2>2 DEF LeavesAlone, Idle
  <2>7. id \notin cutShort' \cup shared => LeavesExplained(p, id)'
    BY <1>1, <1>4, <2>2 DEF LeavesExplained
  <2>8. QED
    BY <1>1, <2>2, <2>3, <2>4, <2>5, <2>6, <2>7, ActsKeeps
<1>8. QED
  BY <1>6, <1>7

LEMMA EmptyStateKeeps ==
  ASSUME IInv, NEW p \in Procs, EmptyState(p)
  PROVE  IInv'
<1> SUFFICES ASSUME NEW id \in Ids, id = procs[p].id PROVE IInv'
  BY Working
<1>1. /\ procs[p].pc = "empty" /\ procs[p].state \in States
      /\ file' = [file EXCEPT ![id] = Torn]
      /\ UNCHANGED <<trace, now, log, ops, cutShort, shared>>
      /\ procs[p] \in Activities /\ procs \in [Procs -> Activities] /\ Carries(procs[p])
  BY Working DEF EmptyState
<1> DEFINE a == [procs[p] EXCEPT !.pc = "fill", !.mixed = FALSE]
<1>2. procs' = [procs EXCEPT ![p] = a]
  BY <1>1 DEF EmptyState
<1>3. /\ a \in Activities /\ a.pc = "fill" /\ a.op = procs[p].op /\ a.id = id
      /\ a.state = procs[p].state /\ a.mixed = FALSE
  BY <1>1 DEF Activities
<1> HIDE DEF a
<1>4. /\ procs' \in [Procs -> Activities] /\ procs'[p] = a
      /\ \A q \in Procs \ {p} : procs'[q] = procs[q]
  BY <1>1, <1>2, <1>3
<1>5. /\ file' \in [Ids -> States \cup {Absent, Torn}] /\ file'[id] = Torn
      /\ \A j \in Ids \ {id} : file'[j] = file[j]
  BY <1>1 DEF IInv, Types
<1>6. Types'
  BY <1>1, <1>4, <1>5 DEF IInv, Types
<1>7. Acts(p, id)
  BY <1>1, <1>3, <1>4, <1>5 DEF Acts
<1>8. Carries(procs'[p])
  BY <1>1, <1>3, <1>4 DEF Carries, Idle
<1>9. Torn \notin States
  BY StateFacts
<1>10. id \notin shared => LeavesAlone(p, id)'
  <2>1. id \notin shared /\ procs[p].state.status \in Final => log[id] = LogOf(procs[p].state)
    BY <1>1 DEF IInv, AloneInv, Busy, Ends
  <2>2. QED
    BY <1>1, <1>3, <1>4, <1>5, <1>9, <2>1 DEF LeavesAlone, Ends
<1>11. LeavesExplained(p, id)'
  BY <1>3, <1>4, <1>5, <1>9 DEF LeavesExplained
<1>12. QED
  BY <1>5, <1>6, <1>7, <1>8, <1>9, <1>10, <1>11, ActsKeeps

(* The records of one run of the plan.                                     *)
LEMMA RunIsOne ==
  ASSUME NEW s \in States, NEW no \in Nat, NEW passes \in SUBSET DOMAIN s.plan.cases
  PROVE  LET r == RunOf(s, no, passes)
         IN  r \in States /\ r.status \in Final /\ OneRun(r)
<1> DEFINE r == RunOf(s, no, passes)
           cases == s.plan.cases
           Made(i) == [case |-> cases[i], ok |-> i \in passes, run |-> no]
           records == [i \in DOMAIN cases |-> Made(i)]
           status == IF passes = DOMAIN cases THEN "Completed" ELSE "Failed"
<1>1. cases \in Seq(Cases)
  BY StateFacts DEF Plans
<1>2. DOMAIN cases = 1..Len(cases) /\ Len(cases) \in Nat /\ \A i \in DOMAIN cases : cases[i] \in Cases
  BY <1>1
<1>3. cases = [i \in DOMAIN cases |-> cases[i]]
  BY <1>1
<1>4. \A i \in DOMAIN cases : /\ Made(i) \in Records /\ Made(i).case = cases[i]
                              /\ Made(i).run = no /\ Made(i).ok = (i \in passes)
  <2>1. TAKE i \in DOMAIN cases
  <2>2. (i \in passes) \in BOOLEAN
    OBVIOUS
  <2>3. \A ok \in BOOLEAN : [case |-> cases[i], ok |-> ok, run |-> no] \in Records
    BY <1>2 DEF Records
  <2>4. Made(i) \in Records
    BY <2>2, <2>3, Zenon
  <2>5. QED
    BY <2>4, Zenon
<1>5. DOMAIN records = DOMAIN cases /\ \A i \in DOMAIN cases : records[i] = Made(i)
  OBVIOUS
<1> HIDE DEF Made
<1>6. records \in Seq(Records)
  <2>1. records \in [1..Len(cases) -> Records]
    BY <1>2, <1>4
  <2>2. QED
    BY <1>2, <2>1
<1>7. status \in Statuses /\ status \in Final
  BY DEF Statuses, Final
<1>8. r \in States /\ r.plan = s.plan /\ r.status = status /\ r.records = records
  <2>1. r = [s EXCEPT !.records = records, !.status = status]
    BY DEF Made, RunOf
  <2> HIDE DEF records, status, r
  <2>2. QED
    BY <1>6, <1>7, <2>1 DEF States
<1> HIDE DEF records
<1>9. [i \in DOMAIN records |-> records[i].case] = cases
  <2>1. \A i \in DOMAIN records : records[i].case = cases[i]
    BY <1>4, <1>5
  <2>2. QED
    BY <1>3, <1>5, <2>1
<1>10. \A t \in ToSet(records) : \E i \in DOMAIN cases : t = Made(i)
  BY <1>5 DEF ToSet
<1>11. \A i \in DOMAIN cases : Made(i) \in ToSet(records)
  BY <1>5 DEF ToSet
<1>12. \A t, u \in ToSet(records) : t.run = u.run
  BY <1>4, <1>10
<1>13. (\A t \in ToSet(records) : t.ok) <=> passes = DOMAIN cases
  BY <1>4, <1>10, <1>11
<1>14. status = "Completed" <=> passes = DOMAIN cases
  OBVIOUS
<1> HIDE DEF status, r
<1>15. QED
  BY <1>7, <1>8, <1>9, <1>12, <1>13, <1>14 DEF OneRun, r

LEMMA RunCasesKeeps ==
  ASSUME IInv, NEW p \in Procs, RunCases(p)
  PROVE  IInv'
<1> SUFFICES ASSUME NEW id \in Ids, id = procs[p].id PROVE IInv'
  BY Working
<1>1. /\ procs[p].pc = "cases" /\ procs[p].state \in States /\ procs[p].op = "run"
      /\ UNCHANGED <<trace, now, file, log, ops, cutShort, shared>>
      /\ procs[p] \in Activities /\ procs \in [Procs -> Activities] /\ procs[p].no \in Nat
  BY Working DEF RunCases, Carries, Activities
<1>2. PICK passes \in SUBSET DOMAIN procs[p].state.plan.cases :
         procs' = [procs EXCEPT ![p] = [procs[p] EXCEPT
                      !.state = RunOf(procs[p].state, procs[p].no, passes), !.pc = "emptyLog"]]
  BY <1>1 DEF RunCases
<1> DEFINE r == RunOf(procs[p].state, procs[p].no, passes)
           a == [procs[p] EXCEPT !.state = r, !.pc = "emptyLog"]
<1>3. r \in States /\ r.status \in Final /\ OneRun(r)
  BY <1>1, RunIsOne
<1>4. procs' = [procs EXCEPT ![p] = a]
  BY <1>2
<1> HIDE DEF r
<1>5. /\ a \in Activities /\ a.pc = "emptyLog" /\ a.op = "run" /\ a.id = id
      /\ a.state = r /\ a.mixed = procs[p].mixed
  BY <1>1, <1>3 DEF Activities
<1> HIDE DEF a
<1>6. /\ procs' \in [Procs -> Activities] /\ procs'[p] = a
      /\ \A q \in Procs \ {p} : procs'[q] = procs[q]
  BY <1>1, <1>4, <1>5
<1>7. Types'
  BY <1>1, <1>6 DEF IInv, Types
<1>8. Acts(p, id)
  BY <1>1, <1>5, <1>6 DEF Acts
<1>9. Carries(procs'[p])
  BY <1>3, <1>5, <1>6 DEF Carries, Idle, Final
<1>10. file[id] \in States /\ file[id].status \in Final => OneRun(file[id])
  BY ReadableFile DEF IInv, FilesInv
<1>11. id \notin shared => LeavesAlone(p, id)'
  <2>1. id \notin shared =>
           ~procs[p].mixed /\ file[id] \in States /\ file[id].status = "Running"
    BY <1>1, ReadableFile DEF IInv, AloneInv, Busy
  <2>2. QED
    BY <1>1, <1>5, <1>6, <2>1 DEF LeavesAlone, Ends, Final
<1>12. id \notin cutShort' \cup shared => LeavesExplained(p, id)'
  <2>1. id \notin shared => file[id] \in States
    BY <1>1, ReadableFile DEF IInv, AloneInv, Busy
  <2>2. QED
    BY <1>1, <1>5, <1>6, <2>1, StateFacts DEF LeavesExplained
<1>13. QED
  BY <1>1, <1>7, <1>8, <1>9, <1>10, <1>11, <1>12, ActsKeeps

(* Both steps of writing the log, of which only the second counts.         *)
LEMMA LogKeeps ==
  ASSUME IInv, NEW p \in Procs, NEW entry \in Logs, NEW pc \in {"fillLog", "empty"},
         procs[p].pc \in {"emptyLog", "fillLog"},
         log' = [log EXCEPT ![procs[p].id] = entry], Goto(p, pc),
         pc = "empty" => entry = LogOf(procs[p].state),
         UNCHANGED <<trace, now, file, ops, cutShort, shared>>
  PROVE  IInv'
<1> SUFFICES ASSUME NEW id \in Ids, id = procs[p].id PROVE IInv'
  BY Working
<1>1. /\ procs[p].state \in States /\ procs[p].op = "run" /\ procs[p].state.status \in Final
      /\ OneRun(procs[p].state)
  BY Working DEF Carries
<1>2. /\ procs' \in [Procs -> Activities]
      /\ procs'[p].pc = pc /\ procs'[p].op = "run" /\ procs'[p].id = id
      /\ procs'[p].state = procs[p].state /\ procs'[p].mixed = procs[p].mixed
      /\ \A q \in Procs \ {p} : procs'[q] = procs[q]
  BY <1>1, WentTo DEF IInv
<1>3. /\ log' \in [Ids -> Logs] /\ log'[id] = entry
      /\ \A j \in Ids \ {id} : log'[j] = log[j]
  BY DEF IInv, Types
<1>4. Types'
  BY <1>2, <1>3 DEF IInv, Types
<1>5. Acts(p, id)
  BY <1>2, <1>3 DEF Acts
<1>6. Carries(procs'[p])
  BY <1>1, <1>2 DEF Carries, Idle, Final
<1>7. file[id] \in States /\ file[id].status \in Final => OneRun(file[id])
  BY ReadableFile DEF IInv, FilesInv
<1>8. id \notin shared => ~procs[p].mixed /\ file[id] \in States /\ file[id].status = "Running"
  BY ReadableFile DEF IInv, AloneInv, Busy
<1>9. id \notin shared => LeavesAlone(p, id)'
  BY <1>2, <1>3, <1>8 DEF LeavesAlone, Ends, Final
<1>10. id \notin cutShort' \cup shared => LeavesExplained(p, id)'
  BY <1>2, <1>8, StateFacts DEF LeavesExplained
<1>11. QED
  BY <1>4, <1>5, <1>6, <1>7, <1>9, <1>10, ActsKeeps

LEMMA EmptyLogKeeps ==
  ASSUME IInv, NEW p \in Procs, EmptyLog(p)
  PROVE  IInv'
<1>1. NoLog \in Logs
  BY DEF NoLog, Logs
<1>2. QED
  BY <1>1, LogKeeps DEF EmptyLog

LEMMA FillLogKeeps ==
  ASSUME IInv, NEW p \in Procs, FillLog(p)
  PROVE  IInv'
<1>1. procs[p].state \in States
  BY Working DEF FillLog
<1>2. LogOf(procs[p].state) \in Logs
  BY <1>1, StateFacts DEF LogOf, Logs
<1>3. log' = [log EXCEPT ![procs[p].id] = LogOf(procs[p].state)]
  BY DEF FillLog, LogOf
<1>4. QED
  BY <1>2, <1>3, LogKeeps DEF FillLog

LEMMA FillStateKeeps ==
  ASSUME IInv, NEW p \in Procs, FillState(p)
  PROVE  IInv'
<1> SUFFICES ASSUME NEW id \in Ids, id = procs[p].id PROVE IInv'
  BY Working
<1> DEFINE s == procs[p].state
           more == procs[p].op = "run" /\ s.status = "Running"
           Mix(q) == IF q \in Busy(id) THEN [procs[q] EXCEPT !.mixed = (procs[q].pc = "fill")]
                                       ELSE procs[q]
           After == IF more THEN [procs[p] EXCEPT !.pc = "cases"] ELSE Idle
<1>1. /\ procs[p].pc = "fill" /\ s \in States /\ Carries(procs[p])
      /\ UNCHANGED <<trace, now, log, ops, cutShort, shared>>
      /\ procs[p] \in Activities /\ procs \in [Procs -> Activities]
  BY Working DEF FillState
<1>2. /\ file' = [file EXCEPT ![id] = s] \/ (procs[p].mixed /\ file' = [file EXCEPT ![id] = Torn])
      /\ procs' = [q \in Procs |-> IF q # p THEN Mix(q) ELSE After]
  BY DEF FillState
<1>3. After \in Activities
  <2>1. Idle \in Activities
    BY WorkerBounds DEF Idle, Activities, Ids
  <2>2. [procs[p] EXCEPT !.pc = "cases"] \in Activities
    BY <1>1 DEF Activities
  <2>3. QED
    BY <2>1, <2>2
<1>4. \A q \in Procs : /\ Mix(q) \in Activities
                       /\ Mix(q).pc = procs[q].pc /\ Mix(q).id = procs[q].id
                       /\ Mix(q).op = procs[q].op /\ Mix(q).state = procs[q].state
                       /\ q \in Busy(id) \/ Mix(q) = procs[q]
  <2>1. \A a \in Activities, m \in BOOLEAN :
           LET b == [a EXCEPT !.mixed = m]
           IN  b \in Activities /\ b.pc = a.pc /\ b.id = a.id /\ b.op = a.op /\ b.state = a.state
    BY DEF Activities
  <2>2. TAKE q \in Procs
  <2>3. procs[q] \in Activities /\ (procs[q].pc = "fill") \in BOOLEAN
    BY <1>1
  <2>4. CASE q \in Busy(id)
    <3>1. Mix(q) = [procs[q] EXCEPT !.mixed = (procs[q].pc = "fill")]
      BY <2>4
    <3> HIDE DEF Mix
    <3>2. PICK m \in BOOLEAN : Mix(q) = [procs[q] EXCEPT !.mixed = m]
      BY <2>3, <3>1, Zenon
    <3>3. QED
      BY <2>1, <2>3, <2>4, <3>2
  <2>5. CASE q \notin Busy(id)
    BY <2>3, <2>5
  <2>6. QED
    BY <2>4, <2>5
<1>5. /\ more => /\ After.pc = "cases" /\ After.op = "run" /\ After.id = id /\ After.state = s
                 /\ After.mixed = procs[p].mixed
      /\ ~more => After = Idle
  BY <1>1 DEF Activities
<1> HIDE DEF After, Mix
<1>6. /\ procs' \in [Procs -> Activities] /\ procs'[p] = After
      /\ \A q \in Procs \ {p} : procs'[q] = Mix(q)
  BY <1>2, <1>3, <1>4
<1>7. /\ file' \in [Ids -> States \cup {Absent, Torn}]
      /\ \A j \in Ids \ {id} : file'[j] = file[j]
      /\ file'[id] = s \/ (file'[id] = Torn /\ procs[p].mixed)
  BY <1>1, <1>2 DEF IInv, Types
<1>8. Types'
  BY <1>1, <1>6, <1>7 DEF IInv, Types
<1>9. procs'[p].pc = "idle" \/ procs'[p].id = id
  BY <1>5, <1>6 DEF Idle
<1>10. Acts(p, id)
  BY <1>1, <1>4, <1>6, <1>7, <1>9 DEF Acts
<1>11. Carries(procs'[p])
  <2>1. CASE more
    BY <1>1, <1>5, <1>6, <2>1 DEF Carries, Idle, Final
  <2>2. CASE ~more
    BY <1>5, <1>6, <2>2, StateFacts DEF Carries, Idle
  <2>3. QED
    BY <2>1, <2>2
<1>12. s.status \in Final => OneRun(s)
  BY <1>1 DEF Carries
<1>13. file'[id] \in States /\ file'[id].status \in Final => OneRun(file'[id])
  BY <1>7, <1>12, StateFacts
<1>14. id \notin shared => ~procs[p].mixed /\ (s.status \in Final => log[id] = LogOf(s))
  BY <1>1 DEF IInv, AloneInv, Busy, Ends
<1>15. id \notin shared => LeavesAlone(p, id)'
  <2>1. CASE more
    BY <1>1, <1>5, <1>6, <1>7, <1>14, <2>1 DEF LeavesAlone, Ends, Final
  <2>2. CASE ~more
    BY <1>1, <1>5, <1>6, <1>7, <1>14, <2>2 DEF LeavesAlone, Idle
  <2>3. QED
    BY <2>1, <2>2
<1>16. s.status = "Running" => more
  BY <1>1 DEF Carries
<1>17. id \notin cutShort' \cup shared => LeavesExplained(p, id)'
  BY <1>1, <1>5, <1>6, <1>7, <1>14, <1>16, StateFacts DEF LeavesExplained
<1>18. QED
  BY <1>8, <1>10, <1>11, <1>13, <1>15, <1>17, ActsKeeps

-----------------------------------------------------------------------------
(* The invariant holds initially and is kept.                              *)

LEMMA InvInit ==
  ASSUME Init
  PROVE  IInv
<1>1. 0 \in Ids /\ 0 \in Nat /\ Idle \in Activities /\ NoLog \in Logs
  <2>1. 0 \in Ids
    BY WorkerBounds DEF Ids
  <2>2. QED
    BY <2>1 DEF Idle, Activities, NoLog, Logs
<1>2. Types
  BY <1>1 DEF Init, Types
<1>3. \A id \in Ids : ~Readable(id) /\ file[id] # Torn
  BY DEF Init, Readable, Absent, Torn
<1>4. \A p \in Procs : procs[p] = Idle
  BY DEF Init
<1>5. \A id \in Ids : Busy(id) = {}
  BY <1>4 DEF Busy, Idle
<1>6. ProcsInv
  <2>1. Idle.pc = "idle" /\ Idle.state = Absent
    BY DEF Idle
  <2>2. Carries(Idle)
    BY <2>1, StateFacts DEF Carries
  <2>3. QED
    BY <1>4, <2>2 DEF ProcsInv
<1>7. FilesInv /\ AloneInv /\ FileIsExplained
  BY <1>3, <1>5 DEF FilesInv, AloneInv, FileIsExplained
<1>8. QED
  BY <1>2, <1>6, <1>7 DEF IInv

LEMMA InvStep ==
  ASSUME IInv, [Next]_vars
  PROVE  IInv'
<1>1. CASE UNCHANGED vars
  <2> USE <1>1 DEF vars
  <2>1. Types' /\ ProcsInv'
    BY DEF IInv, Types, ProcsInv
  <2>2. FilesInv' /\ AloneInv' /\ FileIsExplained'
    BY DEF IInv, FilesInv, AloneInv, FileIsExplained, Readable, Busy
  <2>3. QED
    BY <2>1, <2>2 DEF IInv
<1>2. CASE Tick
  BY <1>2, TickKeeps
<1>3. ASSUME NEW p \in Procs,
             \/ CreateWorkspace(p) \/ RunWorkspace(p) \/ CancelWorkspace(p)
             \/ ReadState(p) \/ EmptyState(p) \/ FillState(p)
             \/ RunCases(p) \/ EmptyLog(p) \/ FillLog(p) \/ GiveUp(p)
      PROVE  IInv'
  BY <1>3, CreateKeeps, ReopenKeeps, ReadKeeps, EmptyStateKeeps, FillStateKeeps, RunCasesKeeps,
     EmptyLogKeeps, FillLogKeeps, GiveUpKeeps DEF RunWorkspace, CancelWorkspace
<1>4. QED
  BY <1>1, <1>2, <1>3 DEF Next

-----------------------------------------------------------------------------
(* Whose plan a file holds.                                                *)

(* The plan of a request the workspace was made for.                       *)
OfARequest(id, plan) == \E req \in asked[id] : plan = BuildPlan(trace, req)

(* Every file that can be read, and every state a process carries to it,   *)
(* holds such a plan: no operation makes a plan of its own.                *)
PlanInv ==
    /\ asked \in [Ids -> SUBSET Requests]
    /\ \A id \in Ids : Readable(id) => OfARequest(id, file[id].plan)
    /\ \A p \in Procs : procs[p].pc \notin {"idle", "read"} =>
                           OfARequest(procs[p].id, procs[p].state.plan)

LEMMA AskedKept ==
  ASSUME trace' = trace, NEW id, asked[id] \subseteq asked'[id], NEW plan, OfARequest(id, plan)
  PROVE  OfARequest(id, plan)'
BY DEF OfARequest

(* A step of p that leaves the file or fills in what p carries.            *)
LEMMA PlanKept ==
  ASSUME IInv, PlanInv, NEW p \in Procs, NEW id \in Ids, id = procs[p].id,
         trace' = trace, asked' = asked,
         \A j \in Ids \ {id} : file'[j] = file[j],
         Readable(id)' => \/ file'[id] = file[id]
                          \/ file'[id] = procs[p].state /\ procs[p].pc \notin {"idle", "read"},
         \A q \in Procs \ {p} : /\ procs'[q].pc = procs[q].pc /\ procs'[q].id = procs[q].id
                                /\ procs'[q].state = procs[q].state,
         procs'[p].pc \notin {"idle", "read"} =>
            procs'[p].id = id /\ OfARequest(id, procs'[p].state.plan)
  PROVE  PlanInv'
<1>1. \A j \in Ids : \A plan : OfARequest(j, plan)' <=> OfARequest(j, plan)
  BY DEF OfARequest
<1>2. ASSUME NEW j \in Ids, Readable(j)'
      PROVE  OfARequest(j, file'[j].plan)
  <2>1. CASE file'[j] = file[j]
    BY <1>2, <2>1 DEF PlanInv, Readable
  <2>2. CASE j = id /\ file'[id] = procs[p].state /\ procs[p].pc \notin {"idle", "read"}
    BY <2>2 DEF PlanInv
  <2>3. QED
    BY <1>2, <2>1, <2>2
<1>3. ASSUME NEW q \in Procs, procs'[q].pc \notin {"idle", "read"}
      PROVE  procs'[q].id \in Ids /\ OfARequest(procs'[q].id, procs'[q].state.plan)
  <2>1. CASE q = p
    BY <1>3, <2>1
  <2>2. CASE q # p
    BY <1>3, <2>2, Working DEF PlanInv
  <2>3. QED
    BY <2>1, <2>2
<1>4. asked' \in [Ids -> SUBSET Requests]
  BY DEF PlanInv
<1>5. QED
  BY <1>1, <1>2, <1>3, <1>4 DEF PlanInv

LEMMA PlanBegins ==
  ASSUME IInv, PlanInv, NEW p \in Procs, NEW op, NEW id \in Ids, NEW pc \in {"read", "empty"},
         NEW state, Begin(p, op, id, pc, state),
         asked' \in [Ids -> SUBSET Requests], \A j \in Ids : asked[j] \subseteq asked'[j],
         pc = "empty" => OfARequest(id, state.plan)'
  PROVE  PlanInv'
<1>1. UNCHANGED <<trace, file>>
  BY DEF Begin
<1>2. \A j \in Ids : \A plan : OfARequest(j, plan) => OfARequest(j, plan)'
  BY <1>1 DEF OfARequest
<1>3. \A j \in Ids : Readable(j)' => OfARequest(j, file[j].plan)'
  BY <1>1, <1>2 DEF PlanInv, Readable
<1>4. /\ procs'[p].pc = pc /\ procs'[p].id = id /\ procs'[p].state = state
      /\ \A q \in Procs \ {p} : procs'[q] = procs[q]
  BY Working DEF Begin
<1>5. ASSUME NEW q \in Procs, procs'[q].pc \notin {"idle", "read"}
      PROVE  OfARequest(procs[q].id, procs[q].state.plan)' 
  <2>1. CASE q = p
    BY <1>4, <1>5, <2>1
  <2>2. CASE q # p
    <3>1. procs'[q] = procs[q] /\ procs[q].id \in Ids
      BY <1>4, <2>2, Working
    <3>2. OfARequest(procs[q].id, procs[q].state.plan)
      BY <1>5, <3>1 DEF PlanInv
    <3>3. PICK i \in Ids : i = procs[q].id
      BY <3>1
    <3>4. PICK plan : plan = procs[q].state.plan
      OBVIOUS
    <3>5. OfARequest(i, plan)'
      BY <1>2, <3>2, <3>3, <3>4
    <3>6. procs'[q].id = i /\ procs'[q].state.plan = plan
      BY <3>1, <3>3, <3>4
    <3>7. QED
      BY <3>5, <3>6
  <2>3. QED
    BY <2>1, <2>2
<1>6. QED
  BY <1>1, <1>3, <1>5 DEF PlanInv

LEMMA PlanStep ==
  ASSUME IInv, PlanInv, [Next]_vars
  PROVE  PlanInv'
<1>1. CASE UNCHANGED vars
  BY <1>1 DEF vars, PlanInv, OfARequest, Readable
<1>2. CASE Tick
  BY <1>2 DEF Tick, PlanInv, OfARequest, Readable
<1>3. ASSUME NEW p \in Procs, CreateWorkspace(p)
      PROVE  PlanInv'
  <2>1. PICK req \in Requests :
           /\ Begin(p, "create", now, "empty",
                    [plan |-> BuildPlan(trace, req), status |-> "Planned", records |-> << >>])
           /\ asked' = [asked EXCEPT ![now] = @ \cup {req}]
    BY <1>3 DEF CreateWorkspace
  <2>2. now \in Ids /\ trace' = trace
    BY <2>1 DEF IInv, Types, Begin
  <2>3. /\ asked' \in [Ids -> SUBSET Requests] /\ req \in asked'[now]
        /\ \A j \in Ids : asked[j] \subseteq asked'[j]
    BY <2>1, <2>2 DEF PlanInv
  <2>4. PICK state : state = [plan |-> BuildPlan(trace, req), status |-> "Planned", records |-> << >>]
    OBVIOUS
  <2>5. state.plan = BuildPlan(trace, req) /\ Begin(p, "create", now, "empty", state)
    BY <2>1, <2>4
  <2>6. PICK id \in Ids : id = now
    BY <2>2
  <2>7. OfARequest(id, state.plan)'
    BY <2>2, <2>3, <2>5, <2>6 DEF OfARequest
  <2>8. QED
    BY <2>3, <2>5, <2>6, <2>7, PlanBegins
<1>4. ASSUME NEW p \in Procs, RunWorkspace(p) \/ CancelWorkspace(p)
      PROVE  PlanInv'
  <2>1. PICK id \in Ids, op \in {"run", "cancel"} : Begin(p, op, id, "read", Absent)
    BY <1>4 DEF RunWorkspace, CancelWorkspace, Reopen
  <2>2. asked' = asked
    BY <1>4 DEF RunWorkspace, CancelWorkspace, Reopen
  <2>3. asked' \in [Ids -> SUBSET Requests] /\ \A j \in Ids : asked[j] \subseteq asked'[j]
    BY <2>2 DEF PlanInv
  <2>4. QED
    BY <2>1, <2>3, PlanBegins
<1>5. ASSUME NEW p \in Procs, NEW id \in Ids, id = procs[p].id,
             \/ ReadState(p) \/ EmptyState(p) \/ FillState(p)
             \/ RunCases(p) \/ EmptyLog(p) \/ FillLog(p) \/ GiveUp(p)
      PROVE  PlanInv'
  <2>1. /\ procs[p] \in Activities /\ procs \in [Procs -> Activities]
        /\ file \in [Ids -> States \cup {Absent, Torn}] /\ trace' = trace /\ asked' = asked
    BY <1>5, Working DEF IInv, Types, ReadState, EmptyState, FillState, RunCases, EmptyLog,
       FillLog, GiveUp
  <2>2. Idle.pc = "idle"
    BY DEF Idle
  <2>3. CASE GiveUp(p)
    <3>1. file' = file /\ procs' = [procs EXCEPT ![p] = Idle]
      BY <2>3 DEF GiveUp, Return
    <3>2. QED
      BY <1>5, <2>1, <2>2, <3>1, PlanKept DEF Readable
  <2>4. CASE ReadState(p)
    <3>1. file' = file /\ procs[p].pc = "read"
      BY <2>4 DEF ReadState
    <3>2. CASE ~Readable(id)
      <4>1. procs' = [procs EXCEPT ![p] = Idle]
        BY <1>5, <2>4, <3>2 DEF ReadState, Return
      <4>2. QED
        BY <1>5, <2>1, <2>2, <3>1, <4>1, PlanKept
    <3>3. CASE Readable(id)
      <4>1. file[id] \in States /\ OfARequest(id, file[id].plan)
        BY <3>3, ReadableFile DEF IInv, PlanInv
      <4>2. PICK s : \E status \in Statuses : s = [file[id] EXCEPT !.status = status]
                                    /\ procs' = [procs EXCEPT ![p].state = s, ![p].pc = "empty"]
        BY <1>5, <2>4, <3>3 DEF ReadState, Statuses
      <4>3. s.plan = file[id].plan
        BY <4>1, <4>2, StateFacts
      <4>4. procs'[p].id = id /\ procs'[p].state = s /\ \A q \in Procs \ {p} : procs'[q] = procs[q]
        BY <1>5, <2>1, <4>2 DEF Activities
      <4>5. QED
        BY <1>5, <2>1, <3>1, <4>1, <4>3, <4>4, PlanKept
    <3>4. QED
      BY <3>2, <3>3
  <2>5. CASE EmptyState(p)
    <3>1. /\ file' = [file EXCEPT ![id] = Torn] /\ procs[p].pc = "empty"
          /\ procs' = [procs EXCEPT ![p].pc = "fill", ![p].mixed = FALSE]
      BY <1>5, <2>5 DEF EmptyState
    <3>2. /\ procs'[p].id = id /\ procs'[p].state = procs[p].state
          /\ \A q \in Procs \ {p} : procs'[q] = procs[q]
      BY <1>5, <2>1, <3>1 DEF Activities
    <3>3. ~Readable(id)' /\ \A j \in Ids \ {id} : file'[j] = file[j]
      BY <2>1, <3>1 DEF Readable
    <3>4. OfARequest(id, procs[p].state.plan)
      BY <1>5, <3>1 DEF PlanInv
    <3>5. QED
      BY <1>5, <2>1, <3>2, <3>3, <3>4, PlanKept
  <2>6. CASE RunCases(p)
    <3>1. file' = file /\ procs[p].pc = "cases"
      BY <2>6 DEF RunCases
    <3>2. PICK passes : procs' = [procs EXCEPT ![p].state = RunOf(@, procs[p].no, passes),
                                               ![p].pc = "emptyLog"]
      BY <2>6 DEF RunCases
    <3>3. PICK r : r = RunOf(procs[p].state, procs[p].no, passes)
      OBVIOUS
    <3>4. procs[p].state \in States
      BY <3>1, Working
    <3>5. r.plan = procs[p].state.plan
      BY <3>3, <3>4 DEF RunOf, States
    <3>6. procs'[p].id = id /\ procs'[p].state = r /\ \A q \in Procs \ {p} : procs'[q] = procs[q]
      BY <1>5, <2>1, <3>2, <3>3 DEF Activities
    <3>7. OfARequest(id, procs[p].state.plan)
      BY <1>5, <3>1 DEF PlanInv
    <3>8. QED
      BY <1>5, <2>1, <3>1, <3>5, <3>6, <3>7, PlanKept
  <2>7. CASE EmptyLog(p) \/ FillLog(p)
    <3>1. file' = file /\ procs[p].pc \notin {"idle", "read"}
      BY <2>7 DEF EmptyLog, FillLog
    <3>2. /\ procs'[p].id = id /\ procs'[p].state = procs[p].state
          /\ \A q \in Procs \ {p} : procs'[q] = procs[q]
      BY <1>5, <2>1, <2>7, WentTo DEF IInv, EmptyLog, FillLog
    <3>3. OfARequest(id, procs[p].state.plan)
      BY <1>5, <3>1 DEF PlanInv
    <3>4. QED
      BY <1>5, <2>1, <3>1, <3>2, <3>3, PlanKept
  <2>8. CASE FillState(p)
    <3>1. procs[p].pc = "fill"
      BY <2>8 DEF FillState
    <3>2. \/ file' = [file EXCEPT ![id] = procs[p].state]
          \/ file' = [file EXCEPT ![id] = Torn]
      BY <1>5, <2>8 DEF FillState
    <3>3. /\ Readable(id)' => file'[id] = procs[p].state
          /\ \A j \in Ids \ {id} : file'[j] = file[j]
      BY <2>1, <3>2 DEF Readable
    <3>4. \A q \in Procs \ {p} : /\ procs'[q].pc = procs[q].pc /\ procs'[q].id = procs[q].id
                                 /\ procs'[q].state = procs[q].state
      BY <2>1, <2>8 DEF FillState, Activities
    <3>5. procs'[p].pc = "idle" \/ (procs'[p].id = id /\ procs'[p].state = procs[p].state)
      BY <1>5, <2>1, <2>2, <2>8 DEF FillState, Activities
    <3>6. OfARequest(id, procs[p].state.plan)
      BY <1>5, <3>1 DEF PlanInv
    <3>7. QED
      BY <1>5, <2>1, <3>1, <3>3, <3>4, <3>5, <3>6, PlanKept
  <2>9. QED
    BY <1>5, <2>3, <2>4, <2>5, <2>6, <2>7, <2>8
<1>6. \A p \in Procs : procs[p].id \in Ids
  BY Working
<1>7. QED
  BY <1>1, <1>2, <1>3, <1>4, <1>5, <1>6 DEF Next

-----------------------------------------------------------------------------
(* The theorems.                                                           *)

(* The five parts hold together in every state.                            *)
THEOREM Invariant == Spec => []IInv
<1>1. Init => IInv
  BY InvInit
<1>2. IInv /\ [Next]_vars => IInv'
  BY InvStep
<1>3. QED
  BY <1>1, <1>2, PTL DEF Spec

(* A finished state file holds the result of one whole run of its plan,    *)
(* whatever processes do at once.  The log is of that run too, except in a  *)
(* workspace that has had two operations under way at once: of the log      *)
(* there the theorem says nothing.                                          *)
THEOREM OneWholeRun == Spec => []ResultIsOneRun
<1>1. IInv => ResultIsOneRun
  <2> SUFFICES ASSUME IInv, NEW id \in Ids, Readable(id), file[id].status \in Final
               PROVE  /\ OneRun(file[id])
                      /\ id \in shared \/ log[id] = LogOf(file[id])
    BY DEF ResultIsOneRun, OneRun, LogOf, Final
  <2>1. QED
    BY DEF IInv, FilesInv, AloneInv
<1>2. QED
  BY <1>1, Invariant, PTL

(* A workspace that looks running is run, and one that cannot be read is   *)
(* being written, unless an operation on it gave up or two overlapped.     *)
THEOREM Explained == Spec => []FileIsExplained
<1>1. IInv => FileIsExplained
  BY DEF IInv
<1>2. QED
  BY <1>1, Invariant, PTL

(* The plan a workspace shows is the whole plan of a request it was made   *)
(* for, whatever has been run or cancelled since.                          *)
THEOREM PlansAreOfRequests == Spec => []PlanInv
<1>1. Init => PlanInv
  <2> SUFFICES ASSUME Init PROVE PlanInv
    OBVIOUS
  <2>1. asked \in [Ids -> SUBSET Requests] /\ \A id \in Ids : ~Readable(id)
    BY DEF Init, Readable
  <2>2. \A p \in Procs : procs[p].pc = "idle"
    BY DEF Init, Idle
  <2>3. QED
    BY <2>1, <2>2 DEF PlanInv
<1>2. IInv /\ PlanInv /\ [Next]_vars => PlanInv'
  BY PlanStep
<1>3. QED
  BY <1>1, <1>2, Invariant, PTL DEF Spec

(* A plan made by relation runs what the change concerns most first, for   *)
(* every traceability file and every change.                               *)
THEOREM ByImpact == Spec => []PlanIsByImpact
<1>1. IInv /\ PlanInv => PlanIsByImpact
  <2> SUFFICES ASSUME IInv, PlanInv, NEW id \in Ids, Readable(id)
               PROVE  \E req \in asked[id] :
                         req.strategy = "relation" => IsByImpact(file[id].plan, req)
    BY DEF PlanIsByImpact
  <2>1. PICK req \in asked[id] : file[id].plan = BuildPlan(trace, req)
    BY DEF PlanInv, OfARequest
  <2>2. req \in Requests /\ trace \in Traces
    BY DEF PlanInv, IInv, Types
  <2>3. IsTrace(trace) /\ IsRequest(trace, req)
    BY <2>2, PlanAssumption
  <2>4. QED
    BY <2>1, <2>3, RelationIsByImpact
<1>2. QED
  BY <1>1, Invariant, PlansAreOfRequests, PTL
=============================================================================
