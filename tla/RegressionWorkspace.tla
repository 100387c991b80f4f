------------------------- MODULE RegressionWorkspace -------------------------
(***************************************************************************)
(* Regression workspaces (modai-worker/src/lib.rs, workspace.rs,           *)
(* artifact.rs, runner.rs): a workspace is planned, run and cancelled by   *)
(* processes that share its state file and know nothing of each other (the *)
(* worker's command line and the IDE).                                     *)
(*                                                                         *)
(* Each operation reads the whole file, changes its copy and writes the    *)
(* whole copy back.  A write empties the file before it fills it.          *)
(***************************************************************************)
EXTENDS RegressionPlan

CONSTANTS
    Procs,      \* processes
    Traces,     \* contents of the traceability file
    Requests,   \* requests for a plan
    MaxOps,     \* bound: operations begun
    MaxNow      \* bound: milliseconds in which a workspace is made

Cases == UNION {DOMAIN t.files : t \in Traces}
Plans == [cases: Seq(Cases), skipped: SUBSET Cases]

ASSUME WorkerBounds == MaxOps \in Nat /\ MaxNow \in Nat
ASSUME PlanAssumption ==
    \A t \in Traces : IsTrace(t) /\ \A req \in Requests : IsRequest(t, req)

Ids == 0..MaxNow        \* a workspace is named after the time it is made
Absent == [status |-> "absent"]
Torn == [status |-> "torn"]
NoLog == [whole |-> FALSE, records |-> << >>]

VARIABLES
    trace,
    now,
    file,       \* workspace-state.json of each workspace
    log,        \* runlog.ndjson and the other artifacts of a run
    procs,      \* what each process is doing
    ops,        \* operations begun, which also numbers them
    asked,      \* history: the requests a workspace was made for
    cutShort,   \* history: workspaces an operation on which gave up half way
    shared      \* history: workspaces with two operations at once

vars == <<trace, now, file, log, procs, ops, asked, cutShort, shared>>

Idle == [op |-> "none", id |-> 0, pc |-> "idle", no |-> 0, mixed |-> FALSE, state |-> Absent]

Readable(id) == file[id] \notin {Absent, Torn}

Busy(id) == {p \in Procs : procs[p].pc # "idle" /\ procs[p].id = id}

Begin(p, op, id, pc, state) ==
    /\ procs[p] = Idle /\ ops < MaxOps
    /\ ops' = ops + 1
    /\ procs' = [procs EXCEPT ![p] = [op |-> op, id |-> id, pc |-> pc, no |-> ops + 1,
                                      mixed |-> FALSE, state |-> state]]
    /\ shared' = IF Busy(id) = {} THEN shared ELSE shared \cup {id}
    /\ UNCHANGED <<trace, now, file, log, cutShort>>

Goto(p, pc) == procs' = [procs EXCEPT ![p].pc = pc]

Return(p) == procs' = [procs EXCEPT ![p] = Idle]

(***************************************************************************)
(* The operations begin                                                    *)
(***************************************************************************)
(* The directory is made and the plan built; two processes that do so in   *)
(* the same millisecond share the directory.                               *)
CreateWorkspace(p) ==
    \E req \in Requests :
       /\ Begin(p, "create", now, "empty",
                [plan |-> BuildPlan(trace, req), status |-> "Planned", records |-> << >>])
       /\ asked' = [asked EXCEPT ![now] = @ \cup {req}]

Reopen(p, op) ==
    /\ \E id \in Ids : asked[id] # {} /\ Begin(p, op, id, "read", Absent)
    /\ UNCHANGED asked

RunWorkspace(p) == Reopen(p, "run")
CancelWorkspace(p) == Reopen(p, "cancel")

(***************************************************************************)
(* Their steps                                                             *)
(***************************************************************************)
ReadState(p) ==
    /\ procs[p].pc = "read"
    /\ LET status == IF procs[p].op = "run" THEN "Running" ELSE "Cancelled"
           state == file[procs[p].id]
       IN  IF Readable(procs[p].id)
           THEN procs' = [procs EXCEPT ![p].state = [state EXCEPT !.status = status],
                                       ![p].pc = "empty"]
           ELSE Return(p)
    /\ UNCHANGED <<trace, now, file, log, ops, asked, cutShort, shared>>

(* write_workspace_state: fs::write empties the file ...                   *)
EmptyState(p) ==
    /\ procs[p].pc = "empty"
    /\ file' = [file EXCEPT ![procs[p].id] = Torn]
    /\ procs' = [procs EXCEPT ![p].pc = "fill", ![p].mixed = FALSE]
    /\ UNCHANGED <<trace, now, log, ops, asked, cutShort, shared>>

(* ... and fills it.  The end of a longer text that another process has    *)
(* written in between stays behind a shorter one.                          *)
FillState(p) ==
    LET id == procs[p].id
        more == procs[p].op = "run" /\ procs[p].state.status = "Running"
        Mix(q) == IF q \in Busy(id) THEN [procs[q] EXCEPT !.mixed = (procs[q].pc = "fill")]
                                    ELSE procs[q]
    IN  /\ procs[p].pc = "fill"
        /\ \/ file' = [file EXCEPT ![id] = procs[p].state]
           \/ procs[p].mixed /\ file' = [file EXCEPT ![id] = Torn]
        /\ procs' = [q \in Procs |-> IF q # p THEN Mix(q)
                                     ELSE IF more THEN [procs[p] EXCEPT !.pc = "cases"]
                                     ELSE Idle]
        /\ UNCHANGED <<trace, now, log, ops, asked, cutShort, shared>>

(* run_cases: each case passes or fails; records of an earlier run go.     *)
\* Mutant: the records are added to those that were read.
RunOfAppend(state, no, passes) ==
    LET cases == state.plan.cases
    IN  [state EXCEPT !.records = @ \o [i \in DOMAIN cases |->
                          [case |-> cases[i], ok |-> i \in passes, run |-> no]],
                      !.status = IF passes = DOMAIN cases THEN "Completed" ELSE "Failed"]
RunOf(state, no, passes) ==
    LET cases == state.plan.cases
    IN  [state EXCEPT !.records = [i \in DOMAIN cases |->
                          [case |-> cases[i], ok |-> i \in passes, run |-> no]],
                      !.status = IF passes = DOMAIN cases THEN "Completed" ELSE "Failed"]

\* Mutant: there is nothing to do for an empty plan.
RunCasesUnlessEmpty(p) ==
    /\ procs[p].pc = "cases"
    /\ IF procs[p].state.plan.cases = << >> THEN Return(p)
       ELSE \E passes \in SUBSET DOMAIN procs[p].state.plan.cases :
               procs' = [procs EXCEPT ![p].state = RunOf(@, procs[p].no, passes),
                                      ![p].pc = "emptyLog"]
    /\ UNCHANGED <<trace, now, file, log, ops, asked, cutShort, shared>>
RunCases(p) ==
    /\ procs[p].pc = "cases"
    /\ \E passes \in SUBSET DOMAIN procs[p].state.plan.cases :
          procs' = [procs EXCEPT ![p].state = RunOf(@, procs[p].no, passes),
                                 ![p].pc = "emptyLog"]
    /\ UNCHANGED <<trace, now, file, log, ops, asked, cutShort, shared>>

(* write_run_artifacts: several files, one after the other.                *)
EmptyLog(p) ==
    /\ procs[p].pc = "emptyLog"
    /\ log' = [log EXCEPT ![procs[p].id] = NoLog]
    /\ Goto(p, "fillLog")
    /\ UNCHANGED <<trace, now, file, ops, asked, cutShort, shared>>

FillLog(p) ==
    /\ procs[p].pc = "fillLog"
    /\ log' = [log EXCEPT ![procs[p].id] = [whole |-> TRUE, records |-> procs[p].state.records]]
    /\ Goto(p, "empty")
    /\ UNCHANGED <<trace, now, file, ops, asked, cutShort, shared>>

(* A file cannot be read or written, the simulator is missing, or the      *)
(* process is killed: the operation ends where it is.                      *)
GiveUp(p) ==
    /\ procs[p] # Idle
    /\ Return(p)
    /\ cutShort' = cutShort \cup {procs[p].id}
    /\ UNCHANGED <<trace, now, file, log, ops, asked, shared>>

Tick ==
    /\ now < MaxNow
    /\ now' = now + 1
    /\ UNCHANGED <<trace, file, log, procs, ops, asked, cutShort, shared>>

Init ==
    /\ trace \in Traces
    /\ now = 0
    /\ file = [id \in Ids |-> Absent]
    /\ log = [id \in Ids |-> NoLog]
    /\ procs = [p \in Procs |-> Idle]
    /\ ops = 0
    /\ asked = [id \in Ids |-> {}]
    /\ cutShort = {} /\ shared = {}

Next ==
    \/ \E p \in Procs :
          \/ CreateWorkspace(p) \/ RunWorkspace(p) \/ CancelWorkspace(p)
          \/ ReadState(p) \/ EmptyState(p) \/ FillState(p)
          \/ RunCases(p) \/ EmptyLog(p) \/ FillLog(p)
          \/ GiveUp(p)
    \/ Tick

Spec == Init /\ [][Next]_vars

-----------------------------------------------------------------------------
\* How much a change concerns a case: the best of its reasons.
Impact(req, c) ==
    IF trace.files[c] \cap req.changed # {} THEN 3
    ELSE IF \E s \in req.changed : \E f \in trace.features[s] : c \in trace.cases[f] THEN 2
    ELSE IF req.indirect /\ \E s \in req.changed : \E f \in trace.features[s] :
                               \E d \in trace.deps[f] : c \in trace.cases[d] THEN 1
    ELSE 0

Ordered(req, a, b) == Impact(req, a) > Impact(req, b) \/ (Impact(req, a) = Impact(req, b) /\ a < b)

IsByImpact(plan, req) ==
    /\ \A i, j \in DOMAIN plan.cases : i < j => Ordered(req, plan.cases[i], plan.cases[j])
    /\ \A i \in DOMAIN plan.cases, c \in plan.skipped :
          Impact(req, c) > 0 => Ordered(req, plan.cases[i], c)
    /\ \A c \in DOMAIN trace.files :
          Impact(req, c) > 0 => c \in ToSet(plan.cases) \cup plan.skipped

(* A plan runs what the change touches most first (planner.rs:96): a case  *)
(* is judged by the best of its reasons, not by the one found first, and   *)
(* none is planned or left out against that order.                         *)
PlanIsByImpact ==
    \A id \in Ids : Readable(id) =>
       \E req \in asked[id] : req.strategy = "relation" => IsByImpact(file[id].plan, req)

(* The result in the file is that of one whole run of the plan beside it,  *)
(* whatever else was done to the workspace meanwhile (lib.rs:50).  The log *)
(* is of the same run only in a workspace that has never had two           *)
(* operations under way at once: nothing locks the log.                    *)
ResultIsOneRun ==
    \A id \in Ids :
       Readable(id) /\ file[id].status \in {"Completed", "Failed"} =>
          LET records == file[id].records
          IN  /\ [i \in DOMAIN records |-> records[i].case] = file[id].plan.cases
              /\ \A r, s \in ToSet(records) : r.run = s.run
              /\ (file[id].status = "Completed") <=> (\A r \in ToSet(records) : r.ok)
              /\ id \in shared \/ log[id] = [whole |-> TRUE, records |-> records]

(* A workspace that is shown as running is being run, and one that cannot  *)
(* be read is being written (lib.rs:53), unless an operation gave up half  *)
(* way or two of them were under way at once.                              *)
FileIsExplained ==
    \A id \in Ids \ (cutShort \cup shared) :
       /\ file[id] = Torn => \E p \in Busy(id) : procs[p].pc = "fill"
       /\ Readable(id) /\ file[id].status = "Running" =>
             \E p \in Busy(id) : procs[p].op = "run"
=============================================================================
