------------------------------ MODULE StudioRun ------------------------------
(***************************************************************************)
(* One simulation command of the studio, from the Run button to its answer.*)
(*                                                                         *)
(* Three parties take part: the page (buttons, hot keys, the listener of   *)
(* progress events), the command studio_simulate, and the blocking thread  *)
(* it spawns for the integrator.  The page knows a run by the id the       *)
(* progress events carry; the control commands find the run's flags by     *)
(* that id in the registry of active runs.  A control request is atomic    *)
(* here: SimControl shows that its stores and the poll behave as one gate. *)
(*                                                                         *)
(* Progress events, control replies and the answer of the command travel   *)
(* on channels of their own: each is in order, none waits for another.     *)
(*                                                                         *)
(* The user may open another project while a run is under way: nothing in  *)
(* the code forbids it, and it forgets run id and pause of the live run.   *)
(*                                                                         *)
(* accepted, leaked, crossed and reset are history, read by the properties *)
(* only.                                                                   *)
(***************************************************************************)

EXTENDS Naturals, Sequences

CONSTANTS
  Kinds,       \* kinds of model the user may run, among AllKinds
  MaxRuns,     \* bound: Run clicks
  MaxPasses,   \* bound: passes of the integration loop of one run
  MaxBeats,    \* bound: progress events of one run while it integrates
  MaxClicks    \* bound: clicks on Stop, Pause, Resume and Step, projects opened

\* "stepping": compiled model, one of the built-in solvers.
\* "sundials": compiled model, solver cvode or ida.
\* "fmuSignal", "fmuPhysical": diagram with an FMU node, without and with a
\* node of a physical domain.
AllKinds == {"stepping", "sundials", "fmuSignal", "fmuPhysical"}
FmuKinds == {"fmuSignal", "fmuPhysical"}

ASSUME KindsAssumption == Kinds \subseteq AllKinds /\ Kinds # {}
ASSUME RunBoundsAssumption ==
  /\ MaxRuns \in Nat /\ MaxPasses \in Nat
  /\ MaxBeats \in Nat /\ MaxClicks \in Nat

RunIds == 1..MaxRuns
NoRun == 0

VARIABLES
  busy, runId, paused,       \* the page: useStudioSim's state
  run,                       \* runs begun; the latest has this id
  kind, phase,               \* the command of the latest run: see Phases
  stage,                     \* its thread: see Stages
  left,                      \* passes its loop still has to make
  outcome,                   \* what its thread ended with: see Outcomes
  beats,                     \* heartbeat events it has sent
  registered,                \* ids in the registry of active runs
  cancel, pause, stepOnce,   \* the flags, by run
  events,                    \* run ids of the progress events in flight
  requests, replies,         \* control calls and their results in flight
  answer,                    \* the command's answer is in flight
  clicks,
  accepted,                  \* a Stop for the run under way has returned true
  leaked,                    \* FMU runs whose thread panicked
  crossed,                   \* a reply to an earlier run came during this one
  reset                      \* what opening a project has made the page forget of
                             \* the latest run, and nothing restored since

Phases == {"idle", "saving", "invoked", "resolve", "thread", "answered"}
Stages == {"none", "setup", "loop", "free", "over", "gone"}
Outcomes == {"none", "ok", "error", "cancelled", "panic"}
Operations == {"Stop", "Pause", "Resume", "Step"}

page == <<busy, runId, paused>>
command == <<run, kind, phase>>
thread == <<stage, left, outcome>>
flags == <<cancel, pause, stepOnce>>
channels == <<events, requests, replies>>
history == <<accepted, leaked, crossed, reset>>
vars == <<page, command, thread, beats, registered, flags, channels, answer,
          clicks, history>>

Init ==
  /\ busy = FALSE /\ runId = NoRun /\ paused = FALSE
  /\ run = 0 /\ kind \in Kinds /\ phase = "idle"
  /\ stage = "none" /\ left = 0 /\ outcome = "none" /\ beats = 0
  /\ registered = {}
  /\ cancel = [r \in RunIds |-> FALSE]
  /\ pause = [r \in RunIds |-> FALSE]
  /\ stepOnce = [r \in RunIds |-> FALSE]
  /\ events = <<>> /\ requests = <<>> /\ replies = <<>>
  /\ answer = FALSE /\ clicks = 0
  /\ accepted = FALSE /\ leaked = {} /\ crossed = FALSE /\ reset = {}

-----------------------------------------------------------------------------
(* The page: Run.                                                          *)

\* Run: button, Ctrl+Enter and Apply&Run are all disabled while busy.  The
\* run id of the page is not cleared here.
ClickRun ==
  /\ ~busy /\ phase = "idle" /\ run < MaxRuns
  /\ busy' = TRUE /\ paused' = FALSE
  /\ run' = run + 1 /\ phase' = "saving"
  /\ crossed' = FALSE /\ reset' = {}
  /\ UNCHANGED <<runId, kind, thread, beats, registered, flags, channels, answer,
                 clicks, accepted, leaked>>

\* doSave throws: doRun's catch and finally.
SaveFails ==
  /\ phase = "saving"
  /\ phase' = "idle" /\ busy' = FALSE /\ runId' = NoRun
  /\ UNCHANGED <<paused, run, kind, thread, beats, registered, flags, channels,
                 answer, clicks, history>>

\* The project is saved; studio_simulate is called.
Invoke ==
  /\ phase = "saving"
  /\ kind' \in Kinds
  /\ phase' = "invoked"
  /\ UNCHANGED <<page, run, thread, beats, registered, flags, channels, answer,
                 clicks, history>>

\* The response arrives: doRun returns and its finally clause runs.
ReceiveAnswer ==
  /\ answer
  /\ answer' = FALSE /\ phase' = "idle"
  /\ busy' = FALSE /\ runId' = NoRun
  /\ stage' = "none" /\ left' = 0 /\ outcome' = "none" /\ beats' = 0
  /\ accepted' = FALSE
  /\ UNCHANGED <<paused, run, kind, registered, flags, channels, clicks, leaked,
                 crossed, reset>>

\* The listener of studio-sim-progress takes the run id of any event.
Hear ==
  /\ events # <<>>
  /\ events' = Tail(events)
  /\ runId' = Head(events)
  /\ reset' = reset \ {"name"}
  /\ UNCHANGED <<busy, paused, command, thread, beats, registered, flags, requests,
                 replies, answer, clicks, accepted, leaked, crossed>>

\* A project is opened, by Ctrl+O, from the menu, the list of recent ones or the
\* examples: none of these is disabled while busy, and resetProjectState forgets
\* the run, though it goes on.
OpenProject ==
  /\ clicks < MaxClicks
  /\ clicks' = clicks + 1
  /\ runId' = NoRun /\ paused' = FALSE
  /\ reset' = {"name", "pause"}
  /\ UNCHANGED <<busy, command, thread, beats, registered, flags, channels, answer,
                 accepted, leaked, crossed>>

-----------------------------------------------------------------------------
(* The page: Stop, Pause, Resume and Step, from click to reply.            *)

Enabled(op) ==
  /\ runId # NoRun
  /\ op \in {"Pause", "Resume", "Step"} => busy
  /\ op = "Pause" => ~paused
  /\ op = "Resume" => paused

Click(op) ==
  /\ Enabled(op) /\ clicks < MaxClicks
  /\ clicks' = clicks + 1
  /\ requests' = Append(requests, [op |-> op, id |-> runId])
  /\ UNCHANGED <<page, command, thread, beats, registered, flags, events, replies,
                 answer, history>>

\* Mutant: a request replaces the one before it, Stop included.
ApplyLatest(op, r) ==
  /\ cancel' = [cancel EXCEPT ![r] = op = "Stop"]
  /\ pause' = [pause EXCEPT ![r] = op \in {"Pause", "Step"}]
  /\ stepOnce' = [stepOnce EXCEPT ![r] = op \in {"Stop", "Step"}]

\* The registry's side of an accepted request.
Apply(op, r) ==
  /\ cancel' = [cancel EXCEPT ![r] = @ \/ op = "Stop"]
  /\ pause' = [pause EXCEPT ![r] = op \in {"Pause", "Step"}]
  /\ stepOnce' = [stepOnce EXCEPT ![r] = op \in {"Stop", "Step"} \/ (@ /\ op = "Pause")]

\* A control command runs: the run it names is looked up under the mutex.
Serve ==
  /\ requests # <<>>
  /\ LET q == Head(requests)
         ok == q.id \in registered
     IN  /\ IF ok THEN Apply(q.op, q.id) ELSE UNCHANGED flags
         /\ replies' = Append(replies, [op |-> q.op, id |-> q.id, ok |-> ok])
         /\ accepted' = (accepted \/ (ok /\ q.op = "Stop" /\ q.id = run /\ phase # "idle"))
  /\ requests' = Tail(requests)
  /\ UNCHANGED <<page, command, thread, beats, registered, events, answer, clicks,
                 leaked, crossed, reset>>

\* Mutant: doStep leaves the Pause button as it is.
PausedAfterStepKept(p) ==
  IF p.op = "Stop" THEN FALSE
  ELSE IF p.ok /\ p.op # "Step" THEN p.op = "Pause"
  ELSE paused

\* doStop clears paused whatever the reply; the others need a true one.
PausedAfter(p) ==
  IF p.op = "Stop" THEN FALSE
  ELSE IF p.ok THEN p.op \in {"Pause", "Step"}
  ELSE paused

HearReply ==
  /\ replies # <<>>
  /\ paused' = PausedAfter(Head(replies))
  /\ replies' = Tail(replies)
  /\ crossed' = (crossed \/ Head(replies).id # run)
  /\ reset' = IF Head(replies).ok THEN reset \ {"pause"} ELSE reset
  /\ UNCHANGED <<busy, runId, command, thread, beats, registered, flags, events,
                 requests, answer, clicks, accepted, leaked>>

-----------------------------------------------------------------------------
(* The command studio_simulate.                                            *)

CommandOnly ==
  UNCHANGED <<page, run, kind, flags, requests, replies, clicks, history>>

\* The first event, "emit" or "fmu_cosim", goes out before the code is
\* resolved and before the run is registered.
Announce ==
  /\ phase = "invoked"
  /\ phase' = "resolve"
  /\ events' = Append(events, run)
  /\ CommandOnly
  /\ UNCHANGED <<thread, beats, registered, answer>>

\* resolve_code fails: an answer, no event.  The FMU path goes on without code.
ResolveFails ==
  /\ phase = "resolve" /\ kind \notin FmuKinds
  /\ phase' = "answered" /\ answer' = TRUE
  /\ outcome' = "error"
  /\ CommandOnly
  /\ UNCHANGED <<stage, left, beats, registered, events>>

\* The run is registered and its thread spawned; the native path also
\* announces "compile".
Register ==
  /\ phase = "resolve"
  /\ phase' = "thread" /\ stage' = "setup"
  /\ left' \in 0..MaxPasses
  /\ registered' = registered \union {run}
  /\ events' = IF kind \in FmuKinds THEN events ELSE Append(events, run)
  /\ CommandOnly
  /\ UNCHANGED <<outcome, beats, answer>>

\* The heartbeat sends progress while the native loop runs.
Beat ==
  /\ phase = "thread" /\ stage \in {"loop", "free"} /\ kind \notin FmuKinds
  /\ beats < MaxBeats
  /\ beats' = beats + 1
  /\ events' = Append(events, run)
  /\ CommandOnly
  /\ UNCHANGED <<phase, thread, registered, answer>>

\* The thread is joined.  After a panic only the native path unregisters,
\* and neither path sends an event.
Join ==
  /\ phase = "thread" /\ stage = "gone"
  /\ phase' = "answered" /\ answer' = TRUE
  /\ events' = IF outcome = "panic" THEN events ELSE Append(events, run)
  /\ registered' = IF outcome = "panic" /\ kind \notin FmuKinds
                     THEN registered \ {run} ELSE registered
  /\ CommandOnly
  /\ UNCHANGED <<thread, beats>>

-----------------------------------------------------------------------------
(* The blocking thread.                                                    *)

ThreadOnly ==
  UNCHANGED <<page, command, beats, channels, answer, clicks, accepted, crossed, reset>>

End(o) == stage' = "over" /\ outcome' = o

\* Compilation or FMU set-up.
SetUp ==
  /\ stage = "setup" /\ stage' = "loop"
  /\ ThreadOnly
  /\ UNCHANGED <<left, outcome, registered, flags, leaked>>

\* Mutant: any error of a physical diagram tries the tight co-simulation again.
FailAgain(o) ==
  IF kind = "fmuPhysical"
    THEN stage' = "setup" /\ left' \in 0..MaxPasses /\ UNCHANGED outcome
    ELSE End(o) /\ UNCHANGED left

\* Any error of the tight co-simulation makes simulate_with_fmu start over
\* with the hybrid one, which has no control; other errors end the run.
Fail(o) ==
  IF kind = "fmuPhysical" /\ stage # "free"
    THEN stage' = "free" /\ left' \in 0..MaxPasses /\ UNCHANGED outcome
    ELSE End(o) /\ UNCHANGED left

SetUpFails ==
  /\ stage = "setup"
  /\ Fail("error")
  /\ ThreadOnly
  /\ UNCHANGED <<registered, flags, leaked>>

\* The poll at the top of a pass lets it through; a pause costs the token.
PollPasses ==
  /\ stage = "loop" /\ left > 0 /\ ~cancel[run]
  /\ pause[run] => stepOnce[run]
  /\ stepOnce' = [stepOnce EXCEPT ![run] = @ /\ ~pause[run]]
  /\ UNCHANGED <<cancel, pause>>

\* One pass of the loop.  Sundials polls once, on entry, and then integrates
\* to the end.
Pass ==
  /\ PollPasses
  /\ IF kind = "sundials"
       THEN stage' = "free" /\ UNCHANGED left
       ELSE left' = left - 1 /\ UNCHANGED stage
  /\ ThreadOnly
  /\ UNCHANGED <<outcome, registered, leaked>>

\* The pass ends the run: terminate() of a built-in solver, or an error.
LastPass ==
  /\ PollPasses
  /\ \/ kind = "stepping" /\ End("ok") /\ UNCHANGED left
     \/ Fail("error")
  /\ ThreadOnly
  /\ UNCHANGED <<registered, leaked>>

\* The poll returns "simulation cancelled".
HonourCancel ==
  /\ stage = "loop" /\ left > 0 /\ cancel[run]
  /\ Fail("cancelled")
  /\ ThreadOnly
  /\ UNCHANGED <<registered, flags, leaked>>

\* Sundials, or the hybrid co-simulation: no poll.
FreePass ==
  /\ stage = "free" /\ left > 0
  /\ left' = left - 1
  /\ ThreadOnly
  /\ UNCHANGED <<stage, outcome, registered, flags, leaked>>

FreePassFails ==
  /\ stage = "free" /\ left > 0
  /\ Fail("error")
  /\ ThreadOnly
  /\ UNCHANGED <<registered, flags, leaked>>

\* The end time is reached.
Finish ==
  /\ stage \in {"loop", "free"} /\ left = 0
  /\ End("ok")
  /\ ThreadOnly
  /\ UNCHANGED <<left, registered, flags, leaked>>

\* A panic unwinds the thread past its unregister.
Panic ==
  /\ stage \in {"setup", "loop", "free"}
  /\ stage' = "gone" /\ outcome' = "panic"
  /\ leaked' = IF kind \in FmuKinds THEN leaked \union {run} ELSE leaked
  /\ ThreadOnly
  /\ UNCHANGED <<left, registered, flags>>

\* Mutant: only a successful run is unregistered.
UnregisterOk ==
  /\ stage = "over" /\ stage' = "gone"
  /\ registered' = IF outcome = "ok" THEN registered \ {run} ELSE registered
  /\ ThreadOnly
  /\ UNCHANGED <<left, outcome, flags, leaked>>

\* The flags go with the control and the registry's entry.
Unregister ==
  /\ stage = "over" /\ stage' = "gone"
  /\ registered' = registered \ {run}
  /\ cancel' = [cancel EXCEPT ![run] = FALSE]
  /\ pause' = [pause EXCEPT ![run] = FALSE]
  /\ stepOnce' = [stepOnce EXCEPT ![run] = FALSE]
  /\ ThreadOnly
  /\ UNCHANGED <<left, outcome, leaked>>

-----------------------------------------------------------------------------

\* The poll is waiting: paused, no token, not cancelled.
Held ==
  stage = "loop" /\ left > 0 /\ pause[run] /\ ~stepOnce[run] /\ ~cancel[run]

\* Nothing moves until the user does: no run, or one left paused.
Rest ==
  /\ events = <<>> /\ requests = <<>> /\ replies = <<>>
  /\ ~busy \/ Held
  /\ UNCHANGED vars

User == ClickRun \/ OpenProject \/ \E op \in Operations : Click(op)

Command == Announce \/ ResolveFails \/ Register \/ Join

Thread ==
  \/ SetUp \/ SetUpFails
  \/ Pass \/ LastPass \/ HonourCancel
  \/ FreePass \/ FreePassFails
  \/ Finish \/ Unregister

Save == SaveFails \/ Invoke

Next == User \/ Save \/ Command \/ Beat \/ Thread \/ Panic \/ Serve
        \/ Hear \/ HearReply \/ ReceiveAnswer \/ Rest

Spec == Init /\ [][Next]_vars

\* The runtime schedules the command, its thread and the control commands,
\* and the page takes what has arrived.  Nothing is asked of the user, and
\* no panic is owed.
Fairness ==
  /\ WF_vars(Save) /\ WF_vars(Command) /\ WF_vars(Thread) /\ WF_vars(Serve)
  /\ WF_vars(Hear) /\ WF_vars(HearReply) /\ WF_vars(ReceiveAnswer)

FairSpec == Spec /\ Fairness

-----------------------------------------------------------------------------
(* Properties *)

TypeOK ==
  /\ busy \in BOOLEAN /\ paused \in BOOLEAN /\ runId \in RunIds \union {NoRun}
  /\ run \in 0..MaxRuns /\ kind \in Kinds /\ phase \in Phases
  /\ stage \in Stages /\ left \in 0..MaxPasses /\ outcome \in Outcomes
  /\ beats \in 0..MaxBeats /\ registered \subseteq RunIds
  /\ cancel \in [RunIds -> BOOLEAN] /\ pause \in [RunIds -> BOOLEAN]
  /\ stepOnce \in [RunIds -> BOOLEAN]
  /\ events \in Seq(RunIds)
  /\ requests \in Seq([op : Operations, id : RunIds])
  /\ replies \in Seq([op : Operations, id : RunIds, ok : BOOLEAN])
  /\ answer \in BOOLEAN /\ clicks \in 0..MaxClicks
  /\ accepted \in BOOLEAN /\ crossed \in BOOLEAN
  /\ leaked \subseteq RunIds /\ reset \subseteq {"name", "pause"}

\* When the page unlocks Run, no thread of an earlier run still works: two
\* runs never integrate at once, whatever was clicked meanwhile.
UnlockedIsIdle == ~busy => stage \in {"none", "gone"} /\ phase = "idle"

\* A run that still works is in the registry, and nothing else is but the
\* current run and FMU runs whose thread panicked: a control request never
\* reaches the flags of a run that is over.
RegistryIsExact ==
  /\ stage \in {"setup", "loop", "free", "over"} => run \in registered
  /\ \A r \in registered : (r = run /\ phase = "thread") \/ r \in leaked

\* Once the progress events sent so far are in, the page addresses the run
\* that works, also when late events of an earlier run came first.  A project
\* opened during the run is an exception, and a defect: until the run's next event
\* the page names no run, and Stop does nothing (useStudioSim.ts:145, 538).
PageNamesTheLiveRun ==
  stage \in {"setup", "loop", "free", "over"} /\ events = <<>>
    => runId = run \/ ("name" \in reset /\ runId = NoRun)

\* Page, registry and thread agree about which run is live
\* (cancel_registry.rs:33, useStudioSim.ts:108), whatever is late, except as
\* PageNamesTheLiveRun says of a project opened during the run.
PartiesAgree == TypeOK /\ UnlockedIsIdle /\ RegistryIsExact /\ PageNamesTheLiveRun

\* With no control call under way, the Pause button tells whether the live
\* run is paused.  Two exceptions, both defects of the page: a reply to an earlier
\* run came in after Run; a project was opened during the run, which clears the
\* button (useStudioSim.ts:148) and not the flag, and no control call of the
\* run has succeeded since.
PausedIsShown ==
  run \in registered /\ requests = <<>> /\ replies = <<>> /\ ~crossed
      /\ "pause" \notin reset
    => (paused <=> pause[run])

\* A Stop that returned true is followed by the command's answer, whatever
\* Pause and Step requests come after it.
StopEndsRun == accepted ~> ~busy

\* Run comes back unless the user leaves the run paused.
RunComesBack == []<>(~busy \/ Held)

=============================================================================
