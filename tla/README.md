# RustModlica: formal models

RustModlica is a Modelica compiler and simulator in Rust (`jit-compiler/`) with
two desktop applications on top (`modai-studio/`, a block-diagram studio, and
`modai-ide/`, a text IDE), a regression worker (`modai-worker/`) and a
regression harness (`crates/regress-harness/`).  This directory holds TLA+
models of the parts in which something can go wrong that a test would hardly
reach: a simulation that is run, watched, paused, stopped and restarted while
threads, channels and locks lie between the user and the integrator; the
integration loop itself, which attempts, rewinds and repeats steps; the event
loop at each of its time points; the studio's project while it is edited, saved
and lost in a crash; and files that several processes write at once: the
compilation caches, the regression worker's workspaces and the IDE's code index.

Paths below are relative to `src/`.  `PROJECT.json` maps every definition to the
lines it models, and lists the runs, hazards and theorems.

    tlasany M.tla                               parse a module
    tlc -workers 2 -config X.cfg M              check a run
    tlapm M_proofs.tla                          check the proofs of a module

## 1. The system

### How the parts interact

    page (useStudioSim.ts) --invoke--> command (sim_cmds.rs) --spawn--> thread
      ^   ^                              |   ^                            |
      |   +------- progress events ------+   +-- 250 ms beat reads --+    |
      |                                                             |     v
      +-- answer <---- join ----            LiveSeriesHandle <-- push -- loop
                                                                          ^
    Stop/Pause/Step --invoke--> cancel_registry.rs --flags--> poll_step --+

A run is one `studio_simulate` command.  It announces the run to the page by an
event, emits Modelica text, registers the run's `SimControl` and spawns a
blocking thread; while that works, the command wakes every 250 ms to drain the
live samples and emit a progress event; when the thread is joined the command
answers.  The control commands find the flags of a run in a registry, by the id
the page learnt from the events.  The thread either compiles and runs a model
(directly, or through the worker of Fast Restart) or co-simulates FMUs.  Inside,
`run_simulation` picks a loop of its own (`run_step.rs`) or Sundials.  The loop
asks a scheduler at each step boundary which code to call; that scheduler starts
threads which recompile the model at a higher tier.

### Components

State, operations, what is hard, and what makes the part correct.

| Component | State | Operations | Hard behaviour | Correct when | Module |
|---|---|---|---|---|---|
| Run control (`simulation/control.rs`, `cancel_registry.rs`) | three atomic flags, map of runs | request_cancel/pause/resume/step, poll_step | requests are several stores, the poll several loads; no lock between them | Stop is final, a paused loop makes exactly the steps asked for | `StepGate`, `SimControl` |
| Live samples (`control.rs`, `sim_cmds.rs`, `useStudioSim.ts`, `seriesDisplay.ts`) | bounded buffer, cursor, plot | bind, push, take_delta, heartbeat, merge | two locks per beat, drain at the cap, event and answer channels | rows are shown once, in order, in the right column | `LiveSeries` |
| Fast Restart (`fast_restart.rs`) | job and reply channels, one session | invalidate, simulate, compile, rerun | fingerprint against content; failure or panic midway | a run computes what its diagram asks for | `FastRestart` |
| Simulation command and Run panel (`sim_cmds.rs`, `useStudioSim.ts`) | page state, registry, thread, channels | Run, Stop, Pause, Resume, Step, events, answer | every message may be late; a panic skips clean-up | page, registry and thread agree on the run under way, also when a project is opened meanwhile; Stop ends it | `StudioRun` |
| FMU co-simulation (`fmu_import/cosim.rs`, `tight.rs`, `hybrid.rs`) | as above | poll, tight loop, fallback to hybrid | an error path that begins again | as above | `StudioRun` (control flow only) |
| Integration loop (`simulation/driver/run_step.rs`, `crossing.rs`, `switch_drive/`) | time, output grid, step sizes, saved point, states | snap, event iteration, row, step, recovery, trial, crossing, nudge | eight ways to give up, rewind or repeat a step | states and time stay together, every output point gets a row, the loop ends | `StepLoop` |
| Tiers and speculation (`jit/tiered.rs`, `deopt.rs`, `speculation.rs`, `driver/sched.rs`) | tier, pending upgrade, guards, environment of the process | on_step, tier-up threads, guard checks, deoptimisation | threads outlive their run; environment variables as parameters | a run calls its own code, compiled with the settings of its tier, and climbs | `TieredJit` |
| Event iteration (`simulation/events.rs`, `driver/run_step.rs`, `solver/mod.rs`) | discrete registers and their `pre`, a slot with the previous condition of each when-branch | event loop, algebraic fixed point, commit of `pre`, solver stages | slots are written by evaluations that do not reach every branch, and by loops that end early | each rise of a condition is acted on, once; the loop ends, and ends stable | `EventIteration` |
| Studio editing (`useStudioEdit.ts`, `useDiagramHistory.ts`, `variantOps.ts`) | root diagram, subsystems, view stack, undo and redo, clipboard, dirty mark | edit, copy, paste, subsystem, variants, undo, redo, drill in, navigate, save, load | one diagram is in the view and stored elsewhere; several state updates make one edit | what is shown as saved is saved; every subsystem has its diagram; undo is a list with a position | `UndoList`, `StudioEdit` |
| Studio project files (`useStudioProject.ts`, `useStudioSession.ts`, `crashDraft.ts`, `project/mod.rs`) | folders of four kinds of file, a draft, a heartbeat | open, new, save, save as, autosave, crash, close, restart | answers come after further edits; a save is several files, each emptied first; a draft cannot be written; the program is killed | clean work is on disk, unsaved work is in the draft, a crash leaves one of the two, and dirty work is saved in the end | `StudioProject` |
| Regression worker (`modai-worker/`) | a state file and a log per workspace | create, run, cancel | processes read, change and write whole files and know nothing of each other | a plan is in the order of impact; a result is that of one run | `RegressionPlan`, `RegressionWorkspace` |
| Compilation caches (`cache/`, `jit/codegen_cache/`) | bundles in memory and in a database, object files with entries, an epoch of the libraries | lookup, store, remove, evict, edit, restart | two files for one object, written in place by several processes; keys taken before or after the fact | an object is used whole, for its build and layout; a bundle while its sources are as they were | `CompileCache` |
| IDE code index (`modai-ide/`: `index_manager.rs`, `index_db.rs`, `file_watcher.rs`, `App.tsx`) | a database of files, symbols, dependencies and chunks; watchers and what they were told | build, refresh, rebuild, update, watch, leave | a file is indexed by many SQL statements of their own, by main thread and watchers at once | an entry is whole and of the present text; a rebuild puts everything right | `CodeIndex` |

Not modelled, or only as a choice inside one of the modules above:

| Component | Its state and what makes it correct | Why not, or when |
|---|---|---|
| Newton recovery, bisection (`newton_recovery/`) | iterates; converges | floating-point; a choice in `StepLoop` |
| Sundials path (`simulation/sundials/`) | a loop of its own around a C library | one step of `StudioRun` (kind "sundials") |
| Checkpoints (`checkpoint.rs`) | a file; resuming reproduces the run | planned (2) |
| Front end (`parser/`, `loader.rs`, `instantiate/`, `flatten/`) | a function from text to a flat model | data far beyond a model checker |
| Equation analysis (`analysis/`, `state_select.rs`) | matching, BLT, tearing | planned (1), as pure algorithms |
| Incremental equation graph (`equation_graph_inc/`) | equals the graph built from scratch | planned (1) |
| Code generation (`jit/translator/`, `compiler/c_codegen/`), interpreter, solvers | numeric meaning of code | judged by what it computes |
| Runtime support (`jit/native.rs`) | process-wide assert and terminate flags | process-wide flags; a choice (`Stop`) in `EventIteration` |
| FMI, scripts, command line, profile condenser | sequential, I/O | little state to get wrong |
| Diagram to Modelica (`emit_mo/`, `wrap_mo/`) | pure text generation | - |
| Rest of the IDE's back end (`modai-ide/src-tauri/`) | graph actor, libraries, AI, version control | graph actor planned (2); the others are I/O |
| Regression harness, protocol crates, user interfaces | developer tooling, data types, rendering | - |

## 2. The plan

Done, most important first: `StepGate` and `SimControl` (everything else polls
through it), `LiveSeries`, `FastRestart`, `StudioRun` (which composes the parts:
it takes a control request as indivisible because `SimControl` is shown to
implement `StepGate`), `StepLoop`, `TieredJit`, `StudioEdit` with `UndoList`,
`StudioProject`, `RegressionPlan` and `RegressionWorkspace`, `CompileCache`,
`CodeIndex`, `EventIteration` (which is the choice between `EventsConverge` and `EventsEnd`
of `StepLoop`).

Left, in this order:

1. `EquationSort`: matching and strongly connected components of
   `analysis/blt/` as recursive functions against reference definitions over all
   small graphs, and the incremental equation graph against the one from scratch.
2. The IDE's graph actor; checkpoints.
3. The compilation caches that `CompileCache` leaves out: flattening rows, sim
   bundles, tiers of cache roots.

## 3. The modules

**StepGate** is the promise of run control: a gate in front of each step, with
indivisible requests.  `held` keeps the integrator out, a Step buys one passage
(`credit`), a cancelled gate is never entered again.

**SimControl** is the protocol that implements it.  Each atomic load, store or
swap is one action: `RequestCancel`, `CancelClearPause`, `CancelSetStep` are the
three stores of `request_cancel`; `CheckCancel`, `CheckPause`, `SwapStep` and
`Recheck` are the accesses of `poll_step`.  `ui` holds the registry's mutex for a
whole request.  All accesses are SeqCst in the code, so interleaving is the right
notion.  `ImplementsGate` is the refinement: a Cancel or Resume takes effect with
its first store, a Step when `pause` is set.

**LiveSeries** has the integrator (`Bind`, `Poll`, `Push`), the heartbeat
(`ReadSnap`, `TakeDelta`, emit) and the panel (receive event, receive answer).  A
row is its number.  The variables `overflowed` and `missed` record the only two
ways in which a row may be lost.  `InOrderIpc` states the assumption on the
transport under which the complete result stays on display.

**FastRestart** has one command and the worker.  A diagram is a structure (what
the fingerprint hashes) and parameter values (what it does not).  `Compile` gives
the code and the parameter vector of a diagram, `Computes` what a session computes
when run for a diagram, names included: overrides are called `gain.k` and the
vector `gain_k`.  `compiled` is the diagram the session was compiled from, and a
reply tells it (`from`), so that `AnswersAreSound` can say which values a reused model
has: it excepts those edited since, and `ReuseIgnoresEdits` states the defect itself.

**StudioRun** composes page, command, thread, registry and channels; a run is of
one of four kinds (`AllKinds`).  Events, control calls with their replies, and the
answer travel on channels of their own.  `OpenProject` is `resetProjectState` under
a live run; the history `reset` says what the page has forgotten by it.  The commands
that set `busy` themselves are disabled while it is set.

**StepLoop** has one action for each outcome of each stage of a pass.  Time is in
ticks; whether a solver, a trial or a recovery succeeds and where a crossing lies
is a choice.  `integrated` counts what the states have really been integrated
over; `skipped` (nudges), `snapped` (moves onto the output grid) and `doubled`
(passes given up) are the three ways in which it may differ from time.  They are
histories that no guard reads; nothing but `doubled` is unbounded, and past
`MaxDoubled` the history takes no more while the loop goes on.

**TieredJit** has a process that runs models one after the other and the
background threads of all of them.  `Boundary` is lines 145-160 of `run_step.rs`:
guards checked against the states, deopt manager asked, scheduler asked.
`Speculate`, `Enter`, the four ways a compilation ends and `Restore` are the
closure of `request_background_tierup`.  `DualCompile` is the second compilation,
whose failure costs the run its guards only; `Refill` makes the guards of a profiled
run new with every compilation.  `fold` is the one environment variable that is set
back, `LeftOff` says that a thread has returned without doing so.

**EventIteration** has one time point after the other.  `CalcDerivs` is one call
of the generated code: register equations, then the branches of the
when-clauses in their order.  `BeginPass`, `AlgContinues`, `CutShort`,
`AcceptUnsolved` and `Settle` are the event loop, `CommitPre` and its variants
`commit_pre_after_event_and_reeval`, `Stage`, `Locate` and `Advance` what happens
until the next time point.  `ending` remembers whether the last loop settled,
gave up or was cut short.

**UndoList** is what undo promises: a list of at most `Limit` versions before a
position.  **StudioEdit** is the open project: each action is one handler of
`useStudioEdit.ts`, with the stored diagrams, the view and the two stacks of
`useDiagramHistory.ts`.  A diagram is the number of its last edit and its
subsystem nodes, which refer to other diagrams by id.  `ImplementsUndoList` maps
the two stacks to `past \o <<diagram>> \o Reverse(future)`.

**StudioProject** is the same project seen from the disk: the work is two version
numbers (root and subsystems), commands queue between page and back end (`calls`)
while the user goes on editing.  `CutShort` is what a save leaves that does not come
to its end, by an error or by a crash: files are written in an order, and each is
emptied before it is filled.  `LeftBy` adds the two writes of a new project.
`WriteCrashDraft` may fail, which nobody notices.  `late` marks a command whose
snapshot is older than the work; `draftFailed`, `overtaken` and `struck` are histories
that delimit the exceptions named below.

**RegressionPlan** is the planner as operators, **RegressionWorkspace** the
processes: each operation reads the state file, works, empties the file and fills
it.  `GiveUp` is every error and kill.

**CompileCache** has processes that compile one model while its sources are
edited.  A source is an edit number and a layout (what the codegen key sees of
it); `CodegenKey` leaves the equations out, as the code does.  `EmptyObject` to
`FillEntry` are the four file operations of `put_object`, `ReadEntry` to
`RemoveEntry` those of `get_object`.  An entry that is refused for another reason than
its size (folding, version, layout, text that does not parse) has both files removed;
an object that does not load stays.

**CodeIndex** has the main thread, on which Tauri runs the IDE's synchronous
commands one after the other, and the threads of watchers; `job` is what each is
doing, `entry` the table of files, `rows` the other tables, `page` how far the effect
of `App.tsx` is.  No code opens a transaction, so each SQL statement is an action.
Foreign keys are on in the bundled SQLite: `Erase` takes dependent rows along,
`InsertRefused` is an insert whose file has gone.  A statement that waits for the
lock longer than five seconds, or finds the disk full, is `Fail`; `Exit` is the end
of the program.  `met`, `torn`, `late` and `quiet` are histories: at which file two
threads met, which files were left half written, which changes no one has brought
in, and whether anything disturbed the build under way.  An `Edit` may go unreported
while a watcher is installed: the watcher's filter is not that of the build, and its
errors are dropped.

## 4. What is checked

| Run | Shows | Bounds, and why they are enough |
|---|---|---|
| `control` | no stale token, steps are paid for, the gate is implemented; Stop, Resume and Step each release a waiting poll | 4 requests of any kind around 4 polls. A violation needs two overlapping requests and one poll; the theorems remove the bound |
| `live_series` | rows are shown once and in order, lost only by a full buffer or a beat without snapshot; columns hold what they are named after and stay aligned; the plot catches up during a Pause | caps of 2 columns and 2 rows (12 and 8000 in the code) so that five rows overflow them twice; four models whose names repeat, fill the columns or exceed them |
| `fast_restart` | full runs are exact, a reused model has the structure of its diagram and every value not edited since it was compiled, every run is answered | 3 runs: one to fill the session, one to spoil it, one to reuse it; eight diagrams |
| `studio_run` | Run is unlocked only when idle, the registry holds the live run, the page addresses it and shows whether it is paused, but for what opening a project makes it forget; Stop ends the run; Run comes back | 2 runs of any kind, 2 clicks or projects opened, 1 pass, 1 beat: messages of the first run overtake into the second |
| `step_loop` | states and time stay together; every output point gets its row; the loop ends unless passes are given up for ever | a step of 3 ticks (so that it can be halved, snapped and crossed in its middle), an end time of four steps, two nudges; passes are given up without limit, and the history of what they add stops at one step |
| `tiered` | a run calls its own code, a thread compiles with the settings of its tier, no more and no less, but for what a mismatch leaves set; a run whose attempts do not fail reaches the optimized tier | 2 runs from tier 0 or 2, up to 6 threads, 1 refused; threads of the first run live on into the second |
| `event_iteration` | each rise of a condition is acted on, and only a rise is; a settled loop is stable; the loop ends | every program of two branches over one relation, a clock and two registers, each with one of four kinds of model (algebraic loop, states, solver); 2 evaluations of a fixed point (15 in the code) and 2 passes (100), so that both limits are reached. Two branches suffice for one to change, precede or undo the other |
| `studio_edit` | clean work is what was saved; every reference has its diagram; undo is a list with a position | 3 edits, histories of 1 (80 in the code), so that the limit is reached, 3 views on top of each other, so that a subsystem lies in a subsystem; the theorems remove the bounds |
| `studio_project` | clean work is on disk; unsaved work is in the draft; after a crash the work is in one of the two; dirty work, in this version or a later one, is saved in the end | 2 edits, 2 folders, 2 commands under way, 1 fault, any number of drafts that fail: a save with an edit, a load or a crash in its midst; the theorems remove the bounds |
| `regression` | plans are in order of impact; a result is of one run; a file is explained by who writes it | 2 processes, 3 operations (make, run, and one more in between), 3 traceability files in which cases are touched for two reasons, no reason, or dependencies form a cycle |
| `compile_cache` | an object is used whole or not at all; a bundle is of its sources | 2 processes, 2 builds, 3 compilations, 1 edit, 1 fault (an entry refused or an object that does not load among them): two that write, one that reads; two layouts, two sources of one size; an in-memory cache of 1 |
| `code_index` | an entry has the rows of its text, each once; the index is of the present files; a rebuild repairs whatever was left | The theorems remove the bounds. 2 files, one of them ignored, that have one of two texts, are not text or are gone; 2 of the 3 tables; 2 watcher threads (one stopped and still at work, one new); 2 edits, any of which the watcher may not be told of, and 2 commands, one of which may be a fault: enough for a command, a watcher and a change to meet at one file, and for a half-written entry to be looked at again |

Every property of a passing run has a mutant: a plausible defect (a store left
out, a cursor not moved, a lock not taken) under which TLC finds it violated.
The mutants stand beside the definitions they replace.

### Fairness

Weak fairness throughout, and only where code runs on without being asked.
`control`: the integrator's loop and the stores of a request once begun; no
request is owed.  `live_series`: the timer and the panel; nothing of the
integrator, which may be paused.  `fast_restart`: the command and the worker's
steps; not the end of a simulation, so `EveryRunAnswered` assumes that
simulations end.  `studio_run`: command, thread, control calls and the page's
listeners; neither clicks nor panics, and the beat is not needed.  `step_loop`:
sequential code.  `tiered`: the loop and each thread; no run is owed an end or a
successor.  `event_iteration`: the event loop, which whoever starts it runs to
its end; no solver step is owed.  `studio_project`: the back end works its queue
off (`Serve`), and the autosave's timer is strongly fair: the code's timer goes
off every 30 s for ever, but the bound on commands under way disables the
model's action now and then, which weak fairness would take for an excuse; no
edit, answer of the user or crash is owed.  `studio_edit`, `regression`,
`compile_cache` and `code_index` state safety only.

### Behaviour the models contain

No run reports a violation.  The models contain the following, each of which an
exception named in a property, or an assumption, delimits:

* An else-branch that is skipped because an earlier branch acts leaves zero in its
  slot, so that in the next pass its condition, true for long, counts as an edge
  (`events.rs:650`): in `TestLib/ElseWhenPriorityTest.mo` `b` is counted twice.  It
  is the disjunct on `elsewhen` in `ActsOnRise`.
* Opening a project is not disabled during a run (`useStudioSession.ts:218`), and
  `resetProjectState` (`useStudioSim.ts:137`) clears the run's id and the Pause button:
  until the next event the page names no run, so that Stop does nothing, and a run
  that is paused shows Pause until a control call of it succeeds.  These are the
  exceptions `reset` of `PartiesAgree` and `PausedIsShown`.
* The watcher has a filter of its own (`file_watcher.rs:117`): extensions in small
  letters only, and folders to skip looked for in the absolute path.  The walk of a
  build (`index_manager.rs:486`) takes `X.MO`, and a project below a folder named
  `build`: such files are indexed and their changes never brought in.  Errors the
  watcher gets are dropped as well (`file_watcher.rs:76`).  `IndexIsCurrent` excepts
  these changes, together with those nothing watched.
* The crash draft may fail to be written: the error is swallowed (`crashDraft.ts:20`),
  an older draft stays, and nothing tries again before the next change.  `draftFailed`
  in `DraftIsCurrent` and `WorkSurvives`.
* A save empties each file before it fills it (`project/mod.rs:154`).  Cut short, it
  leaves a folder that cannot be opened, one in which subsystems are missing, or
  files of two versions; unsaved work is still in the draft, but of work that was
  saved already and is saved once more there is none.  `struck` in `CleanIsOnDisk` and
  `WorkSurvives`.  A crash between the creation of a project and its first save
  (`useStudioProject.ts:289`) leaves an empty project in the way of the next try.
* A pass given up with a small residual (`run_step.rs:551`) goes round again without
  advancing time and without a counter: a model whose trial fails in that way at one
  time is never left but by a Stop.  It is the second disjunct of `Terminates`.
* A tier-up that finds another layout returns before the environment is set back
  (`tiered.rs:425`): the folding stays off for the optimizing tiers of later runs.
  `LeftOff` in `CompilesAsItsTier`.
* The index stores a file's hash before its rows (`index_manager.rs:186`): an entry
  left half written looks up to date until the file changes or the index is rebuilt.
  A save in the editor and the watcher can index one file at once and insert its rows
  twice; a build removes by an id it read earlier.  Stopping a watcher drops what it
  was told in the last 500 ms (`file_watcher.rs:83`); an index that is not empty is
  not compared with the files when a project is opened (`App.tsx:146`); a file that
  is not UTF-8 ends a build at that file (`index_manager.rs:174`); the watcher
  indexes files that `.modaiignore` excludes, until the next build.
* A Stop between the announcement of a run and its registration is refused and
  lost (`sim_cmds.rs:223`).
* Stop of a physical FMU diagram makes the tight loop fail, and the fallback, meant
  for "if tight compile/param binding fails" (`CHANGELOG.md:416`), begins the run
  again without control (`cosim.rs:209`).
* Edited parameters never reach a model reused by Fast Restart: overrides are named
  `gain.k`, the flattened vector `gain_k` (`fast_restart.rs:454`,
  `flattener_impl.rs:273`), although "param-only / sim-option changes reuse JIT
  Artifacts via `with_params`" (`CHANGELOG.md:409`), as the header of
  `fast_restart.rs` does too: `EditedSince` in `AnswersAreSound`, and the theorem
  `ReuseIgnored`.  Edited Goto or From tags keep
  the fingerprint (`fast_restart.rs:372`), and so do library files edited on disk
  (`fast_restart.rs:347`).  The worker is started once: after a panic every later
  run fails (`fast_restart.rs:60`).
* A tier-up leaves its optimization level in the environment (`tiered.rs:371`); a
  guard that fails sets `DEOPT_PENDING`, which nobody reads, where `deopt.rs:357`
  says that the generic path is taken at the next step boundary.
* The codegen key leaves the equations out (`cache_key.rs:146`): after an edit that
  keeps the variables, the next process loads the old code.
* A save answered after further edits clears mark and draft all the same
  (`useStudioProject.ts:277`); a start within 15 s of the last heartbeat deletes the
  draft unasked (`useStudioProject.ts:253`); a subsystem pasted into itself and
  opened there shows the stored version, unmarked (`useStudioEdit.ts:334`).
* A cancellation recorded while a workspace runs is overwritten by the run
  (`modai-worker/src/lib.rs:56`).
* An event loop cut short (`events.rs:612`) leaves the slots: the commit acts again
  on the same edge, and after a fall a later rise is missed.  Implicit, Radau and
  QSS stages evaluate with the registers themselves (`solver/mod.rs:142`), so that
  an edge in the last stage acts there and again at the time point.  A cascade of
  `y = pre(x)` moves on by one link per time point.
* For `cvode` and `ida` the poll is called once, on entry: Stop and Pause are
  accepted later and have no effect.
* Two Steps within one 15 ms sleep count as one; a beat that has seen no snapshot
  discards the first rows (`sim_cmds.rs:341`).
* A trial that fails with a small residual gives the pass up with the step left in
  the states, and the interval is integrated again (`run_step.rs:553`).
* With `dt` at or below 1e-5 the move onto the output grid can pass over a whole
  step (`run_step.rs:118`).
* A tier-up that fails is never tried again, and one that panics poisons the lock
  for the rest of the process (`tiered.rs:340`, `366`).

## 5. What is proved

For every value of the constants that satisfies the named assumptions, from
nothing but those assumptions: each of the 29 safety properties the runs check, the
two refinements among them; that is all but the nine liveness properties of section 6.

A proof module may be about two components that share no name; their specifications
then have names of their own (`LiveSpec`, `EventSpec`, `CacheSpec`, `IndexSpec`).
Each inductive invariant was checked by TLC on the instance of its component before
it was proved.

**RunControl_proofs**, `SimControl` (assumes `BoundsAssumption`): `TypeCorrect`,
`TokensAreFresh`, `StepsPaid`, `PauseIsHeld`, `CancelFinal` and `Refinement`.  The
invariant is `TypeOK /\ TokenInv /\ PaidInv /\ SlipInv`.  `NoStaleToken` alone is not
inductive, since it says nothing while a request is in progress: `TokenInv` adds
what each half-done request has established.  `StepsArePaidFor` needs `PaidInv`,
which counts the token still up and the one taken but not yet used as owed.
`PauseHolds` needs `SlipInv`: a passage granted freely is still outstanding only
while none has slipped.  `Refinement` maps each atomic access to a gate action or
a stutter under that invariant.

**RunControl_proofs**, `LiveSeries` (assumes `CapsAssumption`, `NamesAssumption`):
`RowsKept` (`RowsAreKept`), `MissesAtTheStart` (`MissesOnlyAtTheStart`),
`ColumnsAreFaithful` (`ColumnsFaithful`), for any capacities, any number of rows and
any name lists.  The invariant is `LiveInv`.  `TimeInv` says that the buffer holds the
last rows written, which ties the cursor to a number of rows ever taken (`Taken`);
`SentInv`, that what panel, channel and beat have is, in order, the rows taken but for
those counted as lost; `SeenInv`, that no row is on its way before a snapshot was
seen, so that rows are missed only before the first; `ColsInv`, that every column is
exactly as long as the time axis, and holds what its name is of.

**FastRestart_proofs** (assumes `ValuesAssumption`, `NoneAssumption`):
`AnswersSound` (`AnswersAreSound`), `ReuseIgnored`, `AnswersMatch`.  The argument is
that of the channels: `ChannelInv` says that at most one of job and reply is under
way and who waits for it, `SessionInv` which diagram the session was compiled from
and how that is related to the run's while the worker runs it, `ReplyInv` that any
answer in existence is right.

**StepLoop_proofs** (assumes `StepAssumption`): `TypeCorrect`, `StatesFollowTime`,
`RowsFollowGrid`.  The invariant is `TypeOK /\ StatesInv /\ GridInv /\ RowsKeepPace`:
`StatesInv` says, label by label, where the states stand relative to the saved
point, which is what a rewinding crossing or recovery relies on; `GridInv` ties
the output grid to the number of rows and keeps time less than a step beyond it.
The only products, of an index and the interval, are handled by the lemma
`Products`.

**StepLoop_proofs**, `EventIteration` (assumes `EventBounds`, `ClockIsAnInput`,
`ProgramsAreWellFormed`): `NoRiseIsLost` (`RisesAreActedOn`), `SettlingIsSound`
(`SettledIsStable`), `EdgesAreRises` (`ActsOnRise`), for programs with any number of
branches, relations and registers and for any limits.  The invariant `EventInv` adds
two parts to `SettledIsStable`.  `SlotsInv` says what a zero slot means: the
condition did not hold when it was last evaluated, unless the loop was cut short or
the branch is an else-branch.  `RiseInv` says that a branch armed when the time point
was reached has been acted on or is still armed.  Evaluation is a fold over the
branches; what it computes for lists of any length is shown by the induction below.

**TieredJit_proofs** (assumes `TieredAssumption`): `TypeCorrect`, `OwnCode`,
`TierSettings`, `ClimbsOneTier`.  The invariant has three parts beside `TypeOK`.
`OwnInv` adds that a pending upgrade is that of the run it is kept for.  `LockInv`
adds that a compiling thread holds the lock and is alone in it, without which
another thread could change the settings under it, and that the folding is as it was
found when nobody compiles, but for what a mismatch has left off.  `FlightInv` says that the run
under way has one live thread, or one pending upgrade, or neither, and that either
is for the next tier; `ClimbsOneTier` follows since a step installs only that
upgrade.  What a thread's step does to the sequence of threads is one lemma,
`ThreadMoves`, and what the scheduler's step does another, `OnStepSteps`.

**TieredJit_proofs**, `CompileCache` (assumes `CacheBounds`, `CodeHasASize`,
`WriteMode`): `CacheInvariant`, `WholeCode` (`CodeIsWhole`), `BundlesAreCurrent`
(`BundleIsOfTheModel`), for any number of processes, builds, edits, keys and faults.
`CacheInv` is `DiskInv /\ BundleInv /\ FileInv /\ CompilationInv /\ WriterInv`.
`BundleInv` says of what memory and database hold under an artifact key that it is of
this build and, unless an edit fell into its making, of the sources the key names;
`FileInv`, that an object file of a key no two codes share is missing, empty or
whole; `CompilationInv`, what a process knows at each of its steps.  `WriterInv` is
what makes two writers harmless: under one key they write the same code, so neither
truncates or fills a file of another kind.

**StudioProject_proofs** (assumes `ProjectFolders`, `ProjectBounds`):
`TypeCorrect`, `CleanOnDisk`, `DraftCurrent`, `Survives` (`WorkSurvives`).  The
invariant is `Types /\ WorksInv /\ SavesInv /\ CleanInv /\ DraftIsCurrent`.
`CleanInv` is `CleanIsOnDisk` also while the program is down, which is half of
`WorkSurvives`; it needs `SavesInv`: a save under way that is not late is a save of
the work as it is, into the folder that is open, so that its answer makes the mark
true.  `WorksInv` says of every place a version can be in that it is not newer than
the last edit, so that an edit always starts the draft's timer.  What a write that
stops on its way does to the folders is one lemma, `StopKeeps`, used for failures and
crashes alike.

**StudioEdit_proofs** (assumes `EditBounds`): `CleanSaved`, `WholeProject`,
`UndoRefined`.  The invariant is `Types /\ RefsInv /\ CleanInv`.  `RefsInv` says
of every diagram that can come back (stored, in the view, in a stack, in a save, in
the clipboard) that what its nodes refer to is there or known to be gone;
`CleanInv` adds to `CleanIsSaved` what a save under way will make true.

**StudioEdit_proofs**, `CodeIndex` (assumes `IndexFiles`, `IndexContents`,
`IndexTables`, `IndexThreads`, `IndexEntries`, `FirstFiles`): `IndexInvariant`,
`EntriesWhole` (`EntriesAreWhole`), `IndexCurrent` (`IndexIsCurrent`), `Repairs`
(`BuildsRepair`), for any files, texts and threads, and any number of edits, commands
and faults.  None of the three properties is inductive: each is about moments at which
nobody is at a file, and follows from what those who are at it know.  `IndexInv` says

* (`JobsInv`) what a job is like at each of its steps;
* (`OwnersInv`) that no two files share an id, also an id that a thread still holds
  and whose entry has gone: without it a late deletion could take another file's rows;
* (`MetInv`) that two threads at one file are both recorded in `met`, or one of them
  is a build that has listed the file and not yet looked for it;
* (`SoloInv`) what a thread that has met nobody at a file knows of it: the entry is
  the one it wrote, the id the one it read, the tables it has wiped are empty, those
  it has filled hold the text it read, once;
* (`WholeInv`) that an entry which no job has half written and which is not torn is
  whole, and no row is without an entry;
* (`LateInv`) that a file which is not late is current, or somebody has been told of
  it, or a thread is at it whose work is right for the present disk;
* (`BuildInv`) how far an undisturbed build has come: what is not found is out or
  still to be taken out, what is found is in or still to be brought in, and a rebuild
  still has no entry for what it has to bring in.

`StepKeeps` reduces each step to what it does to the thread that takes it and to the
files that thread handles (`Untouched`, `IdsKept`, `IdsFrom`, `MetStep`, `Solo`,
`LateStep`); there is one lemma per action, and one for what each of `Begin`,
`Complete` and `Abort` does to the histories.  The bounds `MaxChanges`, `MaxFaults`
and `MaxCommands` are not used.

**StudioRun_proofs** (assumes `KindsAssumption`, `RunBoundsAssumption`): `AllAgree`
(`PartiesAgree`), `PauseShown` (`PausedIsShown`).  The invariant is `TypeOK /\
CommandInv /\ RegistryInv /\ EventInv /\ PauseInv`.  `CommandInv` ties the page's
lock to where the command, its thread and its outcome are; `RegistryInv` says that
the registry holds the run that works and the runs whose thread panicked.
`EventInv` is what makes late events harmless: the last of the events under way is
the live run's own, so the page names it when they are all in, unless a project was
opened since.  `PauseInv` says what the Pause button *will* show when the replies
under way are in (`WillShow`): the last reply that sets the button agrees with the
run's flag, or none sets it and the button agrees already or has been cleared by
opening a project.

**RegressionWorkspace_proofs** (assumes `WorkerBounds`, `PlanAssumption`):
`OneWholeRun` (`ResultIsOneRun`), `Explained` (`FileIsExplained`), `ByImpact`
(`PlanIsByImpact`), `PlansAreOfRequests`, for any number of processes and operations
and any traceability file.  The invariant is `Types /\ ProcsInv /\ FilesInv /\
AloneInv /\ FileIsExplained`.  `ProcsInv` says what a process carries at each of its
steps, `FilesInv` that a result in a file is that of one run, whatever processes do
at once, and `AloneInv`, for a workspace that never had two operations at once, that
the file is marked as running before the log is touched and holds the result only
after it.  `ActsKeeps` reduces each step to what the process that takes it leaves
behind.  `PlanInv` says that each plan in a file or carried to one is the planner's
answer to a request the workspace was made for; the lemmas before it show that this
answer is in order of impact (`SortedIsSorted`, `ByRelationGives`, `ImpactIs`,
`RelationIsByImpact`). `PlanAssumption` says what the constants are: traces with
finitely many cases, and requests of the strategies there are.

Two lemmas stand in for the library's induction theorems, which take an operator as a
parameter and cannot be instantiated by the provers here.  `NatInducts` has a set in
that place: it follows from the well-foundedness of the naturals
(`NatLessThanWellFounded`, `WFMin`), and suffices whenever the induction's claim can
be written as membership in a set.  The folds of the planner, of the event iteration
and of the live series' columns are proved about in this way.

## 6. What is only model-checked

* Liveness: `PollsAreReleased`, `PlotCatchesUp`, `EveryRunAnswered`, `StopEndsRun`,
  `RunComesBack`, `Terminates`, `Climbs`, `DirtyIsSaved`, `IterationEnds`.  The proof
  system has no support for fairness arguments with ENABLED.
* That `FreshIds` of `CodeIndex` is never empty, and other claims that a step *can* be
  taken: absence of deadlock is checked on the instances.

## 7. What is abstracted, and why

* Text, wording and layout; numeric values, except that a parameter value may be a
  number, blank or code-shaping, and that time is counted in ticks.
* One tick stands for each of the small lengths of the loop (event-step floor,
  micro-step, nudge): the properties do not tell them apart.  The floor
  (`crossing.rs:112`) can exceed a micro-step when `dt` is large; states and time
  move together in both.
* A registry of guards holds one guard, and code one generation of it.
* A run's own compilation is one step, and it reads the environment without the lock
  of the tier-ups; which settings it gets is left out.  The mutex of the live series
  makes `push` and `take_delta` indivisible, as in the code.
* `CosimControl::poll` (`cosim.rs` 36-55) is the same protocol as `poll_step`;
  `StudioRun` uses one definition, `PollPasses`, for both.
* How an answer is called (`cancelled` or failed) is decided by the text of the error
  (`sim_cmds.rs:435`), which is left out: an FMU run answers an honoured Stop with
  `cancelled: false` (`sim_cmds.rs:178`).
* File dialogs are modal: the import of an FMU, which takes and gives back `busy` only
  after its dialog (`useStudioProject.ts:391`), cannot have a run begun in between.
* Lock poisoning is modelled where code reacts to it (`TieredJit`) and nowhere else.
* The default interval (`Dt <= Interval`) is guaranteed by the studio
  (`sim_bridge/mod.rs:41`), not by the command line.
* `EventIteration`: registers are Booleans, relations of time and states are inputs
  that are fixed at a time point.  The first branch sets the first register (programs
  that differ in names only are taken once); clocks tick in models without loops.
  The event iteration inside `recover_failed_solver_step` is left out; the event
  queue feeds traces only; `RUSTMODLICA_EVENT_TRACE`, which makes discrete changes
  count for convergence, is off.  The exceptions of its properties are the behaviour
  listed under section 4: else-branches, loops cut short, solvers that work on the
  registers themselves.
* `StudioEdit`: blocks, wires, ports and selection are the number of the diagram;
  names, faces and colours of subsystems are left out.  `StudioProject`: so is what
  the manifest holds.  A draft that cannot be removed is left out.  The back end's
  commands are synchronous, so a command and its answer are one step; of Save as and
  New, three commands in a row, nobody sees the middle, but they may fail or be cut
  short in it.  Files of subsystems that no longer exist stay in the folder and are
  never referred to.
* `RegressionWorkspace`: what the simulator answers for a case is a choice.
  `workspace.rs:112` always lists a workspace as planned, which no one acts on.
* `CompileCache`: code generation is a function of source and build; each edit gives
  the file a time of its own; the reads of one lookup in memory and database are one
  step; the file that is found first lies in a subdirectory whose time is not looked
  at; each compilation loads anew; for which reason an entry is refused is a choice.
  Left out: flattening and IR rows, sim bundles, AOT archives, the tiers of cache
  roots (a lookup stops at the first that has an entry), the warm-up.  By default
  bundles wait for a confirmation (`compiler_impl.rs:287`) that has no caller, so
  that none is stored: the run has `DeferredWrite = FALSE`.

* `CodeIndex`: what is extracted from a text is its rows, one in each table; queries
  change nothing; the walk over the folder is one step; what `.modaiignore` excludes
  does not change.  The repository's own index, a second instance that no watcher
  follows, is left out.

## 8. Not modelled

The front end, code generation, interpreter, solvers, Newton recovery and the
emitters of Modelica and FMI are functions from data to data whose correctness is
what they compute: a model that could be checked would be a transliteration of
them.  They are most of the implementation's lines.  Command line, scripts,
user interfaces, protocol crates and the regression harness run sequentially over
them, with little state of their own.  Matching and BLT, the incremental equation
graph, the IDE's graph actor and checkpoints could be modelled and are left in the plan.
