----------------------------- MODULE FastRestart -----------------------------
(***************************************************************************)
(* Fast Restart: a worker thread keeps the model compiled last, and a run  *)
(* whose diagram has the same structural fingerprint reuses it with a new  *)
(* parameter vector instead of compiling.                                  *)
(*                                                                         *)
(* The command that runs a simulation sends the worker a job and blocks on *)
(* its reply; with Fast Restart off it first has the worker forget its     *)
(* session.  The studio has one run at a time, so there is one command.    *)
(* The compiler and the simulator run on the worker thread: a panic in     *)
(* either ends the thread, and with it the session, for good.              *)
(*                                                                         *)
(* A diagram is a structure (what the fingerprint hashes) and a value for  *)
(* each parameter (what it does not).  Values that are numbers end up in   *)
(* the parameter vector; blank ones are not emitted, so that the default   *)
(* of the library holds; all others (a Goto or From tag, a start modifier) *)
(* shape the emitted code.                                                 *)
(***************************************************************************)

EXTENDS Naturals, FiniteSets

CONSTANTS
  Structures,  \* diagrams up to the values of their parameters
  Params,      \* parameters of block instances
  Numbers,     \* numeric values
  Codes,       \* values that shape the code
  Blank,       \* the empty value
  Default,     \* the library's default of a parameter
  None,        \* no session, no job, no reply
  MaxRuns      \* bound: runs requested

ASSUME ValuesAssumption ==
  /\ Default \in Numbers
  /\ Numbers \cap Codes = {}
  /\ Blank \notin Numbers \union Codes
  /\ MaxRuns \in Nat

ASSUME NoneAssumption == None \notin {"forget", "simulate"}

Values == Numbers \union Codes \union {Blank}
Diagrams == [structure : Structures, value : [Params -> Values]]
Requests == [diagram : Diagrams, fast : BOOLEAN]

\* The name of a parameter in the flattened model, gain_k, and the name the
\* overrides of a diagram give it, gain.k.
FlatName(p) == <<p, "_">>
OverrideName(p) == <<p, ".">>

VARIABLES
  cmd,      \* "idle", "forget", "forgetting", "send" or "waiting"
  request,  \* the request the command carries
  job,      \* the job in the worker's channel
  worker,   \* "idle", "compile", "run", "rerun" or "dead"
  session,  \* the worker's session
  reply,    \* the worker's reply
  answer,   \* what the latest run came to
  runs,     \* runs requested
  compiled  \* history: the diagram the session was compiled from

vars == <<cmd, request, job, worker, session, reply, answer, runs, compiled>>

-----------------------------------------------------------------------------
(* What a compilation produces, and what a run of it computes with.        *)

StructureKey(d) == d.structure

\* The parameter vector of a fresh compilation.
Baseline(d) ==
  [n \in {FlatName(p) : p \in Params} |->
     LET p == CHOOSE q \in Params : FlatName(q) = n
     IN  IF d.value[p] \in Numbers THEN d.value[p] ELSE Default]

\* The code of a compilation: its structure and the values that shape it.
Code(d) ==
  [structure |-> d.structure,
   shaped |-> [p \in Params |-> IF d.value[p] \in Codes THEN d.value[p] ELSE Blank]]

Compile(d) == [key |-> StructureKey(d), code |-> Code(d), baseline |-> Baseline(d)]

\* The numeric values of a diagram, by their override names.
Overrides(d) ==
  [n \in {OverrideName(p) : p \in {q \in Params : d.value[q] \in Numbers}} |->
     d.value[CHOOSE q \in Params : OverrideName(q) = n]]

\* merge_params: the baseline, except where an override has the same name.
MergeParams(baseline, overrides) ==
  [n \in DOMAIN baseline |->
     IF n \in DOMAIN overrides THEN overrides[n] ELSE baseline[n]]

\* What a run of session s for diagram d computes with.
Computes(s, d) == [code |-> s.code, params |-> MergeParams(s.baseline, Overrides(d))]

\* What it would compute with after a full compilation.
Asked(d) == [code |-> Code(d), params |-> Baseline(d)]

Running == {"run", "rerun"}

-----------------------------------------------------------------------------
(* The command.                                                            *)

Init ==
  /\ cmd = "idle" /\ request = None
  /\ job = None /\ worker = "idle" /\ session = None /\ reply = None
  /\ answer = None /\ runs = 0 /\ compiled = None

\* studio_simulate, once the model is emitted.
Request ==
  /\ cmd = "idle"
  /\ runs < MaxRuns
  /\ request' \in Requests
  /\ cmd' = IF request'.fast THEN "send" ELSE "forget"
  /\ runs' = runs + 1
  /\ UNCHANGED <<job, worker, session, reply, answer, compiled>>

\* invalidate_cache: a channel without a worker is no error.
SendForget ==
  /\ cmd = "forget"
  /\ IF worker = "dead"
       THEN cmd' = "send" /\ UNCHANGED job
       ELSE cmd' = "forgetting" /\ job' = "forget"
  /\ UNCHANGED <<request, worker, session, reply, answer, runs, compiled>>

Forgotten ==
  /\ cmd = "forgetting"
  /\ reply # None \/ worker = "dead"
  /\ reply' = None
  /\ cmd' = "send"
  /\ UNCHANGED <<request, job, worker, session, answer, runs, compiled>>

SendSimulate ==
  /\ cmd = "send"
  /\ IF worker = "dead"
       THEN cmd' = "idle" /\ answer' = [error |-> "unavailable", request |-> request]
                          /\ UNCHANGED job
       ELSE cmd' = "waiting" /\ job' = "simulate" /\ UNCHANGED answer
  /\ UNCHANGED <<request, worker, session, reply, runs, compiled>>

\* Mutant: the command waits for a reply that a dead worker cannot send.
ReceiveReplyOnly ==
  /\ cmd = "waiting"
  /\ reply # None
  /\ answer' = reply
  /\ reply' = None
  /\ cmd' = "idle"
  /\ UNCHANGED <<request, job, worker, session, runs, compiled>>

\* A worker that ends without a reply drops its end of the reply channel.
ReceiveReply ==
  /\ cmd = "waiting"
  /\ reply # None \/ worker = "dead"
  /\ answer' = IF reply # None THEN reply
               ELSE [error |-> "disconnected", request |-> request]
  /\ reply' = None
  /\ cmd' = "idle"
  /\ UNCHANGED <<request, job, worker, session, runs, compiled>>

Command == SendForget \/ Forgotten \/ SendSimulate \/ ReceiveReply

-----------------------------------------------------------------------------
(* The worker.                                                             *)

TakeForget ==
  /\ worker = "idle" /\ job = "forget"
  /\ job' = None
  /\ session' = None /\ compiled' = None
  /\ reply' = [forgotten |-> TRUE]
  /\ UNCHANGED <<cmd, request, worker, answer, runs>>

\* Mutant: any session will do.
ReusableAny == request.fast /\ session # None

Reusable ==
  /\ request.fast
  /\ session # None
  /\ session.key = StructureKey(request.diagram)

TakeSimulate ==
  /\ worker = "idle" /\ job = "simulate"
  /\ job' = None
  /\ worker' = IF Reusable THEN "rerun" ELSE "compile"
  /\ UNCHANGED <<cmd, request, session, reply, answer, runs, compiled>>

CompileOk ==
  /\ worker = "compile"
  /\ session' = Compile(request.diagram)
  /\ compiled' = request.diagram
  /\ worker' = "run"
  /\ UNCHANGED <<cmd, request, job, reply, answer, runs>>

\* A failed compilation leaves the old session in place.
CompileFails ==
  /\ worker = "compile"
  /\ reply' = [error |-> "compile", request |-> request]
  /\ worker' = "idle"
  /\ UNCHANGED <<cmd, request, job, session, answer, runs, compiled>>

RunOk ==
  /\ worker \in Running
  /\ reply' = [request |-> request, reused |-> worker = "rerun", from |-> compiled,
               ran |-> Computes(session, request.diagram)]
  /\ worker' = "idle"
  /\ UNCHANGED <<cmd, request, job, session, answer, runs, compiled>>

\* A cancelled or failed simulation keeps the session.
RunFails ==
  /\ worker \in Running
  /\ reply' = [error |-> "simulate", request |-> request]
  /\ worker' = "idle"
  /\ UNCHANGED <<cmd, request, job, session, answer, runs, compiled>>

\* The compiler or the simulator panics.
Panic ==
  /\ worker \in {"compile"} \union Running
  /\ worker' = "dead"
  /\ session' = None /\ compiled' = None
  /\ UNCHANGED <<cmd, request, job, reply, answer, runs>>

Work ==
  \/ TakeForget \/ TakeSimulate
  \/ CompileOk \/ CompileFails \/ RunOk \/ RunFails \/ Panic

-----------------------------------------------------------------------------

Done == cmd = "idle" /\ runs = MaxRuns /\ UNCHANGED vars

Next == Request \/ Command \/ Work \/ Done

Spec == Init /\ [][Next]_vars

\* The command and the worker go on.  Nothing ends a simulation that was left
\* paused.
Fairness ==
  /\ WF_vars(Command)
  /\ WF_vars(TakeForget \/ TakeSimulate \/ CompileOk \/ CompileFails)

FairSpec == Spec /\ Fairness

-----------------------------------------------------------------------------
(* Properties *)

Answered == answer # None /\ "ran" \in DOMAIN answer

TypeOK ==
  /\ cmd \in {"idle", "forget", "forgetting", "send", "waiting"}
  /\ worker \in {"idle", "compile", "dead"} \union Running
  /\ job \in {None, "forget", "simulate"}
  /\ request \in Requests \union {None}
  /\ cmd # "idle" => request # None
  /\ runs \in 0..MaxRuns

\* The parameters edited since the model of an answer was compiled.
EditedSince(a) == {p \in Params : a.from.value[p] # a.request.diagram.value[p]}

\* A run that compiled, and every run with Fast Restart off, computes with
\* exactly the code and the parameters of its diagram.
FullRunIsExact ==
  Answered /\ (~answer.reused \/ ~answer.request.fast)
    => answer.ran = Asked(answer.request.diagram)

\* A reused model has the structure of the diagram it is run for, and computes
\* with that diagram's value of each parameter not edited since it was compiled.
ReuseIsOfTheDiagram ==
  Answered =>
    LET asked == Asked(answer.request.diagram)
    IN  /\ answer.ran.code.structure = asked.code.structure
        /\ \A p \in Params \ EditedSince(answer) :
             /\ answer.ran.code.shaped[p] = asked.code.shaped[p]
             /\ answer.ran.params[FlatName(p)] = asked.params[FlatName(p)]

\* What a run computes is of its diagram (fast_restart.rs:119), with one exception,
\* which is a defect: a value edited since the compilation does not reach a reused
\* model.  The header of fast_restart.rs and CHANGELOG.md:409 promise that edits of
\* parameters reuse the model *with* the new values; but the override of an edited
\* parameter is called gain.k (fast_restart.rs:454) and the vector's entry gain_k
\* (flattener_impl.rs:273), so that merge_params finds none; and an edited tag of
\* a Goto or From, which shapes the code, keeps the fingerprint.
AnswersAreSound == FullRunIsExact /\ ReuseIsOfTheDiagram

\* The defect itself: a reused model computes exactly what the diagram asked that
\* it was compiled from, whatever has been edited in the diagram of the run.
ReuseIgnoresEdits ==
  Answered /\ answer.reused => answer.ran = Asked(answer.from)

\* The command gets the answer to its own request, not one left over from the
\* invalidation before it or from a worker that died.
AnswersTheRequest ==
  /\ answer # None /\ cmd = "idle" => answer.request = request
  /\ cmd = "send" => reply = None /\ job = None

\* As long as no simulation goes on for ever, no run goes unanswered, also
\* when the worker panics with the run in hand or is already gone.
EveryRunAnswered == []<>(worker \notin Running) => []<>(cmd = "idle")

=============================================================================
