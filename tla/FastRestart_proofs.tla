------------------------- MODULE FastRestart_proofs -------------------------
(***************************************************************************)
(* Soundness of the Fast Restart session for any set of diagrams and       *)
(* values and any number of runs.                                          *)
(***************************************************************************)

EXTENDS FastRestart, TLAPS

\* What the reply of a run, on its way or delivered, says it computed with: all
\* that the diagram asks which its model was compiled from, and nothing else.
Sound(r) ==
  r # None /\ "ran" \in DOMAIN r =>
    /\ r.request \in Requests
    /\ r.from \in Diagrams
    /\ r.ran = Asked(r.from)
    /\ ~r.reused => r.from = r.request.diagram
    /\ r.reused => r.request.fast
    /\ r.from.structure = r.request.diagram.structure

(***************************************************************************)
(* The inductive invariant.                                                *)
(*                                                                         *)
(* One request is under way at a time, and it is in one place: in the      *)
(* channel, in the worker's hands, or answered.                            *)
(***************************************************************************)
ChannelInv ==
  /\ cmd # "idle" => request \in Requests
  /\ job \in {None, "forget", "simulate"}
  /\ worker \in {"idle", "compile", "dead"} \union Running
  /\ job = "forget" => cmd = "forgetting" /\ worker = "idle" /\ reply = None
  /\ job = "simulate" => cmd = "waiting" /\ worker = "idle" /\ reply = None
  /\ worker \in {"compile"} \union Running =>
       cmd = "waiting" /\ job = None /\ reply = None
  /\ reply # None => cmd \in {"forgetting", "waiting"} /\ worker = "idle"
  /\ reply # None /\ cmd = "waiting" => reply.request = request
  /\ answer # None /\ cmd = "idle" => answer.request = request

\* A fresh run simulates the compilation of the very diagram it was asked
\* for; a rerun, asked for with Fast Restart on, one of the same structure.
SessionInv ==
  /\ session # None \/ worker \in Running =>
       compiled \in Diagrams /\ session = Compile(compiled)
  /\ worker = "run" => compiled = request.diagram
  /\ worker = "rerun" =>
       request.fast /\ compiled.structure = request.diagram.structure

ReplyInv == Sound(reply) /\ Sound(answer)

IInv == ChannelInv /\ SessionInv /\ ReplyInv

-----------------------------------------------------------------------------

\* No override of a diagram has the name of an entry of the vector.
LEMMA NamesDiffer == \A p, q : FlatName(p) # OverrideName(q)
  BY DEF FlatName, OverrideName

\* Merging therefore leaves the vector of a compilation as it was.
LEMMA MergeKeeps ==
  ASSUME NEW c \in Diagrams, NEW d \in Diagrams
  PROVE  MergeParams(Baseline(c), Overrides(d)) = Baseline(c)
<1> DEFINE B == Baseline(c)
           O == Overrides(d)
<1>1. DOMAIN B = {FlatName(p) : p \in Params}
  BY DEF Baseline
<1>2. DOMAIN O = {OverrideName(p) : p \in {q \in Params : d.value[q] \in Numbers}}
  BY DEF Overrides
<1>3. \A n \in DOMAIN B : n \notin DOMAIN O
  BY <1>1, <1>2, NamesDiffer
<1>4. B = [n \in DOMAIN B |-> B[n]]
  BY DEF Baseline
<1>5. MergeParams(B, O) = [n \in DOMAIN B |-> B[n]]
  <2> HIDE DEF B, O
  <2> QED
    BY <1>3 DEF MergeParams
<1>6. QED
  BY <1>4, <1>5

\* A session computes with its own code and its own vector.
LEMMA ComputesItself ==
  ASSUME NEW c \in Diagrams, NEW d \in Diagrams
  PROVE  Computes(Compile(c), d) = Asked(c)
<1>1. Compile(c).baseline = Baseline(c) /\ Compile(c).code = Code(c)
  BY DEF Compile
<1>2. QED
  BY <1>1, MergeKeeps DEF Computes, Asked

\* What two diagrams ask of a parameter that has the same value in both.
LEMMA SameValueSame ==
  ASSUME NEW c \in Diagrams, NEW d \in Diagrams, NEW p \in Params,
         c.value[p] = d.value[p]
  PROVE  /\ Code(c).shaped[p] = Code(d).shaped[p]
         /\ Baseline(c)[FlatName(p)] = Baseline(d)[FlatName(p)]
<1>1. \A q \in Params : FlatName(q) = FlatName(p) => q = p
  BY DEF FlatName
<1>2. (CHOOSE q \in Params : FlatName(q) = FlatName(p)) = p
  BY <1>1
<1>3. FlatName(p) \in {FlatName(q) : q \in Params}
  OBVIOUS
<1>4. ASSUME NEW e \in Diagrams
      PROVE  Baseline(e)[FlatName(p)]
               = IF e.value[p] \in Numbers THEN e.value[p] ELSE Default
  <2>1. Baseline(e)[FlatName(p)]
          = LET q == CHOOSE q \in Params : FlatName(q) = FlatName(p)
            IN  IF e.value[q] \in Numbers THEN e.value[q] ELSE Default
    BY <1>3 DEF Baseline
  <2>2. QED
    BY <1>2, <2>1
<1>5. Code(c).shaped = [q \in Params |-> IF c.value[q] \in Codes THEN c.value[q] ELSE Blank]
  BY DEF Code
<1>6. Code(d).shaped = [q \in Params |-> IF d.value[q] \in Codes THEN d.value[q] ELSE Blank]
  BY DEF Code
<1>7. Code(c).shaped[p] = Code(d).shaped[p]
  BY <1>5, <1>6
<1>8. Baseline(c)[FlatName(p)] = Baseline(d)[FlatName(p)]
  BY <1>4
<1>9. QED
  BY <1>7, <1>8

-----------------------------------------------------------------------------

LEMMA InitInv == Init => IInv
  BY NoneAssumption DEF Init, IInv, ChannelInv, SessionInv, ReplyInv, Sound, Running

LEMMA NextChannel == ChannelInv /\ [Next]_vars => ChannelInv'
<1> SUFFICES ASSUME ChannelInv, [Next]_vars
             PROVE  ChannelInv'
  OBVIOUS
<1> USE NoneAssumption DEF ChannelInv, Running
<1>1. CASE Request
  <2>1. request' \in Requests /\ cmd' \in {"send", "forget"}
    BY <1>1 DEF Request
  <2>2. job = None /\ reply = None /\ worker \notin {"compile"} \union Running
    BY <1>1 DEF Request
  <2>3. QED
    BY <1>1, <2>1, <2>2 DEF Request
<1>2. CASE SendForget
  BY <1>2 DEF SendForget
<1>3. CASE Forgotten
  BY <1>3 DEF Forgotten
<1>4. CASE SendSimulate
  BY <1>4 DEF SendSimulate
<1>5. CASE ReceiveReply
  BY <1>5 DEF ReceiveReply
<1>6. CASE TakeForget
  BY <1>6 DEF TakeForget
<1>7. CASE TakeSimulate
  BY <1>7 DEF TakeSimulate
<1>8. CASE CompileOk
  BY <1>8 DEF CompileOk
<1>9. CASE CompileFails
  BY <1>9 DEF CompileFails
<1>10. CASE RunOk
  BY <1>10 DEF RunOk
<1>11. CASE RunFails
  BY <1>11 DEF RunFails
<1>12. CASE Panic
  BY <1>12 DEF Panic
<1>13. CASE UNCHANGED vars
  BY <1>13 DEF vars
<1>14. QED
  BY <1>1, <1>2, <1>3, <1>4, <1>5, <1>6, <1>7, <1>8, <1>9, <1>10, <1>11,
     <1>12, <1>13 DEF Next, Command, Work, Done

LEMMA NextSession == ChannelInv /\ SessionInv /\ [Next]_vars => SessionInv'
<1> SUFFICES ASSUME ChannelInv, SessionInv, [Next]_vars
             PROVE  SessionInv'
  OBVIOUS
<1> USE DEF SessionInv, Running
<1>1. CASE Request
  <2>1. worker \notin {"run", "rerun"}
    BY <1>1 DEF Request, ChannelInv
  <2>2. QED
    BY <1>1, <2>1 DEF Request
<1>2. CASE TakeSimulate /\ Reusable
  <2>1. session # None /\ session = Compile(compiled)
    BY <1>2 DEF Reusable
  <2>2. compiled.structure = request.diagram.structure
    BY <1>2, <2>1 DEF Reusable, Compile, StructureKey
  <2>3. worker' = "rerun" /\ request.fast
    BY <1>2 DEF TakeSimulate, Reusable
  <2>4. QED
    BY <1>2, <2>1, <2>2, <2>3 DEF TakeSimulate
<1>3. CASE TakeSimulate /\ ~Reusable
  BY <1>3 DEF TakeSimulate
<1>4. CASE CompileOk
  <2>1. request.diagram \in Diagrams
    BY <1>4 DEF CompileOk, Requests, ChannelInv
  <2>2. compiled' \in Diagrams /\ session' = Compile(compiled')
    BY <1>4, <2>1 DEF CompileOk
  <2>3. worker' = "run" /\ compiled' = request'.diagram
    BY <1>4 DEF CompileOk
  <2>4. QED
    BY <2>2, <2>3
<1>5. CASE TakeForget \/ CompileFails \/ RunOk \/ RunFails \/ Panic
  BY <1>5 DEF TakeForget, CompileFails, RunOk, RunFails, Panic
<1>6. CASE Command
  BY <1>6 DEF Command, SendForget, Forgotten, SendSimulate, ReceiveReply
<1>7. CASE UNCHANGED vars
  BY <1>7 DEF vars
<1>8. QED
  BY <1>1, <1>2, <1>3, <1>4, <1>5, <1>6, <1>7 DEF Next, Work, Done

\* Replies that report no run are sound.
LEMMA NoRunSound ==
  /\ \A e, q : Sound([error |-> e, request |-> q])
  /\ Sound([forgotten |-> TRUE])
  /\ Sound(None)
  BY DEF Sound

LEMMA RunOkSound ==
  ASSUME ChannelInv, SessionInv, RunOk
  PROVE  Sound(reply')
<1> USE DEF RunOk, Running
<1> DEFINE d == request.diagram
           r == [request |-> request, reused |-> worker = "rerun", from |-> compiled,
                 ran |-> Computes(session, request.diagram)]
<1>1. request \in Requests /\ d \in Diagrams
  BY DEF Requests, ChannelInv
<1>2. /\ session = Compile(compiled) /\ compiled \in Diagrams
      /\ compiled.structure = d.structure
      /\ worker = "run" => compiled = d
  BY <1>1 DEF SessionInv
<1>3. r.ran = Asked(compiled)
  BY <1>1, <1>2, ComputesItself
<1>4. Sound(r)
  BY <1>1, <1>2, <1>3 DEF Sound, SessionInv
<1>5. reply' = r
  OBVIOUS
<1>6. QED
  BY <1>4, <1>5

LEMMA NextReply ==
  ChannelInv /\ SessionInv /\ ReplyInv /\ [Next]_vars => ReplyInv'
<1> SUFFICES ASSUME ChannelInv, SessionInv, ReplyInv, [Next]_vars
             PROVE  Sound(reply') /\ Sound(answer')
  BY DEF ReplyInv, Sound
<1> USE NoRunSound DEF ReplyInv
<1>1. CASE RunOk
  BY <1>1, RunOkSound DEF RunOk
<1>2. CASE TakeForget \/ CompileFails \/ RunFails
  BY <1>2 DEF TakeForget, CompileFails, RunFails
<1>3. CASE Forgotten \/ SendSimulate \/ ReceiveReply
  BY <1>3 DEF Forgotten, SendSimulate, ReceiveReply
<1>4. CASE Request \/ SendForget \/ TakeSimulate \/ CompileOk \/ Panic
  BY <1>4 DEF Request, SendForget, TakeSimulate, CompileOk, Panic
<1>5. CASE UNCHANGED vars
  BY <1>5 DEF vars
<1>6. QED
  BY <1>1, <1>2, <1>3, <1>4, <1>5 DEF Next, Command, Work, Done

THEOREM Invariance == Spec => []IInv
<1>1. IInv /\ [Next]_vars => IInv'
  BY NextChannel, NextSession, NextReply DEF IInv
<1>2. QED
  BY InitInv, <1>1, PTL DEF Spec

\* A run that compiled computes with exactly its own diagram; a reused model has
\* the structure of its diagram, and computes with the diagram's value of every
\* parameter that has not been edited since it was compiled.  Those that have been
\* are an exception, which contradicts CHANGELOG.md:409 (see ReuseIgnored).
THEOREM AnswersSound == Spec => []AnswersAreSound
<1>1. IInv => FullRunIsExact
  BY DEF IInv, ReplyInv, Sound, Answered, FullRunIsExact
<1>2. ASSUME IInv, Answered
      PROVE  /\ answer.ran.code.structure = Asked(answer.request.diagram).code.structure
             /\ \A p \in Params \ EditedSince(answer) :
                  /\ answer.ran.code.shaped[p]
                       = Asked(answer.request.diagram).code.shaped[p]
                  /\ answer.ran.params[FlatName(p)]
                       = Asked(answer.request.diagram).params[FlatName(p)]
  <2> DEFINE c == answer.from
             d == answer.request.diagram
  <2>1. /\ c \in Diagrams /\ d \in Diagrams
        /\ answer.ran = Asked(c) /\ c.structure = d.structure
    BY <1>2 DEF IInv, ReplyInv, Sound, Answered, Requests
  <2>2. \A e : Asked(e).code = Code(e) /\ Asked(e).params = Baseline(e)
    BY DEF Asked
  <2>3. answer.ran.code.structure = Asked(d).code.structure
    <3>1. \A e : Code(e).structure = e.structure
      BY DEF Code
    <3>2. Asked(c).code.structure = c.structure /\ Asked(d).code.structure = d.structure
      BY <2>2, <3>1
    <3>3. QED
      BY <2>1, <3>2
  <2>4. ASSUME NEW p \in Params \ EditedSince(answer)
        PROVE  /\ answer.ran.code.shaped[p] = Asked(d).code.shaped[p]
               /\ answer.ran.params[FlatName(p)] = Asked(d).params[FlatName(p)]
    <3>1. c.value[p] = d.value[p]
      BY DEF EditedSince
    <3>2. QED
      BY <2>1, <2>2, <3>1, SameValueSame
  <2>5. QED
    BY <2>3, <2>4
<1>3. IInv => ReuseIsOfTheDiagram
  BY <1>2 DEF ReuseIsOfTheDiagram
<1>4. QED
  BY Invariance, <1>1, <1>3, PTL DEF AnswersAreSound

\* The promise of CHANGELOG.md:409 fails in every reused run: it computes exactly
\* what the diagram asked from which its model was compiled, not what was edited
\* since, however the overrides are chosen.
THEOREM ReuseIgnored == Spec => []ReuseIgnoresEdits
<1>1. IInv => ReuseIgnoresEdits
  BY DEF IInv, ReplyInv, Sound, Answered, ReuseIgnoresEdits
<1>2. QED
  BY Invariance, <1>1, PTL

\* Every answer is the answer to its own request, and the channel is clear
\* when a run is sent.
THEOREM AnswersMatch == Spec => []AnswersTheRequest
<1>1. IInv => AnswersTheRequest
  BY DEF IInv, ChannelInv, AnswersTheRequest
<1>2. QED
  BY Invariance, <1>1, PTL

=============================================================================
