-------------------------- MODULE StudioRun_proofs --------------------------
(***************************************************************************)
(* Page, command, thread and registry agree about the run under way, and   *)
(* the Pause button tells the truth: for any number of runs, passes,       *)
(* progress events, clicks and projects opened meanwhile, with any delay   *)
(* of events, replies and answers.                                         *)
(***************************************************************************)
EXTENDS StudioRun, SequenceTheorems, TLAPS

Requests == [op : Operations, id : RunIds]
Replies == [op : Operations, id : RunIds, ok : BOOLEAN]
Working == {"setup", "loop", "free", "over"}
Before == {"saving", "invoked", "resolve"}

(* Where the command is, its thread and its outcome are.                   *)
CommandInv ==
  /\ busy <=> phase # "idle"
  /\ answer <=> phase = "answered"
  /\ phase # "idle" => run # 0
  /\ phase \in Before \union {"idle"} => stage = "none" /\ outcome = "none"
  /\ phase = "answered" => stage \in {"none", "gone"}
  /\ phase = "thread" => stage # "none"

(* The registry holds the run that works, and runs whose thread panicked.  *)
RegistryInv ==
  /\ RegistryIsExact
  /\ phase \in Before => run \notin registered
  /\ \A r \in registered : r <= run
  /\ stage = "gone" /\ run \in registered =>
       outcome = "panic" /\ (kind \in FmuKinds => run \in leaked)

(* Of the events of a run under way the last is its own.                   *)
EventInv ==
  /\ runId <= run /\ \A i \in 1..Len(events) : events[i] <= run
  /\ phase \in {"resolve", "thread"} =>
       IF events = <<>> THEN runId = run \/ ("name" \in reset /\ runId = NoRun)
                        ELSE events[Len(events)] = run

(* A reply that sets the Pause button, and whether the page will show the  *)
(* flag when all replies are in: the last that sets the button agrees with *)
(* the flag, or none sets it and it agrees already, unless it was reset.   *)
Sets(p) == p.ok \/ p.op = "Stop"

WillShow ==
  /\ \A i \in 1..Len(replies) :
       Sets(replies[i]) /\ (\A j \in 1..Len(replies) : j > i => ~Sets(replies[j]))
         => (replies[i].op \in {"Pause", "Step"} <=> pause[run])
  /\ (\A i \in 1..Len(replies) : ~Sets(replies[i])) /\ "pause" \notin reset
       => (paused <=> pause[run])

AllOwn == \A i \in 1..Len(replies) : replies[i].id = run

PauseInv ==
  /\ \A r \in RunIds : r > run \/ (r = run /\ phase \in Before) => ~pause[r]
  /\ \A i \in 1..Len(requests) : requests[i].id <= run
  /\ \A i \in 1..Len(replies) : replies[i].id <= run
  /\ (run \in registered \/ phase \in Before) /\ ~crossed /\ AllOwn => WillShow

IInv == TypeOK /\ CommandInv /\ RegistryInv /\ EventInv /\ PauseInv

-----------------------------------------------------------------------------
(* Sequences.                                                              *)

LEMMA AppendFacts ==
  ASSUME NEW S, NEW q \in Seq(S), NEW e \in S
  PROVE  /\ Append(q, e) \in Seq(S) /\ Append(q, e) # <<>>
         /\ Len(q) \in Nat /\ Len(Append(q, e)) = Len(q) + 1
         /\ Append(q, e)[Len(q) + 1] = e
         /\ \A i \in 1..Len(q) : Append(q, e)[i] = q[i]
         /\ \A i \in 1..Len(Append(q, e)) : i \in 1..Len(q) \/ i = Len(q) + 1
<1>1. /\ Append(q, e) \in Seq(S) /\ Append(q, e) # <<>>
      /\ Len(Append(q, e)) = Len(q) + 1
      /\ Append(q, e)[Len(q) + 1] = e
      /\ \A i \in 1..Len(q) : Append(q, e)[i] = q[i]
  BY AppendProperties
<1>2. Len(q) \in Nat
  BY LenProperties
<1>3. QED
  BY <1>1, <1>2

LEMMA TailFacts ==
  ASSUME NEW S, NEW q \in Seq(S), q # <<>>
  PROVE  /\ Head(q) \in S /\ Head(q) = q[1] /\ 1 \in 1..Len(q)
         /\ Tail(q) \in Seq(S)
         /\ Len(q) \in Nat \ {0} /\ Len(Tail(q)) = Len(q) - 1
         /\ \A i \in 1..Len(Tail(q)) : i + 1 \in 1..Len(q) /\ Tail(q)[i] = q[i + 1]
         /\ Tail(q) = <<>> <=> Len(q) = 1
<1>1. Len(q) \in Nat \ {0}
  BY EmptySeq
<1>2. /\ Head(q) \in S /\ Tail(q) \in Seq(S)
      /\ Len(Tail(q)) = Len(q) - 1
      /\ \A i \in 1..Len(Tail(q)) : Tail(q)[i] = q[i + 1]
  BY HeadTailProperties
<1>3. Tail(q) = <<>> <=> Len(Tail(q)) = 0
  BY <1>2, EmptySeq
<1>4. QED
  BY <1>1, <1>2, <1>3

-----------------------------------------------------------------------------
(* Types.                                                                  *)

LEMMA RunIsAnId ==
  ASSUME TypeOK, CommandInv, phase # "idle"
  PROVE  run \in RunIds
  BY RunBoundsAssumption DEF TypeOK, CommandInv, RunIds

LEMMA TypeInit ==
  ASSUME Init
  PROVE  TypeOK
<1>1. /\ events \in Seq(RunIds)
      /\ requests \in Seq(Requests) /\ replies \in Seq(Replies)
  BY EmptySeq DEF Init
<1>2. 0 \in 0..MaxRuns /\ 0 \in 0..MaxPasses /\ 0 \in 0..MaxBeats /\ 0 \in 0..MaxClicks
  BY RunBoundsAssumption
<1>3. QED
  BY <1>1, <1>2 DEF Init, TypeOK, Requests, Replies, Phases, Stages, Outcomes

(* The page.                                                               *)
LEMMA TypePage ==
  ASSUME TypeOK, CommandInv,
         ClickRun \/ SaveFails \/ Invoke \/ ReceiveAnswer \/ Hear \/ HearReply
           \/ OpenProject
  PROVE  TypeOK'
<1> USE DEF TypeOK, page, command, thread, flags, channels, history
<1>1. CASE ClickRun
  <2>1. run' \in 0..MaxRuns
    BY <1>1, RunBoundsAssumption DEF ClickRun
  <2>2. QED
    BY <2>1, <1>1 DEF ClickRun, Phases
<1>2. CASE SaveFails
  BY <1>2 DEF SaveFails, Phases, RunIds
<1>3. CASE Invoke
  BY <1>3 DEF Invoke, Phases
<1>4. CASE ReceiveAnswer
  <2>1. 0 \in 0..MaxPasses /\ 0 \in 0..MaxBeats
    BY RunBoundsAssumption
  <2>2. QED
    BY <2>1, <1>4 DEF ReceiveAnswer, Phases, Stages, Outcomes
<1>5. CASE Hear
  <2>1. Head(events) \in RunIds /\ Tail(events) \in Seq(RunIds)
    BY <1>5, TailFacts DEF Hear
  <2>2. QED
    BY <2>1, <1>5 DEF Hear
<1>6. CASE HearReply
  <2>1. Head(replies) \in Replies /\ Tail(replies) \in Seq(Replies)
    BY <1>6, TailFacts DEF HearReply, Replies
  <2>2. PausedAfter(Head(replies)) \in BOOLEAN
    <3>1. \/ PausedAfter(Head(replies)) = FALSE
          \/ PausedAfter(Head(replies)) = (Head(replies).op \in {"Pause", "Step"})
          \/ PausedAfter(Head(replies)) = paused
      BY Zenon DEF PausedAfter
    <3>2. (Head(replies).op \in {"Pause", "Step"}) \in BOOLEAN
      OBVIOUS
    <3> HIDE DEF TypeOK
    <3>3. paused \in BOOLEAN
      BY DEF TypeOK
    <3>4. QED
      BY <3>1, <3>2, <3>3, Zenon
  <2>3. QED
    BY <2>1, <2>2, <1>6 DEF HearReply, Replies
<1>7. CASE OpenProject
  <2>1. clicks' \in 0..MaxClicks
    BY <1>7, RunBoundsAssumption DEF OpenProject
  <2>2. runId' \in RunIds \union {NoRun} /\ paused' \in BOOLEAN
        /\ reset' \subseteq {"name", "pause"}
    BY <1>7 DEF OpenProject
  <2>3. QED
    BY <2>1, <2>2, <1>7 DEF OpenProject
<1>8. QED
  BY <1>1, <1>2, <1>3, <1>4, <1>5, <1>6, <1>7

(* What a request does to the flags.                                       *)
LEMMA ApplyFacts ==
  ASSUME TypeOK, NEW op \in Operations, NEW r \in RunIds, Apply(op, r)
  PROVE  /\ cancel' \in [RunIds -> BOOLEAN] /\ stepOnce' \in [RunIds -> BOOLEAN]
         /\ pause' \in [RunIds -> BOOLEAN]
         /\ pause'[r] <=> op \in {"Pause", "Step"}
         /\ \A s \in RunIds \ {r} : pause'[s] = pause[s]
<1>1. /\ cancel' = [cancel EXCEPT ![r] = @ \/ op = "Stop"]
      /\ pause' = [pause EXCEPT ![r] = op \in {"Pause", "Step"}]
      /\ stepOnce' = [stepOnce EXCEPT ![r] = op \in {"Stop", "Step"} \/ (@ /\ op = "Pause")]
  BY DEF Apply
<1>2. /\ cancel \in [RunIds -> BOOLEAN] /\ pause \in [RunIds -> BOOLEAN]
      /\ stepOnce \in [RunIds -> BOOLEAN]
  BY DEF TypeOK
<1>3. cancel' \in [RunIds -> BOOLEAN]
  BY <1>1, <1>2
<1>4. stepOnce' \in [RunIds -> BOOLEAN]
  BY <1>1, <1>2
<1>5. pause' \in [RunIds -> BOOLEAN] /\ (pause'[r] <=> op \in {"Pause", "Step"})
  <2> DEFINE b == op \in {"Pause", "Step"}
  <2>1. b \in BOOLEAN
    OBVIOUS
  <2>2. pause' = [pause EXCEPT ![r] = b]
    BY <1>1
  <2> HIDE DEF b
  <2>3. pause' \in [RunIds -> BOOLEAN] /\ pause'[r] = b
    BY <2>1, <2>2, <1>2
  <2>4. pause'[r] <=> b
    BY <2>3
  <2>5. QED
    BY <2>3, <2>4 DEF b
<1>6. \A s \in RunIds \ {r} : pause'[s] = pause[s]
  BY <1>1, <1>2
<1>7. QED
  BY <1>3, <1>4, <1>5, <1>6

(* Clicks and control commands.                                            *)
LEMMA ServeFacts ==
  ASSUME TypeOK, Serve
  PROVE  LET q == Head(requests)
             p == [op |-> q.op, id |-> q.id, ok |-> q.id \in registered]
         IN  /\ q \in Requests /\ q.op \in Operations /\ q.id \in RunIds
             /\ q = requests[1] /\ 1 \in 1..Len(requests)
             /\ p \in Replies /\ replies' = Append(replies, p)
             /\ IF q.id \in registered THEN Apply(q.op, q.id) ELSE UNCHANGED flags
             /\ requests' = Tail(requests) /\ requests' \in Seq(Requests)
<1>1. requests # <<>> /\ requests \in Seq(Requests)
  BY DEF Serve, TypeOK, Requests
<1>2. /\ Head(requests) \in Requests /\ Head(requests) = requests[1]
      /\ 1 \in 1..Len(requests) /\ Tail(requests) \in Seq(Requests)
  BY <1>1, TailFacts
<1>3. Head(requests).op \in Operations /\ Head(requests).id \in RunIds
  BY <1>2 DEF Requests
<1>4. QED
  BY <1>2, <1>3 DEF Serve, Replies

LEMMA TypeControl ==
  ASSUME TypeOK, Serve \/ \E op \in Operations : Click(op)
  PROVE  TypeOK'
<1> USE DEF page, command, thread, flags, channels, history
<1>1. CASE Serve
  <2>1. /\ requests' \in Seq(Requests)
        /\ replies' \in Seq(Replies)
        /\ accepted' \in BOOLEAN
    <3>1. replies \in Seq(Replies)
      BY DEF TypeOK, Replies
    <3>2. replies' \in Seq(Replies)
      <4> DEFINE q == Head(requests)
                 p == [op |-> q.op, id |-> q.id, ok |-> q.id \in registered]
      <4>1. p \in Replies /\ replies' = Append(replies, p)
        BY <1>1, ServeFacts
      <4> HIDE DEF p
      <4>2. QED
        BY <4>1, <3>1, AppendFacts
    <3>3. accepted' \in BOOLEAN
      BY <1>1 DEF Serve, TypeOK
    <3>4. QED
      BY <3>2, <3>3, <1>1, ServeFacts
  <2>2. /\ cancel' \in [RunIds -> BOOLEAN] /\ stepOnce' \in [RunIds -> BOOLEAN]
        /\ pause' \in [RunIds -> BOOLEAN]
    <3>1. CASE Head(requests).id \in registered
      BY <3>1, <1>1, ServeFacts, ApplyFacts
    <3>2. CASE Head(requests).id \notin registered
      BY <3>2, <1>1, ServeFacts DEF TypeOK
    <3>3. QED
      BY <3>1, <3>2
  <2>3. QED
    BY <2>1, <2>2, <1>1 DEF Serve, TypeOK, Requests, Replies
<1>2. ASSUME NEW op \in Operations, Click(op)
      PROVE  TypeOK'
  <2>1. [op |-> op, id |-> runId] \in Requests
    BY <1>2 DEF Click, Enabled, TypeOK, Requests
  <2>2. requests' \in Seq(Requests)
    BY <2>1, <1>2, AppendFacts DEF Click, TypeOK, Requests
  <2>3. clicks' \in 0..MaxClicks
    BY <1>2, RunBoundsAssumption DEF Click, TypeOK
  <2>4. QED
    BY <2>2, <2>3, <1>2 DEF Click, TypeOK, Requests
<1>3. QED
  BY <1>1, <1>2

(* The command.                                                            *)
LEMMA TypeCommand ==
  ASSUME TypeOK, CommandInv, Command \/ Beat
  PROVE  TypeOK'
<1>1. phase # "idle"
  BY DEF Command, Announce, ResolveFails, Register, Join, Beat
<1>2. run \in RunIds
  BY <1>1, RunIsAnId
<1>3. events' \in Seq(RunIds)
  <2>1. events' = events \/ events' = Append(events, run)
    BY DEF Command, Announce, ResolveFails, Register, Join, Beat
  <2>2. QED
    <3>1. events \in Seq(RunIds)
      BY DEF TypeOK
    <3>2. Append(events, run) \in Seq(RunIds)
      BY <3>1, <1>2, AppendFacts
    <3>3. QED
      BY <3>1, <3>2, <2>1
<1>4. registered' \subseteq RunIds
  <2>1. registered' \subseteq registered \union {run}
    BY DEF Command, Announce, ResolveFails, Register, Join, Beat
  <2>2. QED
    BY <2>1, <1>2 DEF TypeOK
<1> USE DEF TypeOK, CommandOnly, page, thread, flags, history
<1>5. CASE Announce
  BY <1>5, <1>3, <1>4 DEF Announce, Phases
<1>6. CASE ResolveFails
  BY <1>6, <1>3, <1>4 DEF ResolveFails, Phases, Outcomes
<1>7. CASE Register
  BY <1>7, <1>3, <1>4 DEF Register, Phases, Stages
<1>8. CASE Join
  BY <1>8, <1>3, <1>4 DEF Join, Phases
<1>9. CASE Beat
  BY <1>9, <1>3, <1>4, RunBoundsAssumption DEF Beat
<1>10. QED
  BY <1>5, <1>6, <1>7, <1>8, <1>9 DEF Command

(* The thread.                                                             *)
LEMMA TypeThread ==
  ASSUME TypeOK, CommandInv, Thread \/ Panic
  PROVE  TypeOK'
<1> USE DEF TypeOK, ThreadOnly, page, command, channels, flags, Stages, Outcomes
<1>1. left > 0 => left - 1 \in 0..MaxPasses
  BY RunBoundsAssumption
<1>2. ASSUME NEW o \in Outcomes, Fail(o)
      PROVE  stage' \in Stages /\ left' \in 0..MaxPasses /\ outcome' \in Outcomes
  BY <1>2 DEF Fail, End
<1>3. ASSUME PollPasses
      PROVE  /\ cancel' = cancel /\ pause' = pause
             /\ stepOnce' \in [RunIds -> BOOLEAN]
  BY <1>3 DEF PollPasses
<1>4. CASE SetUp
  BY <1>4 DEF SetUp
<1>5. CASE SetUpFails
  BY <1>5, <1>2 DEF SetUpFails
<1>6. CASE Pass
  BY <1>6, <1>1, <1>3 DEF Pass, PollPasses
<1>7. CASE LastPass
  BY <1>7, <1>2, <1>3 DEF LastPass, End
<1>8. CASE HonourCancel
  BY <1>8, <1>2 DEF HonourCancel
<1>9. CASE FreePass
  BY <1>9, <1>1 DEF FreePass
<1>10. CASE FreePassFails
  BY <1>10, <1>2 DEF FreePassFails
<1>11. CASE Finish
  BY <1>11 DEF Finish, End
<1>12. CASE Unregister
  BY <1>12 DEF Unregister
<1>13. CASE Panic
  <2>1. leaked' \subseteq RunIds
    <3>1. phase # "idle"
      BY <1>13 DEF Panic, CommandInv
    <3>2. QED
      BY <3>1, <1>13, RunIsAnId DEF Panic
  <2>2. QED
    BY <2>1, <1>13 DEF Panic
<1>14. QED
  BY <1>4, <1>5, <1>6, <1>7, <1>8, <1>9, <1>10, <1>11, <1>12, <1>13 DEF Thread

LEMMA TypeStep ==
  ASSUME TypeOK, CommandInv, Next
  PROVE  TypeOK'
<1>1. CASE Rest
  BY <1>1 DEF Rest, vars, page, command, thread, flags, channels, history, TypeOK
<1>2. QED
  BY <1>1, TypePage, TypeControl, TypeCommand, TypeThread DEF Next, User, Save

-----------------------------------------------------------------------------
(* What the actions leave alone, apart from types.                         *)

LEMMA ControlFrame ==
  ASSUME Serve \/ Hear \/ HearReply \/ Beat \/ Rest \/ OpenProject
           \/ \E op \in Operations : Click(op)
  PROVE  UNCHANGED <<busy, answer, phase, run, kind, stage, outcome, leaked, registered>>
  BY DEF Serve, Hear, HearReply, OpenProject, Beat, CommandOnly, Rest, Click, vars, page, command, thread, history

LEMMA ThreadFrame ==
  ASSUME Thread \/ Panic
  PROVE  /\ UNCHANGED <<busy, runId, paused, run, kind, phase, events, requests, replies,
                        answer, crossed, accepted, reset>>
         /\ stage \in Working /\ stage' # "none"
  BY DEF Thread, Panic, SetUp, SetUpFails, Pass, LastPass, HonourCancel, FreePass,
         FreePassFails, Finish, Unregister, ThreadOnly, PollPasses, Fail, End, Working,
         page, command, channels

LEMMA CommandStep ==
  ASSUME TypeOK, CommandInv, Next
  PROVE  CommandInv'
<1>1. CASE Serve \/ Hear \/ HearReply \/ Beat \/ Rest \/ OpenProject
           \/ \E op \in Operations : Click(op)
  BY <1>1, ControlFrame DEF CommandInv
<1>2. CASE Thread \/ Panic
  <2>1. phase = "thread"
    BY <1>2, ThreadFrame DEF CommandInv, TypeOK, Phases, Before, Working
  <2>2. QED
    <3>1. UNCHANGED <<busy, answer, run, phase>> /\ stage' # "none"
      BY <1>2, ThreadFrame
    <3>2. QED
      BY <2>1, <3>1 DEF CommandInv, Before
<1>3. CASE ClickRun
  <2>1. run' # 0
    BY <1>3 DEF ClickRun, TypeOK
  <2>2. QED
    BY <2>1, <1>3 DEF ClickRun, CommandInv, Before, thread
<1>4. CASE SaveFails \/ Invoke
  BY <1>4 DEF SaveFails, Invoke, CommandInv, Before, page, thread, history
<1>5. CASE ReceiveAnswer
  BY <1>5 DEF ReceiveAnswer, CommandInv, Before
<1>6. CASE Command
  <2> USE DEF CommandOnly, CommandInv, Before, page, thread, history
  <2>1. CASE Announce
    BY <2>1 DEF Announce
  <2>2. CASE ResolveFails
    BY <2>2 DEF ResolveFails
  <2>3. CASE Register
    BY <2>3 DEF Register
  <2>4. CASE Join
    BY <2>4 DEF Join
  <2>5. QED
    BY <1>6, <2>1, <2>2, <2>3, <2>4 DEF Command
<1>7. QED
  BY <1>1, <1>2, <1>3, <1>4, <1>5, <1>6 DEF Next, User, Save

-----------------------------------------------------------------------------
(* The registry.                                                           *)

LEMMA RegistryStep ==
  ASSUME TypeOK, CommandInv, RegistryInv, Next
  PROVE  RegistryInv'
<1> USE DEF RegistryInv, RegistryIsExact
<1>1. CASE Serve \/ Hear \/ HearReply \/ Beat \/ Rest \/ OpenProject
           \/ \E op \in Operations : Click(op)
  BY <1>1, ControlFrame
<1>2. CASE Panic
  <2>1. /\ UNCHANGED <<run, kind, phase, registered>>
        /\ stage' = "gone" /\ outcome' = "panic" /\ stage \in {"setup", "loop", "free"}
        /\ leaked' = IF kind \in FmuKinds THEN leaked \union {run} ELSE leaked
    BY <1>2, ThreadFrame DEF Panic
  <2>2. QED
    BY <2>1
<1>3. CASE Unregister
  <2>1. /\ UNCHANGED <<run, kind, phase, leaked>>
        /\ stage' = "gone" /\ registered' = registered \ {run}
    BY <1>3, ThreadFrame DEF Unregister, Thread
  <2>2. QED
    BY <2>1
<1>4. CASE Thread /\ ~Unregister
  <2>1. /\ UNCHANGED <<run, kind, phase, leaked, registered>>
        /\ stage \in Working \ {"over"} /\ stage' \in Working
    BY <1>4, ThreadFrame DEF Thread, SetUp, SetUpFails, Pass, LastPass, HonourCancel,
       FreePass, FreePassFails, Finish, PollPasses, Fail, End, Working
  <2>2. QED
    BY <2>1 DEF Working
<1>5. CASE ClickRun
  <2>1. /\ phase = "idle" /\ phase' = "saving" /\ run' = run + 1 /\ stage' = "none"
        /\ UNCHANGED <<kind, registered, leaked>> /\ run \in Nat
    BY <1>5 DEF ClickRun, thread, CommandInv, TypeOK
  <2>2. \A r \in registered : r \in leaked /\ r \in Nat /\ r <= run
    BY <2>1 DEF TypeOK, RunIds
  <2>3. QED
    BY <2>1, <2>2
<1>6. CASE SaveFails \/ Invoke
  BY <1>6 DEF SaveFails, Invoke, CommandInv, Before, thread, history
<1>7. CASE ReceiveAnswer
  BY <1>7 DEF ReceiveAnswer, CommandInv, Before
<1>8. CASE Announce \/ ResolveFails
  BY <1>8 DEF Announce, ResolveFails, CommandOnly, CommandInv, Before, thread, history
<1>9. CASE Register
  <2>1. /\ phase = "resolve" /\ phase' = "thread" /\ stage' = "setup"
        /\ registered' = registered \union {run} /\ UNCHANGED <<run, kind, leaked>>
        /\ run \in Nat
    BY <1>9 DEF Register, CommandOnly, history, TypeOK
  <2>2. QED
    BY <2>1 DEF Before
<1>10. CASE Join
  <2>1. /\ phase = "thread" /\ stage = "gone" /\ phase' = "answered"
        /\ UNCHANGED <<run, kind, leaked, stage, outcome>>
        /\ registered' = IF outcome = "panic" /\ kind \notin FmuKinds
                           THEN registered \ {run} ELSE registered
    BY <1>10 DEF Join, CommandOnly, history, thread
  <2>2. QED
    BY <2>1 DEF Before
<1>11. QED
  BY <1>1, <1>2, <1>3, <1>4, <1>5, <1>6, <1>7, <1>8, <1>9, <1>10
     DEF Next, User, Save, Command

-----------------------------------------------------------------------------
(* The events.                                                             *)

LEMMA EventStep ==
  ASSUME TypeOK, CommandInv, EventInv, Next
  PROVE  EventInv'
<1>1. /\ events \in Seq(RunIds) /\ runId \in Nat /\ run \in Nat
      /\ Len(events) \in Nat /\ \A i \in 1..Len(events) : events[i] \in RunIds
  <2>1. events \in Seq(RunIds)
    BY DEF TypeOK
  <2>2. Len(events) \in Nat /\ \A i \in 1..Len(events) : events[i] \in RunIds
    BY <2>1, LenProperties, ElementOfSeq
  <2>3. QED
    BY <2>1, <2>2 DEF TypeOK, RunIds, NoRun
<1>2. ASSUME UNCHANGED <<runId, run, events>>,
             "name" \in reset => "name" \in reset',
             phase' \in {"resolve", "thread"} => phase \in {"resolve", "thread"}
      PROVE  EventInv'
  BY <1>2 DEF EventInv
<1>3. ASSUME phase # "idle", UNCHANGED <<runId, run>>, events' = Append(events, run)
      PROVE  EventInv'
  <2>1. run \in RunIds
    BY <1>3, RunIsAnId
  <2>2. /\ events' # <<>> /\ Len(events') = Len(events) + 1
        /\ events'[Len(events) + 1] = run
        /\ \A i \in 1..Len(events) : events'[i] = events[i]
        /\ \A i \in 1..Len(events') : i \in 1..Len(events) \/ i = Len(events) + 1
    BY <2>1, <1>1, <1>3, AppendFacts
  <2>3. \A i \in 1..Len(events') : events'[i] <= run
    BY <2>2, <1>1 DEF EventInv
  <2>4. QED
    BY <2>2, <2>3, <1>3 DEF EventInv
<1>4. CASE Serve \/ HearReply \/ Rest \/ \E op \in Operations : Click(op)
  <2>1. UNCHANGED <<runId, run, events, phase>> /\ ("name" \in reset => "name" \in reset')
    BY <1>4 DEF Serve, HearReply, Rest, Click, vars, page, command, channels, history
  <2>2. QED
    BY <2>1, <1>2
<1>5. CASE Thread \/ Panic
  BY <1>5, <1>2, ThreadFrame
<1>6. CASE SaveFails \/ ReceiveAnswer
  <2>1. phase' = "idle" /\ runId' = NoRun /\ UNCHANGED <<run, events>>
    BY <1>6 DEF SaveFails, ReceiveAnswer, channels
  <2>2. QED
    BY <2>1, <1>1 DEF EventInv, NoRun
<1>7. CASE ClickRun
  <2>1. phase' = "saving" /\ run' = run + 1 /\ UNCHANGED <<runId, events>>
    BY <1>7 DEF ClickRun, channels
  <2>2. QED
    BY <2>1, <1>1 DEF EventInv, RunIds
<1>8. CASE Invoke \/ ResolveFails
  BY <1>8, <1>2 DEF Invoke, ResolveFails, CommandOnly, page, channels, history
<1>9. CASE Hear
  <2>1. /\ events # <<>> /\ events' = Tail(events) /\ runId' = Head(events)
        /\ UNCHANGED <<run, phase>>
    BY <1>9 DEF Hear, command
  <2>2. /\ Head(events) = events[1] /\ 1 \in 1..Len(events)
        /\ Len(events) \in Nat \ {0} /\ Len(Tail(events)) = Len(events) - 1
        /\ \A i \in 1..Len(Tail(events)) :
             i + 1 \in 1..Len(events) /\ Tail(events)[i] = events[i + 1]
        /\ Tail(events) = <<>> <=> Len(events) = 1
    BY <2>1, <1>1, TailFacts
  <2>3. runId' <= run /\ \A i \in 1..Len(events') : events'[i] <= run
    BY <2>1, <2>2 DEF EventInv
  <2>4. CASE Len(events) = 1
    BY <2>1, <2>2, <2>3, <2>4 DEF EventInv
  <2>5. CASE Len(events) # 1
    <3>1. Tail(events)[Len(Tail(events))] = events[Len(events)]
      BY <2>2, <2>5
    <3>2. QED
      BY <2>1, <2>2, <2>3, <2>5, <3>1 DEF EventInv
  <2>6. QED
    BY <2>4, <2>5
<1>10. CASE Announce \/ Beat
  <2>1. phase # "idle" /\ UNCHANGED <<runId, run>> /\ events' = Append(events, run)
    BY <1>10 DEF Announce, Beat, CommandOnly, page
  <2>2. QED
    BY <2>1, <1>3
<1>11. CASE Register \/ Join
  <2>1. /\ phase \in {"resolve", "thread"} /\ UNCHANGED <<runId, run>>
        /\ events' = events \/ events' = Append(events, run)
    BY <1>11 DEF Register, Join, CommandOnly, page
  <2>2. reset' = reset
    BY <1>11 DEF Register, Join, CommandOnly, history
  <2>3. QED
    BY <2>1, <2>2, <1>2, <1>3
<1>12. CASE OpenProject
  <2>1. runId' = NoRun /\ "name" \in reset' /\ UNCHANGED <<run, phase, events>>
    BY <1>12 DEF OpenProject, command, channels
  <2>2. QED
    BY <2>1, <1>1 DEF EventInv, NoRun
<1>13. QED
  BY <1>4, <1>5, <1>6, <1>7, <1>8, <1>9, <1>10, <1>11, <1>12 DEF Next, User, Save, Command

-----------------------------------------------------------------------------
(* The flag and the button.                                                *)

LEMMA QueueFacts ==
  ASSUME TypeOK
  PROVE  /\ requests \in Seq(Requests) /\ replies \in Seq(Replies)
         /\ Len(requests) \in Nat /\ Len(replies) \in Nat
         /\ \A i \in 1..Len(requests) : requests[i].id \in RunIds
         /\ \A i \in 1..Len(replies) : /\ replies[i].id \in RunIds
                                       /\ replies[i].ok \in BOOLEAN
         /\ run \in Nat
<1>1. requests \in Seq(Requests) /\ replies \in Seq(Replies) /\ run \in Nat
  BY DEF TypeOK, Requests, Replies
<1>2. Len(requests) \in Nat /\ Len(replies) \in Nat
  BY <1>1, LenProperties
<1>3. \A i \in 1..Len(requests) : requests[i] \in Requests
  BY <1>1, ElementOfSeq
<1>4. \A i \in 1..Len(replies) : replies[i] \in Replies
  BY <1>1, ElementOfSeq
<1>5. QED
  BY <1>1, <1>2, <1>3, <1>4 DEF Requests, Replies

(* Nothing happens to either.                                              *)
LEMMA PauseFrame ==
  ASSUME PauseInv, UNCHANGED <<pause, paused, requests, replies, run, crossed>>,
         "pause" \in reset => "pause" \in reset',
         phase' \in Before => phase \in Before,
         run \in registered' => run \in registered \/ phase \in Before
  PROVE  PauseInv'
<1>1. WillShow => WillShow'
  BY DEF WillShow, Sets
<1>2. AllOwn' => AllOwn
  BY DEF AllOwn
<1>3. QED
  BY <1>1, <1>2 DEF PauseInv

LEMMA PauseClicks ==
  ASSUME TypeOK, EventInv, PauseInv, NEW op \in Operations, Click(op)
  PROVE  PauseInv'
<1>1. /\ requests' = Append(requests, [op |-> op, id |-> runId])
      /\ UNCHANGED <<pause, paused, replies, run, crossed, phase, registered, reset>>
      /\ [op |-> op, id |-> runId] \in Requests /\ runId <= run
  BY DEF Click, Enabled, page, command, flags, history, TypeOK, Requests, EventInv
<1>2. /\ requests'[Len(requests) + 1] = [op |-> op, id |-> runId]
      /\ \A i \in 1..Len(requests) : requests'[i] = requests[i]
      /\ \A i \in 1..Len(requests') : i \in 1..Len(requests) \/ i = Len(requests) + 1
  BY <1>1, QueueFacts, AppendFacts
<1>3. \A i \in 1..Len(requests') : requests'[i].id <= run'
  BY <1>1, <1>2 DEF PauseInv
<1>4. WillShow => WillShow'
  BY <1>1 DEF WillShow, Sets
<1>5. AllOwn' => AllOwn
  BY <1>1 DEF AllOwn
<1>6. QED
  BY <1>1, <1>3, <1>4, <1>5 DEF PauseInv

LEMMA PauseServes ==
  ASSUME TypeOK, CommandInv, RegistryInv, PauseInv, Serve
  PROVE  PauseInv'
<1> DEFINE q == Head(requests)
           p == [op |-> q.op, id |-> q.id, ok |-> q.id \in registered]
           n == Len(replies)
<1>1. /\ q.op \in Operations /\ q.id \in RunIds /\ q.id <= run
      /\ p \in Replies /\ replies' = Append(replies, p)
      /\ requests' = Tail(requests) /\ requests # <<>>
      /\ UNCHANGED <<paused, run, phase, registered, crossed, reset>>
  BY ServeFacts DEF Serve, page, command, PauseInv
<1>2. /\ q.id \in registered => Apply(q.op, q.id)
      /\ q.id \notin registered => pause' = pause
  BY ServeFacts DEF flags
<1>3. /\ q.id \in registered => (pause'[q.id] <=> q.op \in {"Pause", "Step"})
      /\ \A r \in RunIds : r # q.id \/ q.id \notin registered => pause'[r] = pause[r]
  BY <1>1, <1>2, ApplyFacts
<1>4. /\ p.op = q.op /\ p.id = q.id /\ (p.ok <=> q.id \in registered)
  OBVIOUS
<1> HIDE DEF p, q
<1>5. /\ n \in Nat /\ Len(replies') = n + 1 /\ replies'[n + 1] = p
      /\ \A i \in 1..n : replies'[i] = replies[i]
  BY <1>1, QueueFacts, AppendFacts
<1>6. \A i \in 1..Len(requests') : requests'[i].id <= run'
  <2>1. \A i \in 1..Len(Tail(requests)) :
          i + 1 \in 1..Len(requests) /\ Tail(requests)[i] = requests[i + 1]
    BY <1>1, QueueFacts, TailFacts
  <2>2. QED
    BY <1>1, <2>1 DEF PauseInv
<1>7. \A i \in 1..Len(replies') : replies'[i].id <= run'
  <2>1. \A i \in 1..Len(replies') : i \in 1..n \/ i = n + 1
    BY <1>5
  <2>2. QED
    BY <2>1, <1>1, <1>4, <1>5 DEF PauseInv
<1>8. \A r \in RunIds : r > run' \/ (r = run' /\ phase' \in Before) => ~pause'[r]
  <2>1. TAKE r \in RunIds
  <2>2. HAVE r > run' \/ (r = run' /\ phase' \in Before)
  <2>3. ~pause[r]
    BY <2>2, <1>1 DEF PauseInv
  <2>4. r # q.id \/ q.id \notin registered
    BY <2>2, <1>1, QueueFacts DEF RegistryInv, RunIds
  <2>5. QED
    BY <2>3, <2>4, <1>3
<1>9. ASSUME run' \in registered' \/ phase' \in Before, ~crossed', AllOwn'
      PROVE  WillShow'
  <2>1. p.id = run
    BY <1>1, <1>5, <1>9 DEF AllOwn
  <2>2. AllOwn
    <3>1. \A i \in 1..n : i \in 1..Len(replies')
      BY <1>5
    <3>2. QED
      BY <3>1, <1>1, <1>5, <1>9 DEF AllOwn
  <2>3. WillShow
    BY <2>2, <1>1, <1>9 DEF PauseInv
  <2>4. CASE run \in registered
    <3>1. Sets(p)
      BY <2>1, <2>4, <1>4 DEF Sets
    <3>2. pause'[run] <=> p.op \in {"Pause", "Step"}
      BY <2>1, <2>4, <1>3, <1>4
    <3>3. \A i \in 1..Len(replies') : i = n + 1 \/ n + 1 > i
      BY <1>5
    <3>4. n + 1 \in 1..Len(replies')
      BY <1>5
    <3>5. QED
      BY <3>1, <3>2, <3>3, <3>4, <1>1, <1>5 DEF WillShow, Sets
  <2>5. CASE run \notin registered
    <3>1. phase \in Before /\ ~p.ok /\ run \in RunIds /\ ~pause[run] /\ pause'[run] = pause[run]
      <4>1. phase \in Before
        BY <2>5, <1>1, <1>9
      <4>2. run \in RunIds
        BY <4>1, RunIsAnId DEF Before
      <4>3. ~pause[run]
        BY <4>1, <4>2 DEF PauseInv
      <4>4. QED
        BY <4>1, <4>2, <4>3, <2>1, <2>5, <1>3, <1>4
    <3>2. Sets(p) => p.op \notin {"Pause", "Step"}
      BY <3>1 DEF Sets
    <3>3. \A i \in 1..Len(replies') : i \in 1..n \/ i = n + 1
      BY <1>5
    <3>4. \A i \in 1..n : i \in 1..Len(replies')
      BY <1>5
    <3>5. ASSUME NEW i \in 1..Len(replies'), Sets(replies'[i]),
                 \A j \in 1..Len(replies') : j > i => ~Sets(replies'[j])
          PROVE  replies'[i].op \in {"Pause", "Step"} <=> pause'[run]
      <4>1. CASE i = n + 1
        BY <4>1, <3>1, <3>2, <3>5, <1>5
      <4>2. CASE i \in 1..n
        <5>1. Sets(replies[i]) /\ \A j \in 1..n : j > i => ~Sets(replies[j])
          BY <4>2, <3>4, <3>5, <1>5
        <5>2. QED
          BY <5>1, <4>2, <2>3, <3>1, <1>5 DEF WillShow
      <4>3. QED
        BY <4>1, <4>2, <3>3
    <3>6. ASSUME \A i \in 1..Len(replies') : ~Sets(replies'[i]), "pause" \notin reset'
          PROVE  paused' <=> pause'[run]
      <4>1. \A i \in 1..n : ~Sets(replies[i])
        BY <3>4, <3>6, <1>5
      <4>2. "pause" \notin reset
        BY <3>6, <1>1
      <4>3. paused <=> pause[run]
        BY <4>1, <4>2, <2>3 DEF WillShow
      <4>4. QED
        BY <4>3, <3>1, <1>1
    <3>7. QED
      BY <3>5, <3>6, <1>1 DEF WillShow, Sets
  <2>6. QED
    BY <2>4, <2>5
<1>10. QED
  BY <1>6, <1>7, <1>8, <1>9 DEF PauseInv

LEMMA PauseHears ==
  ASSUME TypeOK, PauseInv, HearReply
  PROVE  PauseInv'
<1> DEFINE h == Head(replies)
           n == Len(replies)
<1>1. /\ replies # <<>> /\ replies' = Tail(replies)
      /\ paused' = PausedAfter(h)
      /\ crossed' = (crossed \/ h.id # run)
      /\ reset' = IF h.ok THEN reset \ {"pause"} ELSE reset
      /\ UNCHANGED <<pause, requests, run, phase, registered>>
  BY DEF HearReply, command, flags
<1>2. /\ h = replies[1] /\ 1 \in 1..n /\ n \in Nat \ {0} /\ Len(replies') = n - 1
      /\ \A i \in 1..Len(replies') : i + 1 \in 1..n /\ replies'[i] = replies[i + 1]
  BY <1>1, QueueFacts, TailFacts
<1>3. \A i \in 1..n : i = 1 \/ (i - 1 \in 1..Len(replies') /\ replies[i] = replies'[i - 1])
  BY <1>2
<1> HIDE DEF h
<1>4. \A i \in 1..Len(replies') : replies'[i].id <= run'
  BY <1>1, <1>2 DEF PauseInv
<1>5. ASSUME run' \in registered' \/ phase' \in Before, ~crossed', AllOwn'
      PROVE  WillShow'
  <2>1. ~crossed /\ h.id = run
    BY <1>1, <1>5
  <2>2. AllOwn
    BY <2>1, <1>1, <1>2, <1>3, <1>5 DEF AllOwn
  <2>3. WillShow
    BY <2>1, <2>2, <1>1, <1>5 DEF PauseInv
  <2>4. ASSUME NEW i \in 1..Len(replies'), Sets(replies'[i]),
               \A j \in 1..Len(replies') : j > i => ~Sets(replies'[j])
        PROVE  replies'[i].op \in {"Pause", "Step"} <=> pause'[run]
    <3>1. i + 1 \in 1..n /\ replies'[i] = replies[i + 1]
      BY <1>2
    <3>2. \A j \in 1..n : j > i + 1 => ~Sets(replies[j])
      <4>1. TAKE j \in 1..n
      <4>2. HAVE j > i + 1
      <4>3. j - 1 \in 1..Len(replies') /\ replies[j] = replies'[j - 1] /\ j - 1 > i
        BY <4>2, <1>3
      <4>4. QED
        BY <4>3, <2>4
    <3>3. QED
      BY <3>1, <3>2, <2>3, <2>4, <1>1 DEF WillShow
  <2>5. ASSUME \A i \in 1..Len(replies') : ~Sets(replies'[i]), "pause" \notin reset'
        PROVE  paused' <=> pause'[run]
    <3>1. \A i \in 1..n : i = 1 \/ ~Sets(replies[i])
      BY <2>5, <1>3
    <3>2. CASE Sets(h)
      <4>1. h.op \in {"Pause", "Step"} <=> pause[run]
        BY <3>1, <3>2, <2>3, <1>2 DEF WillShow
      <4>2. PausedAfter(h) <=> h.op \in {"Pause", "Step"}
        BY <3>2 DEF PausedAfter, Sets
      <4>3. QED
        BY <4>1, <4>2, <1>1
    <3>3. CASE ~Sets(h)
      <4>1. \A i \in 1..n : ~Sets(replies[i])
        BY <3>1, <3>3, <1>2
      <4>2. paused <=> pause[run]
        BY <4>1, <3>3, <2>3, <2>5, <1>1 DEF WillShow, Sets
      <4>3. PausedAfter(h) = paused
        BY <3>3 DEF PausedAfter, Sets
      <4>4. QED
        BY <4>2, <4>3, <1>1
    <3>4. QED
      BY <3>2, <3>3
  <2>6. QED
    BY <2>4, <2>5, <1>1 DEF WillShow, Sets
<1>6. QED
  BY <1>1, <1>4, <1>5 DEF PauseInv

(* A new run starts with the flag down and the button up.                  *)
LEMMA PauseStarts ==
  ASSUME TypeOK, PauseInv, ClickRun
  PROVE  PauseInv'
<1>1. /\ run' = run + 1 /\ phase' = "saving" /\ paused' = FALSE
      /\ run' \in RunIds
      /\ UNCHANGED <<pause, requests, replies, registered>>
  BY RunBoundsAssumption DEF ClickRun, TypeOK, RunIds, flags, channels
<1>2. run \in Nat /\ \A r \in RunIds : r \in Nat
  BY QueueFacts, RunBoundsAssumption DEF RunIds
<1>3. \A r \in RunIds : r > run' \/ r = run' => ~pause[r]
  <2>1. \A r \in RunIds : r > run' \/ r = run' => r > run
    BY <1>2, <1>1
  <2>2. QED
    BY <2>1 DEF PauseInv
<1>4. /\ \A i \in 1..Len(requests) : requests[i].id <= run'
      /\ \A i \in 1..Len(replies) : replies[i].id <= run /\ replies[i].id <= run'
                                    /\ replies[i].id # run'
  <2>1. \A r \in RunIds : r <= run => r <= run' /\ r # run'
    BY <1>2, <1>1
  <2>2. QED
    BY <2>1, QueueFacts DEF PauseInv
<1>5. AllOwn' => \A i \in 1..Len(replies') : FALSE
  BY <1>1, <1>4 DEF AllOwn
<1>6. AllOwn' => WillShow'
  BY <1>1, <1>3, <1>5 DEF WillShow
<1>7. QED
  BY <1>1, <1>3, <1>4, <1>6 DEF PauseInv

LEMMA PauseStep ==
  ASSUME TypeOK, CommandInv, RegistryInv, EventInv, PauseInv, Next
  PROVE  PauseInv'
<1>1. CASE Serve
  BY <1>1, PauseServes
<1>2. CASE HearReply
  BY <1>2, PauseHears
<1>3. CASE \E op \in Operations : Click(op)
  BY <1>3, PauseClicks
<1>4. CASE ClickRun
  BY <1>4, PauseStarts
<1>5. CASE SaveFails \/ Invoke \/ Hear \/ ReceiveAnswer \/ Rest
  BY <1>5, PauseFrame
     DEF SaveFails, Invoke, Hear, ReceiveAnswer, Rest, vars, page, command, flags, channels,
         history, Before
<1>6. CASE Command \/ Beat
  BY <1>6, PauseFrame
     DEF Command, Announce, ResolveFails, Register, Join, Beat, CommandOnly, page, flags,
         channels, history, Before
<1>7. CASE (Thread /\ ~Unregister) \/ Panic
  <2>1. /\ UNCHANGED <<pause, paused, requests, replies, run, crossed, phase, registered, reset>>
    BY <1>7 DEF Thread, Panic, SetUp, SetUpFails, Pass, LastPass, HonourCancel, FreePass,
       FreePassFails, Finish, ThreadOnly, PollPasses, page, command, channels, flags
  <2>2. QED
    BY <2>1, PauseFrame
<1>8. CASE Unregister
  <2>1. /\ UNCHANGED <<paused, requests, replies, run, crossed, phase>>
        /\ registered' = registered \ {run} /\ stage = "over"
        /\ pause' = [pause EXCEPT ![run] = FALSE]
    BY <1>8 DEF Unregister, ThreadOnly, page, command, channels
  <2>2. phase \notin Before
    BY <2>1 DEF CommandInv
  <2>3. \A r \in RunIds : ~pause[r] => ~pause'[r]
    BY <2>1 DEF TypeOK
  <2>4. QED
    BY <2>1, <2>2, <2>3 DEF PauseInv
<1>9. CASE OpenProject
  <2>1. /\ UNCHANGED <<pause, requests, replies, run, crossed, phase, registered>>
        /\ "pause" \in reset'
    BY <1>9 DEF OpenProject, command, flags, channels
  <2>2. WillShow => WillShow'
    BY <2>1 DEF WillShow, Sets
  <2>3. AllOwn' => AllOwn
    BY <2>1 DEF AllOwn
  <2>4. QED
    BY <2>1, <2>2, <2>3 DEF PauseInv
<1>10. QED
  BY <1>1, <1>2, <1>3, <1>4, <1>5, <1>6, <1>7, <1>8, <1>9 DEF Next, User, Save

-----------------------------------------------------------------------------
(* The theorems.                                                           *)

LEMMA InvInit ==
  ASSUME Init
  PROVE  IInv
<1>1. Len(events) = 0 /\ Len(requests) = 0 /\ Len(replies) = 0
  BY DEF Init
<1>2. \A r \in RunIds : ~pause[r]
  BY DEF Init
<1>3. TypeOK
  BY TypeInit
<1>4. CommandInv /\ RegistryInv /\ EventInv
  BY <1>1 DEF Init, CommandInv, RegistryInv, RegistryIsExact, EventInv, Before,
     NoRun
<1>5. PauseInv
  <2>1. run \notin registered /\ phase \notin Before
    BY DEF Init, Before
  <2>2. QED
    BY <1>1, <1>2, <2>1 DEF PauseInv
<1>6. QED
  BY <1>3, <1>4, <1>5 DEF IInv

LEMMA InvStep ==
  ASSUME IInv, [Next]_vars
  PROVE  IInv'
<1>1. CASE Next
  BY <1>1, TypeStep, CommandStep, RegistryStep, EventStep, PauseStep DEF IInv
<1>2. CASE UNCHANGED vars
  <2> USE <1>2 DEF vars, page, command, thread, flags, channels, history
  <2>1. TypeOK'
    BY DEF IInv, TypeOK
  <2>2. CommandInv' /\ RegistryInv' /\ EventInv'
    BY DEF IInv, CommandInv, RegistryInv, RegistryIsExact, EventInv
  <2>3. PauseInv'
    BY PauseFrame DEF IInv
  <2>4. QED
    BY <2>1, <2>2, <2>3 DEF IInv
<1>3. QED
  BY <1>1, <1>2

(* The five parts hold together in every state.                             *)
THEOREM Invariant == Spec => []IInv
<1>1. Init => IInv
  BY InvInit
<1>2. IInv /\ [Next]_vars => IInv'
  BY InvStep
<1>3. QED
  BY <1>1, <1>2, PTL DEF Spec

(* Run is unlocked only when nothing works, the registry holds exactly the *)
(* run that works and what panicked threads left, and the page addresses   *)
(* the run under way once its events are in, or none after a project was   *)
(* opened during it.                                                       *)
THEOREM AllAgree == Spec => []PartiesAgree
<1>1. IInv => PartiesAgree
  <2> SUFFICES ASSUME IInv PROVE PartiesAgree
    OBVIOUS
  <2>1. TypeOK /\ RegistryIsExact
    BY DEF IInv, RegistryInv
  <2>2. UnlockedIsIdle
    BY DEF IInv, CommandInv, UnlockedIsIdle
  <2>3. PageNamesTheLiveRun
    <3>1. stage \in Working => phase = "thread"
      BY DEF IInv, CommandInv, TypeOK, Phases, Before, Working
    <3>2. QED
      BY <3>1 DEF IInv, EventInv, PageNamesTheLiveRun, Working
  <2>4. QED
    BY <2>1, <2>2, <2>3 DEF PartiesAgree
<1>2. QED
  BY <1>1, Invariant, PTL

(* With no control call under way the Pause button shows the run's flag,   *)
(* unless a reply to an earlier run has come, or a project was opened and  *)
(* no control call has succeeded since.                                    *)
THEOREM PauseShown == Spec => []PausedIsShown
<1>1. IInv => PausedIsShown
  <2> SUFFICES ASSUME IInv, run \in registered, replies = <<>>, ~crossed, "pause" \notin reset
               PROVE  paused <=> pause[run]
    BY DEF PausedIsShown
  <2>1. Len(replies) = 0
    OBVIOUS
  <2>2. AllOwn
    BY <2>1 DEF AllOwn
  <2>3. WillShow
    BY <2>2 DEF IInv, PauseInv
  <2>4. QED
    BY <2>1, <2>3 DEF WillShow
<1>2. QED
  BY <1>1, Invariant, PTL

=============================================================================
