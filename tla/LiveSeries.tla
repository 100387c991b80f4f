----------------------------- MODULE LiveSeries -----------------------------
(***************************************************************************)
(* Live Scope samples of a running simulation.                             *)
(*                                                                         *)
(* The integrator appends its output rows to a bounded buffer shared under *)
(* a mutex; the command that started the run beats every 250 ms, drains    *)
(* what is new and emits it as a progress event; the results panel appends *)
(* each event to the plot and replaces the plot by the complete result     *)
(* when the command answers.                                               *)
(*                                                                         *)
(* A row is known by its number: row n is the n-th the integrator writes.  *)
(* written, overflowed and missed are history, read by the properties      *)
(* only; everything else is state of the program.                          *)
(***************************************************************************)

EXTENDS Naturals, Sequences, SequencesExt

CONSTANTS
  SeriesCap,    \* LIVE_SERIES_CAP: columns kept
  PointCap,     \* LIVE_POINT_CAP: rows kept
  NameLists,    \* possible [out, state, disc] name lists of a compiled model
  MaxRows,      \* bound: rows the integrator writes
  InOrderIpc    \* the answer of a command never overtakes an earlier event

ASSUME CapsAssumption ==
  /\ SeriesCap \in Nat \ {0} /\ PointCap \in Nat \ {0} /\ MaxRows \in Nat
  /\ InOrderIpc \in BOOLEAN

ASSUME NamesAssumption ==
  NameLists \subseteq [out : Seq(STRING), state : Seq(STRING), disc : Seq(STRING)]

VARIABLES
  ipc,          \* integrator: "compile", "poll", "row", "done" or "failed"
  names,        \* the name lists of the model
  snap,         \* the latest progress snapshot has been set
  cols,         \* bound columns: [name, kind, index]
  time, values, \* the buffer: rows, and for each column its values
  cursor,       \* rows of the buffer already taken
  hpc,          \* heartbeat: "wait", "take", "emit" or "joined"
  sawSnap,      \* the snapshot this beat read
  delta,        \* the rows this beat took
  channel,      \* events on their way to the panel
  responded,    \* the panel has the command's answer
  plot,         \* the rows on display
  written,      \* rows pushed
  overflowed,   \* rows the buffer dropped unread
  missed        \* rows a beat took and did not emit

integrator == <<ipc, names, snap, cols, written>>
buffer == <<time, values, cursor, overflowed>>
heartbeat == <<hpc, sawSnap, delta, missed>>
panel == <<channel, responded, plot>>
liveVars == <<integrator, buffer, heartbeat, panel>>

AllRows == [i \in 1..written |-> i]
Unread == SubSeq(time, cursor + 1, Len(time))

LiveInit ==
  /\ ipc = "compile" /\ names \in NameLists /\ snap = FALSE /\ cols = <<>> /\ written = 0
  /\ time = <<>> /\ values = <<>> /\ cursor = 0 /\ overflowed = {}
  /\ hpc = "wait" /\ sawSnap = FALSE /\ delta = <<>> /\ missed = {}
  /\ channel = <<>> /\ responded = FALSE /\ plot = <<>>

-----------------------------------------------------------------------------
(* The integrator thread.                                                  *)

\* The candidate columns in the order they are offered.
Offered(lists) ==
  LET Entries(kind) ==
        [i \in 1..Len(lists[kind]) |->
           [name |-> lists[kind][i], kind |-> kind, index |-> i]]
  IN  Entries("out") \o Entries("state") \o Entries("disc")

\* Mutant: a column is looked up by its place among the columns.
ColumnsOfByPlace(lists) ==
  LET Add(kept, c) ==
        IF Len(kept) >= SeriesCap \/ \E k \in 1..Len(kept) : kept[k].name = c.name
          THEN kept
          ELSE Append(kept, [c EXCEPT !.index = Len(kept) + 1])
  IN  FoldLeft(Add, <<>>, Offered(lists))

\* The first SeriesCap distinct names.
ColumnsOf(lists) ==
  LET Add(kept, c) ==
        IF Len(kept) >= SeriesCap \/ \E k \in 1..Len(kept) : kept[k].name = c.name
          THEN kept
          ELSE Append(kept, c)
  IN  FoldLeft(Add, <<>>, Offered(lists))

\* The model is compiled: the names are bound, once, and the run begins.
Bind ==
  /\ ipc = "compile"
  /\ cols' = ColumnsOf(names)
  /\ values' = [k \in 1..Len(cols') |-> <<>>]
  /\ ipc' = "poll"
  /\ UNCHANGED <<names, snap, written, time, cursor, overflowed, heartbeat, panel>>

\* poll_step, once it lets the integrator through, reports progress.
Poll ==
  /\ ipc = "poll"
  /\ snap' = TRUE
  /\ ipc' = "row"
  /\ UNCHANGED <<names, cols, written, buffer, heartbeat, panel>>

\* Mutant: the oldest rows go, and the cursor stays where it was.
PushKeepCursor ==
  LET t == Append(time, written + 1)
      drop == IF Len(t) > PointCap THEN Len(t) - PointCap ELSE 0
      Drained(s) == SubSeq(s, drop + 1, Len(s))
  IN  /\ time' = Drained(t)
      /\ values' = [k \in DOMAIN values |->
                      LET v == Append(values[k], written + 1)
                      IN  IF Len(v) >= drop THEN Drained(v) ELSE v]
      /\ cursor' = cursor
      /\ overflowed' = overflowed \union {t[i] : i \in (cursor + 1)..drop}

\* Append a row; past the cap the oldest go, and the cursor moves with them.  Each
\* column is drained under a length test of its own.
Push ==
  LET t == Append(time, written + 1)
      drop == IF Len(t) > PointCap THEN Len(t) - PointCap ELSE 0
      Drained(s) == SubSeq(s, drop + 1, Len(s))
  IN  /\ time' = Drained(t)
      /\ values' = [k \in DOMAIN values |->
                      LET v == Append(values[k], written + 1)
                      IN  IF Len(v) >= drop THEN Drained(v) ELSE v]
      /\ cursor' = IF cursor > drop THEN cursor - drop ELSE 0
      /\ overflowed' = overflowed \union {t[i] : i \in (cursor + 1)..drop}

\* The output grid is reached: the row goes to the result and to the buffer.
WriteRow ==
  /\ ipc = "row"
  /\ written < MaxRows
  /\ written' = written + 1
  /\ Push
  /\ ipc' = "poll"
  /\ UNCHANGED <<names, snap, cols, heartbeat, panel>>

\* A pass between two points of the output grid.
SkipRow ==
  /\ ipc = "row"
  /\ ipc' = "poll"
  /\ UNCHANGED <<names, snap, cols, written, buffer, heartbeat, panel>>

\* The compilation or the step fails, the run is cancelled, or it is over.
EndRun ==
  /\ \/ ipc = "poll" /\ ipc' \in {"done", "failed"}
     \/ ipc \in {"compile", "row"} /\ ipc' = "failed"
  /\ UNCHANGED <<names, snap, cols, written, buffer, heartbeat, panel>>

-----------------------------------------------------------------------------
(* The heartbeat of the command.                                           *)

\* Mutant: the beat takes the snapshot away.
ReadSnapTake ==
  /\ hpc = "wait"
  /\ hpc' = "take"
  /\ sawSnap' = snap
  /\ snap' = FALSE
  /\ UNCHANGED <<ipc, names, cols, written, delta, missed, buffer, panel>>

\* A tick: the beat reads the snapshot first.
ReadSnap ==
  /\ hpc = "wait"
  /\ hpc' = "take"
  /\ sawSnap' = snap
  /\ UNCHANGED <<delta, missed, integrator, buffer, panel>>

\* Mutant: one new row is not worth a delta.
TakeDeltaLazy ==
  /\ hpc = "take"
  /\ hpc' = "emit"
  /\ IF cursor + 1 >= Len(time)
       THEN delta' = <<>> /\ UNCHANGED cursor
       ELSE delta' = Unread /\ cursor' = Len(time)
  /\ UNCHANGED <<sawSnap, missed, time, values, overflowed, integrator, panel>>

\* Then it takes every row past the cursor.
TakeDelta ==
  /\ hpc = "take"
  /\ hpc' = "emit"
  /\ IF cursor >= Len(time)
       THEN delta' = <<>> /\ UNCHANGED cursor
       ELSE delta' = Unread /\ cursor' = Len(time)
  /\ UNCHANGED <<sawSnap, missed, time, values, overflowed, integrator, panel>>

\* And emits them, unless it saw no snapshot.
EmitRunning ==
  /\ hpc = "emit"
  /\ hpc' = "wait"
  /\ delta' = <<>>
  /\ IF sawSnap
       THEN /\ channel' = IF delta = <<>> THEN channel ELSE Append(channel, delta)
            /\ UNCHANGED missed
       ELSE /\ missed' = missed \union Range(delta)
            /\ UNCHANGED channel
  /\ UNCHANGED <<sawSnap, integrator, buffer, responded, plot>>

\* The task has ended: the command answers and beats no more.
Join ==
  /\ hpc = "wait"
  /\ ipc \in {"done", "failed"}
  /\ hpc' = "joined"
  /\ UNCHANGED <<sawSnap, delta, missed, integrator, buffer, panel>>

-----------------------------------------------------------------------------
(* The results panel.                                                      *)

ReceiveRunning ==
  /\ channel # <<>>
  /\ plot' = plot \o Head(channel)
  /\ channel' = Tail(channel)
  /\ UNCHANGED <<responded, integrator, buffer, heartbeat>>

\* The complete result replaces the plot; a failed run leaves what was shown.
ReceiveAnswer ==
  /\ hpc = "joined" /\ ~responded
  /\ InOrderIpc => channel = <<>>
  /\ responded' = TRUE
  /\ plot' = IF ipc = "done" THEN AllRows ELSE plot
  /\ UNCHANGED <<channel, integrator, buffer, heartbeat>>

Sample == Bind \/ Poll \/ WriteRow \/ SkipRow \/ EndRun
Beat == ReadSnap \/ TakeDelta \/ EmitRunning \/ Join
Display == ReceiveRunning \/ ReceiveAnswer

LiveDone == responded /\ channel = <<>> /\ UNCHANGED liveVars

LiveNext == Sample \/ Beat \/ Display \/ LiveDone

\* The timer, the runtime and the web view keep going.  The integrator owes
\* nothing: it may be paused.
LiveFairness == WF_liveVars(Beat) /\ WF_liveVars(Display)

LiveSpec == LiveInit /\ [][LiveNext]_liveVars /\ LiveFairness

-----------------------------------------------------------------------------
(* Properties *)

LiveTypeOK ==
  /\ ipc \in {"compile", "poll", "row", "done", "failed"}
  /\ hpc \in {"wait", "take", "emit", "joined"}
  /\ snap \in BOOLEAN /\ sawSnap \in BOOLEAN /\ responded \in BOOLEAN
  /\ time \in Seq(1..MaxRows) /\ Len(time) <= PointCap
  /\ cursor \in 0..Len(time)
  /\ Len(cols) <= SeriesCap /\ Len(values) = Len(cols)
  /\ delta \in Seq(1..MaxRows) /\ plot \in Seq(1..MaxRows)
  /\ channel \in Seq(Seq(1..MaxRows))
  /\ written \in 0..MaxRows
  /\ overflowed \subseteq 1..MaxRows /\ missed \subseteq 1..MaxRows

\* The rows on their way to the panel, oldest first.
Pipeline == plot \o FlattenSeq(channel) \o delta \o Unread

Increasing(s) == \A i \in 1..(Len(s) - 1) : s[i] < s[i + 1]

\* No live row is shown twice or out of order, whatever the buffer drops
\* between two beats.
InOrder == ~responded => Increasing(Pipeline)

\* A row not on its way to the panel was dropped by the full buffer before a
\* beat took it, or taken by a beat that had no snapshot: nothing else loses
\* rows, and the drain of the full buffer never loses one twice.
Conserved ==
  ~responded => Range(Pipeline) = Range(AllRows) \ (overflowed \union missed)

\* After a successful run the plot is the complete result, when events and
\* the answer arrive in the order they were sent.
ResultIsComplete ==
  responded /\ ipc = "done" /\ InOrderIpc => plot = AllRows

\* What the buffer, the beats and the panel do to rows between them
\* (control.rs:98): every row is shown once and in order, or lost in one of
\* the two ways above; and all of them are shown in the end.
RowsAreKept == LiveTypeOK /\ InOrder /\ Conserved /\ ResultIsComplete

\* A column is filled from the variable it is named after, stays in step with
\* the time axis also when rows are dropped, no name has two columns, and no
\* name is left out while there is room.
ColumnsFaithful ==
  ipc \notin {"compile", "failed"} =>
    LET AllNames == UNION {Range(names[kind]) : kind \in DOMAIN names}
        Shown == {cols[k].name : k \in 1..Len(cols)}
    IN  /\ \A k \in 1..Len(cols) :
             /\ cols[k].index \in 1..Len(names[cols[k].kind])
             /\ names[cols[k].kind][cols[k].index] = cols[k].name
             /\ values[k] = time
        /\ Cardinality(Shown) = Len(cols)
        /\ Len(cols) < SeriesCap => Shown = AllNames

\* A beat discards rows only before the first event of the run has been sent.
MissesOnlyAtTheStart ==
  [][missed' # missed => plot = <<>> /\ channel = <<>>]_liveVars

\* While the integrator stands still (Pause), the plot catches up with every
\* row written that was not dropped.
PlotCatchesUp ==
  \A n \in 0..MaxRows :
    written = n ~> written > n \/ responded \/ Pipeline = plot

=============================================================================
