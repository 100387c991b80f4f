------------------------------ MODULE CodeIndex -----------------------------
(***************************************************************************)
(* The IDE's code index: a database of the symbols, dependencies and       *)
(* chunks of each source file (modai-ide/src-tauri/src/index_manager.rs,   *)
(* index_db.rs, file_watcher.rs, and the effect in src/App.tsx that opens  *)
(* a project).                                                             *)
(*                                                                         *)
(* Commands run one after the other on the main thread; a watcher has a    *)
(* thread of its own, and a thread whose watcher was stopped may still be  *)
(* at work when the next one starts.  Every SQL statement is a transaction *)
(* of its own, and an action of its own here.  Files change at any time.   *)
(*                                                                         *)
(* The text of a file stands for its hash too; in each table it has one    *)
(* row, which stands for all of them.                                      *)
(***************************************************************************)
EXTENDS Integers, Sequences, FiniteSets

CONSTANTS
    Files,          \* paths of source files
    Ignored,        \* those that .modaiignore excludes
    Texts,          \* contents a file can have
    FirstDisks,     \* bound: what the files can be when the project is first opened
    Binary, Gone,   \* a file that is not UTF-8; no file
    Tables,         \* bound: those of the tables of rows that are modelled
    Command,        \* the main thread
    Watchers,       \* threads of watchers; a thread that has ended is used again
    NoFile, NoEntry, NoWatcher,
    MaxChanges,     \* bound: changes of files
    MaxFaults,      \* bound: statements that fail, kills of the program
    MaxCommands     \* bound: refreshes, rebuilds, updates, cleanups, and faults

ASSUME IndexFiles == Ignored \subseteq Files /\ NoFile \notin Files
ASSUME IndexContents == Binary # Gone /\ Binary \notin Texts /\ Gone \notin Texts
ASSUME IndexTables == Tables \subseteq {"symbols", "dependencies", "chunks"} /\ Tables # {}
ASSUME IndexThreads == Command \notin Watchers /\ NoWatcher \notin Watchers

Procs == {Command} \cup Watchers
Contents == Texts \cup {Binary, Gone}
Builds == {"open", "refresh", "rebuild"}

\* AUTOINCREMENT: ids are never used twice; it is enough that none in use is given out.
FileIds == 1..2 * Cardinality(Files) + Cardinality(Procs) - 1

ASSUME IndexEntries == NoEntry \notin [id: FileIds, hash: Texts]

ASSUME FirstFiles == FirstDisks \subseteq [Files -> Contents]

VARIABLES
    disk,       \* the content of each file
    entry,      \* indexed_files: id and hash of each path
    rows,       \* the other tables: how many rows each has for an id and a text
    job,        \* what each thread is doing
    page,       \* how far the effect of App.tsx has come
    watcher,    \* the thread whose watcher is installed
    alive,      \* threads in their debounce loop
    pending,    \* files a thread has been told of and not yet looked at
    met,        \* history: thread and file at which another one was met
    torn,       \* history: files left half written, or written by two at once
    late,       \* history: files whose last change was not brought in
    quiet,      \* history: nothing disturbed the build under way
    edits, commands, faults     \* counters for the bounds

database == <<entry, rows>>
watching == <<watcher, alive, pending>>
history == <<met, torn, late>>
counters == <<edits, commands, faults>>
indexVars == <<disk, database, job, page, watching, history, quiet, counters>>

Idle == [op |-> "none", at |-> "idle", file |-> NoFile, read |-> Gone,
         id |-> 0, tables |-> {}, drop |-> {}, todo |-> {}]

NoRows == [x \in Texts |-> 0]

IndexInit ==
    /\ disk \in FirstDisks
    /\ entry = [f \in Files |-> NoEntry]
    /\ rows = [t \in Tables |-> [i \in FileIds |-> NoRows]]
    /\ job = [p \in Procs |-> Idle]
    /\ page = "closed"
    /\ watcher = NoWatcher
    /\ alive = {}
    /\ pending = [w \in Watchers |-> {}]
    /\ met = {} /\ torn = {} /\ quiet = FALSE
    /\ late = {f \in Files : disk[f] # Gone}
    /\ edits = 0 /\ commands = 0 /\ faults = 0

(***************************************************************************)
(* The database                                                            *)
(***************************************************************************)
LiveIds == {entry[f].id : f \in {g \in Files : entry[g] # NoEntry}}

IdsInUse == LiveIds \cup {job[p].id : p \in Procs}
                    \cup UNION {{d.id : d \in job[p].drop} : p \in Procs}

\* The least id that is not in use; there always is one.
FreshIds == LET used == IdsInUse
            IN  {i \in FileIds \ used : \A k \in FileIds : k < i => k \in used}

(* The statements on several tables, in the order of the code.             *)
ClearOrder == <<"dependencies", "chunks", "symbols", "files">>
DeleteOrder == <<"symbols", "chunks", "dependencies", "files">>
WipeOrder == <<"symbols", "chunks", "dependencies">>
FillOrder == <<"symbols", "dependencies", "chunks">>

First(order, left) ==
    order[CHOOSE i \in DOMAIN order :
              order[i] \in left /\ \A k \in 1..(i - 1) : order[k] \notin left]

(* DELETE FROM a table; rows that refer to a file go with it.              *)
Without(table, ids) == [i \in FileIds |-> IF i \in ids THEN NoRows ELSE rows[table][i]]

Erase(table, ids) ==
    IF table = "files"
    THEN /\ entry' = [f \in Files |->
                IF entry[f] # NoEntry /\ entry[f].id \in ids
                THEN NoEntry ELSE entry[f]]
         /\ rows' = [t \in Tables |-> Without(t, ids)]
    ELSE /\ rows' = [rows EXCEPT ![table] = Without(table, ids)]
         /\ UNCHANGED entry

(* INSERT INTO a table; a symbol that is there is not inserted again.      *)
InsertRow(table, id, text) ==
    rows' = [rows EXCEPT ![table][id][text] = IF table = "symbols" THEN 1 ELSE @ + 1]

(***************************************************************************)
(* History: who handles a file, and what that leaves behind                *)
(***************************************************************************)
Handles(j, f) ==
    \/ j.file = f /\ j.at \notin {"idle", "next", "read"}
    \/ j.at # "walk" /\ \E d \in j.drop : d.file = f
    \/ j.at = "clear"

Others(p, f) == {q \in Procs \ {p} : Handles(job[q], f)}

(* The build has an id of f, and has not yet looked whether f is there.    *)
Listed(j, f) == j.at = "walk" /\ \E d \in j.drop : d.file = f

(* Thread p begins to handle the files fs.                                 *)
Begin(p, fs) ==
    LET shared == {f \in fs : Others(p, f) # {}}
        hit == {m \in (Procs \ {p}) \X fs :
                   Handles(job[m[1]], m[2]) \/ Listed(job[m[1]], m[2])}
    IN  /\ met' = {m \in met : m[1] = p => m[2] \in fs} \cup ({p} \X shared) \cup hit
        /\ torn' = torn \cup shared
        /\ late' = late \cup shared

(* Thread p has done with its file; it wrote the rows, or found the hash   *)
(* to be right.                                                            *)
Complete(p, wrote) ==
    LET f == job[p].file
        sole == <<p, f>> \notin met
    IN  /\ met' = met \ {<<p, f>>}
        /\ torn' = IF sole /\ wrote THEN torn \ {f} ELSE torn
        /\ late' = IF sole /\ job[p].read = disk[f] THEN late \ {f} ELSE late

HalfWritten(j) ==
    {f \in Files :
        \/ j.at \in {"id", "wipe", "fill"} /\ f = j.file
        \/ j.at = "delete" /\ j.tables # Tables \cup {"files"} /\ f = j.file
        \/ j.at = "clear" /\ j.tables # Tables \cup {"files"} /\ entry[f] # NoEntry}

Abort(ps) ==
    /\ met' = {m \in met : m[1] \notin ps}
    /\ torn' = torn \cup UNION {HalfWritten(job[p]) : p \in ps}
    /\ late' = late \cup ({job[p].file : p \in ps} \ {NoFile})

(***************************************************************************)
(* Files and faults                                                        *)
(***************************************************************************)
WithinBound == commands + faults < MaxCommands

(* The watcher has a filter of its own, not that of a build: it knows      *)
(* extensions in small letters only, and no file below a folder named      *)
(* build, target or the like, also if that is above the project.  And it   *)
(* takes no notice of the errors it gets instead of events.                *)
Edit(f, text) ==
    /\ edits < MaxChanges /\ text # disk[f]
    /\ edits' = edits + 1
    /\ disk' = [disk EXCEPT ![f] = text]
    /\ quiet' = FALSE
    /\ \/ /\ watcher # NoWatcher
          /\ pending' = [pending EXCEPT ![watcher] = @ \cup {f}]
          /\ UNCHANGED late
       \/ late' = late \cup {f} /\ UNCHANGED pending
    /\ UNCHANGED <<database, job, page, watcher, alive, met, torn, commands, faults>>

NextFile(j) == [j EXCEPT !.at = "next", !.file = NoFile, !.read = Gone,
                         !.id = 0, !.tables = {}]

(* An error ends a build, and an update of one file; the watcher goes on   *)
(* with its next file.                                                     *)
GiveUp(p) ==
    /\ Abort({p})
    /\ job' = [job EXCEPT ![p] = IF @.op \in Builds THEN Idle ELSE NextFile(@)]
    /\ page' = IF job[p].op = "open" /\ page = "building" THEN "off" ELSE page

(* A statement fails: the database stays locked for five seconds, or the   *)
(* disk is full.                                                           *)
Fail(p) ==
    /\ faults < MaxFaults /\ WithinBound
    /\ job[p].at \notin {"idle", "next", "read", "walk"}
    /\ faults' = faults + 1
    /\ quiet' = FALSE
    /\ GiveUp(p)
    /\ UNCHANGED <<disk, database, watching, edits, commands>>

(* The program ends, in the middle of what its threads do.                 *)
Exit ==
    /\ faults < MaxFaults /\ WithinBound /\ page # "closed"
    /\ faults' = faults + 1
    /\ job' = [p \in Procs |-> Idle]
    /\ page' = "closed" /\ watcher' = NoWatcher /\ alive' = {}
    /\ pending' = [w \in Watchers |-> {}]
    /\ met' = {} /\ quiet' = FALSE
    /\ torn' = torn \cup UNION {HalfWritten(job[p]) : p \in Procs}
    /\ late' = late \cup ({job[p].file : p \in Procs} \ {NoFile})
                    \cup UNION {pending[w] \cup job[w].todo : w \in Watchers}
    /\ UNCHANGED <<disk, database, edits, commands>>

(***************************************************************************)
(* The page: it opens the index of a project, and starts over when the     *)
(* settings or the project change.                                         *)
(***************************************************************************)
Open ==
    /\ page = "closed"
    /\ page' = "opening"
    /\ UNCHANGED <<disk, database, job, watching, history, quiet, counters>>

(* index_stats: an index with files in it is taken as it is.               *)
Stats ==
    /\ page = "opening" /\ job[Command] = Idle
    /\ page' = IF LiveIds # {} THEN "indexed" ELSE "empty"
    /\ UNCHANGED <<disk, database, job, watching, history, quiet, counters>>

(* index_stats fails: the index is built, whatever is in it.               *)
StatsFail ==
    /\ page = "opening" /\ job[Command] = Idle
    /\ faults < MaxFaults /\ WithinBound
    /\ faults' = faults + 1
    /\ page' = "empty"
    /\ UNCHANGED <<disk, database, job, watching, history, quiet, edits, commands>>

\* Mutant: a rebuild is a refresh.
StartBuildKept(op) ==
    /\ job[Command] = Idle
    /\ job' = [job EXCEPT ![Command] = [Idle EXCEPT !.op = op, !.at = "list"]]
    /\ quiet' = \A w \in Watchers : job[w] = Idle
    /\ UNCHANGED <<disk, database, watching, history, edits, faults>>

(* build_index_inner, up to its first statement.                           *)
StartBuild(op) ==
    /\ job[Command] = Idle
    /\ job' = [job EXCEPT ![Command] = [Idle EXCEPT !.op = op,
           !.at = IF op = "rebuild" THEN "clear" ELSE "list",
           !.tables = IF op = "rebuild" THEN Tables \cup {"files"} ELSE {}]]
    /\ quiet' = \A w \in Watchers : job[w] = Idle
    /\ IF op = "rebuild" THEN Begin(Command, Files) ELSE UNCHANGED history
    /\ UNCHANGED <<disk, database, watching, edits, faults>>

FirstBuild ==
    /\ page = "empty" /\ page' = "building"
    /\ StartBuild("open")
    /\ UNCHANGED commands

(* The buttons of the settings.                                            *)
BuildAgain(op) ==
    /\ page # "closed" /\ WithinBound
    /\ commands' = commands + 1
    /\ StartBuild(op)
    /\ UNCHANGED page

(* The editor asks for an update of the file it has saved.                 *)
UpdateFile(f) ==
    /\ page # "closed" /\ WithinBound /\ job[Command] = Idle
    /\ commands' = commands + 1
    /\ job' = [job EXCEPT ![Command] = [Idle EXCEPT !.op = "update",
                                                   !.at = "next", !.todo = {f}]]
    /\ UNCHANGED <<disk, database, page, watching, history, quiet, edits, faults>>

StartWatching ==
    /\ page = "indexed" /\ job[Command] = Idle
    /\ \E w \in Watchers \ alive :
           watcher' = w /\ alive' = alive \cup {w}
    /\ page' = "watched"
    /\ UNCHANGED <<disk, database, job, pending, history, quiet, counters>>

(* The effect is cleaned up; a build it waits for is no longer heard.      *)
Leave ==
    /\ page # "closed" /\ WithinBound
    /\ job[Command] = Idle \/ watcher = NoWatcher
    /\ commands' = commands + 1
    /\ page' \in {"opening", "closed"}
    /\ watcher' = NoWatcher
    /\ UNCHANGED <<disk, database, job, alive, pending, history, quiet, edits, faults>>

(***************************************************************************)
(* The watcher's thread                                                    *)
(***************************************************************************)
(* 500 ms without an event: the files told of are looked at.               *)
Flush(w) ==
    /\ watcher = w /\ job[w] = Idle /\ pending[w] # {}
    /\ job' = [job EXCEPT ![w] = [Idle EXCEPT !.op = "flush", !.at = "next",
                                             !.todo = pending[w]]]
    /\ pending' = [pending EXCEPT ![w] = {}]
    /\ quiet' = FALSE
    /\ UNCHANGED <<disk, database, page, watcher, alive, history, counters>>

(* The channel is closed: what is pending is dropped.                      *)
EndThread(w) ==
    /\ w \in alive /\ watcher # w /\ job[w] = Idle
    /\ alive' = alive \ {w}
    /\ late' = late \cup pending[w]
    /\ pending' = [pending EXCEPT ![w] = {}]
    /\ UNCHANGED <<disk, database, job, page, watcher, met, torn, quiet, counters>>

(***************************************************************************)
(* The steps of a build                                                    *)
(***************************************************************************)
Goto(p, j) == job' = [job EXCEPT ![p] = j]

Silent == UNCHANGED <<disk, page, watching, quiet, counters>>

(* clear_all: one statement for each table.                                *)
ClearAll(p) ==
    LET j == job[p]
        table == First(ClearOrder, j.tables)
        last == j.tables = {table}
    IN  /\ j.at = "clear"
        /\ Erase(table, FileIds)
        /\ Goto(p, [j EXCEPT !.tables = @ \ {table},
                             !.at = IF last THEN "list" ELSE "clear"])
        /\ late' = IF last THEN late \cup {f \in Files : disk[f] # Gone} ELSE late
        /\ met' = IF last THEN met \ ({p} \X Files) ELSE met
        /\ UNCHANGED torn
        /\ Silent

(* list_indexed_paths.                                                     *)
ListIndexed(p) ==
    LET listed == {f \in Files : entry[f] # NoEntry}
    IN  /\ job[p].at = "list"
        /\ Goto(p, [job[p] EXCEPT !.at = "walk",
               !.drop = {[file |-> f, id |-> entry[f].id] : f \in listed}])
        /\ met' = met \cup ({p} \X {f \in listed : Others(p, f) # {}})
        /\ UNCHANGED <<database, torn, late>>
        /\ Silent

(* walk_source_files: what is listed and not found is to be dropped, what  *)
(* is found is to be indexed.                                              *)
Walk(p) ==
    LET found == {f \in Files \ Ignored : disk[f] # Gone}
        lost == {d \in job[p].drop : d.file \notin found}
    IN  /\ job[p].at = "walk"
        /\ Goto(p, [job[p] EXCEPT !.at = "next", !.drop = lost, !.todo = found])
        /\ Begin(p, {d.file : d \in lost})
        /\ UNCHANGED database
        /\ Silent

PickLost(p) ==
    /\ job[p].at = "next"
    /\ \E d \in job[p].drop :
          Goto(p, [job[p] EXCEPT !.at = "delete", !.file = d.file, !.id = d.id,
                   !.tables = Tables \cup {"files"}, !.drop = @ \ {d}])
    /\ UNCHANGED <<database, history>>
    /\ Silent

\* Mutant: what has been reported since the flush is cleared with it.
FinishCleared(p) ==
    /\ job[p].at = "next" /\ job[p].drop = {} /\ job[p].todo = {}
    /\ Goto(p, Idle)
    /\ page' = IF job[p].op = "open" /\ page = "building" THEN "indexed" ELSE page
    /\ pending' = [w \in Watchers |-> IF w = p THEN {} ELSE pending[w]]
    /\ UNCHANGED <<disk, database, watcher, alive, history, quiet, counters>>

Finish(p) ==
    /\ job[p].at = "next" /\ job[p].drop = {} /\ job[p].todo = {}
    /\ Goto(p, Idle)
    /\ page' = IF job[p].op = "open" /\ page = "building" THEN "indexed" ELSE page
    /\ UNCHANGED <<disk, database, watching, history, quiet, counters>>

(***************************************************************************)
(* The steps of one file                                                   *)
(***************************************************************************)
(* A build goes through the files it found; update_file and the watcher    *)
(* look first whether the file is there.                                   *)
PickFile(p) ==
    /\ job[p].at = "next" /\ job[p].drop = {}
    /\ \E f \in job[p].todo :
          LET j == [job[p] EXCEPT !.file = f, !.todo = @ \ {f}]
          IN  IF j.op \in Builds \/ disk[f] # Gone
              THEN Goto(p, [j EXCEPT !.at = "read"]) /\ UNCHANGED history
              ELSE Goto(p, [j EXCEPT !.at = "find"]) /\ Begin(p, {f})
    /\ UNCHANGED database
    /\ Silent

ReadFile(p) ==
    LET f == job[p].file
    IN  /\ job[p].at = "read" /\ disk[f] \in Texts
        /\ Goto(p, [job[p] EXCEPT !.at = "look", !.read = disk[f]])
        /\ Begin(p, {f})
        /\ UNCHANGED database
        /\ Silent

(* read_to_string fails: the file has gone, or is not text.                *)
CannotRead(p) ==
    /\ job[p].at = "read" /\ disk[job[p].file] \notin Texts
    /\ GiveUp(p)
    /\ UNCHANGED <<disk, database, watching, quiet, counters>>

(* get_file_by_path: nothing is done if the hash is the same.              *)
SkipFile(p) ==
    LET e == entry[job[p].file]
    IN  /\ job[p].at = "look" /\ e # NoEntry /\ e.hash = job[p].read
        /\ Complete(p, FALSE)
        /\ Goto(p, NextFile(job[p]))
        /\ UNCHANGED database
        /\ Silent

LookUp(p) ==
    LET e == entry[job[p].file]
    IN  /\ job[p].at = "look" /\ (e # NoEntry => e.hash # job[p].read)
        /\ Goto(p, [job[p] EXCEPT !.at = "put"])
        /\ UNCHANGED <<database, history>>
        /\ Silent

(* upsert_file: INSERT ... ON CONFLICT UPDATE, then SELECT id.             *)
Upsert(p) ==
    LET f == job[p].file
    IN  /\ job[p].at = "put"
        /\ \E id \in IF entry[f] = NoEntry THEN FreshIds ELSE {entry[f].id} :
               entry' = [entry EXCEPT ![f] = [id |-> id, hash |-> job[p].read]]
        /\ Goto(p, [job[p] EXCEPT !.at = "id"])
        /\ UNCHANGED <<rows, history>>
        /\ Silent

SelectId(p) ==
    LET e == entry[job[p].file]
    IN  /\ job[p].at = "id"
        /\ IF e = NoEntry
           THEN GiveUp(p) /\ UNCHANGED <<disk, database, watching, quiet, counters>>
           ELSE /\ Goto(p, [job[p] EXCEPT !.at = "wipe", !.id = e.id,
                         !.tables = Tables])
                /\ UNCHANGED <<database, history>>
                /\ Silent

\* Mutant: the chunks of the old text stay.
WipeTableNoChunks(p) ==
    LET j == job[p]
        table == First(WipeOrder, j.tables)
    IN  /\ j.at = "wipe"
        /\ IF table = "chunks" THEN UNCHANGED database ELSE Erase(table, {j.id})
        /\ Goto(p, IF j.tables # {table} THEN [j EXCEPT !.tables = @ \ {table}]
                   ELSE [j EXCEPT !.at = "fill", !.tables = Tables])
        /\ UNCHANGED history
        /\ Silent

(* clear_file_symbols, clear_file_chunks, clear_file_dependencies.         *)
WipeTable(p) ==
    LET j == job[p]
        table == First(WipeOrder, j.tables)
    IN  /\ j.at = "wipe"
        /\ Erase(table, {j.id})
        /\ Goto(p, IF j.tables # {table} THEN [j EXCEPT !.tables = @ \ {table}]
                   ELSE [j EXCEPT !.at = "fill", !.tables = Tables])
        /\ UNCHANGED history
        /\ Silent

(* insert_symbol, insert_dependency, insert_chunk: refused by the foreign  *)
(* key when the file's row has gone.                                       *)
FillTable(p) ==
    LET j == job[p]
        table == First(FillOrder, j.tables)
    IN  /\ j.at = "fill" /\ j.id \in LiveIds
        /\ InsertRow(table, j.id, j.read)
        /\ IF j.tables # {table}
           THEN Goto(p, [j EXCEPT !.tables = @ \ {table}]) /\ UNCHANGED history
           ELSE Goto(p, NextFile(j)) /\ Complete(p, TRUE)
        /\ UNCHANGED entry
        /\ Silent

InsertRefused(p) ==
    /\ job[p].at = "fill" /\ job[p].id \notin LiveIds
    /\ GiveUp(p)
    /\ UNCHANGED <<disk, database, watching, quiet, counters>>

(* delete_file_by_path, its SELECT.                                        *)
FindRow(p) ==
    LET j == job[p]
        e == entry[j.file]
    IN  /\ j.at = "find"
        /\ IF e = NoEntry
           THEN Goto(p, NextFile(j)) /\ Complete(p, TRUE)
           ELSE /\ Goto(p, [j EXCEPT !.at = "delete", !.id = e.id,
                     !.tables = Tables \cup {"files"}])
                /\ UNCHANGED history
        /\ UNCHANGED database
        /\ Silent

(* delete_file: one statement for each table.                              *)
DeleteTable(p) ==
    LET j == job[p]
        table == First(DeleteOrder, j.tables)
    IN  /\ j.at = "delete"
        /\ Erase(table, {j.id})
        /\ IF j.tables # {table}
           THEN Goto(p, [j EXCEPT !.tables = @ \ {table}]) /\ UNCHANGED history
           ELSE Goto(p, NextFile(j)) /\ Complete(p, TRUE)
        /\ Silent

Work(p) ==
    \/ ClearAll(p) \/ ListIndexed(p) \/ Walk(p) \/ PickLost(p) \/ Finish(p)
    \/ PickFile(p) \/ ReadFile(p) \/ CannotRead(p) \/ SkipFile(p) \/ LookUp(p)
    \/ Upsert(p) \/ SelectId(p) \/ WipeTable(p) \/ FillTable(p)
    \/ InsertRefused(p) \/ FindRow(p) \/ DeleteTable(p)

IndexNext ==
    \/ \E f \in Files, text \in Contents : Edit(f, text)
    \/ Exit \/ Open \/ Stats \/ StatsFail \/ FirstBuild \/ StartWatching \/ Leave
    \/ \E op \in {"refresh", "rebuild"} : BuildAgain(op)
    \/ \E f \in Files : UpdateFile(f)
    \/ \E w \in Watchers : Flush(w) \/ EndThread(w)
    \/ \E p \in Procs : Work(p) \/ Fail(p)

IndexSpec == IndexInit /\ [][IndexNext]_indexVars

(***************************************************************************)
(* Properties                                                              *)
(***************************************************************************)
(* The rows of one text.                                                   *)
Only(text) == [x \in Texts |-> IF x = text THEN 1 ELSE 0]

Whole(f) == \A t \in Tables : rows[t][entry[f].id] = Only(entry[f].hash)

Current(f) == IF disk[f] = Gone THEN entry[f] = NoEntry
              ELSE entry[f] # NoEntry /\ entry[f].hash = disk[f]

(* Each entry has the rows of the text its hash is of, each of them once,  *)
(* unless it is being written, was left half written, or was written by    *)
(* two threads at once; and no row is left without its entry.              *)
EntriesAreWhole ==
    /\ \A f \in Files \ torn :
           entry[f] # NoEntry /\ (\A p \in Procs : ~Handles(job[p], f)) => Whole(f)
    /\ \A t \in Tables, i \in FileIds \ LiveIds : rows[t][i] = NoRows

(* The index has the present text of each file, unless a thread is still   *)
(* to look at it, its change was missed or given up, or two threads met.   *)
(* Missed is what happens while nothing watches, and what the watcher      *)
(* drops: a file its own filter does not know (file_watcher.rs:117, unlike *)
(* index_manager.rs:497), and an event that is an error                    *)
(* (file_watcher.rs:76).                                                   *)
IndexIsCurrent ==
    \A f \in (Files \ Ignored) \ late :
        \/ \E p \in Procs : Handles(job[p], f) \/ job[p].file = f
        \/ \E w \in Watchers : f \in pending[w] \cup job[w].todo
        \/ Current(f)

(* Whatever went wrong before, a rebuild that nothing disturbs ends with   *)
(* the index of what is on disk: half-written entries are written anew,    *)
(* ignored files and files that have gone are out.  A refresh does the     *)
(* same but for half-written entries, which have the right hash.           *)
BuildsRepair ==
    LET j == job[Command]
    IN  quiet /\ j.op \in Builds /\ j.at = "next" /\ j.drop = {} /\ j.todo = {} =>
            \A f \in Files :
                /\ IF f \in Ignored THEN entry[f] = NoEntry ELSE Current(f)
                /\ entry[f] # NoEntry /\ (j.op = "rebuild" \/ f \notin torn) => Whole(f)
=============================================================================
