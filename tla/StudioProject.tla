--------------------------- MODULE StudioProject ----------------------------
(***************************************************************************)
(* The studio's project files: opening, saving, autosave, crash draft and  *)
(* restart (modai-studio/src/app/useStudioProject.ts, useStudioSession.ts, *)
(* project/crashDraft.ts and src-tauri/src/project/mod.rs)                 *)
(*                                                                         *)
(* The page asks the back end for one command after another; each is       *)
(* carried out as a whole (its commands are synchronous) and answered in   *)
(* the same order, while the user goes on editing.  The program can be     *)
(* killed at any time, also between two files of a save.                   *)
(*                                                                         *)
(* The work is the number of the edit that made its root diagram and that  *)
(* of its subsystems; StudioEdit has the diagrams themselves.  A folder    *)
(* holds the manifest, the root diagram and the subsystems, and each of    *)
(* them may be cut short; the model text is written last and never read    *)
(* back into the page.                                                     *)
(***************************************************************************)
EXTENDS Integers, Sequences, TLC

CONSTANTS
    MaxEdits,       \* bound: edits of all sessions together
    Dirs,           \* project folders
    HomeDir,        \* the folder that holds a project at the beginning
    NewDir,         \* the folder given to new projects
    NoDir, NoDraft,
    MaxCalls,       \* bound: commands under way
    MaxFaults       \* bound: crashes and saves that fail

ASSUME ProjectFolders == {HomeDir, NewDir} \subseteq Dirs /\ NoDir \notin Dirs
ASSUME ProjectBounds ==
    MaxEdits \in Nat /\ MaxCalls \in Nat \ {0} /\ MaxFaults \in Nat

Versions == 0..MaxEdits
Whole == 0      \* a manifest that can be read
NoFile == -1
Broken == -2    \* a file cut short; of subsystems, any mixture with such files

Works == [root: Versions, subs: Versions \cup {Broken}]
Made(edit) == [root |-> edit, subs |-> edit]

VARIABLES
    clock,                  \* number of the last edit
    rootDir, work, dirty,   \* the open folder, the work and whether it is unsaved
    disk,                   \* the files of each folder
    calls,                  \* commands asked for and not yet answered
    draft, draftDue,        \* the crash draft, and whether its timer is running
    running, fresh,         \* the program runs; its heartbeat is younger than STALE_MS
    faults,                 \* counter for the bound
    draftFailed,            \* history: the draft could not be written the last time
    overtaken,              \* history: the last save answered was older than the work
    struck                  \* history: a save cut short hit work shown as saved

pageVars == <<clock, rootDir, work, dirty>>
draftVars == <<draft, draftDue, draftFailed>>
history == <<overtaken, struck>>
vars == <<pageVars, disk, calls, draftVars, running, fresh, faults, history>>

(***************************************************************************)
(* Files                                                                   *)
(***************************************************************************)
EmptyFolder == [manifest |-> NoFile, root |-> NoFile, subs |-> 0]

Readable(f) == f.manifest = Whole /\ f.root \in Versions

(* Subsystems that cannot be read are passed over.                         *)
OpenProject(f) == [root |-> f.root, subs |-> f.subs]

(* Files of subsystems that are no longer there stay; the diagrams refer   *)
(* to none of them.                                                        *)
WriteProject(f, w) == [manifest |-> Whole, root |-> w.root, subs |-> w.subs]

Save(d, w) == disk' = [disk EXCEPT ![d] = WriteProject(@, w)]

(* What a save that does not come to its end leaves: the files are written *)
(* in this order, each is emptied before it is filled, and the text of the *)
(* model comes after them.                                                 *)
CutShort(f, w) ==
    {[f EXCEPT !.manifest = m] : m \in {f.manifest, Broken}}
    \cup {[f EXCEPT !.manifest = Whole, !.root = r] : r \in {f.root, Broken}}
    \cup {[manifest |-> Whole, root |-> w.root, subs |-> s] : s \in {f.subs, Broken, w.subs}}

(* A project is created empty and then saved.                              *)
LeftBy(c) ==
    IF c.kind = "save" THEN CutShort(disk[c.dir], c.work)
    ELSE CutShort(EmptyFolder, Made(0))
         \cup CutShort(WriteProject(EmptyFolder, Made(0)), c.work)

WriteStops(c) ==
    /\ disk' \in {[disk EXCEPT ![c.dir] = f] : f \in LeftBy(c)}
    /\ struck' = (struck \/ (c.dir = rootDir /\ ~dirty /\ disk' # disk))

(***************************************************************************)
(* The page                                                                *)
(***************************************************************************)
\* Mutant: the timer is started by the first change only.
RearmOnce ==
    IF dirty' = dirty THEN UNCHANGED <<draftDue, draftFailed>>
                      ELSE draftDue' = dirty' /\ draftFailed' = FALSE
(* The draft's timer starts again whenever what it would save changes.     *)
Rearm ==
    IF <<rootDir, work, dirty>>' = <<rootDir, work, dirty>>
    THEN UNCHANGED <<draftDue, draftFailed>>
    ELSE draftDue' = dirty' /\ draftFailed' = FALSE

(* Saves under way are from now on older than the work.                    *)
Overtake(q) == [i \in DOMAIN q |-> [q[i] EXCEPT !.late = (q[i].kind = "save")]]

Command(kind, d, w) == [kind |-> kind, dir |-> d, work |-> w, late |-> FALSE]

Ask(call) ==
    /\ running /\ Len(calls) < MaxCalls
    /\ calls' = Append(calls, call)
    /\ UNCHANGED <<pageVars, disk, draftVars, running, fresh, faults, history>>

(* Any edit: undo, redo and an import are edits here.                      *)
Edit ==
    /\ running /\ clock < MaxEdits
    /\ clock' = clock + 1
    /\ work' = Made(clock + 1)
    /\ dirty' = TRUE
    /\ calls' = Overtake(calls)
    /\ UNCHANGED <<rootDir, disk, draft, running, fresh, faults, history>>
    /\ Rearm

\* Mutant: the draft is cleared as soon as the save has been asked for.
DoSaveClears ==
    /\ rootDir # NoDir /\ running /\ Len(calls) < MaxCalls
    /\ calls' = Append(calls, Command("save", rootDir, work))
    /\ draft' = NoDraft
    /\ UNCHANGED <<pageVars, disk, draftDue, draftFailed, running, fresh, faults, history>>
(* Save, and the autosave every 30 s: a snapshot is sent.  Without a       *)
(* folder the page asks for one instead.                                   *)
DoSave == rootDir # NoDir /\ Ask(Command("save", rootDir, work))

Autosave == dirty /\ DoSave

(* Open, Open recent; work that is not saved is given up on request.       *)
DoOpen == \E d \in Dirs : Ask(Command("open", d, Made(0)))

(* Save as (the work in a new folder) and New (an empty project): three    *)
(* commands of which nobody sees the middle, to create, save and open.     *)
DoSaveAs == Ask(Command("create", NewDir, work))
DoNew == Ask(Command("create", NewDir, Made(0)))

(* 1.5 s after the last change.  When there is no room the old draft       *)
(* stays, nobody is told, and it is not tried again before the next change.*)
WriteCrashDraft ==
    /\ running /\ draftDue
    /\ \/ draft' = [dir |-> rootDir, work |-> work] /\ UNCHANGED draftFailed
       \/ draftFailed' = TRUE /\ UNCHANGED draft
    /\ draftDue' = FALSE
    /\ UNCHANGED <<pageVars, disk, calls, running, fresh, faults, history>>

(***************************************************************************)
(* The back end carries out the first command and the page sees the answer.*)
(* Between the two only later commands of the same queue could come, so    *)
(* they are one step; being killed in between is part of Crash.            *)
(***************************************************************************)
\* Mutant: an answered save leaves the work marked as unsaved.
SavedStillDirty(c) ==
    /\ Save(c.dir, c.work)
    /\ IF c.late THEN work' \in [root: {work.root, c.work.root}, subs: {work.subs, c.work.subs}]
                 ELSE work' = work
    /\ dirty' = dirty
    /\ draft' = NoDraft
    /\ overtaken' = c.late
    /\ struck' = (struck /\ c.dir # rootDir)
    /\ calls' = IF c.late THEN Overtake(Tail(calls)) ELSE Tail(calls)
    /\ UNCHANGED <<clock, rootDir, faults>>
(* What was saved takes the place of what is stored, but not of what is in *)
(* the view: after later edits the work may be any mixture of the two.     *)
Saved(c) ==
    /\ Save(c.dir, c.work)
    /\ IF c.late THEN work' \in [root: {work.root, c.work.root}, subs: {work.subs, c.work.subs}]
                 ELSE work' = work
    /\ dirty' = FALSE
    /\ draft' = NoDraft
    /\ overtaken' = c.late
    /\ struck' = (struck /\ c.dir # rootDir)
    /\ calls' = IF c.late THEN Overtake(Tail(calls)) ELSE Tail(calls)
    /\ UNCHANGED <<clock, rootDir, faults>>

\* Mutant: a failed save is taken for a save.
SaveFailsQuietly(c) ==
    /\ faults < MaxFaults
    /\ WriteStops(c)
    /\ faults' = faults + 1
    /\ calls' = Tail(calls)
    /\ dirty' = FALSE
    /\ UNCHANGED <<clock, rootDir, work, draft, overtaken>>
(* A file cannot be written: the page is told and goes on as it is.        *)
SaveFails(c) ==
    /\ faults < MaxFaults
    /\ WriteStops(c)
    /\ faults' = faults + 1
    /\ calls' = Tail(calls)
    /\ UNCHANGED <<pageVars, draft, overtaken>>

LoadProject(d, w) ==
    /\ rootDir' = d
    /\ work' = w
    /\ dirty' = FALSE
    /\ overtaken' = FALSE /\ struck' = FALSE
    /\ calls' = Overtake(Tail(calls))
    /\ UNCHANGED <<clock, faults>>

Opened(c) ==
    /\ Readable(disk[c.dir])
    /\ LoadProject(c.dir, OpenProject(disk[c.dir]))
    /\ UNCHANGED <<disk, draft>>

(* A new project needs a folder of its own; the draft is deleted.          *)
Created(c) ==
    /\ disk[c.dir] = EmptyFolder
    /\ Save(c.dir, c.work)
    /\ LoadProject(c.dir, c.work)
    /\ draft' = NoDraft

(* Creating the empty project or writing the work into it fails: what is   *)
(* there by then stays, and the page goes on with its old project.         *)
CreateFails(c) ==
    /\ disk[c.dir] = EmptyFolder
    /\ SaveFails(c)

Refused(c) ==
    /\ \/ c.kind = "open" /\ ~Readable(disk[c.dir])
       \/ c.kind = "create" /\ disk[c.dir] # EmptyFolder
    /\ calls' = Tail(calls)
    /\ UNCHANGED <<pageVars, disk, faults, draft, history>>

Serve ==
    /\ running /\ calls # << >>
    /\ LET c == Head(calls)
       IN  \/ c.kind = "save" /\ Saved(c)
           \/ c.kind = "save" /\ SaveFails(c)
           \/ c.kind = "open" /\ Opened(c)
           \/ c.kind = "create" /\ Created(c)
           \/ c.kind = "create" /\ CreateFails(c)
           \/ Refused(c)
    /\ Rearm
    /\ UNCHANGED <<running, fresh>>

(***************************************************************************)
(* Crash, close and restart                                                *)
(***************************************************************************)
(* Killed, perhaps during the save or the creation in hand or after it.    *)
Crash ==
    /\ running /\ faults < MaxFaults
    /\ \/ UNCHANGED <<disk, struck>>
       \/ /\ calls # << >>
          /\ LET c == Head(calls)
             IN  /\ c.kind # "open"
                 /\ c.kind = "create" => disk[c.dir] = EmptyFolder
                 /\ WriteStops(c)
    /\ faults' = faults + 1
    /\ running' = FALSE
    /\ calls' = << >>
    /\ UNCHANGED <<pageVars, draftVars, fresh, overtaken>>

(* Closed by the user, who has agreed to lose what is not saved: neither   *)
(* work nor draft remain.                                                  *)
RequestClose ==
    /\ running
    /\ running' = FALSE /\ fresh' = FALSE
    /\ rootDir' = NoDir /\ work' = Made(0) /\ dirty' = FALSE
    /\ draft' = NoDraft /\ draftDue' = FALSE /\ draftFailed' = FALSE
    /\ calls' = << >>
    /\ UNCHANGED <<clock, disk, faults, history>>

(* The user waits for longer than STALE_MS before starting again.          *)
Wait ==
    /\ ~running /\ fresh
    /\ fresh' = FALSE
    /\ UNCHANGED <<pageVars, disk, calls, draftVars, running, faults, history>>

Start ==
    /\ ~running
    /\ running' = TRUE /\ fresh' = TRUE
    /\ draftFailed' = FALSE /\ overtaken' = FALSE /\ struck' = FALSE

(* A draft that is not empty is offered when the heartbeat is stale.       *)
RestoreDraft ==
    /\ Start
    /\ draft # NoDraft /\ draft.work # Made(0) /\ ~fresh
    /\ rootDir' = draft.dir /\ work' = draft.work
    /\ dirty' = TRUE /\ draftDue' = TRUE
    /\ UNCHANGED <<clock, disk, calls, draft, faults>>

(* Otherwise, or when the user declines, it is deleted, and the project of *)
(* the command line, if any, is opened.                                    *)
StartAnew ==
    /\ Start
    /\ rootDir' = NoDir /\ work' = Made(0)
    /\ dirty' = FALSE
    /\ draft' = NoDraft /\ draftDue' = FALSE
    /\ calls' \in {<< >>, <<Command("open", HomeDir, Made(0))>>}
    /\ UNCHANGED <<clock, disk, faults>>

Init ==
    /\ clock = 0
    /\ rootDir = NoDir /\ work = Made(0) /\ dirty = FALSE
    /\ disk = [d \in Dirs |-> IF d = HomeDir THEN WriteProject(EmptyFolder, Made(0))
                                             ELSE EmptyFolder]
    /\ calls = << >>
    /\ draft = NoDraft /\ draftDue = FALSE
    /\ running = TRUE /\ fresh = TRUE
    /\ faults = 0
    /\ draftFailed = FALSE /\ overtaken = FALSE /\ struck = FALSE

Next ==
    \/ Edit
    \/ DoSave \/ DoOpen \/ DoSaveAs \/ DoNew \/ WriteCrashDraft
    \/ Serve
    \/ Crash \/ RequestClose \/ Wait \/ RestoreDraft \/ StartAnew

(* The timer of the autosave goes off again and again, and the back end    *)
(* works its queue off.  The bound on the queue may keep the timer waiting *)
(* between two commands, hence strong fairness.                            *)
Spec == Init /\ [][Next]_vars /\ SF_vars(Autosave) /\ WF_vars(Serve)

-----------------------------------------------------------------------------
TypeOK ==
    /\ clock \in Versions /\ rootDir \in Dirs \cup {NoDir}
    /\ work \in Works
    /\ draft = NoDraft \/ draft.work \in Works
    /\ Len(calls) <= MaxCalls

(* Opening the folder would bring the work back.                           *)
OnDisk ==
    /\ rootDir # NoDir
    /\ Readable(disk[rootDir])
    /\ OpenProject(disk[rootDir]) = work

(* The draft would bring it back.                                          *)
InDraft == draft = [dir |-> rootDir, work |-> work]

(* A project that is shown as saved is on disk, after any sequence of      *)
(* edits, saves, failed saves, loads, crashes and restarts.  There are two *)
(* exceptions.  A save older than the work when its answer comes clears    *)
(* the mark all the same (useStudioProject.ts:277).  And to save work once *)
(* more that is saved already empties its files before it fills them       *)
(* (project/mod.rs:154): when that fails, nothing marks the work.          *)
CleanIsOnDisk ==
    running /\ ~dirty /\ rootDir # NoDir /\ ~overtaken /\ ~struck => OnDisk

(* When the draft's timer is not running, work that is not saved is in the *)
(* draft as it is now (useStudioSession.ts:135), unless the draft could    *)
(* not be written, which goes unnoticed (crashDraft.ts:20).                *)
DraftIsCurrent == dirty /\ ~draftDue /\ ~draftFailed => InDraft

(* After a crash, wherever it comes in a save or a creation, the work can  *)
(* be had back from its folder or from the draft.  What can be lost is the *)
(* last 1.5 s, what the draft had no room for, and the two exceptions of   *)
(* CleanIsOnDisk.                                                          *)
WorkSurvives ==
    ~running /\ (dirty \/ rootDir # NoDir) =>
        \/ OnDisk \/ InDraft
        \/ dirty /\ (draftDue \/ draftFailed)
        \/ ~dirty /\ (overtaken \/ struck)

(* Work in a folder is saved without the user doing anything, however the  *)
(* saves fail (useStudioSession.ts:158): the page keeps asking until this  *)
(* version or a later one is in its folder.  Otherwise the program ends,   *)
(* an older project takes the place of the work on the screen, or the      *)
(* answer to an older save clears the mark (useStudioProject.ts:277).      *)
DirtyIsSaved ==
    \A edit \in 1..MaxEdits :
        (running /\ dirty /\ rootDir # NoDir /\ work.root = edit)
            ~> \/ ~dirty /\ OnDisk /\ work.root >= edit
               \/ ~running \/ work.root < edit \/ overtaken
=============================================================================
