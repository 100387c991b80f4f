------------------------ MODULE StudioProject_proofs ------------------------
(***************************************************************************)
(* What is shown as saved is on disk, unsaved work is in the draft, and    *)
(* after a crash the work is in one of the two: for any folders, any       *)
(* number of edits, commands and faults.                                   *)
(***************************************************************************)
EXTENDS StudioProject, SequenceTheorems, TLAPS

Folders == [manifest: {Whole, NoFile, Broken},
            root: Versions \cup {NoFile, Broken}, subs: Versions \cup {Broken}]
Commands == [kind: {"save", "open", "create"}, dir: Dirs, work: Works, late: BOOLEAN]
Drafts == [dir: Dirs \cup {NoDir}, work: Works]

Types ==
    /\ clock \in Versions
    /\ rootDir \in Dirs \cup {NoDir}
    /\ work \in Works
    /\ dirty \in BOOLEAN /\ draftDue \in BOOLEAN /\ running \in BOOLEAN
    /\ draftFailed \in BOOLEAN /\ overtaken \in BOOLEAN /\ struck \in BOOLEAN
    /\ disk \in [Dirs -> Folders]
    /\ calls \in Seq(Commands) /\ Len(calls) <= MaxCalls
    /\ draft = NoDraft \/ draft \in Drafts

(* Every version in existence is that of an edit that has been made, so    *)
(* the next edit changes the work.                                         *)
Fine(w) == w.root <= clock

WorksInv ==
    /\ Fine(work)
    /\ \A i \in 1..Len(calls) : Fine(calls[i].work)
    /\ \A d \in Dirs : Fine(disk[d])
    /\ draft # NoDraft => Fine(draft.work)

(* A save that is not late carries the work as it is now to the folder     *)
(* that is open now, and nothing is under way when the program is down.    *)
SavesInv ==
  /\ ~running => calls = << >>
  /\ \A i \in 1..Len(calls) : calls[i].kind = "save" /\ ~calls[i].late =>
        calls[i].dir = rootDir /\ calls[i].work = work

(* Work shown as saved is on disk, also while the program is down.         *)
CleanInv == ~dirty /\ rootDir # NoDir /\ ~overtaken /\ ~struck => OnDisk

IInv == Types /\ WorksInv /\ SavesInv /\ CleanInv /\ DraftIsCurrent

-----------------------------------------------------------------------------
(* Commands that are overtaken remain the same but for the mark.           *)
LEMMA OvertakeKeeps ==
  ASSUME NEW q \in Seq(Commands)
  PROVE  /\ Overtake(q) \in Seq(Commands)
         /\ Len(Overtake(q)) = Len(q)
         /\ \A i \in 1..Len(q) : /\ Overtake(q)[i].work = q[i].work
                                 /\ Overtake(q)[i].kind = q[i].kind
                                 /\ Overtake(q)[i].kind = "save" => Overtake(q)[i].late
<1>1. DOMAIN q = 1..Len(q) /\ Len(q) \in Nat
  BY LenProperties
<1>2. \A i \in 1..Len(q) : q[i] \in Commands
  BY ElementOfSeq
<1>3. \A i \in 1..Len(q) : [q[i] EXCEPT !.late = (q[i].kind = "save")] \in Commands
  BY <1>2 DEF Commands
<1>4. Overtake(q) = [i \in 1..Len(q) |-> [q[i] EXCEPT !.late = (q[i].kind = "save")]]
  BY <1>1 DEF Overtake
<1>5. Overtake(q) \in [1..Len(q) -> Commands]
  BY <1>3, <1>4
<1>6. Overtake(q) \in Seq(Commands) /\ Len(Overtake(q)) = Len(q)
  BY <1>1, <1>5
<1>7. QED
  BY <1>2, <1>4, <1>6 DEF Commands

(* The rest of the queue.                                                  *)
LEMMA TailKeeps ==
  ASSUME NEW q \in Seq(Commands), q # << >>
  PROVE  /\ Head(q) \in Commands /\ Head(q) = q[1] /\ 1 \in 1..Len(q)
         /\ Tail(q) \in Seq(Commands) /\ Len(Tail(q)) <= Len(q)
         /\ \A i \in 1..Len(Tail(q)) : i + 1 \in 1..Len(q) /\ Tail(q)[i] = q[i + 1]
<1>1. Len(q) \in Nat \ {0}
  BY EmptySeq
<1>2. /\ Head(q) \in Commands /\ Tail(q) \in Seq(Commands)
      /\ Len(Tail(q)) = Len(q) - 1
      /\ \A i \in 1..Len(Tail(q)) : Tail(q)[i] = q[i + 1]
  BY HeadTailProperties
<1>3. QED
  BY <1>1, <1>2

(* A command more.                                                         *)
LEMMA AppendKeeps ==
  ASSUME NEW q \in Seq(Commands), NEW c \in Commands
  PROVE  /\ Append(q, c) \in Seq(Commands) /\ Len(Append(q, c)) = Len(q) + 1
         /\ Append(q, c)[Len(q) + 1] = c
         /\ \A i \in 1..Len(q) : Append(q, c)[i] = q[i]
  BY AppendProperties

(* What a save puts into a folder, and what it leaves when it is cut short.*)
LEMMA WriteKeeps ==
  ASSUME NEW f \in Folders, NEW w \in Works
  PROVE  /\ WriteProject(f, w) \in Folders
         /\ WriteProject(f, w).root = w.root
         /\ Readable(WriteProject(f, w)) /\ OpenProject(WriteProject(f, w)) = w
         /\ \A g \in CutShort(f, w) : g \in Folders /\ g.root \in {f.root, Broken, w.root}
<1>1. /\ w = [root |-> w.root, subs |-> w.subs]
      /\ w.root \in Versions /\ w.subs \in Versions \cup {Broken}
  BY DEF Works
<1>2. /\ f = [manifest |-> f.manifest, root |-> f.root, subs |-> f.subs]
      /\ f.manifest \in {Whole, NoFile, Broken}
      /\ f.root \in Versions \cup {NoFile, Broken} /\ f.subs \in Versions \cup {Broken}
  BY DEF Folders
<1>3. /\ WriteProject(f, w) \in Folders /\ WriteProject(f, w).root = w.root
      /\ Readable(WriteProject(f, w)) /\ OpenProject(WriteProject(f, w)) = w
  BY <1>1 DEF WriteProject, Folders, Readable, OpenProject
<1>4. ASSUME NEW g \in CutShort(f, w)
      PROVE  g \in Folders /\ g.root \in {f.root, Broken, w.root}
  <2>1. CASE \E m \in {f.manifest, Broken} : g = [f EXCEPT !.manifest = m]
    BY <2>1, <1>2 DEF Folders
  <2>2. CASE \E r \in {f.root, Broken} : g = [f EXCEPT !.manifest = Whole, !.root = r]
    BY <2>2, <1>2 DEF Folders
  <2>3. CASE \E n \in {f.subs, Broken, w.subs} :
               g = [manifest |-> Whole, root |-> w.root, subs |-> n]
    BY <2>3, <1>1, <1>2 DEF Folders
  <2>4. QED
    BY <1>4, <2>1, <2>2, <2>3 DEF CutShort
<1>5. QED
  BY <1>3, <1>4

-----------------------------------------------------------------------------
(* One lemma per action.  Each proves the five parts of the invariant.     *)

LEMMA MadeIsWork ==
  ASSUME NEW n \in Versions
  PROVE  Made(n) \in Works /\ Made(n).root = n /\ Made(n).subs = n /\ 0 \in Versions
  BY ProjectBounds DEF Made, Works, Versions

LEMMA CallsTyped ==
  ASSUME Types
  PROVE  \A i \in 1..Len(calls) : calls[i] \in Commands /\ calls[i].work \in Works
<1>1. calls \in Seq(Commands)
  BY DEF Types
<1>2. \A i \in 1..Len(calls) : calls[i] \in Commands
  BY <1>1, ElementOfSeq
<1>3. QED
  BY <1>2 DEF Commands

LEMMA EmptyQueue ==
  ASSUME calls' = << >>
  PROVE  calls' \in Seq(Commands) /\ Len(calls') = 0 /\ Len(calls') <= MaxCalls
<1>1. << >> \in Seq(Commands) /\ Len(<< >>) = 0
  BY EmptySeq
<1>2. Len(calls') = 0
  BY <1>1
<1>3. Len(calls') <= MaxCalls
  BY <1>2, ProjectBounds
<1>4. QED
  BY <1>1, <1>2, <1>3

LEMMA AskKeeps ==
  ASSUME IInv, NEW c \in Commands, Fine(c.work), ~c.late,
         c.kind = "save" => c.dir = rootDir /\ c.work = work, Ask(c)
  PROVE  IInv'
<1> USE DEF IInv
<1>1. /\ calls' = Append(calls, c) /\ Len(calls) < MaxCalls
      /\ UNCHANGED <<clock, rootDir, work, dirty, disk, draft, draftDue, draftFailed, running,
                     overtaken, struck>>
  BY DEF Ask, pageVars, draftVars, history
<1>2. /\ calls' \in Seq(Commands) /\ Len(calls') = Len(calls) + 1 /\ Len(calls) \in Nat
      /\ calls'[Len(calls) + 1] = c
      /\ \A i \in 1..Len(calls) : calls'[i] = calls[i]
  BY <1>1, AppendKeeps DEF Types
<1>3. \A i \in 1..Len(calls') : i \in 1..Len(calls) \/ i = Len(calls) + 1
  BY <1>2
<1>4. Types'
  <2>1. Len(calls') <= MaxCalls
    BY <1>1, <1>2, ProjectBounds
  <2>2. QED
    BY <2>1, <1>1, <1>2 DEF Types
<1>5. WorksInv'
  <2>1. \A w : Fine(w) => Fine(w)'
    BY <1>1 DEF Fine
  <2>2. \A i \in 1..Len(calls') : Fine(calls'[i].work)
    BY <1>2, <1>3 DEF WorksInv
  <2>3. QED
    BY <2>2, <1>1 DEF WorksInv, Fine
<1>6. SavesInv'
  <2>1. running' = TRUE
    BY <1>1 DEF Ask, Types
  <2>2. QED
    BY <2>1, <1>1, <1>2, <1>3 DEF SavesInv
<1>7. CleanInv' /\ DraftIsCurrent'
  BY <1>1 DEF CleanInv, DraftIsCurrent, InDraft, OnDisk
<1>8. QED
  BY <1>4, <1>5, <1>6, <1>7

LEMMA EditKeeps ==
  ASSUME IInv, Edit
  PROVE  IInv'
<1> USE DEF IInv
<1>1. /\ clock < MaxEdits /\ clock' = clock + 1 /\ clock \in Nat
      /\ clock' \in Versions /\ clock' > clock
      /\ work' = Made(clock') /\ work' \in Works /\ work'.root = clock' /\ work'.subs = clock'
      /\ dirty' = TRUE
      /\ calls' = Overtake(calls)
      /\ UNCHANGED <<rootDir, disk, draft, running, overtaken, struck>>
  <2>1. clock \in Nat /\ clock + 1 \in Versions
    BY ProjectBounds DEF Edit, Types, Versions
  <2>2. QED
    BY <2>1, MadeIsWork DEF Edit, history
<1>2. work' # work /\ draftDue' = TRUE /\ draftFailed' = FALSE
  <2>1. work.root # clock + 1
    BY <1>1 DEF WorksInv, Fine, Types, Works, Versions
  <2>2. work' # work
    BY <1>1, <2>1
  <2>3. QED
    BY <2>2, <1>1 DEF Edit, Rearm
<1>3. /\ calls' \in Seq(Commands) /\ Len(calls') = Len(calls)
      /\ \A i \in 1..Len(calls) : /\ calls'[i].work = calls[i].work
                                  /\ calls'[i].kind = "save" => calls'[i].late
  BY <1>1, OvertakeKeeps DEF Types
<1>4. Types'
  BY <1>1, <1>2, <1>3 DEF Types
<1>5. WorksInv'
  <2>1. Fine(work)'
    BY <1>1 DEF Fine, Versions
  <2>2. \A i \in 1..Len(calls) : calls[i].work \in Works
    BY CallsTyped
  <2>3. \A i \in 1..Len(calls') : Fine(calls[i].work)'
    BY <1>1, <1>3, <2>2 DEF WorksInv, Fine, Works, Versions
  <2>4. \A d \in Dirs : disk'[d].root <= clock'
    BY <1>1 DEF WorksInv, Fine, Types, Folders, Versions, NoFile, Broken
  <2>5. draft # NoDraft => draft.work.root <= clock'
    BY <1>1 DEF WorksInv, Fine, Types, Drafts, Works, Versions
  <2>6. QED
    BY <1>1, <1>3, <2>1, <2>3, <2>4, <2>5 DEF WorksInv, Fine
<1>6. SavesInv'
  <2>1. running' = TRUE
    BY <1>1 DEF Edit, Types
  <2>2. QED
    BY <2>1, <1>3 DEF SavesInv
<1>7. CleanInv' /\ DraftIsCurrent'
  BY <1>1, <1>2 DEF CleanInv, DraftIsCurrent
<1>8. QED
  BY <1>4, <1>5, <1>6, <1>7

LEMMA DraftKeeps ==
  ASSUME IInv, WriteCrashDraft
  PROVE  IInv'
<1> USE DEF IInv
<1>1. /\ \/ draft' = [dir |-> rootDir, work |-> work] /\ draftFailed' = draftFailed
         \/ draft' = draft /\ draftFailed' = TRUE
      /\ draftDue' = FALSE
      /\ UNCHANGED <<clock, rootDir, work, dirty, disk, calls, running, overtaken, struck>>
  BY DEF WriteCrashDraft, pageVars, history
<1>2. [dir |-> rootDir, work |-> work] \in Drafts
  BY DEF Types, Drafts
<1>3. Types'
  BY <1>1, <1>2 DEF Types
<1>4. WorksInv' /\ SavesInv'
  BY <1>1 DEF WorksInv, SavesInv, Fine
<1>5. CleanInv' /\ DraftIsCurrent'
  BY <1>1 DEF CleanInv, DraftIsCurrent, InDraft, OnDisk
<1>6. QED
  BY <1>3, <1>4, <1>5

(* The command in hand, and those behind it.                               *)
LEMMA QueueKeeps ==
  ASSUME IInv, calls # << >>
  PROVE  /\ Head(calls) \in Commands /\ Head(calls).work \in Works /\ Head(calls).dir \in Dirs
         /\ Fine(Head(calls).work)
         /\ Head(calls).kind = "save" /\ ~Head(calls).late =>
               Head(calls).dir = rootDir /\ Head(calls).work = work
         /\ Tail(calls) \in Seq(Commands)
         /\ Len(Tail(calls)) <= MaxCalls
         /\ \A i \in 1..Len(Tail(calls)) :
               /\ Fine(Tail(calls)[i].work) /\ Tail(calls)[i].work \in Works
               /\ Tail(calls)[i].kind = "save" /\ ~Tail(calls)[i].late =>
                     Tail(calls)[i].dir = rootDir /\ Tail(calls)[i].work = work
<1>1. calls \in Seq(Commands) /\ Len(calls) <= MaxCalls /\ Types
  BY DEF IInv, Types
<1>2. /\ Head(calls) \in Commands /\ Head(calls) = calls[1] /\ 1 \in 1..Len(calls)
      /\ Tail(calls) \in Seq(Commands) /\ Len(Tail(calls)) <= Len(calls)
      /\ \A i \in 1..Len(Tail(calls)) :
            i + 1 \in 1..Len(calls) /\ Tail(calls)[i] = calls[i + 1]
  BY <1>1, TailKeeps
<1>3. Len(Tail(calls)) <= MaxCalls
  <2>1. Len(Tail(calls)) \in Nat /\ Len(calls) \in Nat
    BY <1>1, <1>2
  <2>2. QED
    BY <2>1, <1>1, <1>2, ProjectBounds
<1>4. Head(calls).work \in Works /\ Head(calls).dir \in Dirs
  BY <1>2 DEF Commands
<1>5. \A i \in 1..Len(calls) : Fine(calls[i].work) /\ calls[i].work \in Works
  BY <1>1, CallsTyped DEF IInv, WorksInv
<1>6. QED
  BY <1>2, <1>3, <1>4, <1>5 DEF IInv, SavesInv

(* Overtaken, they are of no open work any more.                           *)
LEMMA OvertakenQueueKeeps ==
  ASSUME IInv, calls # << >>
  PROVE  LET q == Overtake(Tail(calls))
         IN  /\ q \in Seq(Commands) /\ Len(q) <= MaxCalls
             /\ \A i \in 1..Len(q) : /\ Fine(q[i].work) /\ q[i].work \in Works
                                     /\ q[i].kind = "save" => q[i].late
<1>1. /\ Tail(calls) \in Seq(Commands) /\ Len(Tail(calls)) <= MaxCalls
      /\ \A i \in 1..Len(Tail(calls)) : Fine(Tail(calls)[i].work) /\ Tail(calls)[i].work \in Works
  BY QueueKeeps
<1>2. QED
  BY <1>1, OvertakeKeeps

(* What a save does to the folders.                                        *)
LEMMA SaveWrites ==
  ASSUME Types, NEW d \in Dirs, NEW w \in Works, Save(d, w)
  PROVE  /\ disk' \in [Dirs -> Folders]
         /\ \A e \in Dirs \ {d} : disk'[e] = disk[e]
         /\ Readable(disk'[d]) /\ OpenProject(disk'[d]) = w
         /\ disk'[d].root = w.root
<1>1. disk[d] \in Folders /\ disk \in [Dirs -> Folders] /\ w.root \in Versions
  BY DEF Types, Works
<1>2. /\ disk' = [disk EXCEPT ![d] = WriteProject(disk[d], w)]
      /\ disk'[d] = WriteProject(disk[d], w)
      /\ \A e \in Dirs \ {d} : disk'[e] = disk[e]
  BY <1>1 DEF Save
<1>3. QED
  BY <1>1, <1>2, WriteKeeps

(* What a save or a creation that stops on its way does to them: when it   *)
(* changes the folder of work shown as saved, that is noted.               *)
LEMMA StopKeeps ==
  ASSUME IInv, NEW c \in Commands, Fine(c.work), WriteStops(c),
         UNCHANGED <<rootDir, work, dirty, clock>>
  PROVE  /\ disk' \in [Dirs -> Folders]
         /\ \A e \in Dirs : Fine(disk[e])'
         /\ struck' \in BOOLEAN
         /\ ~dirty /\ rootDir # NoDir /\ ~struck' => ~struck /\ (OnDisk => OnDisk')
<1>1. /\ disk \in [Dirs -> Folders] /\ clock \in Versions
      /\ c.dir \in Dirs /\ c.work \in Works
  BY DEF IInv, Types, Commands
<1>2. /\ Made(0) \in Works /\ Made(0).root = 0 /\ EmptyFolder \in Folders
      /\ EmptyFolder.root = NoFile
  BY MadeIsWork, ProjectBounds DEF EmptyFolder, Folders, Versions
<1>3. \A f \in Folders, w \in Works : \A g \in CutShort(f, w) :
         g \in Folders /\ g.root \in {f.root, Broken, w.root}
  BY WriteKeeps
<1>4. PICK g \in LeftBy(c) : disk' = [disk EXCEPT ![c.dir] = g]
  BY DEF WriteStops
<1>5. g \in Folders /\ g.root \in {disk[c.dir].root, c.work.root, NoFile, Broken, 0}
  <2>1. CASE c.kind = "save"
    <3>1. g \in CutShort(disk[c.dir], c.work)
      BY <2>1, <1>4 DEF LeftBy
    <3>2. QED
      BY <3>1, <1>1, <1>3
  <2>2. CASE g \in CutShort(EmptyFolder, Made(0))
    BY <2>2, <1>2, <1>3
  <2>3. CASE g \in CutShort(WriteProject(EmptyFolder, Made(0)), c.work)
    <3>1. /\ WriteProject(EmptyFolder, Made(0)) \in Folders
          /\ WriteProject(EmptyFolder, Made(0)).root = 0
      BY <1>2, WriteKeeps
    <3>2. QED
      BY <2>3, <3>1, <1>1, <1>3
  <2>4. QED
    BY <1>4, <2>1, <2>2, <2>3 DEF LeftBy
<1>6. g.root <= clock
  BY <1>1, <1>5 DEF IInv, WorksInv, Fine, Versions, NoFile, Broken
<1>7. /\ disk' \in [Dirs -> Folders] /\ disk'[c.dir] = g
      /\ \A e \in Dirs \ {c.dir} : disk'[e] = disk[e]
  BY <1>1, <1>4, <1>5
<1>8. \A e \in Dirs : Fine(disk[e])'
  BY <1>6, <1>7 DEF IInv, WorksInv, Fine
<1>9. struck' = (struck \/ (c.dir = rootDir /\ ~dirty /\ disk' # disk))
  BY DEF WriteStops
<1>10. ASSUME ~dirty, rootDir # NoDir, ~struck', OnDisk
       PROVE  OnDisk'
  <2>1. rootDir \in Dirs
    BY <1>10 DEF IInv, Types
  <2>2. disk'[rootDir] = disk[rootDir]
    BY <2>1, <1>7, <1>9, <1>10
  <2>3. QED
    BY <2>2, <1>10 DEF OnDisk
<1>11. QED
  BY <1>7, <1>8, <1>9, <1>10

(* An answered save.                                                       *)
LEMMA SavedKeeps ==
  ASSUME IInv, calls # << >>, NEW c, c = Head(calls), c.kind = "save", Saved(c), Rearm,
         UNCHANGED <<running, fresh>>
  PROVE  IInv'
<1> USE DEF IInv
<1>1. /\ dirty' = FALSE /\ draft' = NoDraft
      /\ overtaken' = c.late /\ struck' \in BOOLEAN
      /\ UNCHANGED <<clock, rootDir, running>>
  BY DEF Saved
<1>2. /\ c \in Commands /\ c.work \in Works /\ c.dir \in Dirs /\ Fine(c.work) /\ c.late \in BOOLEAN
      /\ ~c.late => c.dir = rootDir /\ c.work = work
  BY QueueKeeps DEF Commands
<1>3. draftDue' \in BOOLEAN /\ draftFailed' \in BOOLEAN
  BY <1>1 DEF Rearm, Types
<1>4. /\ work' \in Works
      /\ work'.root \in {work.root, c.work.root}
      /\ ~c.late => work' = work
  BY <1>2 DEF Saved, Types, Works
<1>5. Fine(work)'
  BY <1>1, <1>2, <1>4 DEF WorksInv, Fine
<1>6. /\ calls' \in Seq(Commands) /\ Len(calls') <= MaxCalls
      /\ \A i \in 1..Len(calls') :
            /\ Fine(calls'[i].work)
            /\ calls'[i].kind = "save" /\ ~calls'[i].late =>
                  calls'[i].dir = rootDir' /\ calls'[i].work = work'
  <2>1. CASE c.late
    <3>1. calls' = Overtake(Tail(calls))
      BY <2>1 DEF Saved
    <3>2. QED
      BY <3>1, OvertakenQueueKeeps
  <2>2. CASE ~c.late
    <3>1. calls' = Tail(calls) /\ work' = work /\ rootDir' = rootDir
      BY <2>2, <1>1, <1>4 DEF Saved
    <3>2. QED
      BY <3>1, QueueKeeps
  <2>3. QED
    BY <2>1, <2>2
<1>7. /\ disk' \in [Dirs -> Folders]
      /\ \A d \in Dirs \ {c.dir} : disk'[d] = disk[d]
      /\ Readable(disk'[c.dir]) /\ OpenProject(disk'[c.dir]) = c.work
      /\ disk'[c.dir].root = c.work.root
  BY <1>2, SaveWrites DEF Saved
<1>8. Types'
  BY <1>1, <1>2, <1>3, <1>4, <1>6, <1>7 DEF Types
<1>9. WorksInv'
  BY <1>1, <1>2, <1>5, <1>6, <1>7 DEF WorksInv, Fine
<1>10. SavesInv' /\ DraftIsCurrent'
  BY <1>1, <1>6 DEF SavesInv, DraftIsCurrent
<1>11. CleanInv'
  <2>1. ~c.late => OnDisk'
    BY <1>1, <1>2, <1>4, <1>7, ProjectFolders DEF OnDisk
  <2>2. QED
    BY <2>1, <1>1 DEF CleanInv
<1>12. QED
  BY <1>8, <1>9, <1>10, <1>11

(* A save or a creation that fails changes nothing in the page.            *)
LEMMA SaveFailsKeeps ==
  ASSUME IInv, calls # << >>, NEW c, c = Head(calls), SaveFails(c), Rearm,
         UNCHANGED <<running, fresh>>
  PROVE  IInv'
<1> USE DEF IInv
<1>1. /\ calls' = Tail(calls) /\ WriteStops(c)
      /\ UNCHANGED <<clock, rootDir, work, dirty, draft, running, overtaken>>
  BY DEF SaveFails, pageVars
<1>2. c \in Commands /\ Fine(c.work)
  BY QueueKeeps
<1>3. draftDue' = draftDue /\ draftFailed' = draftFailed
  BY <1>1 DEF Rearm
<1>4. /\ disk' \in [Dirs -> Folders]
      /\ \A e \in Dirs : Fine(disk[e])'
      /\ struck' \in BOOLEAN
      /\ ~dirty /\ rootDir # NoDir /\ ~struck' => ~struck /\ (OnDisk => OnDisk')
  BY <1>1, <1>2, StopKeeps
<1>5. Types'
  BY <1>1, <1>3, <1>4, QueueKeeps DEF Types
<1>6. WorksInv'
  <2>1. \A i \in 1..Len(calls') : Fine(calls[i].work)'
    BY <1>1, QueueKeeps DEF Fine
  <2>2. QED
    BY <1>1, <1>4, <2>1 DEF WorksInv, Fine
<1>7. SavesInv' /\ DraftIsCurrent'
  BY <1>1, <1>3, QueueKeeps DEF SavesInv, DraftIsCurrent, InDraft
<1>8. CleanInv'
  BY <1>1, <1>4 DEF CleanInv
<1>9. QED
  BY <1>5, <1>6, <1>7, <1>8

(* A project is shown that is in its folder.                               *)
LEMMA LoadKeeps ==
  ASSUME IInv, calls # << >>, NEW d \in Dirs, NEW w \in Works, LoadProject(d, w), Rearm,
         UNCHANGED <<running, fresh>>, w.root <= clock,
         disk' \in [Dirs -> Folders], OpenProject(disk'[d]) = w, Readable(disk'[d]),
         \A e \in Dirs \ {d} : disk'[e] = disk[e],
         disk'[d].root = w.root, draft' \in {NoDraft, draft}
  PROVE  IInv'
<1> USE DEF IInv
<1>1. /\ rootDir' = d /\ work' = w /\ dirty' = FALSE /\ overtaken' = FALSE /\ struck' = FALSE
      /\ calls' = Overtake(Tail(calls))
      /\ UNCHANGED <<clock, running>>
  BY DEF LoadProject
<1>2. draftDue' \in BOOLEAN /\ draftFailed' \in BOOLEAN
  BY <1>1 DEF Rearm, Types
<1>3. Types'
  BY <1>1, <1>2, OvertakenQueueKeeps DEF Types
<1>4. WorksInv'
  <2>1. \A i \in 1..Len(calls') : Fine(calls[i].work)'
    BY <1>1, OvertakenQueueKeeps DEF Fine
  <2>2. draft' # NoDraft => draft' = draft /\ draft # NoDraft
    OBVIOUS
  <2>3. draft' # NoDraft => Fine(draft.work)'
    BY <1>1, <2>2 DEF WorksInv, Fine
  <2>4. \A e \in Dirs : Fine(disk[e])'
    BY <1>1 DEF WorksInv, Fine
  <2>5. QED
    BY <1>1, <2>1, <2>3, <2>4 DEF WorksInv, Fine
<1>5. SavesInv'
  BY <1>1, OvertakenQueueKeeps DEF SavesInv
<1>6. CleanInv' /\ DraftIsCurrent'
  BY <1>1 DEF CleanInv, DraftIsCurrent, OnDisk
<1>7. QED
  BY <1>3, <1>4, <1>5, <1>6

LEMMA OpenedKeeps ==
  ASSUME IInv, calls # << >>, NEW c, c = Head(calls), Opened(c), Rearm,
         UNCHANGED <<running, fresh>>
  PROVE  IInv'
<1> DEFINE w == OpenProject(disk[c.dir])
<1>1. c.dir \in Dirs /\ Readable(disk[c.dir]) /\ disk[c.dir] \in Folders
  BY QueueKeeps DEF Opened, IInv, Types
<1>2. w \in Works /\ w.root = disk[c.dir].root
  BY <1>1 DEF OpenProject, Works, Folders, Readable
<1>3. w.root <= clock
  BY <1>1, <1>2 DEF IInv, WorksInv, Fine
<1>4. /\ LoadProject(c.dir, w) /\ disk' = disk /\ draft' = draft
      /\ disk' \in [Dirs -> Folders]
  BY DEF Opened, IInv, Types
<1> HIDE DEF w
<1>5. OpenProject(disk'[c.dir]) = w /\ Readable(disk'[c.dir])
  BY <1>1, <1>4 DEF w
<1>6. QED
  BY <1>1, <1>2, <1>3, <1>4, <1>5, LoadKeeps

LEMMA CreatedKeeps ==
  ASSUME IInv, calls # << >>, NEW c, c = Head(calls), Created(c), Rearm,
         UNCHANGED <<running, fresh>>
  PROVE  IInv'
<1>1. c.dir \in Dirs /\ c.work \in Works /\ c.work.root <= clock
  BY QueueKeeps DEF Fine
<1>2. Save(c.dir, c.work) /\ LoadProject(c.dir, c.work) /\ draft' = NoDraft
  BY DEF Created
<1>3. /\ disk' \in [Dirs -> Folders]
      /\ \A e \in Dirs \ {c.dir} : disk'[e] = disk[e]
      /\ Readable(disk'[c.dir]) /\ OpenProject(disk'[c.dir]) = c.work
      /\ disk'[c.dir].root = c.work.root
  BY <1>1, <1>2, SaveWrites DEF IInv
<1>4. QED
  BY <1>1, <1>2, <1>3, LoadKeeps

LEMMA RefusedKeeps ==
  ASSUME IInv, calls # << >>, NEW c, c = Head(calls), Refused(c), Rearm,
         UNCHANGED <<running, fresh>>
  PROVE  IInv'
<1> USE DEF IInv
<1>1. /\ calls' = Tail(calls)
      /\ UNCHANGED <<clock, rootDir, work, dirty, disk, draft, overtaken, struck, running>>
  BY DEF Refused, pageVars, history
<1>2. draftDue' = draftDue /\ draftFailed' = draftFailed
  BY <1>1 DEF Rearm
<1>3. Types'
  BY <1>1, <1>2, QueueKeeps DEF Types
<1>4. WorksInv'
  BY <1>1, QueueKeeps DEF WorksInv, Fine
<1>5. SavesInv' /\ CleanInv' /\ DraftIsCurrent'
  BY <1>1, <1>2, QueueKeeps DEF SavesInv, CleanInv, DraftIsCurrent, InDraft, OnDisk
<1>6. QED
  BY <1>3, <1>4, <1>5

LEMMA ServeKeeps ==
  ASSUME IInv, Serve
  PROVE  IInv'
<1> DEFINE c == Head(calls)
<1>1. calls # << >> /\ Rearm /\ UNCHANGED <<running, fresh>>
  BY DEF Serve
<1>2. CASE c.kind = "save" /\ Saved(c)
  BY <1>1, <1>2, SavedKeeps
<1>3. CASE c.kind = "save" /\ SaveFails(c)
  BY <1>1, <1>3, SaveFailsKeeps
<1>4. CASE Opened(c)
  BY <1>1, <1>4, OpenedKeeps
<1>5. CASE Created(c)
  BY <1>1, <1>5, CreatedKeeps
<1>6. CASE CreateFails(c)
  BY <1>1, <1>6, SaveFailsKeeps DEF CreateFails
<1>7. CASE Refused(c)
  BY <1>1, <1>7, RefusedKeeps
<1>8. QED
  BY <1>2, <1>3, <1>4, <1>5, <1>6, <1>7 DEF Serve

(* Killed: the page is gone, and the command in hand may have been carried *)
(* out in part or as a whole.                                              *)
LEMMA CrashKeeps ==
  ASSUME IInv, Crash
  PROVE  IInv'
<1> USE DEF IInv
<1>1. /\ running' = FALSE /\ calls' = << >>
      /\ UNCHANGED <<clock, rootDir, work, dirty, draft, draftDue, draftFailed, overtaken>>
  BY DEF Crash, pageVars, draftVars
<1>2. /\ disk' \in [Dirs -> Folders]
      /\ \A e \in Dirs : Fine(disk[e])'
      /\ struck' \in BOOLEAN
      /\ ~dirty /\ rootDir # NoDir /\ ~struck' => ~struck /\ (OnDisk => OnDisk')
  <2>1. CASE UNCHANGED <<disk, struck>>
    BY <2>1, <1>1 DEF Types, WorksInv, Fine, OnDisk
  <2>2. CASE calls # << >> /\ WriteStops(Head(calls))
    <3>1. Head(calls) \in Commands /\ Fine(Head(calls).work)
      BY <2>2, QueueKeeps
    <3>2. QED
      BY <2>2, <3>1, <1>1, StopKeeps
  <2>3. QED
    BY <2>1, <2>2 DEF Crash
<1>3. calls' \in Seq(Commands) /\ Len(calls') = 0 /\ Len(calls') <= MaxCalls
  BY <1>1, EmptyQueue
<1>4. Types'
  BY <1>1, <1>2, <1>3 DEF Types
<1>5. WorksInv'
  BY <1>1, <1>2, <1>3 DEF WorksInv, Fine
<1>6. SavesInv' /\ CleanInv' /\ DraftIsCurrent'
  BY <1>1, <1>2, <1>3 DEF SavesInv, CleanInv, DraftIsCurrent, InDraft
<1>7. QED
  BY <1>4, <1>5, <1>6

LEMMA CloseKeeps ==
  ASSUME IInv, RequestClose
  PROVE  IInv'
<1> USE DEF IInv
<1>1. /\ running' = FALSE /\ calls' = << >> /\ draft' = NoDraft /\ dirty' = FALSE
      /\ rootDir' = NoDir /\ work' = Made(0) /\ draftDue' = FALSE /\ draftFailed' = FALSE
      /\ UNCHANGED <<clock, disk, overtaken, struck>>
  BY DEF RequestClose, history
<1>2. calls' \in Seq(Commands) /\ Len(calls') = 0 /\ Len(calls') <= MaxCalls
  BY <1>1, EmptyQueue
<1>3. Made(0) \in Works /\ Made(0).root <= clock
  BY MadeIsWork, ProjectBounds DEF Types, Versions
<1>4. Types' /\ WorksInv' /\ SavesInv'
  <2>1. Types'
    BY <1>1, <1>2, <1>3 DEF Types
  <2>2. WorksInv'
    BY <1>1, <1>2, <1>3 DEF WorksInv, Fine
  <2>3. SavesInv'
    BY <1>1, <1>2 DEF SavesInv
  <2>4. QED
    BY <2>1, <2>2, <2>3
<1>5. CleanInv' /\ DraftIsCurrent'
  BY <1>1 DEF CleanInv, DraftIsCurrent
<1>6. QED
  BY <1>4, <1>5

LEMMA RestoreKeeps ==
  ASSUME IInv, RestoreDraft
  PROVE  IInv'
<1> USE DEF IInv
<1>1. /\ draft \in Drafts /\ draft # NoDraft
      /\ rootDir' = draft.dir /\ work' = draft.work
      /\ dirty' = TRUE /\ draftDue' = TRUE /\ running' = TRUE
      /\ draftFailed' = FALSE /\ overtaken' = FALSE /\ struck' = FALSE
      /\ ~running /\ calls = << >>
      /\ UNCHANGED <<clock, disk, calls, draft>>
  BY DEF RestoreDraft, Start, Types, SavesInv
<1>2. rootDir' \in Dirs \cup {NoDir} /\ work' \in Works
  BY <1>1 DEF Drafts
<1>3. Types'
  BY <1>1, <1>2 DEF Types
<1>4. WorksInv'
  BY <1>1 DEF WorksInv, Fine
<1>5. SavesInv'
  <2>1. calls' = << >>
    BY <1>1
  <2>2. Len(calls') = 0
    BY <2>1, EmptyQueue
  <2>3. QED
    BY <2>1, <2>2 DEF SavesInv
<1>6. CleanInv' /\ DraftIsCurrent'
  BY <1>1 DEF CleanInv, DraftIsCurrent
<1>7. QED
  BY <1>3, <1>4, <1>5, <1>6

LEMMA StartKeeps ==
  ASSUME IInv, StartAnew
  PROVE  IInv'
<1> USE DEF IInv
<1> DEFINE open == Command("open", HomeDir, Made(0))
<1>1. /\ running' = TRUE /\ draftFailed' = FALSE /\ overtaken' = FALSE /\ struck' = FALSE
      /\ rootDir' = NoDir /\ work' = Made(0) /\ dirty' = FALSE
      /\ draft' = NoDraft /\ draftDue' = FALSE
      /\ calls' = << >> \/ calls' = <<open>>
      /\ UNCHANGED <<clock, disk>>
  BY DEF StartAnew, Start
<1>2. /\ Made(0) \in Works /\ Made(0).root = 0 /\ Made(0).subs = 0 /\ 0 <= clock
  BY MadeIsWork, ProjectBounds DEF Types, Versions
<1>3. /\ calls' \in Seq(Commands) /\ Len(calls') <= MaxCalls
      /\ \A i \in 1..Len(calls') : calls'[i].work = Made(0) /\ calls'[i].kind = "open"
  <2>1. CASE calls' = << >>
    BY <2>1, EmptyQueue
  <2>2. CASE calls' = <<open>>
    <3>1. open \in Commands /\ open.work = Made(0) /\ open.kind = "open"
      BY <1>2, ProjectFolders DEF Command, Commands
    <3> HIDE DEF open
    <3>2. calls' \in Seq(Commands) /\ Len(calls') = 1 /\ calls'[1] = open
      BY <2>2, <3>1
    <3>3. QED
      BY <3>1, <3>2, ProjectBounds
  <2>3. QED
    BY <1>1, <2>1, <2>2
<1>4. Types'
  BY <1>1, <1>2, <1>3 DEF Types
<1>5. WorksInv'
  <2>1. \A i \in 1..Len(calls') : Fine(calls[i].work)'
    BY <1>1, <1>2, <1>3 DEF Fine
  <2>2. QED
    BY <1>1, <1>2, <2>1 DEF WorksInv, Fine
<1>6. SavesInv'
  BY <1>1, <1>3 DEF SavesInv
<1>7. CleanInv' /\ DraftIsCurrent'
  BY <1>1 DEF CleanInv, DraftIsCurrent
<1>8. QED
  BY <1>4, <1>5, <1>6, <1>7

LEMMA StutterKeeps ==
  ASSUME IInv,
         UNCHANGED <<clock, rootDir, work, dirty, disk, calls, draft, draftDue, draftFailed,
                     overtaken, struck>>,
         running' = running
  PROVE  IInv'
  BY DEF IInv, Types, WorksInv, Fine, SavesInv, CleanInv, OnDisk, DraftIsCurrent, InDraft

-----------------------------------------------------------------------------
LEMMA InitHolds == Init => IInv
<1> SUFFICES ASSUME Init PROVE IInv
  OBVIOUS
<1>1. /\ Made(0) \in Works /\ Made(0).root = 0
      /\ clock = 0 /\ 0 \in Versions /\ NoFile <= 0
  BY MadeIsWork, ProjectBounds DEF Init, Versions, NoFile
<1>2. EmptyFolder \in Folders /\ EmptyFolder.root = NoFile
  BY <1>1 DEF EmptyFolder, Folders
<1>3. LET home == WriteProject(EmptyFolder, Made(0))
      IN  home \in Folders /\ home.root = 0
  BY <1>1, <1>2, WriteKeeps
<1>4. calls \in Seq(Commands) /\ Len(calls) = 0 /\ Len(calls) <= MaxCalls
  <2>1. << >> \in Seq(Commands) /\ Len(<< >>) = 0
    BY EmptySeq
  <2>2. Len(calls) = 0
    BY <2>1 DEF Init
  <2>3. QED
    BY <2>1, <2>2, ProjectBounds DEF Init
<1>5. /\ disk \in [Dirs -> Folders]
      /\ \A d \in Dirs : disk[d].root <= 0
  BY <1>1, <1>2, <1>3 DEF Init
<1>6. Types
  BY <1>1, <1>4, <1>5 DEF Init, Types
<1>7. WorksInv /\ SavesInv
  BY <1>1, <1>4, <1>5 DEF Init, WorksInv, SavesInv, Fine
<1>8. CleanInv /\ DraftIsCurrent
  BY DEF Init, CleanInv, DraftIsCurrent
<1>9. QED
  BY <1>6, <1>7, <1>8 DEF IInv

LEMMA NextKeeps == IInv /\ [Next]_vars => IInv'
<1> SUFFICES ASSUME IInv, [Next]_vars PROVE IInv'
  OBVIOUS
<1>1. CASE Edit
  BY <1>1, EditKeeps
<1>2. CASE DoSave
  <2>1. PICK c : c = Command("save", rootDir, work) /\ Ask(c) /\ rootDir # NoDir
    BY <1>2 DEF DoSave
  <2>2. c \in Commands /\ ~c.late /\ c.dir = rootDir /\ c.work = work
    BY <2>1 DEF Command, Commands, IInv, Types
  <2>3. QED
    BY <2>1, <2>2, AskKeeps DEF IInv, WorksInv
<1>3. ASSUME NEW d \in Dirs, NEW kind \in {"open", "create"}, NEW w \in {Made(0), work},
             Ask(Command(kind, d, w))
      PROVE  IInv'
  <2>1. PICK c : c = Command(kind, d, w)
    OBVIOUS
  <2>2. Made(0) \in Works /\ Made(0).root = 0 /\ Made(0).subs = 0 /\ 0 <= clock
    BY MadeIsWork, ProjectBounds DEF IInv, Types, Versions
  <2>3. c \in Commands /\ ~c.late /\ c.kind # "save" /\ c.work = w
    BY <2>1, <2>2, <1>3 DEF Command, Commands, IInv, Types
  <2>4. Fine(w)
    BY <2>2, <1>3 DEF Fine, IInv, WorksInv
  <2>5. QED
    BY <1>3, <2>1, <2>3, <2>4, AskKeeps
<1>4. CASE DoOpen
  BY <1>3, <1>4 DEF DoOpen
<1>5. CASE DoSaveAs \/ DoNew
  BY <1>3, <1>5, ProjectFolders DEF DoSaveAs, DoNew
<1>6. CASE WriteCrashDraft
  BY <1>6, DraftKeeps
<1>7. CASE Serve
  BY <1>7, ServeKeeps
<1>8. CASE Crash
  BY <1>8, CrashKeeps
<1>9. CASE RequestClose
  BY <1>9, CloseKeeps
<1>10. CASE Wait
  BY <1>10, StutterKeeps DEF Wait, pageVars, draftVars, history
<1>11. CASE RestoreDraft
  BY <1>11, RestoreKeeps
<1>12. CASE StartAnew
  BY <1>12, StartKeeps
<1>13. CASE UNCHANGED vars
  BY <1>13, StutterKeeps DEF vars, pageVars, draftVars, history
<1>14. QED
  BY <1>1, <1>2, <1>4, <1>5, <1>6, <1>7, <1>8, <1>9, <1>10, <1>11, <1>12, <1>13 DEF Next

LEMMA Invariance == Spec => []IInv
  BY InitHolds, NextKeeps, PTL DEF Spec

(* The variables keep their types and the queue its bound.                 *)
THEOREM TypeCorrect == Spec => []TypeOK
<1>1. IInv => TypeOK
  BY DEF IInv, Types, TypeOK, Drafts
<1>2. QED
  BY <1>1, Invariance, PTL

(* A project shown as saved is on disk, whatever fails, crashes or comes   *)
(* late, unless the last answer was to a save older than the work, or a    *)
(* save of work that needed none was cut short.                            *)
THEOREM CleanOnDisk == Spec => []CleanIsOnDisk
<1>1. IInv => CleanIsOnDisk
  BY DEF IInv, CleanInv, CleanIsOnDisk
<1>2. QED
  BY <1>1, Invariance, PTL

(* Work that is not saved is in the crash draft as soon as the draft's     *)
(* timer has run off, unless the draft could not be written.               *)
THEOREM DraftCurrent == Spec => []DraftIsCurrent
<1>1. IInv => DraftIsCurrent
  BY DEF IInv
<1>2. QED
  BY <1>1, Invariance, PTL

(* After a crash the work is in its folder or in the draft, wherever the   *)
(* crash came, but for the last 1.5 s and the exceptions of the other two. *)
THEOREM Survives == Spec => []WorkSurvives
<1>1. IInv => WorkSurvives
  BY DEF IInv, CleanInv, DraftIsCurrent, WorkSurvives
<1>2. QED
  BY <1>1, Invariance, PTL
=============================================================================
