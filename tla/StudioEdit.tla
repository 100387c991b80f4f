----------------------------- MODULE StudioEdit -----------------------------
(***************************************************************************)
(* The diagrams of one open project in the studio's page                   *)
(* (modai-studio/src/app/useStudioEdit.ts with canvas/variantOps.ts,       *)
(* canvas/subsystemOps.ts, canvas/editOps.ts, project/useDiagramHistory.ts)*)
(*                                                                         *)
(* A diagram is the number of the edit that made it and its subsystem      *)
(* nodes; other blocks and wires are part of that number.  A node refers   *)
(* to the diagram of its active variant and lists the diagrams of all of   *)
(* its variants.  Ids are made from the time of day in the code, so the    *)
(* edit number serves as id of what an edit creates.                       *)
(***************************************************************************)
EXTENDS Integers, Sequences, SequencesExt, Functions

CONSTANTS
    MaxEdits,       \* bound: edits of a session
    MaxHistory,     \* MAX of useDiagramHistory.ts (80 in the code)
    MaxDepth,       \* bound: views open on top of each other
    NoSave

ASSUME EditBounds == /\ MaxEdits \in Nat
                     /\ MaxHistory \in Nat \ {0}
                     /\ MaxDepth \in Nat \ {0}

Root == 0
Ids == 1..MaxEdits
Nodes == [id: Ids, ref: Ids, variants: SUBSET Ids]
Docs == [rev: 0..MaxEdits, nodes: SUBSET Nodes]
EmptyDoc == [rev |-> 0, nodes |-> {}]
NoSubs == << >>
NewProject == [root |-> EmptyDoc, subs |-> NoSubs]

VARIABLES
    clock,          \* number of the last edit
    root,           \* rootDiagram
    subs,           \* subsystems: diagrams by id
    stack,          \* viewStack
    diagram,        \* the diagram in the view
    past, future,   \* of useDiagramHistory
    dirty,
    clipboard,      \* the copied subsystem nodes
    sent,           \* the snapshot of a save that is not answered, or NoSave
    kept,           \* the project as last saved or opened
    overtaken,      \* history: the work was changed and not marked as unsaved
    gone            \* history: diagrams that nodes may have lost

vars == <<clock, root, subs, stack, diagram, past, future, dirty, clipboard,
          sent, kept, overtaken, gone>>

View == Last(stack)

(* The diagrams with d as the one of id.                                   *)
Put(docs, id, d) == [x \in DOMAIN docs \cup {id} |-> IF x = id THEN d ELSE docs[x]]

(* The project with the diagram in the view in its place.                  *)
EffectiveRoot == IF View = Root THEN diagram ELSE root
EffectiveSubs == IF View = Root THEN subs ELSE Put(subs, View, diagram)

\* Mutant: the diagram in the view is saved as it was stored last.
GetSaveSnapshotStored == [root |-> root, subs |-> subs]

(* What the page saves and simulates.                                      *)
GetSaveSnapshot == [root |-> EffectiveRoot, subs |-> EffectiveSubs]

NewId == clock + 1

\* Mutant: a diagram below the root is stored over the old subsystems.
PersistViewStale(d, s) ==
    IF View = Root THEN root' = d /\ subs' = subs
                   ELSE root' = root /\ subs' = Put(subs, View, d)
PersistView(d, s) ==
    IF View = Root THEN root' = d /\ subs' = s
                   ELSE root' = root /\ subs' = Put(s, View, d)

\* Mutant: an edit leaves the undone versions for redo.
CommitKeepsFuture(d) ==
    /\ diagram' = d
    /\ past' = LET p == Append(past, diagram)
               IN  IF Len(p) > MaxHistory THEN Tail(p) ELSE p
    /\ UNCHANGED future
Commit(d) ==
    /\ diagram' = d
    /\ past' = LET p == Append(past, diagram)
               IN  IF Len(p) > MaxHistory THEN Tail(p) ELSE p
    /\ future' = << >>

Replace(d) == diagram' = d /\ past' = << >> /\ future' = << >>

(* A save under way no longer covers the work.                             *)
Overtake ==
    /\ sent' = IF sent = NoSave THEN NoSave ELSE [sent EXCEPT !.late = TRUE]
    /\ UNCHANGED <<kept, overtaken>>

(* An edit leaves new nodes in the view, and the subsystems s.             *)
ReplaceDiagram(nodes, s) ==
    LET d == [rev |-> NewId, nodes |-> nodes]
    IN  /\ clock < MaxEdits
        /\ clock' = NewId
        /\ Commit(d)
        /\ PersistView(d, s)
        /\ dirty' = TRUE
        /\ Overtake
        /\ UNCHANGED <<stack, clipboard>>

ReplaceNode(n, m) == (diagram.nodes \ {n}) \cup {m}

(***************************************************************************)
(* Edits                                                                   *)
(***************************************************************************)
EditBlocks ==
    /\ ReplaceDiagram(diagram.nodes, subs)
    /\ UNCHANGED gone

DoDeleteSelection ==
    /\ \E n \in diagram.nodes : ReplaceDiagram(diagram.nodes \ {n}, subs)
    /\ UNCHANGED gone

DoCopy ==
    /\ \E n \in diagram.nodes : clipboard' = {n}
    /\ UNCHANGED <<clock, root, subs, stack, diagram, past, future, dirty, sent, kept, overtaken, gone>>

(* A pasted node has an id of its own and shares the diagrams it refers to.*)
DoPaste ==
    /\ \E n \in clipboard :
          ReplaceDiagram(diagram.nodes \cup {[n EXCEPT !.id = NewId]}, subs)
    /\ UNCHANGED gone

(* The selected blocks move into a new diagram.                            *)
DoCreateSubsystem ==
    /\ \E moved \in SUBSET diagram.nodes :
          ReplaceDiagram(
             (diagram.nodes \ moved) \cup {[id |-> NewId, ref |-> NewId, variants |-> {}]},
             Put(subs, NewId, [rev |-> NewId, nodes |-> moved]))
    /\ UNCHANGED gone

EnsureVariantMeta(n) == IF n.variants = {} THEN [n EXCEPT !.variants = {n.ref}] ELSE n

(* The new variant starts as a copy of the active one's diagram.           *)
DoAddVariant ==
    /\ \E raw \in diagram.nodes :
          LET n == EnsureVariantMeta(raw)
          IN  /\ n.ref \in DOMAIN subs
              /\ ReplaceDiagram(
                    ReplaceNode(raw, [n EXCEPT !.variants = @ \cup {NewId}]),
                    Put(subs, NewId, [subs[n.ref] EXCEPT !.rev = NewId]))
    /\ UNCHANGED gone

DoSetActiveVariant ==
    /\ \E raw \in diagram.nodes :
          LET n == EnsureVariantMeta(raw)
          IN  \E v \in n.variants \cap DOMAIN subs :
                 ReplaceDiagram(ReplaceNode(raw, [n EXCEPT !.ref = v]), subs)
    /\ UNCHANGED gone

(* The diagram of the variant is dropped, whoever else refers to it.       *)
RemoveVariantChoice(n, v) ==
    [node |-> [n EXCEPT !.variants = @ \ {v},
                        !.ref = IF @ = v THEN Min(n.variants \ {v}) ELSE @],
     subs |-> Restrict(subs, DOMAIN subs \ {v})]

DoRemoveVariant ==
    /\ \E n \in diagram.nodes : \E v \in n.variants :
          /\ n.variants # {v}
          /\ ReplaceDiagram(ReplaceNode(n, RemoveVariantChoice(n, v).node),
                            RemoveVariantChoice(n, v).subs)
          /\ gone' = gone \cup {v}

(* Undo and redo change the view only; the diagram is stored when the view *)
(* is left.                                                                *)
DoUndo ==
    /\ past # << >>
    /\ diagram' = Last(past)
    /\ past' = Front(past)
    /\ future' = Append(future, diagram)
    /\ dirty' = TRUE
    /\ Overtake
    /\ UNCHANGED <<clock, root, subs, stack, clipboard, gone>>

DoRedo ==
    /\ future # << >>
    /\ diagram' = Last(future)
    /\ future' = Front(future)
    /\ past' = Append(past, diagram)
    /\ dirty' = TRUE
    /\ Overtake
    /\ UNCHANGED <<clock, root, subs, stack, clipboard, gone>>

(***************************************************************************)
(* Moving between the diagrams                                             *)
(***************************************************************************)
(* The diagram that is shown is the stored one.  A subsystem pasted into   *)
(* itself and opened there is shown without what undo or redo did to it,   *)
(* and nothing marks the work as changed.                                  *)
DrillInto ==
    /\ Len(stack) < MaxDepth
    /\ \E n \in diagram.nodes :
          /\ n.ref \in DOMAIN subs
          /\ stack' = Append(stack, n.ref)
          /\ Replace(subs[n.ref])
          /\ IF n.ref = View /\ subs[n.ref] # diagram
             THEN /\ overtaken' = TRUE
                  /\ sent' = IF sent = NoSave THEN NoSave ELSE [sent EXCEPT !.late = TRUE]
             ELSE UNCHANGED <<sent, overtaken>>
    /\ PersistView(diagram, subs)
    /\ UNCHANGED <<clock, dirty, clipboard, kept, gone>>

(* A diagram that is no longer there is not shown; the one in the view has *)
(* been stored by then.                                                    *)
NavigateTo ==
    /\ PersistView(diagram, subs)
    /\ \E i \in DOMAIN stack :
          IF stack[i] = Root \/ stack[i] \in DOMAIN EffectiveSubs
          THEN /\ stack' = SubSeq(stack, 1, i)
               /\ Replace(IF stack[i] = Root THEN EffectiveRoot ELSE EffectiveSubs[stack[i]])
          ELSE UNCHANGED <<stack, diagram, past, future>>
    /\ UNCHANGED <<clock, dirty, clipboard, sent, kept, overtaken, gone>>

(***************************************************************************)
(* Saving and loading, as far as the diagrams are concerned; the files are *)
(* in StudioProject.                                                       *)
(***************************************************************************)
DoSave ==
    /\ sent = NoSave
    /\ sent' = [project |-> GetSaveSnapshot, late |-> FALSE]
    /\ UNCHANGED <<clock, root, subs, stack, diagram, past, future, dirty, clipboard, kept,
                   overtaken, gone>>

(* What was saved takes the place of what is stored, but not of what is in *)
(* the view.                                                               *)
SyncAfterSave ==
    /\ sent # NoSave
    /\ root' = sent.project.root
    /\ subs' = sent.project.subs
    /\ dirty' = FALSE
    /\ sent' = NoSave
    /\ kept' = sent.project
    /\ overtaken' = sent.late
    /\ gone' = gone \cup (DOMAIN subs \ DOMAIN sent.project.subs)
    /\ UNCHANGED <<clock, stack, diagram, past, future, clipboard>>

(* The save fails: the page stays as it is.                                *)
SaveFails ==
    /\ sent # NoSave
    /\ sent' = NoSave
    /\ UNCHANGED <<clock, root, subs, stack, diagram, past, future, dirty, clipboard, kept,
                   overtaken, gone>>

(* Other diagrams take the place of all open ones; a copied node stays in  *)
(* the clipboard.                                                          *)
ShowProject(p) ==
    /\ root' = p.root
    /\ subs' = p.subs
    /\ stack' = <<Root>>
    /\ Replace(p.root)
    /\ gone' = gone \cup (DOMAIN EffectiveSubs \ DOMAIN p.subs)
    /\ UNCHANGED clipboard

(* The project is opened again, or a new one is.                           *)
ApplyLoadedProject ==
    /\ \E p \in {kept, NewProject} : ShowProject(p) /\ kept' = p
    /\ dirty' = FALSE
    /\ sent' = IF sent = NoSave THEN NoSave ELSE [sent EXCEPT !.late = TRUE]
    /\ overtaken' = FALSE
    /\ UNCHANGED clock

(* A diagram of the other application becomes the only one.                *)
ImportRootDiagram ==
    /\ clock < MaxEdits
    /\ clock' = NewId
    /\ ShowProject([root |-> [rev |-> NewId, nodes |-> {}], subs |-> NoSubs])
    /\ dirty' = TRUE
    /\ Overtake

Init ==
    /\ clock = 0
    /\ root = EmptyDoc /\ subs = NoSubs
    /\ stack = <<Root>> /\ diagram = EmptyDoc
    /\ past = << >> /\ future = << >>
    /\ dirty = FALSE
    /\ clipboard = {}
    /\ sent = NoSave /\ kept = NewProject /\ overtaken = FALSE
    /\ gone = {}

Next ==
    \/ EditBlocks \/ DoDeleteSelection \/ DoCopy \/ DoPaste
    \/ DoCreateSubsystem \/ DoAddVariant \/ DoSetActiveVariant \/ DoRemoveVariant
    \/ DoUndo \/ DoRedo
    \/ DrillInto \/ NavigateTo
    \/ DoSave \/ SyncAfterSave \/ SaveFails
    \/ ApplyLoadedProject \/ ImportRootDiagram

Spec == Init /\ [][Next]_vars

-----------------------------------------------------------------------------
TypeOK ==
    /\ clock \in 0..MaxEdits
    /\ {root, diagram} \cup Range(past) \cup Range(future) \cup Range(subs) \subseteq Docs
    /\ stack[1] = Root /\ DOMAIN subs \subseteq Ids

(* A project that is shown as saved is as it was saved, whatever edits,    *)
(* undos and moves between diagrams came before, and whichever diagram is  *)
(* in the view.  The exceptions are a save whose snapshot was older than   *)
(* the work when its answer came (useStudioProject.ts:277), and a diagram  *)
(* opened inside itself (useStudioEdit.ts:334).                            *)
CleanIsSaved ==
    ~dirty /\ ~overtaken => [root |-> EffectiveRoot, subs |-> EffectiveSubs] = kept

(* Every diagram a node refers to is there: also in the versions undo and  *)
(* redo can bring back and in the clipboard.  What may be missing is a     *)
(* removed variant (useStudioEdit.ts:320), what a late answer to a save    *)
(* has overwritten and what was copied in another project.                 *)
RefsResolve ==
    LET docs == {EffectiveRoot} \cup Range(EffectiveSubs) \cup Range(past) \cup Range(future)
    IN  \A n \in (UNION {d.nodes : d \in docs}) \cup clipboard :
           {n.ref} \cup n.variants \subseteq DOMAIN EffectiveSubs \cup gone

(* The diagrams of the project hang together.                              *)
ProjectIsWhole == TypeOK /\ RefsResolve

(* Undo and redo walk through the versions of the diagram in the view.     *)
History == INSTANCE UndoList WITH Limit <- MaxHistory,
              list <- past \o <<diagram>> \o Reverse(future), pos <- Len(past) + 1

ImplementsUndoList == History!Spec
=============================================================================
