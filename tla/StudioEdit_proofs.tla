-------------------------- MODULE StudioEdit_proofs -------------------------
(***************************************************************************)
(* The diagrams of the Studio: what is shown as saved is saved, no diagram *)
(* that is referred to is missing without a reason, and undo and redo walk *)
(* a list of versions: for any number of edits, any history limit and any  *)
(* depth of views.                                                         *)
(*                                                                         *)
(* The code index of the IDE: its entries are whole and current, whatever  *)
(* its threads do to one another, and a build that nothing disturbs puts   *)
(* everything right: for any files, texts, threads and bounds.             *)
(***************************************************************************)
EXTENDS StudioEdit, CodeIndex, SequenceTheorems, WellFoundedInduction, TLAPS

Views == Ids \cup {Root}
SubMaps == UNION {[D -> Docs] : D \in SUBSET Ids}
Projects == [root: Docs, subs: SubMaps]
Snapshots == [project: Projects, late: BOOLEAN]

Types ==
    /\ clock \in 0..MaxEdits
    /\ root \in Docs /\ subs \in SubMaps
    /\ stack \in Seq(Views) /\ stack # << >> /\ stack[1] = Root
    /\ diagram \in Docs
    /\ past \in Seq(Docs) /\ future \in Seq(Docs)
    /\ dirty \in BOOLEAN /\ overtaken \in BOOLEAN
    /\ clipboard \subseteq Nodes
    /\ sent = NoSave \/ sent \in Snapshots
    /\ kept \in Projects

(***************************************************************************)
(* What may be referred to never shrinks: a diagram that is dropped joins  *)
(* `gone`.  So a reference that is good once remains good, wherever it is  *)
(* kept.                                                                   *)
(***************************************************************************)
Known == DOMAIN EffectiveSubs \cup gone
Good(nodes) == \A n \in nodes : {n.ref} \cup n.variants \subseteq Known
GoodProject(p) == Good(p.root.nodes) /\ \A x \in DOMAIN p.subs : Good(p.subs[x].nodes)

RefsInv ==
    /\ Good(root.nodes) /\ Good(diagram.nodes) /\ Good(clipboard)
    /\ \A x \in DOMAIN subs : Good(subs[x].nodes)
    /\ \A i \in 1..Len(past) : Good(past[i].nodes)
    /\ \A i \in 1..Len(future) : Good(future[i].nodes)
    /\ GoodProject(kept)
    /\ sent # NoSave => GoodProject(sent.project)

(* A save that is not late is of the work as it is now.                    *)
CleanInv ==
    /\ CleanIsSaved
    /\ sent # NoSave /\ ~sent.late => sent.project = GetSaveSnapshot

IInv == Types /\ RefsInv /\ CleanInv

-----------------------------------------------------------------------------
(* Maps from ids to diagrams.                                              *)
LEMMA SubMapsAre ==
  /\ \A s \in SubMaps : DOMAIN s \subseteq Ids /\ s \in [DOMAIN s -> Docs]
  /\ \A D \in SUBSET Ids : \A s \in [D -> Docs] : s \in SubMaps
  BY DEF SubMaps

LEMMA PutKeeps ==
  ASSUME NEW v \in Ids, NEW d \in Docs, NEW s \in SubMaps
  PROVE  LET m == Put(s, v, d)
         IN  /\ m \in SubMaps /\ DOMAIN m = {v} \cup DOMAIN s /\ m[v] = d
             /\ \A x \in DOMAIN s \ {v} : m[x] = s[x]
<1> DEFINE m == Put(s, v, d)
<1>1. DOMAIN s \subseteq Ids /\ s \in [DOMAIN s -> Docs]
  BY SubMapsAre
<1>2. m = [x \in DOMAIN s \cup {v} |-> IF x = v THEN d ELSE s[x]]
  BY DEF Put
<1> HIDE DEF m
<1>3. m \in [DOMAIN s \cup {v} -> Docs]
  BY <1>1, <1>2
<1>4. DOMAIN s \cup {v} \in SUBSET Ids
  BY <1>1
<1>5. m \in SubMaps
  BY <1>3, <1>4, SubMapsAre
<1>6. QED
  BY <1>2, <1>5 DEF m

LEMMA RestrictKeeps ==
  ASSUME NEW s \in SubMaps, NEW D \in SUBSET DOMAIN s
  PROVE  /\ Restrict(s, D) \in SubMaps /\ DOMAIN Restrict(s, D) = D
         /\ \A x \in D : Restrict(s, D)[x] = s[x]
<1>1. DOMAIN s \subseteq Ids /\ s \in [DOMAIN s -> Docs]
  BY SubMapsAre
<1>2. Restrict(s, D) = [x \in D |-> s[x]]
  BY DEF Restrict
<1>3. Restrict(s, D) \in [D -> Docs] /\ D \in SUBSET Ids
  BY <1>1, <1>2
<1>4. QED
  BY <1>2, <1>3, SubMapsAre

LEMMA NoSubsTyped == NoSubs \in SubMaps /\ DOMAIN NoSubs = {}
<1>1. << >> \in Seq(Docs) /\ Len(<< >>) = 0
  BY EmptySeq
<1>2. DOMAIN NoSubs = {} /\ NoSubs \in [DOMAIN NoSubs -> Docs]
  BY <1>1, LenProperties DEF NoSubs
<1>3. QED
  BY <1>2, SubMapsAre

(* The least of some ids is one of them.                                   *)
LEMMA MinKeeps ==
  ASSUME NEW S \in SUBSET Ids, S # {}
  PROVE  Min(S) \in S
<1>1. S \subseteq Nat
  BY EditBounds DEF Ids
<1>2. \E x \in S : \A y \in S : ~(<<y, x>> \in OpToRel(<, Nat))
  BY <1>1, NatLessThanWellFounded, WFMin
<1>3. \E x \in S : \A y \in S : x <= y
  <2>1. PICK x \in S : \A y \in S : ~(<<y, x>> \in OpToRel(<, Nat))
    BY <1>2
  <2>2. ASSUME NEW y \in S, y < x
        PROVE  <<y, x>> \in OpToRel(<, Nat)
    <3>1. <<y, x>> \in Nat \X Nat /\ <<y, x>>[1] < <<y, x>>[2]
      BY <1>1, <2>2
    <3>2. QED
      BY <3>1, Zenon DEF OpToRel
  <2>3. \A y \in S : ~(y < x)
    BY <2>1, <2>2, Zenon
  <2>4. QED
    BY <1>1, <2>3
<1>4. QED
  BY <1>3 DEF Min

(* The view on top of the stack.                                           *)
LEMMA ViewTyped ==
  ASSUME Types
  PROVE  View \in Views /\ Len(stack) \in Nat \ {0} /\ DOMAIN stack = 1..Len(stack)
<1>1. stack \in Seq(Views) /\ Len(stack) \in Nat \ {0}
  BY EmptySeq DEF Types
<1>2. QED
  BY <1>1 DEF View, Last

LEMMA EffectiveTyped ==
  ASSUME Types
  PROVE  /\ EffectiveRoot \in Docs /\ EffectiveSubs \in SubMaps
         /\ GetSaveSnapshot \in Projects
         /\ DOMAIN EffectiveSubs = IF View = Root THEN DOMAIN subs ELSE DOMAIN subs \cup {View}
<1>1. View = Root \/ View \in Ids
  BY ViewTyped DEF Views
<1>2. EffectiveRoot \in Docs
  BY DEF EffectiveRoot, Types
<1>3. EffectiveSubs \in SubMaps
  BY <1>1, PutKeeps DEF EffectiveSubs, Types
<1>4. GetSaveSnapshot \in Projects
  BY <1>2, <1>3 DEF GetSaveSnapshot, Projects
<1>5. CASE View = Root
  BY <1>2, <1>3, <1>4, <1>5 DEF EffectiveSubs
<1>6. CASE View # Root
  <2>1. EffectiveSubs = Put(subs, View, diagram)
    BY <1>6 DEF EffectiveSubs
  <2>2. DOMAIN Put(subs, View, diagram) = DOMAIN subs \cup {View}
    BY DEF Put
  <2>3. QED
    BY <1>2, <1>3, <1>4, <1>6, <2>1, <2>2
<1>7. QED
  BY <1>5, <1>6

(* A project's parts.                                                      *)
LEMMA ProjectsAre ==
  /\ \A p \in Projects : p.root \in Docs /\ p.subs \in SubMaps
  /\ NewProject \in Projects /\ EmptyDoc \in Docs
<1>1. EmptyDoc \in Docs
  <2>1. 0 \in 0..MaxEdits /\ {} \in SUBSET Nodes
    BY EditBounds
  <2>2. QED
    BY <2>1 DEF EmptyDoc, Docs
<1>2. NewProject \in Projects
  BY <1>1, NoSubsTyped DEF Projects, NewProject
<1>3. \A p \in Projects : p.root \in Docs /\ p.subs \in SubMaps
  BY DEF Projects
<1>4. QED
  BY <1>1, <1>2, <1>3

(* The diagram in the view is stored.                                      *)
LEMMA PersistTyped ==
  ASSUME Types, NEW d \in Docs, NEW s \in SubMaps, PersistView(d, s)
  PROVE  root' \in Docs /\ subs' \in SubMaps
<1>1. View = Root \/ View \in Ids
  BY ViewTyped DEF Views
<1>2. CASE View = Root
  BY <1>2 DEF PersistView
<1>3. CASE View # Root
  <2>1. root' = root /\ subs' = Put(s, View, d)
    BY <1>3 DEF PersistView
  <2>2. Put(s, View, d) \in SubMaps
    BY <1>1, <1>3, PutKeeps
  <2>3. QED
    BY <2>1, <2>2 DEF Types
<1>4. QED
  BY <1>2, <1>3

LEMMA CommitTyped ==
  ASSUME Types, NEW d \in Docs, Commit(d)
  PROVE  diagram' \in Docs /\ past' \in Seq(Docs) /\ future' \in Seq(Docs)
<1>1. past \in Seq(Docs) /\ diagram \in Docs
  BY DEF Types
<1> DEFINE p == Append(past, diagram)
<1>2. p \in Seq(Docs) /\ p # << >>
  BY <1>1, AppendProperties
<1> HIDE DEF p
<1>5. Tail(p) \in Seq(Docs)
  BY <1>2, HeadTailProperties
<1>3. << >> \in Seq(Docs)
  BY EmptySeq
<1>4. QED
  BY <1>2, <1>3, <1>5 DEF Commit, p

LEMMA ReplaceTyped ==
  ASSUME NEW d \in Docs, Replace(d)
  PROVE  diagram' \in Docs /\ past' \in Seq(Docs) /\ future' \in Seq(Docs)
  BY EmptySeq DEF Replace

LEMMA OvertakeTyped ==
  ASSUME Types, Overtake
  PROVE  (sent' = NoSave \/ sent' \in Snapshots) /\ kept' \in Projects /\ overtaken' \in BOOLEAN
  BY DEF Overtake, Types, Snapshots

(* An edit: the new nodes and the new subsystems decide.                   *)
LEMMA EditTyped ==
  ASSUME Types, NEW nodes \in SUBSET Nodes, NEW s \in SubMaps, ReplaceDiagram(nodes, s)
  PROVE  Types'
<1> DEFINE d == [rev |-> NewId, nodes |-> nodes]
<1>1. clock' \in 0..MaxEdits /\ d \in Docs
  BY EditBounds DEF ReplaceDiagram, NewId, Types, Docs
<1> HIDE DEF d
<1>2. diagram' \in Docs /\ past' \in Seq(Docs) /\ future' \in Seq(Docs)
  BY <1>1, CommitTyped DEF ReplaceDiagram, d
<1>3. root' \in Docs /\ subs' \in SubMaps
  BY <1>1, PersistTyped DEF ReplaceDiagram, d
<1>4. (sent' = NoSave \/ sent' \in Snapshots) /\ kept' \in Projects /\ overtaken' \in BOOLEAN
  BY OvertakeTyped DEF ReplaceDiagram
<1>5. QED
  BY <1>1, <1>2, <1>3, <1>4 DEF Types, ReplaceDiagram

(* Nodes that edits make.                                                  *)
LEMMA NodesTyped ==
  ASSUME Types, clock < MaxEdits
  PROVE  /\ NewId \in Ids
         /\ \A n \in Nodes : /\ n.id \in Ids /\ n.ref \in Ids /\ n.variants \in SUBSET Ids
                             /\ [n EXCEPT !.id = NewId] \in Nodes
                             /\ EnsureVariantMeta(n) \in Nodes
                             /\ EnsureVariantMeta(n).ref = n.ref
                             /\ EnsureVariantMeta(n).variants \subseteq n.variants \cup {n.ref}
                             /\ [n EXCEPT !.variants = @ \cup {NewId}] \in Nodes
                             /\ \A v \in Ids : [n EXCEPT !.ref = v] \in Nodes
         /\ diagram.nodes \in SUBSET Nodes
<1>1. NewId \in Ids
  BY EditBounds DEF Types, NewId, Ids
<1>2. \A n \in Nodes : n.id \in Ids /\ n.ref \in Ids /\ n.variants \in SUBSET Ids
  BY DEF Nodes
<1>3. QED
  BY <1>1, <1>2 DEF Nodes, EnsureVariantMeta, Types, Docs

-----------------------------------------------------------------------------
(* References that are kept remain good while what is known only grows.    *)
LEMMA GoodRemains ==
  ASSUME Known \subseteq Known', NEW nodes, Good(nodes)
  PROVE  Good(nodes)'
  BY DEF Good

(* What the history may hold after an edit, undo, redo or another view.    *)
LEMMA HistoryGood ==
  ASSUME Types, RefsInv, Known \subseteq Known', NEW d \in Docs, Commit(d)
  PROVE  (\A i \in 1..Len(past') : Good(past[i].nodes)') /\ Len(future') = 0
<1> DEFINE p == Append(past, diagram)
<1>1. past \in Seq(Docs) /\ diagram \in Docs
  BY DEF Types
<1>2. /\ p \in Seq(Docs) /\ p # << >> /\ Len(p) = Len(past) + 1
      /\ \A i \in 1..Len(past) : p[i] = past[i]
      /\ p[Len(past) + 1] = diagram
  BY <1>1, AppendProperties
<1> HIDE DEF p
<1>3. Len(past) \in Nat
  BY <1>1
<1>4. \A i \in 1..Len(p) : Good(p[i].nodes)
  <2>1. \A i \in 1..Len(p) : i \in 1..Len(past) \/ i = Len(past) + 1
    BY <1>2, <1>3
  <2>2. QED
    BY <1>2, <2>1 DEF RefsInv
<1>5. /\ Len(Tail(p)) = Len(p) - 1
      /\ \A i \in 1..Len(Tail(p)) : Tail(p)[i] = p[i + 1]
  BY <1>2, HeadTailProperties
<1>6. \A i \in 1..Len(Tail(p)) : Good(Tail(p)[i].nodes)
  BY <1>2, <1>3, <1>4, <1>5
<1>7. past' \in {p, Tail(p)}
  BY DEF Commit, p
<1>8. \A i \in 1..Len(past') : Good(past'[i].nodes)
  BY <1>4, <1>6, <1>7
<1>9. Len(future') = 0
  BY EmptySeq DEF Commit
<1>10. QED
  BY <1>8, <1>9 DEF Good

(* An edit, given what its new nodes and subsystems refer to.              *)
LEMMA EditKeeps ==
  ASSUME IInv, NEW nodes \in SUBSET Nodes, NEW s \in SubMaps, ReplaceDiagram(nodes, s),
         gone \subseteq gone', DOMAIN subs \subseteq DOMAIN s \cup gone',
         \A n \in nodes : {n.ref} \cup n.variants \subseteq Known \cup DOMAIN s,
         \A x \in DOMAIN s : \/ x \in DOMAIN subs /\ s[x] = subs[x]
                             \/ \A n \in s[x].nodes :
                                   {n.ref} \cup n.variants \subseteq Known \cup DOMAIN s
  PROVE  IInv'
<1> DEFINE d == [rev |-> NewId, nodes |-> nodes]
<1>1. Types /\ Types' /\ RefsInv
  BY EditTyped DEF IInv
<1>2. d \in Docs /\ d.nodes = nodes
  BY <1>1 DEF ReplaceDiagram, NewId, Types, Docs
<1>3. /\ Commit(d) /\ PersistView(d, s) /\ dirty' = TRUE /\ Overtake
      /\ UNCHANGED <<stack, clipboard>>
  BY DEF ReplaceDiagram
<1> HIDE DEF d
<1>4. View' = View /\ diagram' = d
  BY <1>3 DEF View, Commit
<1>5. DOMAIN EffectiveSubs' = IF View = Root THEN DOMAIN s ELSE DOMAIN s \cup {View}
  BY <1>1, <1>3, <1>4, EffectiveTyped DEF PersistView, EffectiveSubs, Put
<1>6. Known \cup DOMAIN s \subseteq Known'
  <2>1. DOMAIN EffectiveSubs = IF View = Root THEN DOMAIN subs ELSE DOMAIN subs \cup {View}
    BY <1>1, EffectiveTyped
  <2>2. QED
    BY <1>5, <2>1 DEF Known
<1>7. Good(nodes)'
  BY <1>6 DEF Good
<1>8. \A x \in DOMAIN s : Good(s[x].nodes)'
  BY <1>1, <1>6 DEF Good, RefsInv
<1>9. root' \in {root, d}
  BY <1>3 DEF PersistView
<1>10. Good(root.nodes)' /\ Good(diagram.nodes)' /\ Good(clipboard)'
  BY <1>1, <1>2, <1>3, <1>4, <1>6, <1>7, <1>9 DEF Good, RefsInv
<1>11. \A x \in DOMAIN subs' : Good(subs[x].nodes)'
  <2>1. CASE View = Root
    BY <2>1, <1>3, <1>8 DEF PersistView, Good
  <2>2. CASE View # Root
    <3>1. subs' = Put(s, View, d)
      BY <2>2, <1>3 DEF PersistView
    <3>2. DOMAIN subs' = DOMAIN s \cup {View}
          /\ \A x \in DOMAIN subs' : subs'[x] = IF x = View THEN d ELSE s[x]
      BY <3>1 DEF Put
    <3>3. QED
      BY <3>2, <1>2, <1>7, <1>8 DEF Good
  <2>3. QED
    BY <2>1, <2>2
<1>12. /\ \A i \in 1..Len(past') : Good(past[i].nodes)'
       /\ \A i \in 1..Len(future') : Good(future[i].nodes)'
  BY <1>1, <1>2, <1>3, <1>6, HistoryGood
<1>13. GoodProject(kept)' /\ (sent' # NoSave => GoodProject(sent.project)')
  <2>1. kept' = kept /\ (sent' # NoSave => sent # NoSave /\ sent'.project = sent.project)
    BY <1>1, <1>3 DEF Overtake, Types, Snapshots
  <2>2. QED
    BY <2>1, <1>1, <1>6 DEF RefsInv, GoodProject, Good
<1>14. RefsInv'
  BY <1>10, <1>11, <1>12, <1>13 DEF RefsInv
<1>15. CleanInv'
  <2>1. sent' # NoSave => sent'.late
    BY <1>1, <1>3 DEF Overtake, Types, Snapshots
  <2>2. QED
    BY <2>1, <1>3 DEF CleanInv, CleanIsSaved
<1>16. QED
  BY <1>1, <1>14, <1>15 DEF IInv

-----------------------------------------------------------------------------
(* The edits.                                                              *)
LEMMA EditsKeep ==
  ASSUME IInv, EditBlocks \/ DoDeleteSelection \/ DoPaste \/ DoCreateSubsystem
  PROVE  IInv'
<1>1. Types /\ RefsInv /\ clock < MaxEdits
  BY DEF IInv, EditBlocks, DoDeleteSelection, DoPaste, DoCreateSubsystem, ReplaceDiagram
<1>2. NewId \in Ids /\ diagram.nodes \in SUBSET Nodes /\ subs \in SubMaps
  BY <1>1, NodesTyped DEF Types
<1>3. \A n \in diagram.nodes \cup clipboard : {n.ref} \cup n.variants \subseteq Known
  BY <1>1 DEF RefsInv, Good
<1>4. ASSUME NEW nodes \in SUBSET Nodes, ReplaceDiagram(nodes, subs), gone' = gone,
             \A n \in nodes : {n.ref} \cup n.variants \subseteq Known
      PROVE  IInv'
  <2>1. /\ gone \subseteq gone' /\ DOMAIN subs \subseteq DOMAIN subs \cup gone'
        /\ \A n \in nodes : {n.ref} \cup n.variants \subseteq Known \cup DOMAIN subs
    BY <1>4
  <2>2. QED
    BY <1>2, <1>4, <2>1, EditKeeps
<1>5. CASE EditBlocks
  BY <1>2, <1>3, <1>4, <1>5 DEF EditBlocks
<1>6. CASE DoDeleteSelection
  <2>1. PICK n \in diagram.nodes : ReplaceDiagram(diagram.nodes \ {n}, subs)
    BY <1>6 DEF DoDeleteSelection
  <2>2. QED
    BY <1>2, <1>3, <1>4, <1>6, <2>1 DEF DoDeleteSelection
<1>7. CASE DoPaste
  <2>1. PICK n \in clipboard :
           ReplaceDiagram(diagram.nodes \cup {[n EXCEPT !.id = NewId]}, subs)
    BY <1>7 DEF DoPaste
  <2>2. n \in Nodes
    BY <1>1, <2>1 DEF Types
  <2>3. /\ [n EXCEPT !.id = NewId] \in Nodes
        /\ [n EXCEPT !.id = NewId].ref = n.ref
        /\ [n EXCEPT !.id = NewId].variants = n.variants
    BY <1>1, <2>2, NodesTyped DEF Nodes
  <2> DEFINE m == [n EXCEPT !.id = NewId]
  <2>4. m \in Nodes /\ {m.ref} \cup m.variants \subseteq Known
    BY <1>3, <2>1, <2>3
  <2>5. ReplaceDiagram(diagram.nodes \cup {m}, subs) /\ gone' = gone
    BY <1>7, <2>1 DEF DoPaste
  <2> HIDE DEF m
  <2>6. diagram.nodes \cup {m} \in SUBSET Nodes
    BY <1>2, <2>4
  <2>7. \A k \in diagram.nodes \cup {m} : {k.ref} \cup k.variants \subseteq Known
    BY <1>3, <2>4
  <2>8. QED
    BY <1>4, <2>5, <2>6, <2>7
<1>8. CASE DoCreateSubsystem
  <2> DEFINE new == [id |-> NewId, ref |-> NewId, variants |-> {}]
  <2>1. PICK moved \in SUBSET diagram.nodes :
           ReplaceDiagram((diagram.nodes \ moved) \cup {new},
                          Put(subs, NewId, [rev |-> NewId, nodes |-> moved]))
    BY <1>8 DEF DoCreateSubsystem
  <2> DEFINE doc == [rev |-> NewId, nodes |-> moved]
             s == Put(subs, NewId, doc)
             nodes == (diagram.nodes \ moved) \cup {new}
  <2>2. new \in Nodes /\ new.ref = NewId /\ new.variants = {}
    BY <1>2 DEF Nodes
  <2>3. doc \in Docs /\ doc.nodes = moved
    BY <1>2 DEF Docs, Ids
  <2>4. ReplaceDiagram(nodes, s)
    BY <2>1
  <2> HIDE DEF new, doc
  <2>5. /\ s \in SubMaps /\ DOMAIN s = {NewId} \cup DOMAIN subs /\ s[NewId] = doc
        /\ \A x \in DOMAIN subs \ {NewId} : s[x] = subs[x]
    BY <1>2, <2>3, PutKeeps
  <2> HIDE DEF s
  <2>6. \A n \in nodes : {n.ref} \cup n.variants \subseteq Known \cup DOMAIN s
    BY <1>3, <2>2, <2>5
  <2>7. \A x \in DOMAIN s : \/ x \in DOMAIN subs /\ s[x] = subs[x]
                            \/ \A n \in s[x].nodes :
                                  {n.ref} \cup n.variants \subseteq Known \cup DOMAIN s
    BY <1>3, <2>3, <2>5
  <2>8. nodes \in SUBSET Nodes /\ DOMAIN subs \subseteq DOMAIN s \cup gone' /\ gone \subseteq gone'
    BY <1>2, <1>8, <2>2, <2>5 DEF DoCreateSubsystem
  <2> HIDE DEF nodes
  <2>9. QED
    BY <2>4, <2>5, <2>6, <2>7, <2>8, EditKeeps
<1>9. QED
  BY <1>5, <1>6, <1>7, <1>8

(* A node of the view, as the variant operations see it.                   *)
LEMMA VariantNode ==
  ASSUME IInv, clock < MaxEdits, NEW raw \in diagram.nodes
  PROVE  LET n == EnsureVariantMeta(raw)
         IN  /\ n \in Nodes /\ n.ref \in Ids /\ n.variants \in SUBSET Ids
             /\ {n.ref} \cup n.variants \subseteq Known
<1>1. Types /\ RefsInv /\ raw \in Nodes
  BY NodesTyped DEF IInv
<1> DEFINE n == EnsureVariantMeta(raw)
<1>2. /\ n \in Nodes /\ n.ref = raw.ref
      /\ n.variants \subseteq raw.variants \cup {raw.ref}
  BY <1>1, NodesTyped
<1> HIDE DEF n
<1>3. n.ref \in Ids /\ n.variants \in SUBSET Ids
  BY <1>2 DEF Nodes
<1>4. {raw.ref} \cup raw.variants \subseteq Known
  BY <1>1 DEF RefsInv, Good
<1>5. n \in Nodes /\ n.ref \in Ids /\ n.variants \in SUBSET Ids
      /\ {n.ref} \cup n.variants \subseteq Known
  BY <1>2, <1>3, <1>4
<1>6. QED
  BY <1>5 DEF n

LEMMA AddVariantKeeps ==
  ASSUME IInv, DoAddVariant
  PROVE  IInv'
<1>1. PICK raw \in diagram.nodes :
        LET n == EnsureVariantMeta(raw)
        IN  /\ n.ref \in DOMAIN subs
            /\ ReplaceDiagram(ReplaceNode(raw, [n EXCEPT !.variants = @ \cup {NewId}]),
                              Put(subs, NewId, [subs[n.ref] EXCEPT !.rev = NewId]))
  BY DEF DoAddVariant
<1>2. gone' = gone
  BY DEF DoAddVariant
<1> DEFINE n == EnsureVariantMeta(raw)
           m == [n EXCEPT !.variants = @ \cup {NewId}]
           doc == [subs[n.ref] EXCEPT !.rev = NewId]
           s == Put(subs, NewId, doc)
           nodes == ReplaceNode(raw, m)
<1>3. ReplaceDiagram(nodes, s) /\ n.ref \in DOMAIN subs
  BY <1>1
<1>4. Types /\ RefsInv /\ clock < MaxEdits /\ subs \in SubMaps
  BY <1>3 DEF IInv, ReplaceDiagram, Types
<1>5. /\ n \in Nodes /\ n.ref \in Ids /\ n.variants \in SUBSET Ids
      /\ {n.ref} \cup n.variants \subseteq Known
  BY <1>4, VariantNode
<1> HIDE DEF n
<1>6. NewId \in Ids /\ diagram.nodes \in SUBSET Nodes
  BY <1>4, NodesTyped
<1>7. m \in Nodes /\ m.ref = n.ref /\ m.variants = n.variants \cup {NewId}
  BY <1>5, <1>6 DEF Nodes
<1>8. doc \in Docs /\ doc.nodes = subs[n.ref].nodes
  <2>1. subs[n.ref] \in Docs
    BY <1>3, <1>4, SubMapsAre
  <2>2. QED
    BY <2>1, <1>6 DEF Docs, Ids
<1> HIDE DEF m, doc
<1>9. /\ s \in SubMaps /\ DOMAIN s = {NewId} \cup DOMAIN subs /\ s[NewId] = doc
      /\ \A x \in DOMAIN subs \ {NewId} : s[x] = subs[x]
  BY <1>4, <1>6, <1>8, PutKeeps
<1> HIDE DEF s
<1>10. nodes \in SUBSET Nodes
       /\ \A k \in nodes : {k.ref} \cup k.variants \subseteq Known \cup DOMAIN s
  <2>1. \A k \in diagram.nodes : {k.ref} \cup k.variants \subseteq Known
    BY <1>4 DEF RefsInv, Good
  <2>2. QED
    BY <2>1, <1>5, <1>6, <1>7, <1>9 DEF ReplaceNode
<1>11. \A x \in DOMAIN s : \/ x \in DOMAIN subs /\ s[x] = subs[x]
                           \/ \A k \in s[x].nodes :
                                 {k.ref} \cup k.variants \subseteq Known \cup DOMAIN s
  <2>1. \A k \in doc.nodes : {k.ref} \cup k.variants \subseteq Known
    BY <1>3, <1>4, <1>8 DEF RefsInv, Good
  <2>2. QED
    BY <2>1, <1>9
<1> HIDE DEF nodes
<1>12. gone \subseteq gone' /\ DOMAIN subs \subseteq DOMAIN s \cup gone'
  BY <1>2, <1>9
<1>13. QED
  BY <1>3, <1>9, <1>10, <1>11, <1>12, EditKeeps

LEMMA SetVariantKeeps ==
  ASSUME IInv, DoSetActiveVariant
  PROVE  IInv'
<1>1. PICK raw \in diagram.nodes :
        \E v \in EnsureVariantMeta(raw).variants \cap DOMAIN subs :
           ReplaceDiagram(ReplaceNode(raw, [EnsureVariantMeta(raw) EXCEPT !.ref = v]), subs)
  BY DEF DoSetActiveVariant
<1> DEFINE n == EnsureVariantMeta(raw)
<1>2. PICK v \in n.variants \cap DOMAIN subs :
         ReplaceDiagram(ReplaceNode(raw, [n EXCEPT !.ref = v]), subs)
  BY <1>1
<1> DEFINE m == [n EXCEPT !.ref = v]
           nodes == ReplaceNode(raw, m)
<1>3. ReplaceDiagram(nodes, subs) /\ gone' = gone
  BY <1>2 DEF DoSetActiveVariant
<1>4. Types /\ RefsInv /\ clock < MaxEdits /\ subs \in SubMaps
  BY <1>3 DEF IInv, ReplaceDiagram, Types
<1>5. /\ n \in Nodes /\ n.ref \in Ids /\ n.variants \in SUBSET Ids
      /\ {n.ref} \cup n.variants \subseteq Known
  BY <1>4, VariantNode
<1> HIDE DEF n
<1>6. m \in Nodes /\ {m.ref} \cup m.variants \subseteq Known
  BY <1>2, <1>5 DEF Nodes
<1> HIDE DEF m
<1>7. /\ nodes \in SUBSET Nodes
      /\ \A k \in nodes : {k.ref} \cup k.variants \subseteq Known
  <2>1. \A k \in diagram.nodes : {k.ref} \cup k.variants \subseteq Known
    BY <1>4 DEF RefsInv, Good
  <2>2. QED
    BY <2>1, <1>4, <1>6, NodesTyped DEF ReplaceNode
<1> HIDE DEF nodes
<1>8. /\ gone \subseteq gone' /\ DOMAIN subs \subseteq DOMAIN subs \cup gone'
      /\ \A k \in nodes : {k.ref} \cup k.variants \subseteq Known \cup DOMAIN subs
  BY <1>3, <1>7
<1>9. QED
  BY <1>3, <1>4, <1>7, <1>8, EditKeeps

LEMMA RemoveVariantKeeps ==
  ASSUME IInv, DoRemoveVariant
  PROVE  IInv'
<1>0. PICK n \in diagram.nodes : \E v \in n.variants :
        /\ n.variants # {v}
        /\ ReplaceDiagram(ReplaceNode(n, RemoveVariantChoice(n, v).node),
                          RemoveVariantChoice(n, v).subs)
        /\ gone' = gone \cup {v}
  BY DEF DoRemoveVariant
<1>1. PICK v \in n.variants :
        /\ n.variants # {v}
        /\ ReplaceDiagram(ReplaceNode(n, RemoveVariantChoice(n, v).node),
                          RemoveVariantChoice(n, v).subs)
        /\ gone' = gone \cup {v}
  BY <1>0
<1> DEFINE m == RemoveVariantChoice(n, v).node
           s == RemoveVariantChoice(n, v).subs
           nodes == ReplaceNode(n, m)
           rest == n.variants \ {v}
<1>2. Types /\ RefsInv /\ clock < MaxEdits /\ subs \in SubMaps
  BY <1>1 DEF IInv, ReplaceDiagram, Types
<1>3. /\ n \in Nodes /\ n.ref \in Ids /\ n.variants \in SUBSET Ids
      /\ {n.ref} \cup n.variants \subseteq Known
  BY <1>2, NodesTyped DEF RefsInv, Good
<1>4. Min(rest) \in rest
  <2>1. rest \in SUBSET Ids /\ rest # {}
    BY <1>1, <1>3
  <2>2. QED
    BY <2>1, MinKeeps
<1>5. m \in Nodes /\ {m.ref} \cup m.variants \subseteq Known
  <2>1. m = [n EXCEPT !.variants = @ \ {v}, !.ref = IF @ = v THEN Min(rest) ELSE @]
    BY DEF RemoveVariantChoice
  <2> DEFINE r == IF n.ref = v THEN Min(rest) ELSE n.ref
  <2>2. r \in Ids /\ r \in Known
    BY <1>3, <1>4
  <2>3. m = [n EXCEPT !.variants = rest, !.ref = r]
    BY <2>1, <1>3 DEF Nodes
  <2> HIDE DEF r, m
  <2>4. m \in Nodes /\ m.ref = r /\ m.variants = rest
    BY <2>2, <2>3, <1>3 DEF Nodes
  <2>5. QED
    BY <2>2, <2>4, <1>3
<1>6. s = Restrict(subs, DOMAIN subs \ {v})
  BY DEF RemoveVariantChoice
<1>7. ReplaceDiagram(nodes, s)
  BY <1>1
<1> HIDE DEF m, s
<1>8. /\ s \in SubMaps /\ DOMAIN s = DOMAIN subs \ {v}
      /\ \A x \in DOMAIN s : s[x] = subs[x]
  BY <1>2, <1>6, RestrictKeeps
<1>9. /\ nodes \in SUBSET Nodes
      /\ \A k \in nodes : {k.ref} \cup k.variants \subseteq Known \cup DOMAIN s
  <2>1. \A k \in diagram.nodes : {k.ref} \cup k.variants \subseteq Known
    BY <1>2 DEF RefsInv, Good
  <2>2. QED
    BY <2>1, <1>2, <1>5, NodesTyped DEF ReplaceNode
<1> HIDE DEF nodes
<1>10. gone \subseteq gone' /\ DOMAIN subs \subseteq DOMAIN s \cup gone'
  BY <1>1, <1>8
<1>11. \A x \in DOMAIN s : x \in DOMAIN subs /\ s[x] = subs[x]
  BY <1>8
<1>12. QED
  BY <1>7, <1>8, <1>9, <1>10, <1>11, EditKeeps

-----------------------------------------------------------------------------
(* Undo and redo move one version from one end of the history to the other.*)
LEMMA LastAndFront ==
  ASSUME NEW q \in Seq(Docs), q # << >>
  PROVE  /\ Len(q) \in Nat \ {0} /\ Last(q) = q[Len(q)] /\ Last(q) \in Docs
         /\ Front(q) \in Seq(Docs) /\ Len(Front(q)) = Len(q) - 1
         /\ \A i \in 1..Len(q) - 1 : Front(q)[i] = q[i]
<1>1. Len(q) \in Nat \ {0}
  BY EmptySeq
<1>2. \A i \in 1..Len(q) : q[i] \in Docs
  BY ElementOfSeq
<1>3. Last(q) = q[Len(q)] /\ Last(q) \in Docs
  BY <1>1, <1>2 DEF Last
<1> DEFINE n == Len(q) - 1
<1>4. n \in Nat /\ n \in Int /\ 1 \in Int /\ \A i \in 1..n : q[i] \in Docs
  BY <1>1, <1>2
<1>5. Front(q) = SubSeq(q, 1, n)
  BY DEF Front
<1> HIDE DEF n
<1>6. /\ SubSeq(q, 1, n) \in Seq(Docs)
      /\ Len(SubSeq(q, 1, n)) = (IF 1 <= n THEN n - 1 + 1 ELSE 0)
      /\ \A i \in 1..(n - 1 + 1) : SubSeq(q, 1, n)[i] = q[1 + i - 1]
  BY <1>4, SubSeqProperties
<1>7. Len(Front(q)) = n /\ \A i \in 1..n : Front(q)[i] = q[i]
  BY <1>4, <1>5, <1>6
<1>8. QED
  BY <1>1, <1>3, <1>5, <1>6, <1>7 DEF n

LEMMA UndoRedoKeep ==
  ASSUME IInv, DoUndo \/ DoRedo
  PROVE  IInv'
<1>1. Types /\ RefsInv
  BY DEF IInv
<1>2. /\ UNCHANGED <<clock, root, subs, stack, clipboard, gone>>
      /\ dirty' = TRUE /\ Overtake
  BY DEF DoUndo, DoRedo
<1>3. PICK from \in {past, future}, to \in {past, future} :
        /\ from # << >> /\ diagram' = Last(from)
        /\ {past', future'} = {Front(from), Append(to, diagram)}
  BY DEF DoUndo, DoRedo
<1>4. from \in Seq(Docs) /\ to \in Seq(Docs) /\ diagram \in Docs
  BY <1>1 DEF Types
<1>5. /\ Len(from) \in Nat \ {0} /\ Last(from) = from[Len(from)] /\ Last(from) \in Docs
      /\ Front(from) \in Seq(Docs) /\ Len(Front(from)) = Len(from) - 1
      /\ \A i \in 1..Len(from) - 1 : Front(from)[i] = from[i]
  BY <1>3, <1>4, LastAndFront
<1>6. /\ Append(to, diagram) \in Seq(Docs) /\ Len(Append(to, diagram)) = Len(to) + 1
      /\ \A i \in 1..Len(to) : Append(to, diagram)[i] = to[i]
      /\ Append(to, diagram)[Len(to) + 1] = diagram
      /\ Len(to) \in Nat
  BY <1>4, AppendProperties, LenProperties
<1>7. diagram' \in Docs /\ past' \in Seq(Docs) /\ future' \in Seq(Docs)
  BY <1>3, <1>5, <1>6
<1>8. (sent' = NoSave \/ sent' \in Snapshots) /\ kept' \in Projects /\ overtaken' \in BOOLEAN
  BY <1>1, <1>2, OvertakeTyped
<1>9. Types'
  BY <1>1, <1>2, <1>7, <1>8 DEF Types
<1>10. View' = View /\ DOMAIN EffectiveSubs' = DOMAIN EffectiveSubs /\ Known' = Known
  <2>1. View' = View
    BY <1>2 DEF View
  <2>2. DOMAIN EffectiveSubs' = IF View = Root THEN DOMAIN subs ELSE DOMAIN subs \cup {View}
    BY <1>2, <2>1 DEF EffectiveSubs, Put
  <2>3. QED
    BY <1>1, <1>2, <2>1, <2>2, EffectiveTyped DEF Known
<1>11. \A q \in {from, to} : \A i \in 1..Len(q) : Good(q[i].nodes)
  BY <1>1, <1>3 DEF RefsInv
<1>12. Good(diagram.nodes) /\ Good(diagram'.nodes)
  BY <1>1, <1>3, <1>5, <1>11 DEF RefsInv
<1>13. \A i \in 1..Len(Front(from)) : Good(Front(from)[i].nodes)
  BY <1>5, <1>11
<1>14. \A i \in 1..Len(Append(to, diagram)) : Good(Append(to, diagram)[i].nodes)
  <2>1. \A i \in 1..Len(Append(to, diagram)) : i \in 1..Len(to) \/ i = Len(to) + 1
    BY <1>6
  <2>2. QED
    BY <2>1, <1>6, <1>11, <1>12
<1>15. /\ \A i \in 1..Len(past') : Good(past'[i].nodes)
       /\ \A i \in 1..Len(future') : Good(future'[i].nodes)
  BY <1>3, <1>13, <1>14
<1>16. kept' = kept /\ (sent' # NoSave => sent # NoSave /\ sent'.project = sent.project /\ sent'.late)
  BY <1>1, <1>2 DEF Overtake, Types, Snapshots
<1>17. RefsInv'
  BY <1>1, <1>2, <1>10, <1>12, <1>15, <1>16 DEF RefsInv, Good, GoodProject
<1>18. CleanInv'
  BY <1>2, <1>16 DEF CleanInv, CleanIsSaved
<1>19. QED
  BY <1>9, <1>17, <1>18 DEF IInv

(* What copies, asks for a save or hears that it failed.                   *)
LEMMA AsideKeeps ==
  ASSUME IInv, UNCHANGED <<clock, root, subs, stack, diagram, past, future, dirty, kept,
                           overtaken, gone>>,
         clipboard' = clipboard \/ \E n \in diagram.nodes : clipboard' = {n},
         sent' \in {sent, NoSave, [project |-> GetSaveSnapshot, late |-> FALSE]}
  PROVE  IInv'
<1>1. Types /\ RefsInv /\ CleanInv
  BY DEF IInv
<1>2. /\ View' = View /\ EffectiveSubs' = EffectiveSubs /\ EffectiveRoot' = EffectiveRoot
      /\ Known' = Known
  BY DEF View, EffectiveSubs, EffectiveRoot, Known
<1>3. clipboard' \subseteq Nodes /\ Good(clipboard')
  BY <1>1 DEF Types, Docs, RefsInv, Good
<1>4. GetSaveSnapshot \in Projects
  BY <1>1, EffectiveTyped
<1>5. GoodProject(GetSaveSnapshot)
  <2>1. Good(EffectiveRoot.nodes)
    BY <1>1 DEF RefsInv, EffectiveRoot
  <2>2. \A x \in DOMAIN EffectiveSubs : Good(EffectiveSubs[x].nodes)
    BY <1>1 DEF RefsInv, EffectiveSubs, Put
  <2>3. QED
    BY <2>1, <2>2 DEF GoodProject, GetSaveSnapshot
<1>6. Types'
  <2>1. [project |-> GetSaveSnapshot, late |-> FALSE] \in Snapshots
    BY <1>4 DEF Snapshots
  <2>2. sent' = NoSave \/ sent' \in Snapshots
    BY <1>1, <2>1 DEF Types
  <2>3. QED
    BY <1>1, <1>3, <2>2 DEF Types
<1>7. RefsInv'
  <2>1. sent' # NoSave => GoodProject(sent'.project)
    BY <1>1, <1>5 DEF RefsInv
  <2>2. QED
    BY <1>1, <1>2, <1>3, <2>1 DEF RefsInv, Good, GoodProject
<1>8. CleanInv'
  <2>1. CleanIsSaved'
    BY <1>1, <1>2 DEF CleanInv, CleanIsSaved
  <2>2. sent' # NoSave /\ ~sent'.late => sent'.project = GetSaveSnapshot
    BY <1>1 DEF CleanInv
  <2>3. GetSaveSnapshot' = GetSaveSnapshot
    BY <1>2 DEF GetSaveSnapshot
  <2>4. QED
    BY <2>1, <2>2, <2>3 DEF CleanInv
<1>9. QED
  BY <1>6, <1>7, <1>8 DEF IInv

-----------------------------------------------------------------------------
(* Moving between diagrams.                                                *)
LEMMA PutSame ==
  ASSUME NEW s \in SubMaps, NEW v \in DOMAIN s
  PROVE  Put(s, v, s[v]) = s
<1>1. s \in [DOMAIN s -> Docs] /\ DOMAIN s \cup {v} = DOMAIN s
  BY SubMapsAre
<1>2. Put(s, v, s[v]) = [x \in DOMAIN s |-> s[x]]
  BY <1>1 DEF Put
<1>3. QED
  BY <1>1, <1>2

(* With the view stored, what is stored is the work.                       *)
LEMMA Persisted ==
  ASSUME Types, PersistView(diagram, subs)
  PROVE  root' = EffectiveRoot /\ subs' = EffectiveSubs
  BY DEF PersistView, EffectiveRoot, EffectiveSubs

LEMMA WorkGood ==
  ASSUME RefsInv
  PROVE  Good(EffectiveRoot.nodes) /\ \A x \in DOMAIN EffectiveSubs : Good(EffectiveSubs[x].nodes)
<1>1. Good(EffectiveRoot.nodes)
  BY DEF RefsInv, EffectiveRoot
<1>2. \A x \in DOMAIN EffectiveSubs : Good(EffectiveSubs[x].nodes)
  BY DEF RefsInv, EffectiveSubs, Put
<1>3. QED
  BY <1>1, <1>2

(* Another diagram in the view, nothing dropped.                           *)
LEMMA ViewKeepsRefs ==
  ASSUME Types, RefsInv, PersistView(diagram, subs), Known' = Known, Good(diagram'.nodes),
         UNCHANGED <<past, future>> \/ (past' = << >> /\ future' = << >>),
         UNCHANGED <<clipboard, kept>>,
         sent' # NoSave => sent # NoSave /\ sent'.project = sent.project
  PROVE  RefsInv'
<1>1. root' = EffectiveRoot /\ subs' = EffectiveSubs
  BY Persisted
<1>2. Good(root'.nodes) /\ \A x \in DOMAIN subs' : Good(subs'[x].nodes)
  BY <1>1, WorkGood
<1>3. /\ \A i \in 1..Len(past') : Good(past'[i].nodes)
      /\ \A i \in 1..Len(future') : Good(future'[i].nodes)
  <2>1. CASE UNCHANGED <<past, future>>
    BY <2>1 DEF RefsInv
  <2>2. CASE past' = << >> /\ future' = << >>
    <3>1. Len(past') = 0 /\ Len(future') = 0
      BY <2>2, EmptySeq
    <3>2. QED
      BY <3>1
  <2>3. QED
    BY <2>1, <2>2
<1>4. QED
  BY <1>2, <1>3 DEF RefsInv, Good, GoodProject

LEMMA DrillKeeps ==
  ASSUME IInv, DrillInto
  PROVE  IInv'
<1>1. Types /\ RefsInv /\ CleanInv
  BY DEF IInv
<1>2. PICK n \in diagram.nodes :
        /\ n.ref \in DOMAIN subs
        /\ stack' = Append(stack, n.ref)
        /\ Replace(subs[n.ref])
        /\ IF n.ref = View /\ subs[n.ref] # diagram
           THEN /\ overtaken' = TRUE
                /\ sent' = IF sent = NoSave THEN NoSave ELSE [sent EXCEPT !.late = TRUE]
           ELSE UNCHANGED <<sent, overtaken>>
  BY DEF DrillInto
<1>3. PersistView(diagram, subs) /\ UNCHANGED <<clock, dirty, clipboard, kept, gone>>
  BY DEF DrillInto
<1>4. /\ subs \in SubMaps /\ n.ref \in Ids /\ n.ref # Root /\ subs[n.ref] \in Docs
      /\ Good(subs[n.ref].nodes)
  BY <1>1, <1>2, SubMapsAre DEF Types, Ids, Root, RefsInv
<1>5. /\ stack' \in Seq(Views) /\ stack' # << >> /\ stack'[1] = Root /\ View' = n.ref
  <2>1. stack \in Seq(Views) /\ Len(stack) \in Nat \ {0} /\ stack[1] = Root
    BY <1>1, ViewTyped DEF Types
  <2>2. /\ Append(stack, n.ref) \in Seq(Views) /\ Append(stack, n.ref) # << >>
        /\ Len(Append(stack, n.ref)) = Len(stack) + 1
        /\ \A i \in 1..Len(stack) : Append(stack, n.ref)[i] = stack[i]
        /\ Append(stack, n.ref)[Len(stack) + 1] = n.ref
    BY <1>4, <2>1, AppendProperties DEF Views
  <2>3. QED
    BY <1>2, <2>1, <2>2 DEF View, Last
<1>6. /\ diagram' = subs[n.ref] /\ past' = << >> /\ future' = << >>
      /\ past' \in Seq(Docs) /\ future' \in Seq(Docs)
  BY <1>2, <1>4, ReplaceTyped DEF Replace
<1>7. /\ root' = EffectiveRoot /\ subs' = EffectiveSubs
      /\ EffectiveRoot \in Docs /\ EffectiveSubs \in SubMaps
      /\ n.ref \in DOMAIN EffectiveSubs
  BY <1>1, <1>2, <1>3, Persisted, EffectiveTyped
<1>8. /\ sent' = NoSave \/ sent' \in Snapshots
      /\ overtaken' \in BOOLEAN
      /\ sent' # NoSave => sent # NoSave /\ sent'.project = sent.project
  BY <1>1, <1>2 DEF Types, Snapshots
<1>9. Types'
  BY <1>1, <1>3, <1>4, <1>5, <1>6, <1>7, <1>8 DEF Types
<1>10. EffectiveRoot' = EffectiveRoot /\ EffectiveSubs' = Put(EffectiveSubs, n.ref, subs[n.ref])
  BY <1>4, <1>5, <1>6, <1>7 DEF EffectiveRoot, EffectiveSubs
<1>11. Known' = Known
  BY <1>3, <1>7, <1>10 DEF Known, Put
<1>12. RefsInv'
  BY <1>1, <1>3, <1>4, <1>6, <1>8, <1>11, ViewKeepsRefs
<1>13. CleanInv'
  <2>1. CASE n.ref = View /\ subs[n.ref] # diagram
    <3>1. overtaken' = TRUE /\ (sent' # NoSave => sent'.late)
      BY <2>1, <1>1, <1>2 DEF Types, Snapshots
    <3>2. QED
      BY <3>1 DEF CleanInv, CleanIsSaved
  <2>2. CASE ~(n.ref = View /\ subs[n.ref] # diagram)
    <3>1. EffectiveSubs[n.ref] = subs[n.ref]
      BY <2>2, <1>2 DEF EffectiveSubs, Put
    <3>2. EffectiveSubs' = EffectiveSubs
      BY <3>1, <1>7, <1>10, PutSame
    <3>3. UNCHANGED <<sent, overtaken>>
      BY <2>2, <1>2
    <3>4. QED
      BY <3>2, <3>3, <1>1, <1>3, <1>10 DEF CleanInv, CleanIsSaved, GetSaveSnapshot
  <2>3. QED
    BY <2>1, <2>2
<1>14. QED
  BY <1>9, <1>12, <1>13 DEF IInv

(* What is below a view.                                                   *)
LEMMA Below ==
  ASSUME Types, NEW i \in DOMAIN stack
  PROVE  LET below == SubSeq(stack, 1, i)
         IN  /\ below \in Seq(Views) /\ below # << >> /\ below[1] = Root
             /\ Last(below) = stack[i] /\ stack[i] \in Views
<1>1. stack \in Seq(Views) /\ stack[1] = Root /\ DOMAIN stack = 1..Len(stack)
      /\ Len(stack) \in Nat \ {0}
  BY ViewTyped DEF Types
<1>2. \A j \in 1..Len(stack) : stack[j] \in Views
  BY <1>1, ElementOfSeq
<1>3. i \in Int /\ i \in 1..Len(stack) /\ 1 \in Int /\ \A j \in 1..i : stack[j] \in Views
  BY <1>1, <1>2
<1>4. /\ SubSeq(stack, 1, i) \in Seq(Views)
      /\ Len(SubSeq(stack, 1, i)) = (IF 1 <= i THEN i - 1 + 1 ELSE 0)
      /\ \A j \in 1..(i - 1 + 1) : SubSeq(stack, 1, i)[j] = stack[1 + j - 1]
  BY <1>3, SubSeqProperties
<1> DEFINE below == SubSeq(stack, 1, i)
<1> HIDE DEF below
<1>5. Len(below) = i /\ below[1] = Root /\ below[i] = stack[i] /\ below \in Seq(Views)
  BY <1>1, <1>3, <1>4 DEF below
<1>6. below # << >>
  <2>1. Len(<< >>) = 0
    BY EmptySeq
  <2>2. QED
    BY <2>1, <1>3, <1>5
<1>7. QED
  BY <1>2, <1>3, <1>5, <1>6 DEF Last, below

LEMMA NavigateKeeps ==
  ASSUME IInv, NavigateTo
  PROVE  IInv'
<1>1. Types /\ RefsInv /\ CleanInv
  BY DEF IInv
<1>2. /\ PersistView(diagram, subs)
      /\ UNCHANGED <<clock, dirty, clipboard, sent, kept, overtaken, gone>>
  BY DEF NavigateTo
<1>3. /\ root' = EffectiveRoot /\ subs' = EffectiveSubs
      /\ EffectiveRoot \in Docs /\ EffectiveSubs \in SubMaps
  BY <1>1, <1>2, Persisted, EffectiveTyped
<1>4. ASSUME NEW i \in DOMAIN stack, stack[i] = Root \/ stack[i] \in DOMAIN EffectiveSubs,
             stack' = SubSeq(stack, 1, i),
             Replace(IF stack[i] = Root THEN EffectiveRoot ELSE EffectiveSubs[stack[i]])
      PROVE  IInv'
  <2> DEFINE d == IF stack[i] = Root THEN EffectiveRoot ELSE EffectiveSubs[stack[i]]
  <2>1. d \in Docs /\ Good(d.nodes)
    BY <1>1, <1>3, <1>4, SubMapsAre, WorkGood
  <2>2. /\ diagram' = d /\ past' = << >> /\ future' = << >>
        /\ past' \in Seq(Docs) /\ future' \in Seq(Docs)
    BY <1>4, <2>1, ReplaceTyped DEF Replace
  <2>3. stack' \in Seq(Views) /\ stack' # << >> /\ stack'[1] = Root /\ View' = stack[i]
    BY <1>1, <1>4, Below DEF View
  <2>4. EffectiveRoot' = EffectiveRoot /\ EffectiveSubs' = EffectiveSubs
    BY <1>3, <1>4, <2>2, <2>3, PutSame DEF EffectiveRoot, EffectiveSubs
  <2>5. Types'
    BY <1>1, <1>2, <1>3, <2>1, <2>2, <2>3 DEF Types
  <2>6. Known' = Known
    BY <1>2, <2>4 DEF Known
  <2>7. RefsInv'
    BY <1>1, <1>2, <2>1, <2>2, <2>6, ViewKeepsRefs
  <2>8. CleanInv'
    BY <1>1, <1>2, <2>4 DEF CleanInv, CleanIsSaved, GetSaveSnapshot
  <2>9. QED
    BY <2>5, <2>7, <2>8 DEF IInv
<1>5. CASE UNCHANGED <<stack, diagram, past, future>>
  <2>1. View' = View
    BY <1>5 DEF View
  <2>2. EffectiveSubs' = EffectiveSubs
    <3>1. CASE View = Root
      BY <3>1, <2>1, <1>3 DEF EffectiveSubs
    <3>2. CASE View # Root
      <4>1. View \in DOMAIN EffectiveSubs /\ EffectiveSubs[View] = diagram
        BY <3>2 DEF EffectiveSubs, Put
      <4>2. EffectiveSubs' = Put(EffectiveSubs, View, diagram)
        BY <3>2, <2>1, <1>3, <1>5 DEF EffectiveSubs
      <4>3. QED
        BY <4>1, <4>2, <1>3, PutSame
    <3>3. QED
      BY <3>1, <3>2
  <2>3. EffectiveRoot' = EffectiveRoot
    BY <2>1, <1>3, <1>5 DEF EffectiveRoot
  <2>4. Types'
    BY <1>1, <1>2, <1>3, <1>5 DEF Types
  <2>5. Known' = Known
    BY <1>2, <2>2 DEF Known
  <2>6. RefsInv'
    <3>1. Good(diagram'.nodes)
      BY <1>1, <1>5 DEF RefsInv
    <3>2. QED
      BY <3>1, <1>1, <1>2, <1>5, <2>5, ViewKeepsRefs
  <2>7. CleanInv'
    BY <1>1, <1>2, <2>2, <2>3 DEF CleanInv, CleanIsSaved, GetSaveSnapshot
  <2>8. QED
    BY <2>4, <2>6, <2>7 DEF IInv
<1>6. QED
  BY <1>4, <1>5 DEF NavigateTo

-----------------------------------------------------------------------------
(* Saving and loading.                                                     *)
LEMMA SyncKeeps ==
  ASSUME IInv, SyncAfterSave
  PROVE  IInv'
<1>1. Types /\ RefsInv /\ CleanInv
  BY DEF IInv
<1> DEFINE p == sent.project
<1>2. /\ sent # NoSave /\ root' = p.root /\ subs' = p.subs /\ dirty' = FALSE
      /\ sent' = NoSave /\ kept' = p /\ overtaken' = sent.late
      /\ gone' = gone \cup (DOMAIN subs \ DOMAIN p.subs)
      /\ UNCHANGED <<clock, stack, diagram, past, future, clipboard>>
  BY DEF SyncAfterSave
<1>3. p \in Projects /\ sent.late \in BOOLEAN
  BY <1>1, <1>2 DEF Types, Snapshots
<1>4. p.root \in Docs /\ p.subs \in SubMaps
  BY <1>3, ProjectsAre
<1>5. GoodProject(p)
  BY <1>1, <1>2 DEF RefsInv
<1> HIDE DEF p
<1>6. Types'
  BY <1>1, <1>2, <1>3, <1>4 DEF Types
<1>7. View' = View
  BY <1>2 DEF View
<1>8. Known \subseteq Known'
  <2>1. DOMAIN EffectiveSubs' = IF View = Root THEN DOMAIN p.subs ELSE DOMAIN p.subs \cup {View}
    BY <1>2, <1>7 DEF EffectiveSubs, Put
  <2>2. QED
    BY <2>1, <1>1, <1>2, EffectiveTyped DEF Known
<1>9. RefsInv'
  BY <1>1, <1>2, <1>5, <1>8 DEF RefsInv, GoodProject, Good
<1>10. CleanInv'
  <2>1. CASE sent.late
    BY <2>1, <1>2 DEF CleanInv, CleanIsSaved
  <2>2. CASE ~sent.late
    <3>1. p = [root |-> EffectiveRoot, subs |-> EffectiveSubs]
      BY <2>2, <1>1, <1>2 DEF CleanInv, GetSaveSnapshot, p
    <3>2. root' = EffectiveRoot /\ subs' = EffectiveSubs
      BY <3>1, <1>2
    <3>3. EffectiveRoot' = EffectiveRoot
      BY <3>2, <1>2, <1>7 DEF EffectiveRoot
    <3>4. EffectiveSubs' = EffectiveSubs
      <4>1. CASE View = Root
        BY <4>1, <3>2, <1>7 DEF EffectiveSubs
      <4>2. CASE View # Root
        <5>1. View \in DOMAIN EffectiveSubs /\ EffectiveSubs[View] = diagram
          BY <4>2 DEF EffectiveSubs, Put
        <5>2. EffectiveSubs' = Put(EffectiveSubs, View, diagram)
          BY <4>2, <3>2, <1>2, <1>7 DEF EffectiveSubs
        <5>3. QED
          BY <5>1, <5>2, <1>1, EffectiveTyped, PutSame
      <4>3. QED
        BY <4>1, <4>2
    <3>5. QED
      BY <3>1, <3>3, <3>4, <1>2 DEF CleanInv, CleanIsSaved
  <2>3. QED
    BY <2>1, <2>2
<1>11. QED
  BY <1>6, <1>9, <1>10 DEF IInv

(* Another project takes the place of the open one.                        *)
LEMMA ShowKeeps ==
  ASSUME IInv, NEW p \in Projects, GoodProject(p), ShowProject(p),
         clock' \in 0..MaxEdits, dirty' \in BOOLEAN, overtaken' \in BOOLEAN,
         sent' = IF sent = NoSave THEN NoSave ELSE [sent EXCEPT !.late = TRUE],
         kept' \in {p, kept}, ~dirty' /\ ~overtaken' => kept' = p
  PROVE  IInv'
<1>1. Types /\ RefsInv /\ CleanInv
  BY DEF IInv
<1>2. p.root \in Docs /\ p.subs \in SubMaps /\ p = [root |-> p.root, subs |-> p.subs]
  BY ProjectsAre DEF Projects
<1>3. /\ root' = p.root /\ subs' = p.subs /\ stack' = <<Root>> /\ clipboard' = clipboard
      /\ diagram' = p.root /\ past' = << >> /\ future' = << >>
      /\ gone' = gone \cup (DOMAIN EffectiveSubs \ DOMAIN p.subs)
  BY DEF ShowProject, Replace
<1>4. stack' \in Seq(Views) /\ stack' # << >> /\ stack'[1] = Root /\ View' = Root
  BY <1>3 DEF View, Last, Views
<1>5. /\ past' \in Seq(Docs) /\ future' \in Seq(Docs) /\ Len(past') = 0 /\ Len(future') = 0
  BY <1>3, EmptySeq
<1>6. /\ sent' = NoSave \/ sent' \in Snapshots
      /\ sent' # NoSave => sent # NoSave /\ sent'.project = sent.project /\ sent'.late
  BY <1>1 DEF Types, Snapshots
<1>7. Types'
  BY <1>1, <1>2, <1>3, <1>4, <1>5, <1>6 DEF Types
<1>8. EffectiveRoot' = p.root /\ EffectiveSubs' = p.subs
  BY <1>3, <1>4 DEF EffectiveRoot, EffectiveSubs
<1>9. Known \subseteq Known'
  BY <1>3, <1>8 DEF Known
<1>10. RefsInv'
  <2>1. \A k \in {p, kept} : GoodProject(k) =>
           /\ \A n \in k.root.nodes : {n.ref} \cup n.variants \subseteq Known'
           /\ \A x \in DOMAIN k.subs :
                 \A n \in k.subs[x].nodes : {n.ref} \cup n.variants \subseteq Known'
    BY <1>9 DEF RefsInv, GoodProject, Good
  <2>2. sent' # NoSave => GoodProject(sent.project)'
    BY <1>1, <1>6, <1>9 DEF RefsInv, GoodProject, Good
  <2>3. Good(clipboard)'
    BY <1>1, <1>3, <1>9 DEF RefsInv, Good
  <2>4. QED
    BY <2>1, <2>2, <2>3, <1>1, <1>3, <1>5, <1>6, <1>9 DEF RefsInv, GoodProject, Good
<1>11. CleanInv'
  BY <1>2, <1>6, <1>8 DEF CleanInv, CleanIsSaved
<1>12. QED
  BY <1>7, <1>10, <1>11 DEF IInv

LEMMA LoadKeeps ==
  ASSUME IInv, ApplyLoadedProject
  PROVE  IInv'
<1>1. PICK p \in {kept, NewProject} : ShowProject(p) /\ kept' = p
  BY DEF ApplyLoadedProject
<1>2. p \in Projects /\ clock' \in 0..MaxEdits
  BY ProjectsAre DEF IInv, Types, ApplyLoadedProject
<1>3. GoodProject(p)
  BY NoSubsTyped DEF IInv, RefsInv, GoodProject, Good, NewProject, EmptyDoc
<1>4. QED
  BY <1>1, <1>2, <1>3, ShowKeeps DEF ApplyLoadedProject

LEMMA ImportKeeps ==
  ASSUME IInv, ImportRootDiagram
  PROVE  IInv'
<1> DEFINE d == [rev |-> NewId, nodes |-> {}]
           p == [root |-> d, subs |-> NoSubs]
<1>1. clock' = NewId /\ NewId \in 0..MaxEdits /\ ShowProject(p) /\ dirty' = TRUE /\ Overtake
  BY EditBounds DEF IInv, Types, ImportRootDiagram, NewId
<1>2. d \in Docs /\ d.nodes = {}
  BY <1>1 DEF Docs
<1> HIDE DEF d
<1>3. p \in Projects /\ p.root = d /\ p.subs = NoSubs
  BY <1>2, NoSubsTyped DEF Projects
<1> HIDE DEF p
<1>4. GoodProject(p)
  BY <1>2, <1>3, NoSubsTyped DEF GoodProject, Good
<1>5. /\ sent' = IF sent = NoSave THEN NoSave ELSE [sent EXCEPT !.late = TRUE]
      /\ kept' = kept /\ overtaken' \in BOOLEAN
  BY <1>1 DEF Overtake, IInv, Types
<1>6. QED
  BY <1>1, <1>3, <1>4, <1>5, ShowKeeps

-----------------------------------------------------------------------------
LEMMA InitHolds == Init => IInv
<1> SUFFICES ASSUME Init PROVE IInv
  OBVIOUS
<1>1. /\ NewProject \in Projects /\ EmptyDoc \in Docs /\ EmptyDoc.nodes = {}
      /\ NewProject.root = EmptyDoc /\ NewProject.subs = NoSubs
      /\ NoSubs \in SubMaps /\ DOMAIN NoSubs = {}
  BY ProjectsAre, NoSubsTyped DEF EmptyDoc, NewProject
<1>2. past \in Seq(Docs) /\ future \in Seq(Docs) /\ Len(past) = 0 /\ Len(future) = 0
  BY EmptySeq DEF Init
<1>3. stack \in Seq(Views) /\ stack # << >> /\ stack[1] = Root /\ View = Root
  BY DEF Init, View, Last, Views
<1>4. Types
  <2>1. clock \in 0..MaxEdits /\ clipboard \subseteq Nodes
    BY EditBounds DEF Init
  <2>4. dirty \in BOOLEAN /\ overtaken \in BOOLEAN
    BY Zenon DEF Init
  <2>2. root \in Docs /\ subs \in SubMaps /\ diagram \in Docs /\ kept \in Projects /\ sent = NoSave
    BY <1>1 DEF Init
  <2>3. QED
    BY <1>2, <1>3, <2>1, <2>2, <2>4 DEF Types
<1>5. RefsInv
  BY <1>1, <1>2 DEF RefsInv, Good, GoodProject, Init
<1>6. CleanInv
  BY <1>3 DEF CleanInv, CleanIsSaved, EffectiveRoot, EffectiveSubs, Init, NewProject
<1>7. QED
  BY <1>4, <1>5, <1>6 DEF IInv

LEMMA NextKeeps == IInv /\ [Next]_vars => IInv'
<1> SUFFICES ASSUME IInv, [Next]_vars PROVE IInv'
  OBVIOUS
<1>1. CASE EditBlocks \/ DoDeleteSelection \/ DoPaste \/ DoCreateSubsystem
  BY <1>1, EditsKeep
<1>2. CASE DoAddVariant
  BY <1>2, AddVariantKeeps
<1>3. CASE DoSetActiveVariant
  BY <1>3, SetVariantKeeps
<1>4. CASE DoRemoveVariant
  BY <1>4, RemoveVariantKeeps
<1>5. CASE DoUndo \/ DoRedo
  BY <1>5, UndoRedoKeep
<1>6. CASE DoCopy
  BY <1>6, AsideKeeps DEF DoCopy
<1>7. CASE DoSave
  BY <1>7, AsideKeeps DEF DoSave
<1>8. CASE SaveFails
  BY <1>8, AsideKeeps DEF SaveFails
<1>9. CASE UNCHANGED vars
  BY <1>9, AsideKeeps DEF vars
<1>10. CASE DrillInto
  BY <1>10, DrillKeeps
<1>11. CASE NavigateTo
  BY <1>11, NavigateKeeps
<1>12. CASE SyncAfterSave
  BY <1>12, SyncKeeps
<1>13. CASE ApplyLoadedProject
  BY <1>13, LoadKeeps
<1>14. CASE ImportRootDiagram
  BY <1>14, ImportKeeps
<1>15. QED
  BY <1>1, <1>2, <1>3, <1>4, <1>5, <1>6, <1>7, <1>8, <1>9, <1>10, <1>11, <1>12, <1>13, <1>14
     DEF Next

LEMMA Invariance == Spec => []IInv
  BY InitHolds, NextKeeps, PTL DEF Spec

(* A project shown as saved is as it was saved, whichever diagram is in    *)
(* the view.                                                               *)
THEOREM CleanSaved == Spec => []CleanIsSaved
<1>1. IInv => CleanIsSaved
  BY DEF IInv, CleanInv
<1>2. QED
  BY <1>1, Invariance, PTL

(* The variables keep their types, and every diagram a node refers to is   *)
(* there, also in what undo, redo and paste can bring back, unless it was  *)
(* removed on purpose or by a late answer.                                 *)
THEOREM WholeProject == Spec => []ProjectIsWhole
<1>1. IInv => TypeOK
  <2> SUFFICES ASSUME IInv PROVE TypeOK
    OBVIOUS
  <2>1. Types
    BY DEF IInv
  <2>2. Range(past) \subseteq Docs /\ Range(future) \subseteq Docs
    <3>1. past \in [1..Len(past) -> Docs] /\ future \in [1..Len(future) -> Docs]
      BY <2>1, LenProperties DEF Types
    <3>2. QED
      BY <3>1 DEF Range
  <2>3. Range(subs) \subseteq Docs /\ DOMAIN subs \subseteq Ids
    BY <2>1, SubMapsAre DEF Types, Range
  <2>4. QED
    BY <2>1, <2>2, <2>3 DEF TypeOK, Types
<1>2. IInv => RefsResolve
  <2> SUFFICES ASSUME IInv PROVE RefsResolve
    OBVIOUS
  <2>1. RefsInv /\ Types
    BY DEF IInv
  <2>2. DOMAIN past = 1..Len(past) /\ DOMAIN future = 1..Len(future)
    BY <2>1, LenProperties DEF Types
  <2>3. \A d \in {EffectiveRoot} \cup Range(EffectiveSubs) \cup Range(past) \cup Range(future) :
           Good(d.nodes)
    BY <2>1, <2>2, WorkGood DEF RefsInv, Range
  <2>4. Good(clipboard)
    BY <2>1 DEF RefsInv
  <2> DEFINE all == {EffectiveRoot} \cup Range(EffectiveSubs) \cup Range(past) \cup Range(future)
           nodes == UNION {d.nodes : d \in all}
  <2> HIDE DEF all
  <2>5. Good(nodes)
    <3> SUFFICES ASSUME NEW n \in nodes PROVE {n.ref} \cup n.variants \subseteq Known
      BY DEF Good
    <3>1. PICK d \in all : n \in d.nodes
      OBVIOUS
    <3>2. Good(d.nodes)
      BY <2>3 DEF all
    <3>3. QED
      BY <3>1, <3>2 DEF Good
  <2> HIDE DEF nodes
  <2>7. \A n \in nodes \cup clipboard : {n.ref} \cup n.variants \subseteq Known
    BY <2>4, <2>5 DEF Good
  <2>6. QED
    <3>1. \A n \in (UNION {d.nodes : d \in all}) \cup clipboard :
             {n.ref} \cup n.variants \subseteq DOMAIN EffectiveSubs \cup gone
      BY <2>7 DEF Known, nodes
    <3>2. QED
      BY <3>1, Zenon DEF RefsResolve, all
<1>3. QED
  BY <1>1, <1>2, Invariance, PTL DEF ProjectIsWhole

-----------------------------------------------------------------------------
(* Undo and redo implement the list of versions.                           *)
VersionList(p, d, f) == p \o <<d>> \o Reverse(f)

LEMMA VersionListIs ==
  ASSUME NEW p \in Seq(Docs), NEW d \in Docs, NEW f \in Seq(Docs)
  PROVE  LET l == VersionList(p, d, f)
         IN  /\ l \in Seq(Docs) /\ Len(l) = Len(p) + 1 + Len(f)
             /\ \A i \in 1..Len(l) : l[i] = IF i <= Len(p) THEN p[i]
                                            ELSE IF i = Len(p) + 1 THEN d
                                            ELSE f[Len(p) + 2 + Len(f) - i]
<1>1. Len(p) \in Nat /\ Len(f) \in Nat
  OBVIOUS
<1>2. \A i \in 1..Len(f) : f[(Len(f) - i) + 1] \in Docs
  <2>1. \A i \in 1..Len(f) : f[i] \in Docs
    BY ElementOfSeq
  <2>2. \A i \in 1..Len(f) : (Len(f) - i) + 1 \in 1..Len(f)
    BY <1>1
  <2>3. QED
    BY <2>1, <2>2
<1>3. /\ Reverse(f) \in Seq(Docs) /\ Len(Reverse(f)) = Len(f)
      /\ \A i \in 1..Len(f) : Reverse(f)[i] = f[(Len(f) - i) + 1]
  BY <1>1, <1>2 DEF Reverse
<1>4. <<d>> \in Seq(Docs) /\ Len(<<d>>) = 1 /\ <<d>>[1] = d
  OBVIOUS
<1> DEFINE a == p \o <<d>>
<1>5. /\ a \in Seq(Docs) /\ Len(a) = Len(p) + 1
      /\ \A i \in 1..Len(p) + 1 : a[i] = IF i <= Len(p) THEN p[i] ELSE d
  <2>1. /\ a \in Seq(Docs) /\ Len(a) = Len(p) + Len(<<d>>)
        /\ \A i \in 1..Len(p) + Len(<<d>>) :
              a[i] = IF i <= Len(p) THEN p[i] ELSE <<d>>[i - Len(p)]
    BY <1>4, ConcatProperties
  <2>2. \A i \in 1..Len(p) + 1 : i <= Len(p) \/ i - Len(p) = 1
    BY <1>1
  <2>3. QED
    BY <1>4, <2>1, <2>2
<1> DEFINE r == Reverse(f)
           l == a \o r
<1> HIDE DEF a
<1>11. r \in Seq(Docs) /\ Len(r) = Len(f) /\ \A i \in 1..Len(f) : r[i] = f[(Len(f) - i) + 1]
  BY <1>3
<1> HIDE DEF r
<1>12. a \in Seq(Docs) /\ r \in Seq(Docs)
  BY <1>11, <1>5
<1>6. /\ l \in Seq(Docs) /\ Len(l) = Len(a) + Len(r)
      /\ \A i \in 1..Len(a) + Len(r) : l[i] = IF i <= Len(a) THEN a[i] ELSE r[i - Len(a)]
  BY <1>12, ConcatProperties, Zenon
<1>7. VersionList(p, d, f) = l
  BY DEF VersionList, a, r
<1> HIDE DEF l
<1>8. ASSUME NEW i \in 1..Len(l)
      PROVE  l[i] = IF i <= Len(p) THEN p[i]
                    ELSE IF i = Len(p) + 1 THEN d ELSE f[Len(p) + 2 + Len(f) - i]
  <2>1. CASE i <= Len(p) + 1
    <3>1. i \in 1..Len(p) + 1 /\ i \in 1..Len(a) + Len(r) /\ i <= Len(a)
      BY <2>1, <1>1, <1>11, <1>5, <1>6
    <3>2. l[i] = a[i] /\ a[i] = IF i <= Len(p) THEN p[i] ELSE d
      BY <3>1, <1>5, <1>6
    <3>3. i > Len(p) => i = Len(p) + 1
      BY <2>1, <1>1
    <3>4. QED
      BY <3>2, <3>3, <1>1
  <2>2. CASE i > Len(p) + 1
    <3>1. i - Len(a) \in 1..Len(f) /\ (Len(f) - (i - Len(a))) + 1 = Len(p) + 2 + Len(f) - i
      BY <2>2, <1>1, <1>11, <1>5, <1>6
    <3>2. l[i] = r[i - Len(a)]
      BY <2>2, <3>1, <1>1, <1>5, <1>6
    <3>3. r[i - Len(a)] = f[(Len(f) - (i - Len(a))) + 1]
      BY <3>1, <1>11
    <3>4. QED
      BY <2>2, <3>1, <3>2, <3>3, <1>1
  <2>3. QED
    BY <2>1, <2>2, <1>1
<1>9. QED
  BY <1>1, <1>11, <1>5, <1>6, <1>7, <1>8

(* The list without undone versions.                                       *)
LEMMA NewestIs ==
  ASSUME NEW p \in Seq(Docs), NEW d \in Docs
  PROVE  /\ VersionList(p, d, << >>) \in Seq(Docs)
         /\ Len(VersionList(p, d, << >>)) = Len(p) + 1
         /\ \A i \in 1..Len(p) + 1 :
               VersionList(p, d, << >>)[i] = IF i <= Len(p) THEN p[i] ELSE d
<1>1. PICK f \in Seq(Docs) : f = << >> /\ Len(f) = 0
  BY EmptySeq
<1> DEFINE l == VersionList(p, d, f)
<1>2. /\ l \in Seq(Docs) /\ Len(l) = Len(p) + 1 + Len(f)
      /\ \A i \in 1..Len(l) : l[i] = IF i <= Len(p) THEN p[i]
                                     ELSE IF i = Len(p) + 1 THEN d
                                     ELSE f[Len(p) + 2 + Len(f) - i]
  BY VersionListIs
<1>3. l = VersionList(p, d, << >>)
  BY <1>1
<1> HIDE DEF l
<1>4. Len(p) \in Nat
  OBVIOUS
<1>5. /\ l \in Seq(Docs) /\ Len(l) = Len(p) + 1
      /\ \A i \in 1..Len(p) + 1 : l[i] = IF i <= Len(p) THEN p[i] ELSE d
  BY <1>1, <1>2, <1>4
<1>6. QED
  BY <1>3, <1>5

LEMMA SingleIs ==
  ASSUME NEW d \in Docs
  PROVE  Len(VersionList(<< >>, d, << >>)) = 1 /\ Len(<< >>) = 0
<1>1. PICK p \in Seq(Docs) : p = << >> /\ Len(p) = 0
  BY EmptySeq
<1>2. Len(VersionList(p, d, << >>)) = Len(p) + 1
  BY NewestIs
<1>3. QED
  BY <1>1, <1>2

(* The undoable versions after an edit, and the list after it.             *)
Committed(p, d) ==
    LET a == Append(p, d) IN IF Len(a) > MaxHistory THEN Tail(a) ELSE a
EditsList(l, i, m) ==
    LET k == Append(SubSeq(l, 1, i), m[Len(m)])
    IN  m # << >> /\ m = IF Len(k) > MaxHistory + 1 THEN Tail(k) ELSE k

(* The versions after an edit: those up to the position and the new one.   *)
LEMMA EditOfLists ==
  ASSUME NEW p \in Seq(Docs), NEW d \in Docs, NEW f \in Seq(Docs), NEW e \in Docs
  PROVE  /\ EditsList(VersionList(p, d, f), Len(p) + 1, VersionList(Committed(p, d), e, << >>))
         /\ Len(VersionList(Committed(p, d), e, << >>)) = Len(Committed(p, d)) + 1
<1> DEFINE l == VersionList(p, d, f)
           b == SubSeq(l, 1, Len(p) + 1)
           k == Append(b, e)
           a == Append(p, d)
           q == Committed(p, d)
           m == VersionList(q, e, << >>)
<1>1. /\ l \in Seq(Docs) /\ Len(l) = Len(p) + 1 + Len(f)
      /\ \A i \in 1..Len(l) : l[i] = IF i <= Len(p) THEN p[i]
                                     ELSE IF i = Len(p) + 1 THEN d
                                     ELSE f[Len(p) + 2 + Len(f) - i]
  BY VersionListIs
<1>2. Len(p) \in Nat /\ Len(f) \in Nat /\ MaxHistory \in Nat
  BY EditBounds
<1> HIDE DEF l
<1>3. /\ b \in Seq(Docs) /\ Len(b) = Len(p) + 1
      /\ \A i \in 1..Len(p) + 1 : b[i] = IF i <= Len(p) THEN p[i] ELSE d
  <2>1. ASSUME NEW i \in 1..Len(p) + 1
        PROVE  i \in 1..Len(l) /\ l[i] = IF i <= Len(p) THEN p[i] ELSE d
    <3>1. i \in 1..Len(l)
      BY <1>1, <1>2
    <3>2. QED
      BY <3>1, <1>1, <1>2
  <2>2. \A i \in 1..Len(p) + 1 : l[i] \in Docs
    BY <1>1, <2>1, ElementOfSeq
  <2>3. /\ b \in Seq(Docs) /\ Len(b) = IF 1 <= Len(p) + 1 THEN (Len(p) + 1) - 1 + 1 ELSE 0
        /\ \A i \in 1..(Len(p) + 1) - 1 + 1 : b[i] = l[1 + i - 1]
    <3>1. 1 \in Int /\ Len(p) + 1 \in Int
      BY <1>2
    <3>2. QED
      BY <2>2, <3>1, SubSeqProperties
  <2> HIDE DEF b
  <2>4. \A i \in 1..Len(p) + 1 : b[i] = l[i]
    BY <1>2, <2>3
  <2>5. QED
    BY <1>2, <2>1, <2>3, <2>4
<1> HIDE DEF b
<1>4. /\ k \in Seq(Docs) /\ Len(k) = Len(p) + 2 /\ k # << >>
      /\ \A i \in 1..Len(p) + 2 : k[i] = IF i <= Len(p) THEN p[i]
                                         ELSE IF i = Len(p) + 1 THEN d ELSE e
  <2>1. /\ k \in Seq(Docs) /\ k # << >> /\ Len(k) = Len(b) + 1
        /\ \A i \in 1..Len(b) : k[i] = b[i]
        /\ k[Len(b) + 1] = e
    BY <1>3, AppendProperties
  <2> HIDE DEF k
  <2>2. QED
    BY <1>2, <1>3, <2>1
<1> HIDE DEF k
<1>5. /\ a \in Seq(Docs) /\ Len(a) = Len(p) + 1 /\ a # << >>
      /\ \A i \in 1..Len(p) + 1 : a[i] = IF i <= Len(p) THEN p[i] ELSE d
  <2>1. /\ a \in Seq(Docs) /\ a # << >> /\ Len(a) = Len(p) + 1
        /\ \A i \in 1..Len(p) : a[i] = p[i]
        /\ a[Len(p) + 1] = d
    BY AppendProperties
  <2> HIDE DEF a
  <2>2. QED
    BY <1>2, <2>1
<1>6. q = IF Len(a) > MaxHistory THEN Tail(a) ELSE a
  BY DEF Committed
<1> HIDE DEF a, q
<1>7. q \in Seq(Docs) /\ Len(q) \in Nat
  <2>1. Tail(a) \in Seq(Docs)
    BY <1>5, HeadTailProperties
  <2>2. q \in Seq(Docs)
    BY <1>5, <1>6, <2>1
  <2>3. QED
    BY <2>2
<1>9. /\ m \in Seq(Docs) /\ Len(m) = Len(q) + 1
      /\ \A i \in 1..Len(q) + 1 : m[i] = IF i <= Len(q) THEN q[i] ELSE e
  BY <1>7, NewestIs
<1> HIDE DEF m
<1>10. m # << >> /\ m[Len(m)] = e
  <2>1. Len(m) # 0 /\ Len(m) \in 1..Len(q) + 1 /\ ~(Len(m) <= Len(q))
    BY <1>7, <1>9
  <2>2. m # << >>
    BY <2>1, <1>9, EmptySeq
  <2>3. QED
    BY <2>1, <2>2, <1>9
<1>14. SUFFICES m = IF Len(k) > MaxHistory + 1 THEN Tail(k) ELSE k
  <2>1. k = Append(b, m[Len(m)])
    BY <1>10 DEF k
  <2>2. QED
    BY <2>1, <1>9, <1>10 DEF EditsList, m, l, b, q
<1>11. CASE ~(Len(a) > MaxHistory)
  <2>1. q = a /\ ~(Len(k) > MaxHistory + 1)
    BY <1>11, <1>2, <1>4, <1>5, <1>6
  <2>2. Len(m) = Len(k) /\ \A i \in 1..Len(m) : m[i] = k[i]
    <3>1. Len(m) = Len(k) /\ Len(m) = Len(p) + 2 /\ Len(q) = Len(p) + 1
      BY <2>1, <1>2, <1>4, <1>5, <1>9
    <3>2. ASSUME NEW i \in 1..Len(p) + 2
          PROVE  m[i] = k[i]
      <4>1. k[i] = IF i <= Len(p) THEN p[i] ELSE IF i = Len(p) + 1 THEN d ELSE e
        BY <1>4
      <4>2. m[i] = IF i <= Len(p) + 1 THEN a[i] ELSE e
        BY <2>1, <3>1, <1>2, <1>9
      <4>3. i <= Len(p) + 1 => a[i] = IF i <= Len(p) THEN p[i] ELSE d
        BY <1>2, <1>5
      <4>4. QED
        BY <4>1, <4>2, <4>3, <1>2
    <3>3. QED
      BY <3>1, <3>2
  <2>3. m = k
    BY <2>2, <1>4, <1>9, SeqEqual
  <2>4. QED
    BY <2>1, <2>3
<1>12. CASE Len(a) > MaxHistory
  <2> DEFINE t == Tail(k)
  <2>1. q = Tail(a) /\ Len(k) > MaxHistory + 1
    BY <1>12, <1>2, <1>4, <1>5, <1>6
  <2>2. Len(q) = Len(p) /\ \A i \in 1..Len(p) : q[i] = a[i + 1]
    BY <2>1, <1>2, <1>5, HeadTailProperties
  <2>3. t \in Seq(Docs) /\ Len(t) = Len(k) - 1 /\ \A i \in 1..Len(t) : t[i] = k[i + 1]
    BY <1>4, HeadTailProperties
  <2> HIDE DEF t
  <2>4. Len(m) = Len(t) /\ \A i \in 1..Len(m) : m[i] = t[i]
    <3>1. Len(m) = Len(p) + 1 /\ Len(t) = Len(p) + 1
      BY <2>2, <2>3, <1>2, <1>4, <1>9
    <3>2. ASSUME NEW i \in 1..Len(p) + 1
          PROVE  m[i] = t[i]
      <4>1. t[i] = IF i <= Len(p) - 1 THEN p[i + 1] ELSE IF i = Len(p) THEN d ELSE e
        <5>1. t[i] = k[i + 1]
          BY <2>3, <3>1
        <5>2. i + 1 \in 1..Len(p) + 2
          BY <1>2
        <5>3. k[i + 1] = IF i + 1 <= Len(p) THEN p[i + 1]
                         ELSE IF i + 1 = Len(p) + 1 THEN d ELSE e
          BY <5>2, <1>4
        <5>4. QED
          BY <5>1, <5>3, <1>2
      <4>2. m[i] = IF i <= Len(p) THEN a[i + 1] ELSE e
        <5>1. m[i] = IF i <= Len(q) THEN q[i] ELSE e
          BY <2>2, <1>9
        <5>2. i <= Len(p) => q[i] = a[i + 1]
          BY <2>2, <1>2
        <5>3. QED
          BY <5>1, <5>2, <2>2
      <4>3. i <= Len(p) => a[i + 1] = IF i + 1 <= Len(p) THEN p[i + 1] ELSE d
        BY <1>2, <1>5
      <4>4. QED
        BY <4>1, <4>2, <4>3, <1>2
    <3>3. QED
      BY <3>1, <3>2
  <2>5. m = t
    BY <2>3, <2>4, <1>9, SeqEqual
  <2>6. QED
    BY <2>1, <2>5 DEF t
<1>13. QED
  BY <1>11, <1>12

(* The version to the left is shown: the list stays as it is.              *)
LEMMA MoveOfLists ==
  ASSUME NEW p \in Seq(Docs), NEW d \in Docs, NEW f \in Seq(Docs), p # << >>
  PROVE  /\ Front(p) \in Seq(Docs) /\ Len(Front(p)) = Len(p) - 1 /\ Last(p) \in Docs
         /\ VersionList(Front(p), Last(p), Append(f, d)) = VersionList(p, d, f)
         /\ Append(Front(p), Last(p)) = p
<1>1. Len(p) \in Nat \ {0} /\ Len(f) \in Nat
  BY EmptySeq
<1>2. /\ Front(p) \in Seq(Docs) /\ Len(Front(p)) = Len(p) - 1
      /\ \A i \in 1..Len(p) - 1 : Front(p)[i] = p[i]
  <2>1. \A i \in 1..Len(p) - 1 : p[i] \in Docs
    BY <1>1, ElementOfSeq
  <2>2. 1 \in Int /\ Len(p) - 1 \in Int
    BY <1>1
  <2> DEFINE b == SubSeq(p, 1, Len(p) - 1)
  <2>3. /\ b \in Seq(Docs)
        /\ Len(b) = IF 1 <= Len(p) - 1 THEN (Len(p) - 1) - 1 + 1 ELSE 0
        /\ \A i \in 1..(Len(p) - 1) - 1 + 1 : b[i] = p[1 + i - 1]
    BY <2>1, <2>2, SubSeqProperties
  <2>4. Front(p) = b
    BY DEF Front
  <2> HIDE DEF b
  <2>5. \A i \in 1..Len(p) - 1 : b[i] = p[i]
    BY <1>1, <2>3
  <2>6. QED
    BY <1>1, <2>3, <2>4, <2>5
<1>3. Last(p) = p[Len(p)] /\ Last(p) \in Docs
  BY <1>1, ElementOfSeq DEF Last
<1> DEFINE q == Front(p)
           e == Last(p)
           g == Append(f, d)
           m == VersionList(q, e, g)
           l == VersionList(p, d, f)
<1>4. /\ g \in Seq(Docs) /\ Len(g) = Len(f) + 1
      /\ \A i \in 1..Len(f) : g[i] = f[i]
      /\ g[Len(f) + 1] = d
  BY AppendProperties
<1>5. q \in Seq(Docs) /\ e \in Docs /\ Len(q) = Len(p) - 1 /\ e = p[Len(p)]
      /\ \A i \in 1..Len(p) - 1 : q[i] = p[i]
  BY <1>2, <1>3
<1>6. /\ l \in Seq(Docs) /\ Len(l) = Len(p) + 1 + Len(f)
      /\ \A i \in 1..Len(l) : l[i] = IF i <= Len(p) THEN p[i]
                                     ELSE IF i = Len(p) + 1 THEN d
                                     ELSE f[Len(p) + 2 + Len(f) - i]
  BY VersionListIs
<1> HIDE DEF l, q, e, g
<1>7. /\ m \in Seq(Docs) /\ Len(m) = Len(q) + 1 + Len(g)
      /\ \A i \in 1..Len(m) : m[i] = IF i <= Len(q) THEN q[i]
                                     ELSE IF i = Len(q) + 1 THEN e
                                     ELSE g[Len(q) + 2 + Len(g) - i]
  <2>1. q \in Seq(Docs) /\ e \in Docs /\ g \in Seq(Docs)
    BY <1>4, <1>5
  <2>2. QED
    BY <2>1, VersionListIs
<1> HIDE DEF m
<1>8. Len(m) = Len(l)
  BY <1>1, <1>4, <1>5, <1>6, <1>7
<1>9. ASSUME NEW i \in 1..Len(m)
      PROVE  m[i] = l[i]
  <2>4. i \in 1..Len(l)
    BY <1>8
  <2>1. CASE i <= Len(p)
    <3>1. l[i] = p[i]
      BY <2>1, <2>4, <1>6
    <3>2. m[i] = IF i <= Len(q) THEN q[i] ELSE IF i = Len(q) + 1 THEN e
                 ELSE g[Len(q) + 2 + Len(g) - i]
      BY <1>7
    <3>3. i <= Len(p) - 1 => q[i] = p[i]
      BY <1>1, <1>5, <1>7
    <3>4. QED
      BY <3>1, <3>2, <3>3, <2>1, <1>1, <1>5, <1>7
  <2>2. CASE i > Len(p)
    <3>1. m[i] = g[Len(p) + 2 + Len(f) - i]
      <4>1. m[i] = IF i <= Len(q) THEN q[i] ELSE IF i = Len(q) + 1 THEN e
                   ELSE g[Len(q) + 2 + Len(g) - i]
        BY <1>7
      <4>2. ~(i <= Len(q)) /\ i # Len(q) + 1
        BY <2>2, <1>1, <1>5
      <4>3. Len(q) + 2 + Len(g) - i = Len(p) + 2 + Len(f) - i
        BY <1>1, <1>4, <1>5
      <4>4. QED
        BY <4>1, <4>2, <4>3
    <3>2. l[i] = IF i = Len(p) + 1 THEN d ELSE f[Len(p) + 2 + Len(f) - i]
      BY <2>2, <1>1, <1>6, <1>8
    <3>3. CASE i = Len(p) + 1
      <4>1. Len(p) + 2 + Len(f) - i = Len(f) + 1
        BY <3>3, <1>1
      <4>2. QED
        BY <3>1, <3>2, <3>3, <4>1, <1>4
    <3>4. CASE i # Len(p) + 1
      <4>1. Len(p) + 2 + Len(f) - i \in 1..Len(f)
        BY <2>2, <3>4, <1>1, <1>6, <1>8
      <4>2. QED
        BY <3>1, <3>2, <3>4, <4>1, <1>4
    <3>5. QED
      BY <3>3, <3>4
  <2>3. QED
    BY <2>1, <2>2, <1>1, <1>6, <1>8
<1>10. m = l
  BY <1>6, <1>7, <1>8, <1>9, SeqEqual
<1> DEFINE c == Append(q, e)
<1>11. /\ c \in Seq(Docs) /\ Len(c) = Len(q) + 1
       /\ \A i \in 1..Len(q) : c[i] = q[i]
       /\ c[Len(q) + 1] = e
  BY <1>5, AppendProperties
<1> HIDE DEF c
<1>12. Len(c) = Len(p) /\ \A i \in 1..Len(c) : c[i] = p[i]
  BY <1>1, <1>5, <1>11
<1>13. c = p
  BY <1>11, <1>12, SeqEqual
<1>14. QED
  BY <1>2, <1>3, <1>10, <1>13 DEF m, l, c, q, e, g

LEMMA EditRefines ==
  ASSUME Types, NEW d, d \in Docs, Commit(d)
  PROVE  History!Edit
<1>1. past \in Seq(Docs) /\ diagram \in Docs /\ future \in Seq(Docs)
  BY DEF Types
<1>2. past' = Committed(past, diagram) /\ diagram' = d /\ future' = << >>
  BY DEF Commit, Committed
<1> DEFINE l == VersionList(past, diagram, future)
           m == VersionList(past', d, << >>)
<1>3. EditsList(l, Len(past) + 1, m) /\ Len(m) = Len(past') + 1
  <2>1. LET n == VersionList(Committed(past, diagram), d, << >>)
        IN  EditsList(l, Len(past) + 1, n) /\ Len(n) = Len(Committed(past, diagram)) + 1
    BY <1>1, EditOfLists
  <2>2. QED
    BY <1>2, <2>1
<1>4. VersionList(past, diagram, future)' = m
  BY <1>2 DEF VersionList
<1>5. QED
  BY <1>3, <1>4 DEF History!Edit, History!Recent, VersionList, EditsList

LEMMA ReplaceRefines ==
  ASSUME NEW d, d \in Docs, Replace(d)
  PROVE  History!StartOver
<1>1. << >> \in Seq(Docs) /\ Len(<< >>) = 0
  BY EmptySeq
<1>2. Len(VersionList(<< >>, d, << >>)) = 1
  BY SingleIs
<1>3. past' = << >> /\ diagram' = d /\ future' = << >>
  BY DEF Replace
<1>4. Len(VersionList(past', diagram', future')) = 1 /\ Len(past') + 1 = 1
  BY <1>1, <1>2, <1>3
<1>5. QED
  BY <1>4 DEF History!StartOver, VersionList

LEMMA UndoRefines ==
  ASSUME Types, DoUndo
  PROVE  History!Undo
<1>1. past \in Seq(Docs) /\ diagram \in Docs /\ future \in Seq(Docs) /\ past # << >>
  BY DEF Types, DoUndo
<1>2. /\ past' = Front(past) /\ diagram' = Last(past) /\ future' = Append(future, diagram)
  BY DEF DoUndo
<1>3. /\ Len(past') = Len(past) - 1
      /\ VersionList(past', diagram', future') = VersionList(past, diagram, future)
  BY <1>1, <1>2, MoveOfLists
<1>4. Len(past) \in Nat \ {0}
  BY <1>1, EmptySeq
<1>5. Len(past) + 1 > 1 /\ Len(past') + 1 = (Len(past) + 1) - 1
  BY <1>3, <1>4
<1>6. QED
  BY <1>3, <1>5 DEF History!Undo, VersionList

(* Redo is undo backwards.                                                 *)
LEMMA RedoRefines ==
  ASSUME Types, Types', DoRedo
  PROVE  History!Redo
<1>1. past \in Seq(Docs) /\ diagram \in Docs /\ future \in Seq(Docs) /\ future # << >>
  BY DEF Types, DoRedo
<1>2. /\ past' = Append(past, diagram) /\ diagram' = Last(future) /\ future' = Front(future)
  BY DEF DoRedo
<1>3. past' \in Seq(Docs) /\ past' # << >> /\ diagram' \in Docs /\ future' \in Seq(Docs)
  BY <1>1, <1>2, AppendProperties DEF Types
<1>4. /\ Len(past') = Len(past) + 1
      /\ Len(past) \in Nat /\ Len(future) \in Nat \ {0}
  BY <1>1, <1>2, EmptySeq, AppendProperties
<1>5. Front(past') = past /\ Last(past') = diagram
  <2>1. \A i \in 1..Len(past) : past'[i] = past[i]
    BY <1>1, <1>2, AppendProperties
  <2>2. past'[Len(past) + 1] = diagram
    BY <1>1, <1>2, AppendProperties
  <2>3. Last(past') = diagram
    BY <2>2, <1>4 DEF Last
  <2>4. Front(past') \in Seq(Docs) /\ Len(Front(past')) = Len(past') - 1
    BY <1>1, <1>3, MoveOfLists
  <2>5. \A i \in 1..Len(past) : Front(past')[i] = past[i]
    BY <1>4, <2>1 DEF Front
  <2>6. QED
    BY <1>1, <1>4, <2>3, <2>4, <2>5, SeqEqual
<1>6. Append(future', diagram') = future
  BY <1>1, <1>2, MoveOfLists
<1>7. VersionList(past, diagram, future) = VersionList(past', diagram', future')
  BY <1>3, <1>5, <1>6, MoveOfLists
<1>8. Len(VersionList(past, diagram, future)) = Len(past) + 1 + Len(future)
  BY <1>1, VersionListIs
<1>9. /\ Len(past) + 1 < Len(VersionList(past, diagram, future))
      /\ Len(past') + 1 = (Len(past) + 1) + 1
  BY <1>4, <1>8
<1>10. QED
  BY <1>7, <1>9 DEF History!Redo, VersionList

LEMMA StepRefines ==
  ASSUME IInv, IInv', [Next]_vars
  PROVE  [History!Next]_<<VersionList(past, diagram, future), Len(past) + 1>>
<1>1. Types /\ Types' /\ diagram' \in Docs
  BY DEF IInv, Types
<1>2. CASE \E nodes, s : ReplaceDiagram(nodes, s)
  <2>1. PICK nodes, s : ReplaceDiagram(nodes, s)
    BY <1>2
  <2>2. \E d : Commit(d)
    BY <2>1 DEF ReplaceDiagram
  <2>3. PICK d : Commit(d)
    BY <2>2
  <2>4. diagram' = d
    BY <2>3 DEF Commit
  <2>5. QED
    BY <1>1, <2>3, <2>4, EditRefines DEF History!Next
<1>3. CASE DoUndo
  BY <1>1, <1>3, UndoRefines DEF History!Next
<1>4. CASE DoRedo
  BY <1>1, <1>4, RedoRefines DEF History!Next
<1>5. CASE \E d : Replace(d)
  <2>1. PICK d : Replace(d)
    BY <1>5
  <2>2. diagram' = d
    BY <2>1 DEF Replace
  <2>3. QED
    BY <1>1, <2>1, <2>2, ReplaceRefines DEF History!Next
<1>6. CASE UNCHANGED <<diagram, past, future>>
  BY <1>6 DEF VersionList
<1>7. CASE EditBlocks \/ DoDeleteSelection \/ DoPaste \/ DoCreateSubsystem
  BY <1>2, <1>7 DEF EditBlocks, DoDeleteSelection, DoPaste, DoCreateSubsystem
<1>8. CASE DoAddVariant \/ DoSetActiveVariant \/ DoRemoveVariant
  BY <1>2, <1>8 DEF DoAddVariant, DoSetActiveVariant, DoRemoveVariant
<1>9. CASE DrillInto
  BY <1>5, <1>9 DEF DrillInto
<1>10. CASE NavigateTo
  <2>1. (\E d : Replace(d)) \/ UNCHANGED <<diagram, past, future>>
    BY <1>10, Zenon DEF NavigateTo
  <2>2. QED
    BY <2>1, <1>5, <1>6
<1>11. CASE ApplyLoadedProject \/ ImportRootDiagram
  BY <1>5, <1>11 DEF ApplyLoadedProject, ImportRootDiagram, ShowProject
<1>12. CASE DoCopy \/ DoSave \/ SyncAfterSave \/ SaveFails \/ UNCHANGED vars
  BY <1>6, <1>12 DEF DoCopy, DoSave, SyncAfterSave, SaveFails, vars
<1>13. QED
  BY <1>3, <1>4, <1>7, <1>8, <1>9, <1>10, <1>11, <1>12 DEF Next

(* Undo and redo walk through the versions of the diagram in the view,     *)
(* and only the oldest versions are forgotten: the list of UndoList.       *)
THEOREM UndoRefined == Spec => ImplementsUndoList
<1>1. Init => History!Init
  <2> SUFFICES ASSUME Init PROVE History!Init
    OBVIOUS
  <2>1. << >> \in Seq(Docs) /\ Len(<< >>) = 0 /\ EmptyDoc \in Docs
    BY EmptySeq, ProjectsAre
  <2>2. Len(VersionList(<< >>, EmptyDoc, << >>)) = 1
    BY <2>1, SingleIs
  <2>3. QED
    BY <2>1, <2>2 DEF Init, History!Init, VersionList
<1>2. IInv /\ IInv' /\ [Next]_vars
        => [History!Next]_<<past \o <<diagram>> \o Reverse(future), Len(past) + 1>>
  BY StepRefines DEF VersionList
<1>3. QED
  BY <1>1, <1>2, Invariance, PTL DEF Spec, ImplementsUndoList, History!Spec

-----------------------------------------------------------------------------
(***************************************************************************)
(* The code index                                                          *)
(*                                                                         *)
(* The invariant has a part for each thing a thread may rely on between    *)
(* two statements: the shape of its job, the ids it holds, whom it met,    *)
(* what it knows of a file at which it met nobody, what is half written,   *)
(* what is still to be brought in, and how far an undisturbed build is.    *)
(***************************************************************************)
Entries == [id: FileIds, hash: Texts]
Drops == [file: Files, id: FileIds]
All == Tables \cup {"files"}

Stages == {"idle", "clear", "list", "walk", "next", "read",
           "look", "put", "id", "wipe", "fill", "find", "delete"}

Jobs == [op: {"none", "update", "flush"} \cup Builds, at: Stages, file: Files \cup {NoFile},
         read: Contents, id: FileIds \cup {0}, tables: SUBSET All, drop: SUBSET Drops,
         todo: SUBSET Files]

IndexTypes ==
    /\ disk \in [Files -> Contents]
    /\ entry \in [Files -> Entries \cup {NoEntry}]
    /\ rows \in [Tables -> [FileIds -> [Texts -> Nat]]]
    /\ job \in [Procs -> Jobs]
    /\ pending \in [Watchers -> SUBSET Files]
    /\ watcher \in Watchers \cup {NoWatcher}
    /\ met \subseteq Procs \X Files /\ torn \subseteq Files /\ late \subseteq Files
    /\ quiet \in BOOLEAN

(* What a job is like at each of its steps.                                *)
Shaped(j) ==
    /\ (j.at = "idle") <=> (j = Idle)
    /\ (j.file = NoFile) <=> j.at \in {"idle", "clear", "list", "walk", "next"}
    /\ j.at \in {"clear", "list", "walk"} => j.op \in Builds /\ j.todo = {}
    /\ j.drop # {} => j.op \in Builds /\ j.at \in {"walk", "next", "delete"}
    /\ \A d, e \in j.drop : d.file = e.file => d = e
    /\ j.at = "delete" => \A d \in j.drop : d.file # j.file
    /\ IF j.at \in {"look", "put", "id", "wipe", "fill"} THEN j.read \in Texts ELSE j.read = Gone
    /\ j.at = "find" => j.op \notin Builds
    /\ j.at \in {"read", "look", "put", "id", "wipe", "fill", "find"} => j.file \notin j.todo
    /\ j.at \in {"wipe", "fill"} => j.tables \subseteq Tables /\ j.tables # {}
    /\ j.at \in {"clear", "delete"} => "files" \in j.tables
    /\ (j.at \in {"wipe", "fill", "delete"}) <=> (j.id # 0)

JobsInv == /\ \A p \in Procs : Shaped(job[p])
           /\ \A w \in Watchers : job[w].op \notin Builds

(* An id is one file's.                                                    *)
Owns(f, id) == \A g \in Files : entry[g] # NoEntry /\ entry[g].id = id => g = f

OwnersInv ==
    /\ \A f \in Files : entry[f] # NoEntry => Owns(f, entry[f].id)
    /\ \A p \in Procs : /\ Owns(job[p].file, job[p].id)
                        /\ \A d \in job[p].drop : Owns(d.file, d.id)

(* Who meets whom.                                                         *)
OfOwnFile(j, f) == j.file = f /\ \/ j.at \in {"look", "put", "id", "wipe", "fill", "find"}
                                 \/ j.at = "delete" /\ j.op \notin Builds

MetInv ==
    /\ \A p \in Procs, f \in Files :
          <<p, f>> \in met => /\ Handles(job[p], f) \/ Listed(job[p], f)
                              /\ OfOwnFile(job[p], f) => f \in torn /\ f \in late
    /\ \A p, q \in Procs, f \in Files :
          p # q /\ Handles(job[q], f) =>
             /\ Handles(job[p], f) => <<p, f>> \in met /\ f \in torn /\ f \in late
             /\ Listed(job[p], f) => <<p, f>> \in met

(* What a thread that has met no other one knows of its files.             *)
Knows(j, f) ==
    j.file = f =>
       /\ j.at \in {"id", "wipe", "fill"} => entry[f] # NoEntry /\ entry[f].hash = j.read
       /\ j.at \in {"wipe", "fill", "delete"} => entry[f] # NoEntry /\ entry[f].id = j.id
       /\ j.at = "wipe" => \A t \in Tables \ j.tables : rows[t][j.id] = NoRows
       /\ j.at = "fill" => \A t \in Tables :
                              rows[t][j.id] = IF t \in j.tables THEN NoRows ELSE Only(j.read)

KnowsDrops(j, f) ==
    \A d \in j.drop : d.file = f => entry[f] # NoEntry /\ entry[f].id = d.id

SoloInv ==
    \A p \in Procs, f \in Files : <<p, f>> \notin met => Knows(job[p], f) /\ KnowsDrops(job[p], f)

(* A job has a file half written.                                          *)
Half(j, f) ==
    \/ j.at \in {"id", "wipe", "fill"} /\ j.file = f
    \/ j.at = "delete" /\ j.tables # All /\ j.file = f /\ entry[f].id = j.id
    \/ j.at = "clear" /\ j.tables # All

WholeInv ==
    /\ \A f \in Files \ torn :
          entry[f] # NoEntry /\ (\A p \in Procs : ~Half(job[p], f)) => Whole(f)
    /\ \A t \in Tables, i \in FileIds \ LiveIds : rows[t][i] = NoRows

(* A file somebody is still to look at.                                    *)
ToldBy(p, f) ==
    \/ job[p].at = "read" /\ job[p].file = f
    \/ p \in Watchers /\ f \in job[p].todo

Told(f) == (\E p \in Procs : ToldBy(p, f)) \/ \E w \in Watchers : f \in pending[w]

(* What a job leaves behind is right for the present disk.                 *)
Settles(j, f) ==
    /\ j.file = f /\ j.at \in {"look", "put", "id", "wipe", "fill"} => j.read = disk[f]
    /\ j.file = f /\ (j.at = "find" \/ (j.at = "delete" /\ j.op \notin Builds)) => disk[f] = Gone
    /\ (\/ j.file = f /\ j.at = "delete" /\ j.op \in Builds
        \/ \E d \in j.drop : d.file = f)
       => disk[f] = Gone /\ entry[f] = NoEntry
    /\ j.at = "clear" => Current(f)

LateInv ==
    \A f \in Files \ (Ignored \cup late) :
       \/ Told(f)
       \/ \E p \in Procs : Handles(job[p], f) /\ Settles(job[p], f)
       \/ (\A p \in Procs : ~Handles(job[p], f)) /\ Current(f)

(* A build that nothing disturbs.                                          *)
Found == {f \in Files \ Ignored : disk[f] # Gone}

(* What is not found is out of the index, or still to be taken out.        *)
Outside(j) ==
    /\ j.todo \subseteq Found
    /\ \A d \in j.drop : d.file \notin Found
    /\ j.at = "delete" => j.file \notin Found
    /\ \A f \in Files \ Found :
          \/ entry[f] = NoEntry
          \/ \E d \in j.drop : d.file = f
          \/ j.at = "delete" /\ j.file = f

(* What is found is in the index, or still to be brought in.               *)
Inside(j) ==
    \A f \in Found : \/ f \in j.todo \/ j.file = f
                     \/ Current(f) /\ (j.op = "rebuild" => f \notin torn)

(* The present file is one that is found, as it was found.                 *)
Present(j) ==
    /\ j.at \in {"read", "look", "put", "id", "wipe", "fill"} => j.file \in Found
    /\ j.at \in {"look", "put", "id", "wipe", "fill"} => j.read = disk[j.file]

(* A rebuild writes every entry anew.                                      *)
Anew(j) ==
    j.op = "rebuild" =>
        \A f \in Files : (\/ f \in j.todo
                          \/ j.at \in {"read", "look", "put"} /\ j.file = f)
                         => entry[f] = NoEntry

Progress(j) ==
    /\ j.at \in {"list", "walk"} /\ j.op = "rebuild" => \A f \in Files : entry[f] = NoEntry
    /\ j.at = "walk" => \A f \in Files : entry[f] # NoEntry => \E d \in j.drop : d.file = f
    /\ j.at \notin {"clear", "list", "walk"} =>
          Outside(j) /\ Inside(j) /\ Present(j) /\ Anew(j)

BuildInv ==
    quiet /\ job[Command].op \in Builds =>
        /\ \A w \in Watchers : job[w] = Idle
        /\ \A f \in Files : <<Command, f>> \notin met
        /\ Progress(job[Command])

IndexInv ==
    /\ IndexTypes /\ JobsInv /\ OwnersInv /\ MetInv /\ SoloInv /\ WholeInv /\ LateInv /\ BuildInv


(* A step of p: the jobs of the others stay.                               *)
Alone(p) == \A q \in Procs \ {p} : job'[q] = job[q]

(* It leaves the files alone that p does not handle.                       *)
Untouched(p) ==
    \A f \in Files : ~Handles(job[p], f) =>
        /\ entry'[f] = entry[f]
        /\ entry[f] # NoEntry =>
              \A t \in Tables : rows'[t][entry[f].id] = rows[t][entry[f].id]

(* It gives no file another id, but for a fresh one.                       *)
IdsKept(p) ==
    \A f \in Files : entry'[f] # NoEntry =>
        \/ entry[f] # NoEntry /\ entry'[f].id = entry[f].id
        \/ f = job[p].file /\ entry'[f].id \notin IdsInUse

(* What p has the ids from.                                                *)
IdsFrom(p) ==
    /\ \/ job'[p].id = 0
       \/ job'[p].file = job[p].file /\ job'[p].id = job[p].id
       \/ \E d \in job[p].drop : job'[p].file = d.file /\ job'[p].id = d.id
       \/ /\ job'[p].file \in Files /\ entry[job'[p].file] # NoEntry
          /\ job'[p].id = entry[job'[p].file].id
    /\ \A d \in job'[p].drop :
          \/ d \in job[p].drop
          \/ entry[d.file] # NoEntry /\ entry[d.file].id = d.id

(* The history of the meetings is kept.                                    *)
MetStep(p) ==
    /\ \A q \in Procs \ {p}, f \in Files :
          /\ <<q, f>> \in met => <<q, f>> \in met'
          /\ <<q, f>> \in met' /\ <<q, f>> \notin met =>
                Listed(job[q], f) \/ (Handles(job[q], f) /\ f \in torn' /\ f \in late')
          /\ Handles(job'[p], f) /\ Handles(job[q], f) =>
                <<p, f>> \in met' /\ <<q, f>> \in met' /\ f \in torn' /\ f \in late'
          /\ Handles(job'[p], f) /\ Listed(job[q], f) => <<q, f>> \in met'
          /\ Listed(job'[p], f) /\ Handles(job[q], f) => <<p, f>> \in met'
    /\ \A f \in Files :
          /\ (f \in torn /\ f \notin torn') \/ (f \in late /\ f \notin late') =>
                Handles(job[p], f) /\ <<p, f>> \notin met /\ ~Handles(job'[p], f)
          /\ <<p, f>> \in met' =>
                /\ Handles(job'[p], f) \/ Listed(job'[p], f)
                /\ OfOwnFile(job'[p], f) => f \in torn' /\ f \in late'
                /\ <<p, f>> \in met \/ \E q \in Procs \ {p} : Handles(job[q], f)

Solo(p) ==
    \A f \in Files : <<p, f>> \notin met => Knows(job[p], f) /\ KnowsDrops(job[p], f)

Orphans == \A t \in Tables, i \in FileIds \ LiveIds : rows[t][i] = NoRows

WholeFile(f) ==
    f \notin torn /\ entry[f] # NoEntry /\ (\A p \in Procs : ~Half(job[p], f)) => Whole(f)

LateFile(f) ==
    \/ f \in Ignored \/ f \in late
    \/ Told(f)
    \/ \E p \in Procs : Handles(job[p], f) /\ Settles(job[p], f)
    \/ (\A p \in Procs : ~Handles(job[p], f)) /\ Current(f)

-----------------------------------------------------------------------------

(* A file that a job has half written is one it handles.                   *)
LEMMA HalfIsHandled ==
    ASSUME NEW j \in Jobs, NEW f \in Files, Half(j, f)
    PROVE  Handles(j, f)
BY DEF Half, Handles

(* So is the file a job is at.                                             *)
LEMMA OwnIsHandled ==
    ASSUME NEW j \in Jobs, NEW f \in Files, OfOwnFile(j, f)
    PROVE  Handles(j, f)
BY DEF OfOwnFile, Handles

(* The job of each thread has the shape of its step.                       *)
LEMMA JobsKept ==
    ASSUME JobsInv, NEW p \in Procs, Alone(p), Shaped(job[p])',
           p \in Watchers => job'[p].op \notin Builds
    PROVE  JobsInv'
BY IndexThreads DEF JobsInv, Alone, Procs

(* No two files have the same id: an id a thread holds stays the file's,   *)
(* also after its entry has gone.                                          *)
LEMMA OwnersKept ==
    ASSUME IndexTypes, OwnersInv, NEW p \in Procs, Alone(p), IndexTypes',
           IdsKept(p), IdsFrom(p)
    PROVE  OwnersInv'
<1> USE DEF IndexTypes
<1>1. /\ \A f \in Files : entry[f] # NoEntry => entry[f].id \in IdsInUse
      /\ \A q \in Procs : /\ job[q].id \in IdsInUse
                          /\ \A d \in job[q].drop : d.id \in IdsInUse
  <2>1. \A f \in Files : entry[f] # NoEntry => entry[f].id \in LiveIds
    BY DEF LiveIds
  <2>2. \A q \in Procs : job[q].id \in {job[r].id : r \in Procs}
    OBVIOUS
  <2>3. \A q \in Procs : \A d \in job[q].drop :
           d.id \in UNION {{e.id : e \in job[r].drop} : r \in Procs}
    OBVIOUS
  <2> QED BY <2>1, <2>2, <2>3 DEF IdsInUse
<1>2. ASSUME NEW f, NEW id \in IdsInUse, Owns(f, id)
      PROVE  Owns(f, id)'
  BY <1>2 DEF Owns, IdsKept
<1>3. ASSUME NEW f \in Files, entry'[f] # NoEntry
      PROVE  Owns(f, entry[f].id)'
  <2>1. CASE entry[f] # NoEntry /\ entry'[f].id = entry[f].id
    <3>1. Owns(f, entry[f].id)
      BY <2>1 DEF OwnersInv
    <3>2. Owns(f, entry[f].id) => \A g \in Files : entry'[g] # NoEntry /\ entry'[g].id = entry[f].id => g = f
      BY <1>1, <2>1 DEF Owns, IdsKept
    <3> QED BY <3>1, <3>2, <2>1 DEF Owns
  <2>2. CASE f = job[p].file /\ entry'[f].id \notin IdsInUse
    <3>1. \A g \in Files : entry'[g] # NoEntry /\ entry'[g].id = entry'[f].id => g = f
      BY <2>2, <1>1 DEF IdsKept
    <3> QED BY <3>1 DEF Owns
  <2> QED BY <1>3, <2>1, <2>2 DEF IdsKept
<1>4. ASSUME NEW q \in Procs \ {p}
      PROVE  /\ Owns(job[q].file, job[q].id)'
             /\ \A d \in job'[q].drop : Owns(d.file, d.id)'
  <2>1. job'[q] = job[q]
    BY DEF Alone
  <2>2. Owns(job[q].file, job[q].id) /\ \A d \in job[q].drop : Owns(d.file, d.id)
    BY DEF OwnersInv
  <2>3. \A g \in Files : entry'[g] # NoEntry /\ entry'[g].id = job[q].id => g = job[q].file
    BY <2>2, <1>1 DEF Owns, IdsKept
  <2>4. \A d \in job[q].drop : \A g \in Files : entry'[g] # NoEntry /\ entry'[g].id = d.id => g = d.file
    BY <2>2, <1>1 DEF Owns, IdsKept
  <2> QED BY <2>1, <2>3, <2>4 DEF Owns
<1>5. Owns(job[p].file, job[p].id)'
  <2>1. CASE job'[p].id = 0
    <3>1. \A g \in Files : entry'[g] # NoEntry => entry'[g].id # 0
      BY DEF Entries, FileIds
    <3> QED BY <2>1, <3>1 DEF Owns
  <2>2. CASE job'[p].file = job[p].file /\ job'[p].id = job[p].id
    BY <2>2, <1>1 DEF Owns, IdsKept, OwnersInv
  <2>3. ASSUME NEW d \in job[p].drop, job'[p].file = d.file, job'[p].id = d.id
        PROVE  Owns(job[p].file, job[p].id)'
    BY <2>3, <1>1 DEF Owns, IdsKept, OwnersInv
  <2>4. CASE /\ job'[p].file \in Files /\ entry[job'[p].file] # NoEntry
             /\ job'[p].id = entry[job'[p].file].id
    <3>1. PICK f \in Files : f = job'[p].file
      BY <2>4
    <3>2. Owns(f, entry[f].id)
      BY <2>4, <3>1 DEF OwnersInv
    <3>3. \A g \in Files : entry'[g] # NoEntry /\ entry'[g].id = entry[f].id => g = f
      BY <3>2, <2>4, <3>1, <1>1 DEF Owns, IdsKept
    <3> QED BY <3>1, <3>3, <2>4 DEF Owns
  <2> QED BY <2>1, <2>2, <2>3, <2>4 DEF IdsFrom
<1>6. ASSUME NEW d \in job'[p].drop
      PROVE  Owns(d.file, d.id)'
  <2>1. CASE d \in job[p].drop
    BY <2>1, <1>1 DEF Owns, IdsKept, OwnersInv
  <2>2. CASE entry[d.file] # NoEntry /\ entry[d.file].id = d.id
    <3>1. job'[p] \in Jobs /\ d.file \in Files
      BY DEF Jobs, Drops
    <3>2. PICK f \in Files : f = d.file
      BY <3>1
    <3>3. Owns(f, entry[f].id)
      BY <2>2, <3>2 DEF OwnersInv
    <3>4. \A g \in Files : entry'[g] # NoEntry /\ entry'[g].id = entry[f].id => g = f
      BY <3>3, <2>2, <3>2, <1>1 DEF Owns, IdsKept
    <3> QED BY <3>2, <3>4, <2>2 DEF Owns
  <2> QED BY <2>1, <2>2 DEF IdsFrom
<1>7. \A q \in Procs : /\ Owns(job[q].file, job[q].id)'
                       /\ \A d \in job'[q].drop : Owns(d.file, d.id)'
  BY <1>4, <1>5, <1>6
<1> QED BY <1>3, <1>7 DEF OwnersInv

(* Whoever handles a file that another thread handles is in `met`.         *)
LEMMA MetKept ==
    ASSUME IndexTypes, MetInv, NEW p \in Procs, Alone(p), MetStep(p)
    PROVE  MetInv'
<1>1. \A q \in Procs : job[q] \in Jobs
  BY DEF IndexTypes
<1>2. ASSUME NEW f \in Files, NEW q \in Procs \ {p}, Handles(job[q], f),
             f \in torn, f \in late
      PROVE  f \in torn' /\ f \in late'
  BY <1>2 DEF MetInv, MetStep
<1>3. ASSUME NEW q \in Procs, NEW f \in Files, <<q, f>> \in met'
      PROVE  /\ Handles(job'[q], f) \/ Listed(job'[q], f)
             /\ OfOwnFile(job'[q], f) => f \in torn' /\ f \in late'
  <2>1. CASE q = p
    BY <1>3, <2>1 DEF MetStep
  <2>2. CASE q # p /\ <<q, f>> \in met
    <3>1. Handles(job[q], f) \/ Listed(job[q], f)
      BY <2>2 DEF MetInv
    <3>2. ASSUME OfOwnFile(job[q], f) PROVE f \in torn' /\ f \in late'
      <4>1. Handles(job[q], f)
        BY <3>2, <1>1, OwnIsHandled
      <4>2. f \in torn /\ f \in late
        BY <2>2, <3>2 DEF MetInv
      <4> QED BY <1>2, <4>1, <4>2, <2>2
    <3> QED BY <3>1, <3>2, <2>2 DEF Alone
  <2>3. CASE q # p /\ <<q, f>> \notin met
    <3>1. Listed(job[q], f) \/ (Handles(job[q], f) /\ f \in torn' /\ f \in late')
      BY <1>3, <2>3 DEF MetStep
    <3>2. Listed(job[q], f) => ~OfOwnFile(job[q], f)
      BY DEF Listed, OfOwnFile
    <3> QED BY <3>1, <3>2, <2>3 DEF Alone
  <2> QED BY <2>1, <2>2, <2>3
<1>4. ASSUME NEW r \in Procs, NEW q \in Procs, NEW f \in Files, r # q, Handles(job'[q], f)
      PROVE  /\ Handles(job'[r], f) => <<r, f>> \in met' /\ f \in torn' /\ f \in late'
             /\ Listed(job'[r], f) => <<r, f>> \in met'
  <2>1. CASE r = p
    <3>1. job'[q] = job[q]
      BY <2>1, <1>4 DEF Alone
    <3> QED BY <3>1, <1>4, <2>1 DEF MetStep
  <2>2. CASE q = p
    <3>1. job'[r] = job[r]
      BY <2>2, <1>4 DEF Alone
    <3> QED BY <3>1, <1>4, <2>2 DEF MetStep
  <2>3. CASE r # p /\ q # p
    <3>1. job'[r] = job[r] /\ job'[q] = job[q]
      BY <2>3 DEF Alone
    <3>2. Handles(job[r], f) => <<r, f>> \in met /\ f \in torn /\ f \in late
      BY <3>1, <1>4 DEF MetInv
    <3>3. Listed(job[r], f) => <<r, f>> \in met
      BY <3>1, <1>4 DEF MetInv
    <3>4. <<r, f>> \in met => <<r, f>> \in met'
      BY <2>3 DEF MetStep
    <3> QED BY <3>1, <3>2, <3>3, <3>4, <1>2, <2>3
  <2> QED BY <2>1, <2>2, <2>3
<1> QED BY <1>3, <1>4 DEF MetInv

(* What a thread knows of a file stays true while no other one meets it.   *)
LEMMA SoloKept ==
    ASSUME IndexTypes, JobsInv, MetInv, SoloInv, NEW p \in Procs, Alone(p),
           IndexTypes', JobsInv', MetStep(p), Untouched(p), Solo(p)'
    PROVE  SoloInv'
<1>1. ASSUME NEW q \in Procs \ {p}, NEW f \in Files, <<q, f>> \notin met'
      PROVE  (Knows(job[q], f) /\ KnowsDrops(job[q], f))'
  <2>1. job'[q] = job[q] /\ job[q] \in Jobs /\ Shaped(job[q])
    BY DEF Alone, IndexTypes, JobsInv
  <2>2. CASE ~Handles(job[q], f) /\ ~Listed(job[q], f)
    <3>1. job'[q] \in Jobs /\ Shaped(job[q])' /\ ~Handles(job'[q], f) /\ ~Listed(job'[q], f)
      BY <2>1, <2>2 DEF JobsInv
    <3>2. Knows(job[q], f)'
      BY <3>1 DEF Handles, Knows
    <3>3. KnowsDrops(job[q], f)'
      BY <3>1 DEF Handles, Listed, KnowsDrops
    <3> QED BY <3>2, <3>3
  <2>3. CASE Handles(job[q], f) \/ Listed(job[q], f)
    <3>1. <<q, f>> \notin met
      BY <1>1 DEF MetStep
    <3>2. ~Handles(job[p], f)
      BY <3>1, <2>3 DEF MetInv
    <3>3. /\ entry'[f] = entry[f]
          /\ entry[f] # NoEntry =>
                \A t \in Tables : rows'[t][entry[f].id] = rows[t][entry[f].id]
      BY <3>2 DEF Untouched
    <3>4. Knows(job[q], f) /\ KnowsDrops(job[q], f)
      BY <3>1 DEF SoloInv
    <3>5. Knows(job[q], f)'
      BY <3>3, <3>4, <2>1 DEF Knows
    <3>6. KnowsDrops(job[q], f)'
      BY <3>3, <3>4, <2>1 DEF KnowsDrops
    <3> QED BY <3>5, <3>6
  <2> QED BY <2>2, <2>3
<1> QED BY <1>1 DEF SoloInv, Solo

(* Entries nobody handles stay whole.                                      *)
LEMMA WholeKept ==
    ASSUME IndexTypes, WholeInv, NEW p \in Procs, Alone(p), MetStep(p), Untouched(p),
           Orphans', \A f \in Files : Handles(job[p], f) => WholeFile(f)'
    PROVE  WholeInv'
<1>1. ASSUME NEW f \in Files, ~Handles(job[p], f), f \notin torn', entry'[f] # NoEntry,
             \A q \in Procs : ~Half(job[q], f)'
      PROVE  Whole(f)'
  <2>1. /\ entry'[f] = entry[f]
        /\ \A t \in Tables : rows'[t][entry[f].id] = rows[t][entry[f].id]
    BY <1>1 DEF Untouched
  <2>2. f \notin torn
    BY <1>1 DEF MetStep
  <2>3. ASSUME NEW q \in Procs PROVE ~Half(job[q], f)
    <3>1. CASE q = p
      BY <3>1, <1>1, HalfIsHandled DEF IndexTypes
    <3>2. CASE q # p
      <4>1. job'[q] = job[q]
        BY <3>2 DEF Alone
      <4>2. ~Half(job[q], f)'
        BY <1>1
      <4> QED BY <4>1, <4>2, <2>1 DEF Half
    <3> QED BY <3>1, <3>2
  <2>4. Whole(f)
    BY <2>1, <2>2, <2>3, <1>1 DEF WholeInv
  <2> QED BY <2>1, <2>4 DEF Whole
<1>2. \A f \in Files : WholeFile(f)'
  BY <1>1 DEF WholeFile
<1>3. WholeInv' <=> (\A f \in Files : WholeFile(f)') /\ Orphans'
  BY DEF WholeInv, WholeFile, Orphans
<1> QED BY <1>2, <1>3

(* What p has to do with it that the index is right in f, or will be.      *)
LateBy(p, f) ==
    \/ ToldBy(p, f)
    \/ Handles(job[p], f) /\ Settles(job[p], f)
    \/ ~Handles(job[p], f) /\ Current(f)

LateStep(p) ==
    \A f \in Files \ Ignored : f \notin late' =>
        /\ f \in late => Current(f)' /\ ~Handles(job'[p], f)
        /\ ToldBy(p, f) => \/ ToldBy(p, f)'
                           \/ Handles(job'[p], f) /\ Settles(job[p], f)'
        /\ Handles(job[p], f) /\ Settles(job[p], f) /\ f \notin late => LateBy(p, f)'
        /\ ~Handles(job[p], f) /\ Current(f) => LateBy(p, f)'

(* A file that was reported is still to be looked at.                      *)
PendingKept ==
    \A f \in Files \ Ignored : f \notin late' /\ (\E w \in Watchers : f \in pending[w]) => Told(f)'

(* Each file that is not late is current, or somebody sees to it.          *)
LEMMA LateKept ==
    ASSUME IndexTypes, MetInv, LateInv, NEW p \in Procs, Alone(p), MetStep(p), Untouched(p),
           disk' = disk, PendingKept, LateStep(p)
    PROVE  LateInv'
<1> SUFFICES ASSUME NEW f \in Files \ Ignored, f \notin late'
             PROVE  LateFile(f)'
  BY DEF LateInv, LateFile
<1>1. ASSUME NEW q \in Procs \ {p}, Handles(job[p], f), f \notin late \/ <<p, f>> \notin met
      PROVE  ~Handles(job'[q], f)
  BY <1>1 DEF MetInv, Alone
<1>2. CASE f \in late
  <2>1. Handles(job[p], f) /\ <<p, f>> \notin met
    BY <1>2 DEF MetStep
  <2>2. Current(f)' /\ ~Handles(job'[p], f)
    BY <1>2 DEF LateStep
  <2>3. \A q \in Procs : ~Handles(job'[q], f)
    BY <2>1, <2>2, <1>1
  <2> QED BY <2>2, <2>3 DEF LateFile
<1>3. CASE f \notin late
  <2>1. CASE \E w \in Watchers : f \in pending[w]
    BY <2>1 DEF LateFile, PendingKept
  <2>2. CASE ToldBy(p, f)
    BY <2>2 DEF LateStep, LateFile, Told
  <2>3. ASSUME NEW q \in Procs \ {p}, ToldBy(q, f)
        PROVE  LateFile(f)'
    <3>1. ToldBy(q, f)'
      BY <2>3 DEF ToldBy, Alone
    <3> QED BY <3>1 DEF LateFile, Told
  <2>4. CASE Handles(job[p], f) /\ Settles(job[p], f)
    <3>1. LateBy(p, f)'
      BY <2>4, <1>3 DEF LateStep
    <3>2. \A q \in Procs \ {p} : ~Handles(job'[q], f)
      BY <1>1, <2>4, <1>3
    <3> QED BY <3>1, <3>2 DEF LateBy, LateFile, Told
  <2>5. ASSUME NEW q \in Procs \ {p}, Handles(job[q], f), Settles(job[q], f)
        PROVE  LateFile(f)'
    <3>1. ~Handles(job[p], f)
      BY <2>5, <1>3 DEF MetInv
    <3>2. entry'[f] = entry[f] /\ job'[q] = job[q]
      BY <3>1 DEF Untouched, Alone
    <3>3. Handles(job'[q], f) /\ Settles(job[q], f)'
      BY <3>2, <2>5 DEF Settles, Current
    <3> QED BY <3>3 DEF LateFile
  <2>6. CASE (\A q \in Procs : ~Handles(job[q], f)) /\ Current(f)
    <3>1. LateBy(p, f)'
      BY <2>6 DEF LateStep
    <3>2. \A q \in Procs \ {p} : ~Handles(job'[q], f)
      BY <2>6 DEF Alone
    <3> QED BY <3>1, <3>2 DEF LateBy, LateFile, Told
  <2> QED BY <2>1, <2>2, <2>3, <2>4, <2>5, <2>6, <1>3 DEF LateInv, Told
<1> QED BY <1>2, <1>3

(* A build that nothing disturbs is none of a watcher's step.              *)
LEMMA BuildOfOthers ==
    ASSUME BuildInv, NEW p \in Watchers, Alone(p), job[p] # Idle, quiet' \in {quiet, FALSE}
    PROVE  BuildInv'
<1>1. job'[Command] = job[Command]
  BY IndexThreads DEF Alone, Procs
<1>2. ~(quiet /\ job[Command].op \in Builds)
  BY DEF BuildInv
<1> QED BY <1>1, <1>2 DEF BuildInv

(* A step of one thread, in its parts.                                     *)
LEMMA StepKeeps ==
    ASSUME IndexInv, NEW p \in Procs, Alone(p), IndexTypes',
           Shaped(job[p])', p \in Watchers => job'[p].op \notin Builds,
           disk' = disk, PendingKept,
           IdsKept(p), IdsFrom(p), Untouched(p), Orphans', MetStep(p), Solo(p)',
           \A f \in Files : Handles(job[p], f) => WholeFile(f)',
           LateStep(p), BuildInv'
    PROVE  IndexInv'
<1> USE DEF IndexInv
<1>1. JobsInv'
  BY JobsKept
<1>2. OwnersInv'
  BY OwnersKept
<1>3. MetInv'
  BY MetKept
<1>4. SoloInv'
  BY SoloKept, <1>1
<1>5. WholeInv'
  BY WholeKept
<1>6. LateInv'
  BY LateKept
<1> QED BY <1>1, <1>2, <1>3, <1>4, <1>5, <1>6

-----------------------------------------------------------------------------

(* A step that writes nothing.                                             *)
LEMMA SameDatabase ==
    ASSUME IndexInv, NEW p \in Procs, UNCHANGED database
    PROVE  /\ IdsKept(p) /\ Untouched(p) /\ Orphans'
           /\ entry' = entry /\ rows' = rows
           /\ \A f \in Files : (Current(f)' <=> (IF disk'[f] = Gone THEN entry[f] = NoEntry
                                                 ELSE entry[f] # NoEntry /\ entry[f].hash = disk'[f]))
BY DEF database, IdsKept, Untouched, Orphans, IndexInv, WholeInv, LiveIds, Current

(* DELETE takes an entry and its rows, or rows.                            *)
LEMMA ErasedRows ==
    ASSUME IndexTypes, NEW table \in All, NEW ids \in SUBSET FileIds, Erase(table, ids)
    PROVE  /\ rows' \in [Tables -> [FileIds -> [Texts -> Nat]]]
           /\ entry' \in [Files -> Entries \cup {NoEntry}]
           /\ \A f \in Files : entry'[f] =
                 IF table = "files" /\ entry[f] # NoEntry /\ entry[f].id \in ids
                 THEN NoEntry ELSE entry[f]
           /\ \A t \in Tables, i \in FileIds : rows'[t][i] =
                 IF table \in {"files", t} /\ i \in ids THEN NoRows ELSE rows[t][i]
<1> USE DEF IndexTypes
<1>1. NoRows \in [Texts -> Nat]
  BY DEF NoRows
<1>2. \A t \in Tables : Without(t, ids) \in [FileIds -> [Texts -> Nat]]
  BY <1>1 DEF Without
<1>3. "files" \notin Tables
  BY IndexTables
<1>4. \A t \in Tables, i \in FileIds : Without(t, ids)[i] = IF i \in ids THEN NoRows ELSE rows[t][i]
  BY DEF Without
<1>5. CASE table = "files"
  <2>1. /\ entry' = [f \in Files |->
                IF entry[f] # NoEntry /\ entry[f].id \in ids THEN NoEntry ELSE entry[f]]
        /\ rows' = [t \in Tables |-> Without(t, ids)]
    BY <1>5 DEF Erase
  <2> HIDE DEF IndexTypes
  <2>2. rows' \in [Tables -> [FileIds -> [Texts -> Nat]]]
    BY <2>1, <1>2
  <2>3. entry' \in [Files -> Entries \cup {NoEntry}]
    BY <2>1 DEF IndexTypes
  <2>4. \A t \in Tables, i \in FileIds : rows'[t][i] = Without(t, ids)[i]
    BY <2>1
  <2> QED BY <2>1, <2>2, <2>3, <2>4, <1>4, <1>5
<1>6. CASE table # "files"
  <2>1. /\ rows' = [rows EXCEPT ![table] = Without(table, ids)] /\ entry' = entry
        /\ table \in Tables
    BY <1>6 DEF Erase, All
  <2> QED BY <2>1, <1>2, <1>3, <1>4, <1>6
<1> QED BY <1>5, <1>6

(* A deletion of what the thread handles leaves the rest alone.            *)
LEMMA ErasedDatabase ==
    ASSUME IndexInv, NEW p \in Procs, NEW table \in All, NEW ids \in SUBSET FileIds,
           Erase(table, ids),
           \A f \in Files : entry[f] # NoEntry /\ entry[f].id \in ids => Handles(job[p], f)
    PROVE  IdsKept(p) /\ Untouched(p) /\ Orphans'
<1> USE DEF IndexInv
<1>1. /\ \A f \in Files : entry'[f] =
            IF table = "files" /\ entry[f] # NoEntry /\ entry[f].id \in ids
            THEN NoEntry ELSE entry[f]
      /\ \A t \in Tables, i \in FileIds : rows'[t][i] =
            IF table \in {"files", t} /\ i \in ids THEN NoRows ELSE rows[t][i]
  BY ErasedRows
<1>2. IdsKept(p)
  BY <1>1 DEF IdsKept
<1>3. \A f \in Files : entry[f] # NoEntry => entry[f].id \in FileIds
  BY DEF IndexTypes, Entries
<1>4. Untouched(p)
  BY <1>1, <1>3 DEF Untouched
<1>5. ASSUME NEW t \in Tables, NEW i \in FileIds, i \notin LiveIds'
      PROVE  rows'[t][i] = NoRows
  <2>1. CASE i \in LiveIds
    <3>1. PICK f \in Files : entry[f] # NoEntry /\ entry[f].id = i
      BY <2>1 DEF LiveIds
    <3>2. entry'[f] = NoEntry
      BY <1>5, <3>1, <1>1 DEF LiveIds
    <3> QED BY <3>1, <3>2, <1>1
  <2>2. CASE i \notin LiveIds
    BY <2>2, <1>1 DEF WholeInv
  <2> QED BY <2>1, <2>2
<1> QED BY <1>2, <1>4, <1>5 DEF Orphans

HistoryTypes == met \subseteq Procs \X Files /\ torn \subseteq Files /\ late \subseteq Files

(* A thread goes on with the files it handles.                             *)
LEMMA GoesOn ==
    ASSUME IndexInv, NEW p \in Procs, Alone(p), UNCHANGED history,
           \A f \in Files : /\ Handles(job'[p], f) <=> Handles(job[p], f)
                            /\ ~Listed(job'[p], f) /\ ~Listed(job[p], f)
                            /\ OfOwnFile(job'[p], f) => OfOwnFile(job[p], f)
    PROVE  MetStep(p) /\ HistoryTypes'
<1> USE DEF IndexInv
<1>1. met' = met /\ torn' = torn /\ late' = late
  BY DEF history
<1>2. HistoryTypes'
  BY <1>1 DEF HistoryTypes, IndexTypes
<1>3. MetStep(p)
  BY <1>1 DEF MetStep, MetInv
<1> QED BY <1>2, <1>3

(* A thread begins to handle the files fs.                                 *)
LEMMA Begins ==
    ASSUME IndexInv, NEW p \in Procs, Alone(p), NEW fs \in SUBSET Files, Begin(p, fs),
           \A f \in Files : /\ Handles(job'[p], f) <=> f \in fs
                            /\ Handles(job[p], f) => f \in fs
                            /\ ~Listed(job'[p], f)
                            /\ OfOwnFile(job'[p], f) => ~Handles(job[p], f) /\ ~Listed(job[p], f)
    PROVE  /\ MetStep(p) /\ HistoryTypes'
           /\ late \subseteq late' /\ torn \subseteq torn'
           /\ \A f \in fs : <<p, f>> \in met => <<p, f>> \in met'
           /\ \A f \in Files : (\A q \in Procs \ {p} : ~Handles(job[q], f)) =>
                 (f \in torn' <=> f \in torn) /\ (f \in late' <=> f \in late)
<1> USE DEF IndexInv
<1>1. met \subseteq Procs \X Files /\ torn \subseteq Files /\ late \subseteq Files
  BY DEF IndexTypes
<1> DEFINE shared == {f \in fs : \E q \in Procs \ {p} : Handles(job[q], f)}
<1>2. shared = {f \in fs : Others(p, f) # {}}
  BY DEF Others
<1>3. /\ met' = {m \in met : m[1] = p => m[2] \in fs} \cup ({p} \X shared) \cup
                {m \in (Procs \ {p}) \X fs :
                   Handles(job[m[1]], m[2]) \/ Listed(job[m[1]], m[2])}
      /\ torn' = torn \cup shared
      /\ late' = late \cup shared
  BY <1>2 DEF Begin
<1>4. \A q \in Procs \ {p}, f \in Files : <<q, f>> \in met' <=>
         <<q, f>> \in met \/ (f \in fs /\ (Handles(job[q], f) \/ Listed(job[q], f)))
  BY <1>3
<1>5. \A f \in Files : <<p, f>> \in met' <=> (<<p, f>> \in met /\ f \in fs) \/ f \in shared
  BY <1>3
<1>6. \A f \in Files : /\ f \in torn' <=> f \in torn \/ f \in shared
                       /\ f \in late' <=> f \in late \/ f \in shared
  BY <1>3
<1>7. \A f \in Files : f \in shared <=> f \in fs /\ \E q \in Procs \ {p} : Handles(job[q], f)
  OBVIOUS
<1>8. HistoryTypes'
  BY <1>1, <1>3 DEF HistoryTypes
<1> HIDE DEF shared
<1>9. MetStep(p)
  <2>1. ASSUME NEW q \in Procs \ {p}, NEW f \in Files
        PROVE  /\ <<q, f>> \in met => <<q, f>> \in met'
               /\ <<q, f>> \in met' /\ <<q, f>> \notin met =>
                     Listed(job[q], f) \/ (Handles(job[q], f) /\ f \in torn' /\ f \in late')
               /\ Handles(job'[p], f) /\ Handles(job[q], f) =>
                     <<p, f>> \in met' /\ <<q, f>> \in met' /\ f \in torn' /\ f \in late'
               /\ Handles(job'[p], f) /\ Listed(job[q], f) => <<q, f>> \in met'
               /\ Listed(job'[p], f) /\ Handles(job[q], f) => <<p, f>> \in met'
    BY <1>4, <1>5, <1>6, <1>7
  <2>2. ASSUME NEW f \in Files
        PROVE  /\ (f \in torn /\ f \notin torn') \/ (f \in late /\ f \notin late') =>
                     Handles(job[p], f) /\ <<p, f>> \notin met /\ ~Handles(job'[p], f)
               /\ <<p, f>> \in met' =>
                     /\ Handles(job'[p], f) \/ Listed(job'[p], f)
                     /\ OfOwnFile(job'[p], f) => f \in torn' /\ f \in late'
                     /\ <<p, f>> \in met \/ \E q \in Procs \ {p} : Handles(job[q], f)
    BY <1>5, <1>6, <1>7 DEF MetInv
  <2> QED BY <2>1, <2>2 DEF MetStep
<1> QED BY <1>5, <1>6, <1>7, <1>8, <1>9, <1>1

(* A thread has done with its file.                                        *)
LEMMA Completes ==
    ASSUME IndexInv, NEW p \in Procs, Alone(p), NEW wrote \in BOOLEAN, Complete(p, wrote),
           job[p].file \in Files, Handles(job[p], job[p].file),
           \A f \in Files : /\ Handles(job'[p], f) <=> Handles(job[p], f) /\ f # job[p].file
                            /\ ~Listed(job'[p], f) /\ ~Listed(job[p], f)
                            /\ ~OfOwnFile(job'[p], f)
    PROVE  /\ MetStep(p) /\ HistoryTypes'
           /\ \A f \in Files : f # job[p].file =>
                 /\ (f \in torn' <=> f \in torn) /\ (f \in late' <=> f \in late)
                 /\ <<p, f>> \in met' <=> <<p, f>> \in met
           /\ LET f == job[p].file
                  sole == <<p, f>> \notin met
              IN  /\ f \in torn' <=> f \in torn /\ ~(sole /\ wrote)
                  /\ f \in late' <=> f \in late /\ ~(sole /\ job[p].read = disk[f])
<1> USE DEF IndexInv
<1>1. met \subseteq Procs \X Files /\ torn \subseteq Files /\ late \subseteq Files
  BY DEF IndexTypes
<1>2. PICK g \in Files : g = job[p].file
  OBVIOUS
<1>3. /\ met' = met \ {<<p, g>>}
      /\ torn' = IF <<p, g>> \notin met /\ wrote THEN torn \ {g} ELSE torn
      /\ late' = IF <<p, g>> \notin met /\ job[p].read = disk[g] THEN late \ {g} ELSE late
  BY <1>2 DEF Complete
<1>4. HistoryTypes'
  BY <1>1, <1>3 DEF HistoryTypes
<1>5. \A q \in Procs, f \in Files : <<q, f>> \in met' <=> <<q, f>> \in met /\ ~(q = p /\ f = g)
  BY <1>3
<1>6. MetStep(p)
  <2>1. ASSUME NEW q \in Procs \ {p}, NEW f \in Files
        PROVE  /\ <<q, f>> \in met => <<q, f>> \in met'
               /\ <<q, f>> \in met' /\ <<q, f>> \notin met =>
                     Listed(job[q], f) \/ (Handles(job[q], f) /\ f \in torn' /\ f \in late')
               /\ Handles(job'[p], f) /\ Handles(job[q], f) =>
                     <<p, f>> \in met' /\ <<q, f>> \in met' /\ f \in torn' /\ f \in late'
               /\ Handles(job'[p], f) /\ Listed(job[q], f) => <<q, f>> \in met'
               /\ Listed(job'[p], f) /\ Handles(job[q], f) => <<p, f>> \in met'
    <3>1. /\ <<q, f>> \in met <=> <<q, f>> \in met'
          /\ f # g => (<<p, f>> \in met' <=> <<p, f>> \in met)
          /\ f # g => (f \in torn' <=> f \in torn) /\ (f \in late' <=> f \in late)
      BY <1>5, <1>3
    <3>2. Handles(job'[p], f) => Handles(job[p], f) /\ f # g
      BY <1>2
    <3> QED BY <3>1, <3>2 DEF MetInv
  <2>2. ASSUME NEW f \in Files
        PROVE  /\ (f \in torn /\ f \notin torn') \/ (f \in late /\ f \notin late') =>
                     Handles(job[p], f) /\ <<p, f>> \notin met /\ ~Handles(job'[p], f)
               /\ <<p, f>> \in met' =>
                     /\ Handles(job'[p], f) \/ Listed(job'[p], f)
                     /\ OfOwnFile(job'[p], f) => f \in torn' /\ f \in late'
                     /\ <<p, f>> \in met \/ \E q \in Procs \ {p} : Handles(job[q], f)
    <3>1. (f \in torn /\ f \notin torn') \/ (f \in late /\ f \notin late') =>
             f = g /\ <<p, g>> \notin met
      BY <1>3
    <3>2. <<p, f>> \in met' => <<p, f>> \in met /\ f # g
      BY <1>5
    <3> QED BY <3>1, <3>2, <1>2 DEF MetInv
  <2> QED BY <2>1, <2>2 DEF MetStep
<1>7. \A f \in Files : f # g =>
         /\ (f \in torn' <=> f \in torn) /\ (f \in late' <=> f \in late)
         /\ <<p, f>> \in met' <=> <<p, f>> \in met
  BY <1>3, <1>5
<1>8. /\ g \in torn' <=> g \in torn /\ ~(<<p, g>> \notin met /\ wrote)
      /\ g \in late' <=> g \in late /\ ~(<<p, g>> \notin met /\ job[p].read = disk[g])
  BY <1>3
<1> QED BY <1>2, <1>4, <1>6, <1>7, <1>8

(* A thread gives up.                                                      *)
LEMMA Aborts ==
    ASSUME IndexInv, NEW p \in Procs, Alone(p), Abort({p}),
           \A f \in Files : ~Handles(job'[p], f) /\ ~Listed(job'[p], f)
    PROVE  /\ MetStep(p) /\ HistoryTypes'
           /\ torn \subseteq torn' /\ late \subseteq late'
           /\ \A f \in Files : /\ f \in HalfWritten(job[p]) => f \in torn'
                               /\ f = job[p].file => f \in late'
<1> USE DEF IndexInv
<1>1. /\ met \subseteq Procs \X Files /\ torn \subseteq Files /\ late \subseteq Files
      /\ job[p] \in Jobs
  BY DEF IndexTypes
<1>2. /\ met' = {m \in met : m[1] # p}
      /\ torn' = torn \cup HalfWritten(job[p])
      /\ late' = late \cup ({job[p].file} \ {NoFile})
  BY DEF Abort
<1>3. HistoryTypes'
  BY <1>1, <1>2 DEF HistoryTypes, HalfWritten, Jobs
<1>4. \A q \in Procs, f \in Files : <<q, f>> \in met' <=> <<q, f>> \in met /\ q # p
  BY <1>2
<1>5. torn \subseteq torn' /\ late \subseteq late'
  BY <1>2
<1>6. MetStep(p)
  BY <1>4, <1>5 DEF MetStep
<1>7. \A f \in Files : /\ f \in HalfWritten(job[p]) => f \in torn'
                       /\ f = job[p].file => f \in late'
  BY <1>2, IndexFiles
<1> QED BY <1>3, <1>5, <1>6, <1>7

-----------------------------------------------------------------------------

(* What the invariant says of one thread.                                  *)
LEMMA JobFacts ==
    ASSUME IndexInv, NEW p \in Procs
    PROVE  job[p] \in Jobs /\ Shaped(job[p]) /\ (p \in Watchers => job[p].op \notin Builds)
BY DEF IndexInv, IndexTypes, JobsInv

(* A step of p gives p its next job and the others none.                   *)
LEMMA Goes ==
    ASSUME IndexInv, NEW p \in Procs, NEW k \in Jobs, Goto(p, k)
    PROVE  job'[p] = k /\ Alone(p) /\ job' \in [Procs -> Jobs]
BY DEF IndexInv, IndexTypes, Goto, Alone

(* A step of a thread at work.                                             *)
LEMMA WorkKeeps ==
    ASSUME IndexInv, NEW p \in Procs, NEW k \in Jobs, Goto(p, k), Shaped(k),
           k.op \in {job[p].op, "none"}, job[p] # Idle,
           UNCHANGED <<disk, watcher, pending>>, quiet' \in {quiet, FALSE},
           entry' \in [Files -> Entries \cup {NoEntry}],
           rows' \in [Tables -> [FileIds -> [Texts -> Nat]]], HistoryTypes',
           IdsKept(p), IdsFrom(p), Untouched(p), Orphans', MetStep(p), Solo(p)',
           \A f \in Files : Handles(job[p], f) => WholeFile(f)',
           LateStep(p),
           p = Command /\ quiet /\ job[p].op \in Builds /\ k.op \in Builds
              /\ (\A f \in Files : <<p, f>> \notin met) /\ Progress(job[p])
              /\ (\A q \in Procs \ {p}, f \in Files : ~Handles(job[q], f))
              => Progress(job[p])'
    PROVE  IndexInv'
<1> USE DEF IndexInv
<1>1. job'[p] = k /\ Alone(p) /\ job' \in [Procs -> Jobs]
  BY Goes
<1>2. IndexTypes'
  BY <1>1 DEF IndexTypes, HistoryTypes
<1>3. p \in Watchers => job'[p].op \notin Builds
  BY <1>1, JobFacts DEF Builds
<1>4. BuildInv'
  <2>1. CASE p \in Watchers
    BY <2>1, <1>1, BuildOfOthers
  <2>2. CASE p = Command /\ ~(quiet /\ job[p].op \in Builds /\ k.op \in Builds)
    <3>1. quiet' => quiet
      OBVIOUS
    <3>2. job'[p].op \in Builds => job[p].op = job'[p].op
      BY <1>1 DEF Builds
    <3> QED BY <3>1, <3>2, <2>2, <1>1 DEF BuildInv
  <2>3. CASE p = Command /\ quiet /\ job[p].op \in Builds /\ k.op \in Builds
    <3>1. /\ \A w \in Watchers : job[w] = Idle
          /\ \A f \in Files : <<p, f>> \notin met
          /\ Progress(job[p])
      BY <2>3 DEF BuildInv
    <3>2. \A f \in Files : ~Handles(Idle, f)
      BY DEF Handles, Idle
    <3>3. \A q \in Procs \ {p} : q \in Watchers /\ job[q] = Idle
      BY <3>1, <2>3 DEF Procs
    <3>4. \A q \in Procs \ {p}, f \in Files : ~Handles(job[q], f)
      BY <3>2, <3>3
    <3>5. \A f \in Files : <<p, f>> \notin met'
      BY <3>1, <3>4 DEF MetStep
    <3>6. \A w \in Watchers : job'[w] = Idle
      BY <3>1, <2>3, IndexThreads, <1>1 DEF Alone, Procs
    <3>7. Progress(job[p])'
      BY <3>1, <3>4, <2>3
    <3> QED BY <3>5, <3>6, <3>7, <2>3 DEF BuildInv
  <2> QED BY <2>1, <2>2, <2>3 DEF Procs
<1>5. PendingKept
  BY DEF PendingKept, Told
<1> QED BY StepKeeps, <1>1, <1>2, <1>3, <1>4, <1>5

(* get_file_by_path finds the file not to be in the index as it is.        *)
LEMMA LookUpKeeps ==
    ASSUME IndexInv, NEW p \in Procs, LookUp(p)
    PROVE  IndexInv'
<1>1. job[p] \in Jobs /\ Shaped(job[p]) /\ job[p].at = "look"
  BY JobFacts DEF LookUp
<1>2. PICK k : k = [job[p] EXCEPT !.at = "put"]
  OBVIOUS
<1>3. /\ k \in Jobs /\ k.at = "put" /\ k.op = job[p].op /\ k.file = job[p].file /\ k.read = job[p].read
      /\ k.id = job[p].id /\ k.drop = job[p].drop /\ k.todo = job[p].todo
  BY <1>1, <1>2 DEF Jobs, Stages
<1>4. /\ Goto(p, k) /\ UNCHANGED database /\ UNCHANGED history
      /\ UNCHANGED <<disk, watcher, pending, quiet>>
  BY <1>2 DEF LookUp, Silent, watching
<1>5. Shaped(k)
  BY <1>1, <1>3 DEF Shaped, Idle
<1>6. job'[p] = k /\ Alone(p)
  BY <1>3, <1>4, Goes
<1>7. /\ IdsKept(p) /\ Untouched(p) /\ Orphans' /\ entry' = entry /\ rows' = rows
  BY <1>4, SameDatabase
<1>8. IdsFrom(p)
  BY <1>3, <1>6 DEF IdsFrom
<1>9. \A f \in Files : /\ Handles(k, f) <=> Handles(job[p], f)
                       /\ ~Listed(k, f) /\ ~Listed(job[p], f)
                       /\ OfOwnFile(k, f) => OfOwnFile(job[p], f)
  BY <1>1, <1>3 DEF Handles, Listed, OfOwnFile
<1>10. MetStep(p) /\ HistoryTypes'
  BY <1>4, <1>6, <1>9, GoesOn
<1>11. met' = met /\ torn' = torn /\ late' = late
  BY <1>4 DEF history
<1>12. Solo(p)'
  BY <1>1, <1>3, <1>6, <1>7, <1>11 DEF IndexInv, SoloInv, Solo, Knows, KnowsDrops
<1>13. \A f \in Files : Handles(job[p], f) => WholeFile(f)'
  BY <1>1, <1>3, <1>6, <1>7, <1>11 DEF IndexInv, WholeInv, WholeFile, Whole, Half, Alone
<1>14. LateStep(p)
  BY <1>1, <1>3, <1>4, <1>6, <1>7, <1>11 DEF LateStep, LateBy, ToldBy, Handles, Settles, Current
<1>15. Progress(job[p]) => Progress(job[p])'
  BY <1>1, <1>3, <1>4, <1>6, <1>7, <1>11 DEF Progress, Outside, Inside, Present, Anew, Found, Current
<1>16. job[p] # Idle /\ entry' \in [Files -> Entries \cup {NoEntry}]
       /\ rows' \in [Tables -> [FileIds -> [Texts -> Nat]]]
  BY <1>1, <1>7 DEF Idle, IndexInv, IndexTypes
<1> QED BY WorkKeeps, <1>3, <1>4, <1>5, <1>7, <1>8, <1>10, <1>12, <1>13, <1>14, <1>15, <1>16

(* A thread gives up what it is at: it has the files of its present step   *)
(* half written, and nothing else.                                         *)
LEMMA GiveUpKeeps ==
    ASSUME IndexInv, NEW p \in Procs, GiveUp(p), UNCHANGED database,
           job[p].at \notin {"idle", "next", "walk"},
           UNCHANGED <<disk, watcher, pending>>, quiet' \in {quiet, FALSE}
    PROVE  IndexInv'
<1>1. job[p] \in Jobs /\ Shaped(job[p]) /\ (p \in Watchers => job[p].op \notin Builds)
  BY JobFacts
<1>2. PICK k : k = IF job[p].op \in Builds THEN Idle ELSE NextFile(job[p])
  OBVIOUS
<1>3. /\ k \in Jobs /\ k.file = NoFile /\ k.read = Gone /\ k.id = 0 /\ k.tables = {} /\ k.drop = {}
      /\ k.op = IF job[p].op \in Builds THEN "none" ELSE job[p].op
      /\ k.at = IF job[p].op \in Builds THEN "idle" ELSE "next"
      /\ k.todo = IF job[p].op \in Builds THEN {} ELSE job[p].todo
  <2>1. job[p].op \notin Builds => job[p].drop = {}
    BY <1>1 DEF Shaped
  <2>2. CASE job[p].op \in Builds
    BY <2>2, <1>2 DEF Idle, Jobs, Stages, Contents
  <2>3. CASE job[p].op \notin Builds
    BY <2>1, <2>3, <1>1, <1>2 DEF NextFile, Jobs, Stages, Contents
  <2> QED BY <2>2, <2>3
<1>4. Goto(p, k) /\ Abort({p})
  BY <1>2, <1>1 DEF GiveUp, Goto
<1>5. Shaped(k)
  BY <1>3, <1>2 DEF Shaped, Idle, Builds
<1>6. job'[p] = k /\ Alone(p)
  BY <1>3, <1>4, Goes
<1>7. /\ IdsKept(p) /\ Untouched(p) /\ Orphans' /\ entry' = entry /\ rows' = rows
  BY SameDatabase
<1>8. IdsFrom(p)
  BY <1>3, <1>6 DEF IdsFrom
<1>9. \A f \in Files : ~Handles(k, f) /\ ~Listed(k, f)
  BY <1>3 DEF Handles, Listed
<1>10. /\ MetStep(p) /\ HistoryTypes' /\ torn \subseteq torn' /\ late \subseteq late'
       /\ \A f \in Files : /\ f \in HalfWritten(job[p]) => f \in torn'
                           /\ f = job[p].file => f \in late'
  BY <1>4, <1>6, <1>9, Aborts
<1>11. Solo(p)'
  BY <1>3, <1>6, IndexFiles DEF Solo, Knows, KnowsDrops
<1>12. ASSUME NEW f \in Files, f \notin torn', entry[f] # NoEntry,
              \A q \in Procs : ~Half(job[q], f)'
       PROVE  Whole(f)'
  <2>1. ~Half(job[p], f)
    <3>1. f \notin HalfWritten(job[p])
      BY <1>10, <1>12
    <3> QED BY <3>1, <1>12 DEF Half, HalfWritten, All
  <2>2. \A q \in Procs \ {p} : ~Half(job[q], f)
    BY <1>12, <1>6, <1>7 DEF Half, Alone
  <2>3. f \notin torn
    BY <1>10, <1>12
  <2>4. Whole(f)
    BY <2>1, <2>2, <2>3, <1>12 DEF IndexInv, WholeInv
  <2> QED BY <2>4, <1>7 DEF Whole
<1>13. LateStep(p)
  <2> SUFFICES ASSUME NEW f \in Files \ Ignored, f \notin late'
               PROVE  /\ f \notin late
                      /\ ToldBy(p, f) => ToldBy(p, f)'
                      /\ Handles(job[p], f) /\ Settles(job[p], f) => LateBy(p, f)'
                      /\ ~Handles(job[p], f) /\ Current(f) => LateBy(p, f)'
    BY DEF LateStep
  <2>1. f \notin late /\ f # job[p].file
    BY <1>10
  <2>2. ToldBy(p, f) => ToldBy(p, f)'
    BY <2>1, <1>1, <1>3, <1>6 DEF ToldBy
  <2>3. Current(f)' <=> Current(f)
    BY <1>7 DEF Current
  <2>4. Handles(job[p], f) /\ Settles(job[p], f) => Current(f)
    BY <2>1 DEF Handles, Settles, Current
  <2>5. Current(f)' => LateBy(p, f)'
    BY <1>6, <1>9 DEF LateBy
  <2> QED BY <2>1, <2>2, <2>3, <2>4, <2>5
<1>14. job[p] # Idle /\ entry' \in [Files -> Entries \cup {NoEntry}]
       /\ rows' \in [Tables -> [FileIds -> [Texts -> Nat]]]
       /\ ~(job[p].op \in Builds /\ k.op \in Builds) /\ k.op \in {job[p].op, "none"}
  BY <1>1, <1>3, <1>7 DEF Idle, IndexInv, IndexTypes, Builds
<1> QED BY WorkKeeps, <1>3, <1>4, <1>5, <1>7, <1>8, <1>10, <1>11, <1>12, <1>13, <1>14 DEF WholeFile

(* The file has gone since it was found, or is not text.                   *)
LEMMA CannotReadKeeps ==
    ASSUME IndexInv, NEW p \in Procs, CannotRead(p)
    PROVE  IndexInv'
BY GiveUpKeeps DEF CannotRead, watching, database

(* The entry has gone since its id was read.                               *)
LEMMA InsertRefusedKeeps ==
    ASSUME IndexInv, NEW p \in Procs, InsertRefused(p)
    PROVE  IndexInv'
BY GiveUpKeeps DEF InsertRefused, watching, database

(* A statement fails.                                                      *)
LEMMA FailKeeps ==
    ASSUME IndexInv, NEW p \in Procs, Fail(p)
    PROVE  IndexInv'
BY GiveUpKeeps DEF Fail, watching, database

(* The database goes with each of these steps unchanged.                   *)
LEMMA WholeWithoutWriting ==
    ASSUME IndexInv, NEW p \in Procs, Alone(p), UNCHANGED database,
           \A f \in Files : f \in torn /\ f \notin torn' => entry[f] = NoEntry \/ Whole(f),
           \A f \in Files : Half(job[p], f) /\ f \notin torn' => Half(job'[p], f) \/ Whole(f)
    PROVE  \A f \in Files : Handles(job[p], f) => WholeFile(f)'
<1> SUFFICES ASSUME NEW f \in Files, f \notin torn', entry[f] # NoEntry,
                    \A q \in Procs : ~Half(job[q], f)'
             PROVE  Whole(f)
  BY DEF WholeFile, Whole, database
<1>1. \A q \in Procs : Half(job[q], f)' <=> Half(job'[q], f)
  BY DEF Half, database
<1>2. \A q \in Procs \ {p} : ~Half(job[q], f)
  BY <1>1 DEF Alone
<1>3. CASE Half(job[p], f)
  BY <1>3, <1>1
<1>4. CASE ~Half(job[p], f) /\ f \notin torn
  BY <1>2, <1>4 DEF IndexInv, WholeInv
<1>5. CASE f \in torn
  BY <1>5
<1> QED BY <1>3, <1>4, <1>5

(* A build takes up an entry whose file was not found.                     *)
LEMMA PickLostKeeps ==
    ASSUME IndexInv, NEW p \in Procs, PickLost(p)
    PROVE  IndexInv'
<1>1. job[p] \in Jobs /\ Shaped(job[p]) /\ job[p].at = "next"
  BY JobFacts DEF PickLost
<1>2. PICK d \in job[p].drop :
         Goto(p, [job[p] EXCEPT !.at = "delete", !.file = d.file, !.id = d.id,
                   !.tables = Tables \cup {"files"}, !.drop = @ \ {d}])
  BY DEF PickLost
<1>3. PICK k : k = [job[p] EXCEPT !.at = "delete", !.file = d.file, !.id = d.id,
                   !.tables = Tables \cup {"files"}, !.drop = @ \ {d}]
  OBVIOUS
<1>4. d.file \in Files /\ d.id \in FileIds /\ job[p].op \in Builds
  BY <1>1 DEF Jobs, Drops, Shaped
<1>5. /\ k \in Jobs /\ k.at = "delete" /\ k.op = job[p].op /\ k.file = d.file /\ k.read = job[p].read
      /\ k.id = d.id /\ k.drop = job[p].drop \ {d} /\ k.todo = job[p].todo /\ k.tables = All
  BY <1>1, <1>3, <1>4 DEF Jobs, Stages, All
<1>6. /\ Goto(p, k) /\ UNCHANGED database /\ UNCHANGED history
      /\ UNCHANGED <<disk, watcher, pending, quiet>>
  BY <1>2, <1>3 DEF PickLost, Silent, watching
<1>7. \A e \in job[p].drop : e.file = d.file => e = d
  BY <1>1 DEF Shaped
<1>8. job[p].read = Gone /\ job[p].file = NoFile
  BY <1>1 DEF Shaped
<1>9. Shaped(k)
  <2>1. k.id # 0 /\ k.drop \subseteq job[p].drop /\ k # Idle
    BY <1>5, <1>4 DEF FileIds, Idle
  <2>2. "files" \in k.tables
    BY <1>5 DEF All
  <2> QED BY <1>1, <1>5, <1>4, <1>7, <1>8, <2>1, <2>2, IndexFiles DEF Shaped
<1>10. job'[p] = k /\ Alone(p)
  BY <1>5, <1>6, Goes
<1>11. /\ IdsKept(p) /\ Untouched(p) /\ Orphans' /\ entry' = entry /\ rows' = rows
  BY <1>6, SameDatabase
<1>12. IdsFrom(p)
  BY <1>5, <1>10 DEF IdsFrom
<1>13. \A f \in Files : /\ Handles(k, f) <=> Handles(job[p], f)
                        /\ ~Listed(k, f) /\ ~Listed(job[p], f)
                        /\ OfOwnFile(k, f) => OfOwnFile(job[p], f)
  BY <1>1, <1>5, <1>4, <1>7, <1>8, IndexFiles DEF Handles, Listed, OfOwnFile
<1>14. MetStep(p) /\ HistoryTypes'
  BY <1>6, <1>10, <1>13, GoesOn
<1>15. met' = met /\ torn' = torn /\ late' = late
  BY <1>6 DEF history
<1>16. Solo(p)'
  BY <1>1, <1>5, <1>10, <1>11, <1>15 DEF IndexInv, SoloInv, Solo, Knows, KnowsDrops
<1>17. \A f \in Files : Handles(job[p], f) => WholeFile(f)'
  BY <1>1, <1>6, <1>10, <1>15, WholeWithoutWriting DEF Half
<1>18. LateStep(p)
  BY <1>1, <1>5, <1>6, <1>10, <1>11, <1>13, <1>15, <1>4, <1>8 DEF LateStep, LateBy, ToldBy, Settles, Current
<1>19. Progress(job[p]) => Progress(job[p])'
  BY <1>1, <1>5, <1>6, <1>10, <1>11, <1>15, <1>4, <1>8, IndexFiles DEF Progress, Outside, Inside, Present, Anew, Found, Current
<1>20. job[p] # Idle /\ entry' \in [Files -> Entries \cup {NoEntry}]
       /\ rows' \in [Tables -> [FileIds -> [Texts -> Nat]]]
  BY <1>1, <1>11 DEF Idle, IndexInv, IndexTypes
<1> QED BY WorkKeeps, <1>5, <1>6, <1>9, <1>11, <1>12, <1>14, <1>16, <1>17, <1>18, <1>19, <1>20

(* A job has nothing left to do.                                           *)
LEMMA FinishKeeps ==
    ASSUME IndexInv, NEW p \in Procs, Finish(p)
    PROVE  IndexInv'
<1>1. job[p] \in Jobs /\ Shaped(job[p]) /\ job[p].at = "next" /\ job[p].drop = {} /\ job[p].todo = {}
  BY JobFacts DEF Finish
<1>2. PICK k : k = Idle
  OBVIOUS
<1>3. /\ k \in Jobs /\ k.at = "idle" /\ k.op = "none" /\ k.file = NoFile /\ k.read = Gone
      /\ k.id = 0 /\ k.drop = {} /\ k.todo = {} /\ k.tables = {}
  BY <1>2 DEF Idle, Jobs, Stages, Contents
<1>4. /\ Goto(p, k) /\ UNCHANGED database /\ UNCHANGED history
      /\ UNCHANGED <<disk, watcher, pending, quiet>>
  BY <1>2 DEF Finish, watching
<1>5. Shaped(k)
  BY <1>2, <1>3 DEF Shaped
<1>6. job'[p] = k /\ Alone(p)
  BY <1>3, <1>4, Goes
<1>7. /\ IdsKept(p) /\ Untouched(p) /\ Orphans' /\ entry' = entry /\ rows' = rows
  BY <1>4, SameDatabase
<1>8. IdsFrom(p)
  BY <1>3, <1>6 DEF IdsFrom
<1>9. job[p].file = NoFile
  BY <1>1 DEF Shaped
<1>10. \A f \in Files : /\ Handles(k, f) <=> Handles(job[p], f)
                        /\ ~Listed(k, f) /\ ~Listed(job[p], f)
                        /\ OfOwnFile(k, f) => OfOwnFile(job[p], f)
  BY <1>1, <1>3, <1>9, IndexFiles DEF Handles, Listed, OfOwnFile
<1>11. MetStep(p) /\ HistoryTypes'
  BY <1>4, <1>6, <1>10, GoesOn
<1>12. met' = met /\ torn' = torn /\ late' = late
  BY <1>4 DEF history
<1>13. Solo(p)'
  BY <1>3, <1>6, IndexFiles DEF Solo, Knows, KnowsDrops
<1>14. \A f \in Files : Handles(job[p], f) => WholeFile(f)'
  BY <1>1, <1>4, <1>6, <1>12, WholeWithoutWriting DEF Half
<1>15. LateStep(p)
  BY <1>1, <1>3, <1>4, <1>6, <1>7, <1>10, <1>12, <1>9 DEF LateStep, LateBy, ToldBy, Handles, Current
<1>16. job[p] # Idle /\ entry' \in [Files -> Entries \cup {NoEntry}]
       /\ rows' \in [Tables -> [FileIds -> [Texts -> Nat]]] /\ k.op \notin Builds
  BY <1>1, <1>3, <1>7 DEF Idle, IndexInv, IndexTypes, Builds
<1> QED BY WorkKeeps, <1>3, <1>4, <1>5, <1>7, <1>8, <1>11, <1>13, <1>14, <1>15, <1>16

(* The id of the entry just written is read.                               *)
LEMMA SelectIdKeeps ==
    ASSUME IndexInv, NEW p \in Procs, SelectId(p)
    PROVE  IndexInv'
<1>1. CASE entry[job[p].file] = NoEntry
  BY <1>1, GiveUpKeeps DEF SelectId, watching, database
<1>2. CASE entry[job[p].file] # NoEntry
  <2>1. job[p] \in Jobs /\ Shaped(job[p]) /\ job[p].at = "id"
    BY JobFacts DEF SelectId
  <2>2. PICK e : e = entry[job[p].file]
    OBVIOUS
  <2>3. job[p].file \in Files /\ e \in Entries /\ job[p].drop = {}
    BY <1>2, <2>2, <2>1 DEF IndexInv, IndexTypes, Jobs, Shaped
  <2>4. PICK k : k = [job[p] EXCEPT !.at = "wipe", !.id = e.id, !.tables = Tables]
    OBVIOUS
  <2>5. /\ k \in Jobs /\ k.at = "wipe" /\ k.op = job[p].op /\ k.file = job[p].file /\ k.read = job[p].read
        /\ k.id = e.id /\ k.drop = job[p].drop /\ k.todo = job[p].todo /\ k.tables = Tables
    BY <2>1, <2>4, <2>3 DEF Jobs, Stages, Entries, All
  <2>6. /\ Goto(p, k) /\ UNCHANGED database /\ UNCHANGED history
        /\ UNCHANGED <<disk, watcher, pending, quiet>>
    BY <1>2, <2>4, <2>2 DEF SelectId, Silent, watching
  <2>7. Shaped(k)
    <3>1. k.id # 0
      BY <2>5, <2>3 DEF Entries, FileIds
    <3> QED BY <2>1, <2>5, <3>1, IndexTables DEF Shaped, Idle
  <2>8. job'[p] = k /\ Alone(p)
    BY <2>5, <2>6, Goes
  <2>9. /\ IdsKept(p) /\ Untouched(p) /\ Orphans' /\ entry' = entry /\ rows' = rows
    BY <2>6, SameDatabase
  <2>10. IdsFrom(p)
    BY <1>2, <2>2, <2>3, <2>5, <2>8 DEF IdsFrom
  <2>11. \A f \in Files : /\ Handles(k, f) <=> Handles(job[p], f)
                          /\ ~Listed(k, f) /\ ~Listed(job[p], f)
                          /\ OfOwnFile(k, f) => OfOwnFile(job[p], f)
    BY <2>1, <2>5 DEF Handles, Listed, OfOwnFile
  <2>12. MetStep(p) /\ HistoryTypes'
    BY <2>6, <2>8, <2>11, GoesOn
  <2>13. met' = met /\ torn' = torn /\ late' = late
    BY <2>6 DEF history
  <2>14. Solo(p)'
    BY <1>2, <2>2, <2>1, <2>5, <2>8, <2>9, <2>13 DEF IndexInv, SoloInv, Solo, Knows, KnowsDrops
  <2>15. \A f \in Files : Handles(job[p], f) => WholeFile(f)'
    BY <2>1, <2>5, <2>6, <2>8, <2>13, WholeWithoutWriting DEF Half
  <2>16. LateStep(p)
    BY <2>1, <2>5, <2>6, <2>8, <2>9, <2>11, <2>13 DEF LateStep, LateBy, ToldBy, Settles, Current
  <2>17. Progress(job[p]) => Progress(job[p])'
    BY <2>1, <2>5, <2>6, <2>8, <2>9, <2>13 DEF Progress, Outside, Inside, Present, Anew, Found, Current
  <2>18. job[p] # Idle /\ entry' \in [Files -> Entries \cup {NoEntry}]
         /\ rows' \in [Tables -> [FileIds -> [Texts -> Nat]]]
    BY <2>1, <2>9 DEF Idle, IndexInv, IndexTypes
  <2> QED BY WorkKeeps, <2>5, <2>6, <2>7, <2>9, <2>10, <2>12, <2>14, <2>15, <2>16, <2>17, <2>18
<1> QED BY <1>1, <1>2

(* list_indexed_paths.                                                     *)
LEMMA ListIndexedKeeps ==
    ASSUME IndexInv, NEW p \in Procs, ListIndexed(p)
    PROVE  IndexInv'
<1>1. job[p] \in Jobs /\ Shaped(job[p]) /\ job[p].at = "list"
  BY JobFacts DEF ListIndexed
<1>2. PICK D : D = {[file |-> f, id |-> entry[f].id] : f \in {g \in Files : entry[g] # NoEntry}}
  OBVIOUS
<1>3. /\ \A d \in D : d.file \in Files /\ entry[d.file] # NoEntry /\ d.id = entry[d.file].id
      /\ \A f \in Files : entry[f] # NoEntry => \E d \in D : d.file = f
      /\ \A d, e \in D : d.file = e.file => d = e
  <2>1. \A d \in D : \E f \in Files : entry[f] # NoEntry /\ d = [file |-> f, id |-> entry[f].id]
    BY <1>2
  <2>2. \A d \in D : /\ d.file \in Files /\ entry[d.file] # NoEntry /\ d.id = entry[d.file].id
                     /\ d = [file |-> d.file, id |-> entry[d.file].id]
    BY <2>1
  <2>3. ASSUME NEW f \in Files, entry[f] # NoEntry PROVE \E d \in D : d.file = f
    <3>1. [file |-> f, id |-> entry[f].id] \in D
      BY <1>2, <2>3
    <3> QED BY <3>1
  <2>4. ASSUME NEW d \in D, NEW e \in D, d.file = e.file PROVE d = e
    BY <2>2, <2>4
  <2> QED BY <2>2, <2>3, <2>4
<1>4. D \subseteq Drops
  BY <1>2 DEF Drops, IndexInv, IndexTypes, Entries
<1>5. PICK k : k = [job[p] EXCEPT !.at = "walk", !.drop = D]
  OBVIOUS
<1>6. /\ k \in Jobs /\ k.at = "walk" /\ k.op = job[p].op /\ k.file = job[p].file /\ k.read = job[p].read
      /\ k.id = job[p].id /\ k.drop = D /\ k.todo = job[p].todo
  BY <1>1, <1>5, <1>4 DEF Jobs, Stages
<1>7. /\ Goto(p, k) /\ UNCHANGED database /\ torn' = torn /\ late' = late
      /\ UNCHANGED <<disk, watcher, pending, quiet>>
      /\ met' = met \cup ({p} \X {f \in Files : entry[f] # NoEntry /\ Others(p, f) # {}})
  BY <1>5, <1>2 DEF ListIndexed, Silent, watching
<1>8. job[p].file = NoFile /\ job[p].op \in Builds /\ job[p].todo = {} /\ p \notin Watchers /\ job[p].drop = {}
  BY <1>1, JobFacts DEF Shaped
<1>9. Shaped(k)
  BY <1>1, <1>6, <1>3, <1>8 DEF Shaped, Idle
<1>10. job'[p] = k /\ Alone(p)
  BY <1>6, <1>7, Goes
<1>11. /\ IdsKept(p) /\ Untouched(p) /\ Orphans' /\ entry' = entry /\ rows' = rows
  BY <1>7, SameDatabase
<1>12. IdsFrom(p)
  BY <1>6, <1>10, <1>3 DEF IdsFrom
<1>13. \A f \in Files : /\ ~Handles(k, f) /\ ~Handles(job[p], f) /\ ~Listed(job[p], f)
                        /\ Listed(k, f) <=> entry[f] # NoEntry
                        /\ ~OfOwnFile(k, f)
  BY <1>1, <1>6, <1>3, <1>8, IndexFiles DEF Handles, Listed, OfOwnFile
<1>14. MetStep(p)
  <2>1. \A q \in Procs, f \in Files : <<q, f>> \in met' <=>
           <<q, f>> \in met \/ (q = p /\ entry[f] # NoEntry /\ Others(p, f) # {})
    BY <1>7
  <2>2. \A f \in Files : Others(p, f) # {} <=> \E q \in Procs \ {p} : Handles(job[q], f)
    BY DEF Others
  <2>3. \A f \in Files : <<p, f>> \notin met
    BY <1>13 DEF IndexInv, MetInv
  <2> QED BY <2>1, <2>2, <2>3, <1>7, <1>10, <1>13 DEF MetStep
<1>15. HistoryTypes'
  BY <1>7 DEF IndexInv, IndexTypes, HistoryTypes
<1>16. Solo(p)'
  <2>1. \A f \in Files : Knows(k, f)'
    BY <1>6, <1>8, IndexFiles DEF Knows
  <2>2. \A f \in Files : KnowsDrops(k, f)'
    BY <1>6, <1>11, <1>3 DEF KnowsDrops
  <2> QED BY <2>1, <2>2, <1>10 DEF Solo, Knows, KnowsDrops
<1>17. \A f \in Files : Handles(job[p], f) => WholeFile(f)'
  BY <1>13
<1>18. LateStep(p)
  BY <1>1, <1>6, <1>7, <1>10, <1>11, <1>13, <1>8 DEF LateStep, LateBy, ToldBy, Current
<1>19. Progress(job[p]) => Progress(job[p])'
  BY <1>1, <1>6, <1>7, <1>10, <1>11, <1>3 DEF Progress
<1>20. job[p] # Idle /\ entry' \in [Files -> Entries \cup {NoEntry}]
       /\ rows' \in [Tables -> [FileIds -> [Texts -> Nat]]]
  BY <1>1, <1>11 DEF Idle, IndexInv, IndexTypes
<1> QED BY WorkKeeps, <1>6, <1>7, <1>9, <1>11, <1>12, <1>14, <1>15, <1>16, <1>17, <1>18, <1>19, <1>20

(* walk_source_files.                                                      *)
LEMMA WalkKeeps ==
    ASSUME IndexInv, NEW p \in Procs, Walk(p)
    PROVE  IndexInv'
<1>1. job[p] \in Jobs /\ Shaped(job[p]) /\ job[p].at = "walk"
  BY JobFacts DEF Walk
<1>2. PICK lost : lost = {d \in job[p].drop : d.file \notin Found}
  OBVIOUS
<1>3. PICK fs : fs = {d.file : d \in lost}
  OBVIOUS
<1>4. /\ lost \subseteq job[p].drop /\ lost \subseteq Drops /\ Found \subseteq Files /\ fs \subseteq Files
      /\ \A d \in lost : d.file \notin Found /\ d.file \in fs
      /\ \A d \in job[p].drop : d.file \notin Found => d \in lost
      /\ \A f \in fs : f \notin Found /\ \E d \in lost : d.file = f
  BY <1>1, <1>2, <1>3 DEF Jobs, Drops, Found
<1>5. PICK k : k = [job[p] EXCEPT !.at = "next", !.drop = lost, !.todo = Found]
  OBVIOUS
<1>6. /\ k \in Jobs /\ k.at = "next" /\ k.op = job[p].op /\ k.file = job[p].file /\ k.read = job[p].read
      /\ k.id = job[p].id /\ k.drop = lost /\ k.todo = Found
  BY <1>1, <1>5, <1>4 DEF Jobs, Stages
<1>7. /\ Goto(p, k) /\ UNCHANGED database /\ Begin(p, fs)
      /\ UNCHANGED <<disk, watcher, pending, quiet>>
  <2>1. /\ Goto(p, [job[p] EXCEPT !.at = "next", !.drop = lost, !.todo = Found])
        /\ Begin(p, {d.file : d \in lost})
        /\ UNCHANGED database /\ Silent
    BY <1>2 DEF Walk, Found
  <2> QED BY <2>1, <1>5, <1>3 DEF Silent, watching
<1>8. job[p].file = NoFile /\ job[p].op \in Builds /\ job[p].todo = {} /\ p \notin Watchers
  BY <1>1, JobFacts DEF Shaped
<1>9. Shaped(k)
  BY <1>1, <1>6, <1>4, <1>8 DEF Shaped, Idle
<1>10. job'[p] = k /\ Alone(p)
  BY <1>6, <1>7, Goes
<1>11. /\ IdsKept(p) /\ Untouched(p) /\ Orphans' /\ entry' = entry /\ rows' = rows
  BY <1>7, SameDatabase
<1>12. IdsFrom(p)
  BY <1>6, <1>10, <1>4 DEF IdsFrom
<1>13. \A f \in Files : /\ Handles(k, f) <=> f \in fs
                        /\ ~Handles(job[p], f)
                        /\ ~Listed(k, f)
                        /\ ~OfOwnFile(k, f)
  BY <1>1, <1>6, <1>4, <1>8, IndexFiles DEF Handles, Listed, OfOwnFile
<1>14. /\ MetStep(p) /\ HistoryTypes' /\ late \subseteq late' /\ torn \subseteq torn'
       /\ \A f \in fs : <<p, f>> \in met => <<p, f>> \in met'
  BY <1>7, <1>10, <1>13, <1>4, Begins
<1>15. Solo(p)'
  <2>1. \A f \in Files : Knows(k, f)'
    BY <1>6, <1>8, IndexFiles DEF Knows
  <2>2. ASSUME NEW f \in Files, <<p, f>> \notin met' PROVE KnowsDrops(k, f)'
    <3>1. CASE f \notin fs
      BY <3>1, <1>6, <1>4 DEF KnowsDrops
    <3>2. CASE f \in fs
      <4>1. KnowsDrops(job[p], f)
        BY <3>2, <2>2, <1>14 DEF IndexInv, SoloInv
      <4> QED BY <4>1, <1>6, <1>11, <1>4 DEF KnowsDrops
    <3> QED BY <3>1, <3>2
  <2> QED BY <2>1, <2>2, <1>10 DEF Solo, Knows, KnowsDrops
<1>16. \A f \in Files : Handles(job[p], f) => WholeFile(f)'
  BY <1>13
<1>17. LateStep(p)
  <2>1. \A f \in Files : ~ToldBy(p, f)
    BY <1>1, <1>8 DEF ToldBy
  <2>2. ASSUME NEW f \in Files \ Ignored, Current(f) PROVE LateBy(p, f)'
    <3>1. CASE f \notin fs
      BY <3>1, <2>2, <1>7, <1>10, <1>11, <1>13 DEF LateBy, Current
    <3>2. CASE f \in fs
      <4>1. disk[f] = Gone /\ entry[f] = NoEntry
        BY <3>2, <2>2, <1>4 DEF Found, Current
      <4>2. Settles(job[p], f)'
        BY <4>1, <1>6, <1>7, <1>10, <1>11, <1>8, IndexFiles DEF Settles
      <4> QED BY <4>2, <3>2, <1>10, <1>13 DEF LateBy
    <3> QED BY <3>1, <3>2
  <2> QED BY <2>1, <2>2, <1>13, <1>14 DEF LateStep
<1>18. Progress(job[p]) => Progress(job[p])'
  BY <1>1, <1>6, <1>7, <1>10, <1>11, <1>4 DEF Progress, Outside, Inside, Present, Anew, Found
<1>19. job[p] # Idle /\ entry' \in [Files -> Entries \cup {NoEntry}]
       /\ rows' \in [Tables -> [FileIds -> [Texts -> Nat]]]
  BY <1>1, <1>11 DEF Idle, IndexInv, IndexTypes
<1> QED BY WorkKeeps, <1>6, <1>7, <1>9, <1>11, <1>12, <1>14, <1>15, <1>16, <1>17, <1>18, <1>19

(* A file is read.                                                         *)
LEMMA ReadFileKeeps ==
    ASSUME IndexInv, NEW p \in Procs, ReadFile(p)
    PROVE  IndexInv'
<1>1. job[p] \in Jobs /\ Shaped(job[p]) /\ job[p].at = "read"
  BY JobFacts DEF ReadFile
<1>2. job[p].file \in Files /\ job[p].drop = {} /\ job[p].id = 0
  BY <1>1 DEF Shaped, Jobs
<1>3. PICK g \in Files : g = job[p].file
  BY <1>2
<1>4. PICK k : k = [job[p] EXCEPT !.at = "look", !.read = disk[g]]
  OBVIOUS
<1>5. disk[g] \in Texts
  BY <1>3 DEF ReadFile
<1>6. /\ k \in Jobs /\ k.at = "look" /\ k.op = job[p].op /\ k.file = g /\ k.read = disk[g]
      /\ k.id = job[p].id /\ k.drop = {} /\ k.todo = job[p].todo
  BY <1>1, <1>4, <1>3, <1>5, <1>2 DEF Jobs, Stages, Contents
<1>7. /\ Goto(p, k) /\ UNCHANGED database /\ Begin(p, {g})
      /\ UNCHANGED <<disk, watcher, pending, quiet>>
  BY <1>4, <1>3 DEF ReadFile, Silent, watching
<1>8. Shaped(k)
  BY <1>1, <1>6, <1>3, <1>5, <1>2, IndexFiles DEF Shaped, Idle
<1>9. job'[p] = k /\ Alone(p)
  BY <1>6, <1>7, Goes
<1>10. /\ IdsKept(p) /\ Untouched(p) /\ Orphans' /\ entry' = entry /\ rows' = rows
  BY <1>7, SameDatabase
<1>11. IdsFrom(p)
  BY <1>6, <1>9, <1>2 DEF IdsFrom
<1>12. \A f \in Files : /\ Handles(k, f) <=> f \in {g}
                        /\ ~Handles(job[p], f)
                        /\ ~Listed(k, f) /\ ~Listed(job[p], f)
  BY <1>1, <1>6, <1>2 DEF Handles, Listed
<1>13. /\ MetStep(p) /\ HistoryTypes' /\ late \subseteq late' /\ torn \subseteq torn'
       /\ \A f \in Files : (\A q \in Procs \ {p} : ~Handles(job[q], f)) => (f \in torn' <=> f \in torn)
  BY <1>7, <1>9, <1>12, Begins
<1>14. Solo(p)'
  BY <1>6, <1>9 DEF Solo, Knows, KnowsDrops
<1>15. \A f \in Files : Handles(job[p], f) => WholeFile(f)'
  BY <1>12
<1>16. LateStep(p)
  <2>1. ASSUME NEW f \in Files, ToldBy(p, f)
        PROVE  \/ ToldBy(p, f)'
               \/ Handles(job'[p], f) /\ Settles(job[p], f)'
    <3>1. CASE f = g
      BY <3>1, <1>6, <1>7, <1>9, <1>12 DEF Settles
    <3>2. CASE f # g
      BY <3>2, <2>1, <1>1, <1>6, <1>9, <1>3 DEF ToldBy
    <3> QED BY <3>1, <3>2
  <2>2. ASSUME NEW f \in Files, Current(f) PROVE LateBy(p, f)'
    <3>1. CASE f = g
      BY <3>1, <1>6, <1>7, <1>9, <1>12 DEF LateBy, Settles
    <3>2. CASE f # g
      BY <3>2, <2>2, <1>7, <1>9, <1>10, <1>12 DEF LateBy, Current
    <3> QED BY <3>1, <3>2
  <2> QED BY <2>1, <2>2, <1>12, <1>13 DEF LateStep
<1>17. Progress(job[p]) /\ (\A q \in Procs \ {p}, f \in Files : ~Handles(job[q], f)) => Progress(job[p])'
  <2> SUFFICES ASSUME Progress(job[p]), \A q \in Procs \ {p}, f \in Files : ~Handles(job[q], f)
               PROVE  Progress(job[p])'
    OBVIOUS
  <2>1. Outside(job[p]) /\ Inside(job[p]) /\ Present(job[p]) /\ Anew(job[p]) /\ Found' = Found
    BY <1>1, <1>7 DEF Progress, Found
  <2>2. Outside(job[p])'
    BY <2>1, <1>1, <1>6, <1>9, <1>10, <1>2 DEF Outside
  <2>3. Inside(job[p])'
    BY <2>1, <1>6, <1>7, <1>9, <1>10, <1>13, <1>3 DEF Inside, Current, Found
  <2>4. Present(job[p])' /\ Anew(job[p])'
    BY <2>1, <1>1, <1>6, <1>7, <1>9, <1>10, <1>3 DEF Present, Anew
  <2> QED BY <2>2, <2>3, <2>4, <1>6, <1>9 DEF Progress
<1>18. job[p] # Idle /\ entry' \in [Files -> Entries \cup {NoEntry}]
       /\ rows' \in [Tables -> [FileIds -> [Texts -> Nat]]]
  BY <1>1, <1>10 DEF Idle, IndexInv, IndexTypes
<1> QED BY WorkKeeps, <1>6, <1>7, <1>8, <1>10, <1>11, <1>13, <1>14, <1>15, <1>16, <1>17, <1>18

(* A file is taken up, to be read or to be taken out of the index.         *)
LEMMA PickFileKeeps ==
    ASSUME IndexInv, NEW p \in Procs, PickFile(p)
    PROVE  IndexInv'
<1>1. job[p] \in Jobs /\ Shaped(job[p]) /\ job[p].at = "next" /\ job[p].drop = {}
  BY JobFacts DEF PickFile
<1>2. job[p].file = NoFile /\ job[p].id = 0 /\ job[p].read = Gone
  BY <1>1 DEF Shaped
<1>3. PICK g \in job[p].todo :
         LET j == [job[p] EXCEPT !.file = g, !.todo = @ \ {g}]
         IN  IF j.op \in Builds \/ disk[g] # Gone
             THEN Goto(p, [j EXCEPT !.at = "read"]) /\ UNCHANGED history
             ELSE Goto(p, [j EXCEPT !.at = "find"]) /\ Begin(p, {g})
  BY DEF PickFile
<1>4. PICK j : j = [job[p] EXCEPT !.file = g, !.todo = @ \ {g}]
  OBVIOUS
<1>5. g \in Files /\ j.op = job[p].op
  BY <1>1, <1>4 DEF Jobs
<1>6. PICK at : at = IF j.op \in Builds \/ disk[g] # Gone THEN "read" ELSE "find"
  OBVIOUS
<1>7. PICK k : k = [j EXCEPT !.at = at]
  OBVIOUS
<1>8. /\ k \in Jobs /\ k.at = at /\ k.op = job[p].op /\ k.file = g /\ k.read = Gone
      /\ k.id = 0 /\ k.drop = {} /\ k.todo = job[p].todo \ {g}
  BY <1>1, <1>4, <1>5, <1>6, <1>2, <1>7 DEF Jobs, Stages
<1>9. /\ Goto(p, k) /\ UNCHANGED database
      /\ UNCHANGED <<disk, watcher, pending, quiet>>
      /\ at = "read" => UNCHANGED history
      /\ at = "find" => Begin(p, {g}) /\ job[p].op \notin Builds /\ disk[g] = Gone
      /\ at \in {"read", "find"}
  BY <1>3, <1>4, <1>5, <1>6, <1>7 DEF PickFile, Silent, watching
<1>10. Shaped(k)
  BY <1>1, <1>8, <1>9, <1>5, IndexFiles DEF Shaped, Idle
<1>11. job'[p] = k /\ Alone(p)
  BY <1>8, <1>9, Goes
<1>12. /\ IdsKept(p) /\ Untouched(p) /\ Orphans' /\ entry' = entry /\ rows' = rows
  BY <1>9, SameDatabase
<1>13. IdsFrom(p)
  BY <1>8, <1>11 DEF IdsFrom
<1>14. \A f \in Files : /\ Handles(k, f) <=> at = "find" /\ f \in {g}
                        /\ ~Handles(job[p], f)
                        /\ ~Listed(k, f) /\ ~Listed(job[p], f)
                        /\ OfOwnFile(k, f) => at = "find"
  BY <1>1, <1>8, <1>9, <1>2, IndexFiles DEF Handles, Listed, OfOwnFile
<1>15. /\ MetStep(p) /\ HistoryTypes' /\ late \subseteq late' /\ torn \subseteq torn'
       /\ \A f \in Files : (\A q \in Procs \ {p} : ~Handles(job[q], f)) => (f \in torn' <=> f \in torn)
  <2>1. CASE at = "read"
    <3>1. UNCHANGED history
      BY <2>1, <1>9
    <3>2. MetStep(p) /\ HistoryTypes'
      BY <3>1, <2>1, <1>11, <1>14, GoesOn
    <3> QED BY <3>1, <3>2 DEF history
  <2>2. CASE at = "find"
    BY <2>2, <1>9, <1>11, <1>14, <1>5, Begins
  <2> QED BY <2>1, <2>2, <1>9
<1>16. Solo(p)'
  BY <1>8, <1>9, <1>11 DEF Solo, Knows, KnowsDrops
<1>17. \A f \in Files : Handles(job[p], f) => WholeFile(f)'
  BY <1>14
<1>18. LateStep(p)
  <2>1. at = "find" => Settles(job[p], g)'
    BY <1>8, <1>9, <1>11 DEF Settles
  <2>2. ASSUME NEW f \in Files, ToldBy(p, f)
        PROVE  \/ ToldBy(p, f)'
               \/ Handles(job'[p], f) /\ Settles(job[p], f)'
    <3>1. CASE f = g /\ at = "find"
      BY <3>1, <2>1, <1>11, <1>14
    <3>2. CASE f # g
      BY <3>2, <2>2, <1>1, <1>8, <1>11, <1>2 DEF ToldBy
    <3>3. CASE at = "read" /\ f = g
      BY <3>3, <1>8, <1>11 DEF ToldBy
    <3> QED BY <3>1, <3>2, <3>3, <1>9
  <2>3. ASSUME NEW f \in Files, Current(f) PROVE LateBy(p, f)'
    <3>1. CASE f = g /\ at = "find"
      BY <3>1, <2>1, <1>11, <1>14 DEF LateBy
    <3>2. CASE ~(f = g /\ at = "find")
      BY <3>2, <2>3, <1>9, <1>11, <1>12, <1>14 DEF LateBy, Current
    <3> QED BY <3>1, <3>2
  <2> QED BY <2>2, <2>3, <1>14, <1>15 DEF LateStep
<1>19. Progress(job[p]) /\ job[p].op \in Builds => Progress(job[p])'
  <2> SUFFICES ASSUME Progress(job[p]), job[p].op \in Builds PROVE Progress(job[p])'
    OBVIOUS
  <2>1. at = "read" /\ torn' = torn
    BY <1>9 DEF history
  <2>2. Outside(job[p]) /\ Inside(job[p]) /\ Present(job[p]) /\ Anew(job[p]) /\ Found' = Found
    BY <1>1, <1>9 DEF Progress, Found
  <2>3. Outside(job[p])'
    BY <2>2, <2>1, <1>1, <1>8, <1>11, <1>12 DEF Outside
  <2>4. Inside(job[p])'
    BY <2>2, <2>1, <1>8, <1>9, <1>11, <1>12, <1>2, IndexFiles DEF Inside, Current, Found
  <2>5. Present(job[p])' /\ Anew(job[p])'
    BY <2>2, <2>1, <1>8, <1>9, <1>11, <1>12 DEF Present, Anew, Outside
  <2> QED BY <2>1, <2>3, <2>4, <2>5, <1>8, <1>11 DEF Progress
<1>20. job[p] # Idle /\ entry' \in [Files -> Entries \cup {NoEntry}]
       /\ rows' \in [Tables -> [FileIds -> [Texts -> Nat]]]
  BY <1>1, <1>12 DEF Idle, IndexInv, IndexTypes
<1> QED BY WorkKeeps, <1>8, <1>9, <1>10, <1>12, <1>13, <1>15, <1>16, <1>17, <1>18, <1>19, <1>20

(* The statements come in the order of the code, that on the files last.   *)
LEMMA FirstIsLeft ==
    ASSUME NEW order \in {WipeOrder, FillOrder, ClearOrder, DeleteOrder},
           NEW left \in SUBSET {"symbols", "chunks", "dependencies"}, left # {}
    PROVE  First(order, left) \in left
<1>1. PICK s \in left : TRUE
  OBVIOUS
<1>2. DOMAIN order \in {1..3, 1..4}
  BY DEF WipeOrder, FillOrder, ClearOrder, DeleteOrder
<1>3. \E i \in DOMAIN order : order[i] \in left /\ \A m \in 1..(i - 1) : order[m] \notin left
  <2>1. CASE order[1] \in left
    <3>1. 1 \in DOMAIN order
      BY <1>2
    <3> QED BY <2>1, <3>1
  <2>2. CASE order[1] \notin left /\ order[2] \in left
    <3>1. 2 \in DOMAIN order
      BY <1>2
    <3>2. \A m \in 1..(2 - 1) : m = 1
      OBVIOUS
    <3> QED BY <2>2, <3>1, <3>2
  <2>3. CASE order[1] \notin left /\ order[2] \notin left
    <3>1. order[3] \in left
      BY <2>3, <1>1 DEF WipeOrder, FillOrder, ClearOrder, DeleteOrder
    <3>2. 3 \in DOMAIN order
      BY <1>2
    <3>3. \A m \in 1..(3 - 1) : m = 1 \/ m = 2
      OBVIOUS
    <3> QED BY <2>3, <3>1, <3>2, <3>3
  <2> QED BY <2>1, <2>2, <2>3
<1> QED BY <1>3 DEF First

(* The entries are deleted after all rows.                                 *)
LEMMA FilesComeLast ==
    ASSUME NEW order \in {ClearOrder, DeleteOrder}, NEW left \in SUBSET All, "files" \in left
    PROVE  /\ First(order, left) \in left
           /\ First(order, left) = "files" <=> left = {"files"}
<1>1. PICK rest : rest = left \ {"files"}
  OBVIOUS
<1>2. rest \in SUBSET {"symbols", "chunks", "dependencies"}
  BY <1>1, IndexTables DEF All
<1>3. CASE rest = {}
  <2>1. left = {"files"}
    BY <1>1, <1>3
  <2>2. 4 \in DOMAIN order /\ order[4] = "files" /\ \A i \in DOMAIN order : order[i] = "files" => i = 4
    BY DEF ClearOrder, DeleteOrder
  <2>3. \A i \in DOMAIN order : order[i] \in left => i = 4
    BY <2>1, <2>2
  <2>4. \A m \in 1..(4 - 1) : m \in DOMAIN order /\ m # 4
    BY DEF ClearOrder, DeleteOrder
  <2>5. 4 \in DOMAIN order /\ order[4] \in left /\ \A m \in 1..(4 - 1) : order[m] \notin left
    BY <2>1, <2>2, <2>3, <2>4
  <2>6. First(order, left) \in left
    BY <2>5 DEF First
  <2> QED BY <2>1, <2>6
<1>4. CASE rest # {}
  <2>1. PICK s \in rest : TRUE
    BY <1>4
  <2>2. \E i \in DOMAIN order : order[i] \in left /\ \A m \in 1..(i - 1) : order[m] \notin left
    <3>1. DOMAIN order = 1..4 /\ order[4] = "files"
      BY DEF ClearOrder, DeleteOrder
    <3>2. CASE order[1] \in left
      BY <3>1, <3>2
    <3>3. CASE order[1] \notin left /\ order[2] \in left
      <4>1. \A m \in 1..(2 - 1) : m = 1
        OBVIOUS
      <4> QED BY <3>1, <3>3, <4>1
    <3>4. CASE order[1] \notin left /\ order[2] \notin left
      <4>1. order[3] \in left
        BY <3>4, <2>1, <1>1, <1>2 DEF ClearOrder, DeleteOrder
      <4>2. \A m \in 1..(3 - 1) : m = 1 \/ m = 2
        OBVIOUS
      <4> QED BY <3>1, <3>4, <4>1, <4>2
    <3> QED BY <3>2, <3>3, <3>4
  <2>3. PICK i \in DOMAIN order : /\ order[i] \in left /\ \A m \in 1..(i - 1) : order[m] \notin left
                                 /\ First(order, left) = order[i]
    BY <2>2 DEF First
  <2>4. i # 4
    <3>1. \A m \in {1, 2, 3} : m \in 1..(4 - 1)
      OBVIOUS
    <3>2. \E m \in {1, 2, 3} : order[m] \in left
      BY <2>1, <1>1, <1>2 DEF ClearOrder, DeleteOrder
    <3> QED BY <2>3, <3>1, <3>2
  <2>5. order[i] # "files"
    BY <2>4 DEF ClearOrder, DeleteOrder
  <2>6. left # {"files"}
    BY <2>1, <1>1
  <2> QED BY <2>3, <2>5, <2>6
<1> QED BY <1>3, <1>4

(* A job at a file of its own.                                             *)
LEMMA AtAFile ==
    ASSUME IndexInv, NEW p \in Procs,
           job[p].at \in {"look", "put", "id", "wipe", "fill", "find"}
    PROVE  /\ job[p].file \in Files /\ job[p].drop = {}
           /\ \A f \in Files : /\ Handles(job[p], f) <=> f = job[p].file
                               /\ OfOwnFile(job[p], f) <=> f = job[p].file
                               /\ ~Listed(job[p], f)
           /\ LET f == job[p].file
              IN  <<p, f>> \in met \/ (\E q \in Procs \ {p} : Handles(job[q], f)) =>
                     <<p, f>> \in met /\ f \in torn /\ f \in late
<1>1. job[p] \in Jobs /\ Shaped(job[p])
  BY JobFacts
<1>2. job[p].file \in Files /\ job[p].drop = {}
  BY <1>1 DEF Shaped, Jobs
<1>3. \A f \in Files : /\ Handles(job[p], f) <=> f = job[p].file
                       /\ OfOwnFile(job[p], f) <=> f = job[p].file
                       /\ ~Listed(job[p], f)
  BY <1>2 DEF Handles, OfOwnFile, Listed
<1>4. PICK g \in Files : g = job[p].file
  BY <1>2
<1>5. Handles(job[p], g) /\ OfOwnFile(job[p], g)
  BY <1>3, <1>4
<1>6. <<p, g>> \in met \/ (\E q \in Procs \ {p} : Handles(job[q], g)) =>
         <<p, g>> \in met /\ g \in torn /\ g \in late
  BY <1>5 DEF IndexInv, MetInv
<1> QED BY <1>2, <1>3, <1>4, <1>6

(* A job that has done with a file handles only what it still has to drop. *)
LEMMA NextFileOf ==
    ASSUME NEW j \in Jobs, Shaped(j), j.at \notin {"idle", "clear", "list", "walk"}, NEW k, k = NextFile(j)
    PROVE  /\ k \in Jobs /\ Shaped(k) /\ k.at = "next" /\ k.op = j.op /\ k.file = NoFile /\ k.read = Gone
           /\ k.id = 0 /\ k.drop = j.drop /\ k.todo = j.todo /\ k.tables = {}
           /\ \A f \in Files : /\ Handles(k, f) <=> \E d \in j.drop : d.file = f
                               /\ ~Listed(k, f) /\ ~OfOwnFile(k, f)
<1>1. /\ k \in Jobs /\ k.at = "next" /\ k.op = j.op /\ k.file = NoFile /\ k.read = Gone
      /\ k.id = 0 /\ k.drop = j.drop /\ k.todo = j.todo /\ k.tables = {}
  BY DEF NextFile, Jobs, Stages, Contents
<1>2. Shaped(k)
  BY <1>1 DEF Shaped, Idle
<1>3. \A f \in Files : /\ Handles(k, f) <=> \E d \in j.drop : d.file = f
                       /\ ~Listed(k, f) /\ ~OfOwnFile(k, f)
  BY <1>1, IndexFiles DEF Handles, Listed, OfOwnFile
<1> QED BY <1>1, <1>2, <1>3

(* The hash is the same.                                                   *)
LEMMA SkipFileKeeps ==
    ASSUME IndexInv, NEW p \in Procs, SkipFile(p)
    PROVE  IndexInv'
<1>1. job[p] \in Jobs /\ Shaped(job[p]) /\ job[p].at = "look"
  BY JobFacts DEF SkipFile
<1>2. /\ job[p].file \in Files /\ job[p].drop = {}
      /\ \A f \in Files : Handles(job[p], f) <=> f = job[p].file
      /\ \A f \in Files : ~Listed(job[p], f)
  BY <1>1, AtAFile
<1>3. PICK g \in Files : g = job[p].file
  BY <1>2
<1>4. entry[g] # NoEntry /\ entry[g].hash = job[p].read
  BY <1>3 DEF SkipFile
<1>5. PICK k : k = NextFile(job[p])
  OBVIOUS
<1>6. /\ k \in Jobs /\ Shaped(k) /\ k.at = "next" /\ k.op = job[p].op /\ k.file = NoFile
      /\ k.id = 0 /\ k.drop = {} /\ k.todo = job[p].todo
      /\ \A f \in Files : ~Handles(k, f) /\ ~Listed(k, f) /\ ~OfOwnFile(k, f)
  BY <1>1, <1>5, <1>2, NextFileOf
<1>7. /\ Goto(p, k) /\ UNCHANGED database /\ Complete(p, FALSE)
      /\ UNCHANGED <<disk, watcher, pending, quiet>>
  BY <1>5 DEF SkipFile, Silent, watching
<1>8. job'[p] = k /\ Alone(p)
  BY <1>6, <1>7, Goes
<1>9. /\ IdsKept(p) /\ Untouched(p) /\ Orphans' /\ entry' = entry /\ rows' = rows
  BY <1>7, SameDatabase
<1>10. IdsFrom(p)
  BY <1>6, <1>8 DEF IdsFrom
<1>11. /\ MetStep(p) /\ HistoryTypes'
       /\ \A f \in Files : f # g => (f \in torn' <=> f \in torn) /\ (f \in late' <=> f \in late)
       /\ g \in torn' <=> g \in torn
       /\ g \in late' <=> g \in late /\ ~(<<p, g>> \notin met /\ job[p].read = disk[g])
  BY <1>6, <1>7, <1>8, <1>2, <1>3, Completes
<1>12. Solo(p)'
  BY <1>6, <1>8, IndexFiles DEF Solo, Knows, KnowsDrops
<1>13. \A f \in Files : Handles(job[p], f) => WholeFile(f)'
  BY <1>1, <1>7, <1>8, <1>11, WholeWithoutWriting DEF Half
<1>14. Current(g)' <=> disk[g] = job[p].read
  <2>1. job[p].read # Gone
    BY <1>1, IndexContents DEF Shaped
  <2> QED BY <2>1, <1>4, <1>7, <1>9 DEF Current
<1>15. LateStep(p)
  <2> SUFFICES ASSUME NEW f \in Files \ Ignored, f \notin late'
               PROVE  /\ f \in late => Current(f)'
                      /\ ToldBy(p, f) => ToldBy(p, f)'
                      /\ Handles(job[p], f) /\ Settles(job[p], f) => LateBy(p, f)'
                      /\ Current(f) => LateBy(p, f)'
    BY <1>6, <1>8 DEF LateStep
  <2>1. f \in late => Current(f)'
    BY <1>11, <1>14
  <2>2. ToldBy(p, f) => ToldBy(p, f)'
    BY <1>1, <1>6, <1>8 DEF ToldBy
  <2>3. Current(f) => LateBy(p, f)'
    BY <1>6, <1>7, <1>8, <1>9 DEF LateBy, Current
  <2>4. ASSUME f = g, Settles(job[p], f) PROVE LateBy(p, f)'
    <3>1. job[p].read = disk[g]
      BY <2>4, <1>1, <1>3 DEF Settles
    <3> QED BY <3>1, <1>14, <2>4, <1>6, <1>8 DEF LateBy
  <2> QED BY <2>1, <2>2, <2>3, <2>4, <1>3, <1>2
<1>16. Progress(job[p]) => Progress(job[p])'
  <2> SUFFICES ASSUME Progress(job[p]) PROVE Progress(job[p])'
    OBVIOUS
  <2>1. Outside(job[p]) /\ Inside(job[p]) /\ Present(job[p]) /\ Anew(job[p]) /\ Found' = Found
    BY <1>1, <1>7 DEF Progress, Found
  <2>2. job[p].read = disk[g] /\ job[p].op # "rebuild"
    BY <2>1, <1>1, <1>3, <1>4 DEF Present, Anew
  <2>3. Outside(job[p])'
    BY <2>1, <1>1, <1>6, <1>8, <1>9, <1>2 DEF Outside
  <2>4. Inside(job[p])'
    <3>1. \A f \in Found : f \in job[p].todo \/ Current(f)'
      <4>1. ASSUME NEW f \in Found, f # g, f \notin job[p].todo PROVE Current(f)'
        BY <4>1, <2>1, <1>3, <1>7, <1>9 DEF Inside, Current
      <4> QED BY <4>1, <2>2, <1>14
    <3> QED BY <3>1, <2>1, <2>2, <1>6, <1>8 DEF Inside
  <2>5. Present(job[p])' /\ Anew(job[p])'
    BY <2>1, <2>2, <1>6, <1>8, <1>9 DEF Present, Anew
  <2> QED BY <2>3, <2>4, <2>5, <1>6, <1>8 DEF Progress
<1>17. job[p] # Idle /\ entry' \in [Files -> Entries \cup {NoEntry}]
       /\ rows' \in [Tables -> [FileIds -> [Texts -> Nat]]]
  BY <1>1, <1>9 DEF Idle, IndexInv, IndexTypes
<1> QED BY WorkKeeps, <1>6, <1>7, <1>9, <1>10, <1>11, <1>12, <1>13, <1>15, <1>16, <1>17

(* A file that has gone is looked for in the index.                        *)
LEMMA FindRowKeeps ==
    ASSUME IndexInv, NEW p \in Procs, FindRow(p)
    PROVE  IndexInv'
<1>1. job[p] \in Jobs /\ Shaped(job[p]) /\ job[p].at = "find"
  BY JobFacts DEF FindRow
<1>2. /\ job[p].file \in Files /\ job[p].drop = {} /\ job[p].op \notin Builds
      /\ \A f \in Files : Handles(job[p], f) <=> f = job[p].file
      /\ \A f \in Files : ~Listed(job[p], f)
  BY <1>1, AtAFile DEF Shaped
<1>3. PICK g \in Files : g = job[p].file
  BY <1>2
<1>4. UNCHANGED database /\ UNCHANGED <<disk, watcher, pending, quiet>>
  BY DEF FindRow, Silent, watching
<1>5. /\ IdsKept(p) /\ Untouched(p) /\ Orphans' /\ entry' = entry /\ rows' = rows
  BY <1>4, SameDatabase
<1>6. job[p] # Idle /\ entry' \in [Files -> Entries \cup {NoEntry}]
      /\ rows' \in [Tables -> [FileIds -> [Texts -> Nat]]]
  BY <1>1, <1>5 DEF Idle, IndexInv, IndexTypes
<1>7. CASE entry[g] = NoEntry
  <2>1. PICK k : k = NextFile(job[p])
    OBVIOUS
  <2>2. /\ k \in Jobs /\ Shaped(k) /\ k.at = "next" /\ k.op = job[p].op /\ k.file = NoFile
        /\ k.id = 0 /\ k.drop = {} /\ k.todo = job[p].todo
        /\ \A f \in Files : ~Handles(k, f) /\ ~Listed(k, f) /\ ~OfOwnFile(k, f)
    BY <1>1, <2>1, <1>2, NextFileOf
  <2>3. Goto(p, k) /\ Complete(p, TRUE)
    BY <2>1, <1>3, <1>7 DEF FindRow
  <2>4. job'[p] = k /\ Alone(p)
    BY <2>2, <2>3, Goes
  <2>5. IdsFrom(p)
    BY <2>2, <2>4 DEF IdsFrom
  <2>6. /\ MetStep(p) /\ HistoryTypes'
        /\ \A f \in Files : f # g => (f \in torn' <=> f \in torn) /\ (f \in late' <=> f \in late)
        /\ g \in late' <=> g \in late /\ ~(<<p, g>> \notin met /\ job[p].read = disk[g])
    BY <2>2, <2>3, <2>4, <1>2, <1>3, Completes
  <2>7. Solo(p)'
    BY <2>2, <2>4, IndexFiles DEF Solo, Knows, KnowsDrops
  <2>8. \A f \in Files : Handles(job[p], f) => WholeFile(f)'
    BY <1>1, <1>4, <1>7, <2>4, <2>6, WholeWithoutWriting DEF Half
  <2>9. disk[g] = Gone => Current(g)'
    BY <1>7, <1>4, <1>5 DEF Current
  <2>10. LateStep(p)
    <3> SUFFICES ASSUME NEW f \in Files \ Ignored, f \notin late'
                 PROVE  /\ f \in late => Current(f)'
                        /\ ToldBy(p, f) => ToldBy(p, f)'
                        /\ Handles(job[p], f) /\ Settles(job[p], f) => LateBy(p, f)'
                        /\ Current(f) => LateBy(p, f)'
      BY <2>2, <2>4 DEF LateStep
    <3>1. job[p].read = Gone
      BY <1>1 DEF Shaped
    <3>2. f \in late => Current(f)'
      BY <2>6, <2>9, <3>1
    <3>3. ToldBy(p, f) => ToldBy(p, f)'
      BY <1>1, <2>2, <2>4 DEF ToldBy
    <3>4. Current(f) => LateBy(p, f)'
      BY <2>2, <1>4, <2>4, <1>5 DEF LateBy, Current
    <3>5. ASSUME f = g, Settles(job[p], f) PROVE LateBy(p, f)'
      <4>1. disk[g] = Gone
        BY <3>5, <1>1, <1>3 DEF Settles
      <4> QED BY <4>1, <2>9, <3>5, <2>2, <2>4 DEF LateBy
    <3> QED BY <3>2, <3>3, <3>4, <3>5, <1>3, <1>2
  <2> QED BY WorkKeeps, <2>2, <2>3, <2>5, <2>6, <2>7, <2>8, <2>10, <1>4, <1>5, <1>6, <1>2
<1>8. CASE entry[g] # NoEntry
  <2>1. PICK e \in Entries : e = entry[g]
    BY <1>8 DEF IndexInv, IndexTypes
  <2>2. PICK k : k = [job[p] EXCEPT !.at = "delete", !.id = e.id, !.tables = All]
    OBVIOUS
  <2>3. e.id \in FileIds /\ e.id # 0
    BY DEF Entries, FileIds
  <2>4. /\ k \in Jobs /\ k.at = "delete" /\ k.op = job[p].op /\ k.file = g /\ k.read = job[p].read
        /\ k.id = e.id /\ k.drop = {} /\ k.todo = job[p].todo /\ k.tables = All
    BY <1>1, <1>3, <1>2, <2>2, <2>3 DEF Jobs, Stages, All
  <2>5. /\ Goto(p, k) /\ UNCHANGED history
    BY <1>3, <1>8, <2>2, <2>1 DEF FindRow, All
  <2>6. Shaped(k)
    <3>1. "files" \in k.tables /\ k # Idle
      BY <2>4 DEF All, Idle
    <3> QED BY <1>1, <1>3, <2>4, <2>3, <3>1, IndexFiles DEF Shaped
  <2>7. job'[p] = k /\ Alone(p)
    BY <2>4, <2>5, Goes
  <2>8. IdsFrom(p)
    BY <1>8, <2>1, <2>4, <2>7 DEF IdsFrom
  <2>9. \A f \in Files : /\ Handles(k, f) <=> Handles(job[p], f)
                         /\ ~Listed(k, f) /\ ~Listed(job[p], f)
                         /\ OfOwnFile(k, f) => OfOwnFile(job[p], f)
    BY <1>1, <1>3, <1>2, <2>4 DEF Handles, Listed, OfOwnFile
  <2>10. MetStep(p) /\ HistoryTypes'
    BY <2>5, <2>7, <2>9, GoesOn
  <2>11. met' = met /\ torn' = torn /\ late' = late
    BY <2>5 DEF history
  <2>12. Solo(p)'
    BY <1>8, <2>1, <2>4, <2>7, <1>5 DEF Solo, Knows, KnowsDrops
  <2>13. \A f \in Files : Handles(job[p], f) => WholeFile(f)'
    BY <1>1, <1>4, <2>7, <2>11, WholeWithoutWriting DEF Half
  <2>14. LateStep(p)
    BY <1>1, <1>4, <1>5, <1>3, <1>2, <2>4, <2>7, <2>9, <2>11 DEF LateStep, LateBy, ToldBy, Settles, Current
  <2> QED BY WorkKeeps, <2>4, <2>5, <2>6, <2>8, <2>10, <2>12, <2>13, <2>14, <1>4, <1>5, <1>6, <1>2
<1> QED BY <1>7, <1>8

(* The rest of an update of one file, while the file goes on being the     *)
(* job's: history unchanged, entries as before or with the text read.      *)
LEMMA GoesOnWriting ==
    ASSUME IndexInv, NEW p \in Procs, NEW k \in Jobs, Goto(p, k), UNCHANGED history,
           job[p].at \in {"put", "id", "wipe", "fill"}, k.at \in {"id", "wipe", "fill"},
           k.op = job[p].op, k.file = job[p].file, k.read = job[p].read,
           k.drop = job[p].drop, k.todo = job[p].todo,
           k.at \in {"wipe", "fill"} => k.tables \subseteq Tables /\ k.tables # {} /\ k.id # 0,
           k.at = "id" => k.id = 0,
           UNCHANGED <<disk, watcher, pending, quiet>>,
           entry' \in [Files -> Entries \cup {NoEntry}],
           rows' \in [Tables -> [FileIds -> [Texts -> Nat]]],
           \A f \in Files : f # job[p].file => entry'[f] = entry[f],
           job[p].at # "put" => entry' = entry,
           IdsKept(p), IdsFrom(p), Untouched(p), Orphans',
           <<p, job[p].file>> \notin met => Knows(job[p], job[p].file)'
    PROVE  IndexInv'
<1>1. job[p] \in Jobs /\ Shaped(job[p])
  BY JobFacts
<1>2. /\ job[p].file \in Files /\ job[p].drop = {}
      /\ \A f \in Files : /\ Handles(job[p], f) <=> f = job[p].file
                          /\ OfOwnFile(job[p], f) <=> f = job[p].file
                          /\ ~Listed(job[p], f)
  BY <1>1, AtAFile
<1>3. PICK g \in Files : g = job[p].file
  BY <1>2
<1>4. Shaped(k)
  BY <1>1, <1>2 DEF Shaped, Idle
<1>5. job'[p] = k /\ Alone(p)
  BY Goes
<1>6. \A f \in Files : /\ Handles(k, f) <=> Handles(job[p], f)
                       /\ ~Listed(k, f) /\ ~Listed(job[p], f)
                       /\ OfOwnFile(k, f) => OfOwnFile(job[p], f)
  BY <1>2 DEF Handles, Listed, OfOwnFile
<1>7. MetStep(p) /\ HistoryTypes'
  BY <1>5, <1>6, GoesOn
<1>8. met' = met /\ torn' = torn /\ late' = late
  BY DEF history
<1>9. Solo(p)'
  <2>1. \A f \in Files : KnowsDrops(k, f)'
    BY <1>2 DEF KnowsDrops
  <2>2. \A f \in Files : f # g => Knows(k, f)'
    BY <1>3 DEF Knows
  <2>3. <<p, g>> \notin met => Knows(job[p], g)'
    <3>1. job'[p].file = g
      BY <1>5, <1>3
    <3> QED BY <3>1, <1>3 DEF Knows
  <2> QED BY <2>1, <2>2, <2>3, <1>5, <1>8 DEF Solo, Knows, KnowsDrops
<1>10. \A f \in Files : Handles(job[p], f) => WholeFile(f)'
  <2>1. Half(job[p], g)'
    BY <1>5, <1>3 DEF Half
  <2> QED BY <2>1, <1>3, <1>2 DEF WholeFile
<1>11. LateStep(p)
  <2> SUFFICES ASSUME NEW f \in Files \ Ignored, f \notin late'
               PROVE  /\ f \notin late
                      /\ ToldBy(p, f) => ToldBy(p, f)'
                      /\ f = g /\ Settles(job[p], f) => LateBy(p, f)'
                      /\ f # g /\ Current(f) => LateBy(p, f)'
    BY <1>3, <1>2 DEF LateStep
  <2>1. ToldBy(p, f) => ToldBy(p, f)'
    BY <1>5 DEF ToldBy
  <2>2. ASSUME f = g, Settles(job[p], f) PROVE LateBy(p, f)'
    <3>1. job[p].read = disk[g]
      BY <2>2, <1>3 DEF Settles
    <3>2. Settles(job[p], f)'
      BY <3>1, <2>2, <1>5, <1>2 DEF Settles
    <3> QED BY <3>2, <2>2, <1>5, <1>6, <1>3, <1>2 DEF LateBy
  <2>3. ASSUME f # g, Current(f) PROVE LateBy(p, f)'
    BY <2>3, <1>5, <1>6, <1>3, <1>2 DEF LateBy, Current
  <2> QED BY <2>1, <2>2, <2>3, <1>8
<1>12. Progress(job[p]) => Progress(job[p])'
  <2> SUFFICES ASSUME Progress(job[p]) PROVE Progress(job[p])'
    OBVIOUS
  <2>1. Outside(job[p]) /\ Inside(job[p]) /\ Present(job[p]) /\ Anew(job[p]) /\ Found' = Found
    BY DEF Progress, Found
  <2>2. g \in Found /\ g \notin job[p].todo
    BY <2>1, <1>1, <1>3 DEF Present, Shaped
  <2>3. Outside(job[p])'
    BY <2>1, <2>2, <1>5, <1>3, <1>2 DEF Outside
  <2>4. Inside(job[p])'
    BY <2>1, <1>5, <1>3, <1>8 DEF Inside, Current, Found
  <2>5. Present(job[p])'
    BY <2>1, <1>5, <1>3 DEF Present
  <2>6. Anew(job[p])'
    BY <2>1, <2>2, <1>5, <1>3 DEF Anew
  <2> QED BY <2>3, <2>4, <2>5, <2>6, <1>5 DEF Progress
<1>13. job[p] # Idle
  BY DEF Idle
<1> QED BY WorkKeeps, <1>4, <1>7, <1>9, <1>10, <1>11, <1>12, <1>13

(* The hash is stored, before the rows.                                    *)
LEMMA UpsertKeeps ==
    ASSUME IndexInv, NEW p \in Procs, Upsert(p)
    PROVE  IndexInv'
<1>1. job[p] \in Jobs /\ Shaped(job[p]) /\ job[p].at = "put"
  BY JobFacts DEF Upsert
<1>2. /\ job[p].file \in Files /\ job[p].drop = {} /\ job[p].read \in Texts /\ job[p].id = 0
      /\ \A f \in Files : Handles(job[p], f) <=> f = job[p].file
  BY <1>1, AtAFile DEF Shaped
<1>3. PICK g \in Files : g = job[p].file
  BY <1>2
<1>4. PICK i : /\ i \in IF entry[g] = NoEntry THEN FreshIds ELSE {entry[g].id}
               /\ entry' = [entry EXCEPT ![g] = [id |-> i, hash |-> job[p].read]]
  BY <1>3 DEF Upsert
<1>5. entry \in [Files -> Entries \cup {NoEntry}]
  BY DEF IndexInv, IndexTypes
<1>6. /\ i \in FileIds
      /\ \/ entry[g] = NoEntry /\ i \notin IdsInUse
         \/ entry[g] # NoEntry /\ i = entry[g].id
  BY <1>4, <1>5 DEF FreshIds, Entries
<1>7. PICK e \in Entries : e = [id |-> i, hash |-> job[p].read]
  BY <1>6, <1>2 DEF Entries
<1>8. /\ e.id = i /\ e.hash = job[p].read /\ e # NoEntry
      /\ entry' = [entry EXCEPT ![g] = e] /\ entry'[g] = e
      /\ \A f \in Files : f # g => entry'[f] = entry[f]
      /\ entry' \in [Files -> Entries \cup {NoEntry}]
  BY <1>4, <1>5, <1>7, IndexEntries DEF Entries
<1>9. PICK k : k = [job[p] EXCEPT !.at = "id"]
  OBVIOUS
<1>10. /\ k \in Jobs /\ k.at = "id" /\ k.op = job[p].op /\ k.file = job[p].file /\ k.read = job[p].read
       /\ k.id = 0 /\ k.drop = job[p].drop /\ k.todo = job[p].todo /\ k.tables = job[p].tables
  BY <1>1, <1>9, <1>2 DEF Jobs, Stages
<1>11. /\ Goto(p, k) /\ UNCHANGED history /\ rows' = rows
       /\ UNCHANGED <<disk, watcher, pending, quiet>>
  BY <1>9 DEF Upsert, Silent, watching
<1>12. job'[p] = k /\ Alone(p)
  BY <1>10, <1>11, Goes
<1>13. IdsKept(p) /\ Untouched(p)
  BY <1>3, <1>2, <1>6, <1>8, <1>11 DEF IdsKept, Untouched
<1>14. Orphans'
  <2>1. LiveIds \subseteq LiveIds'
    <3>1. ASSUME NEW f \in Files, entry[f] # NoEntry PROVE entry[f].id \in LiveIds'
      <4>1. entry'[f] # NoEntry /\ entry'[f].id = entry[f].id
        BY <3>1, <1>6, <1>8
      <4> QED BY <4>1 DEF LiveIds
    <3> QED BY <3>1 DEF LiveIds
  <2> QED BY <2>1, <1>11 DEF Orphans, IndexInv, WholeInv
<1>15. IdsFrom(p)
  BY <1>10, <1>12 DEF IdsFrom
<1>16. Knows(job[p], job[p].file)'
  BY <1>10, <1>12, <1>3, <1>8 DEF Knows
<1>17. /\ \A f \in Files : f # job[p].file => entry'[f] = entry[f]
       /\ job[p].at \in {"put", "id", "wipe", "fill"} /\ k.at \in {"id", "wipe", "fill"}
       /\ k.at \in {"wipe", "fill"} => k.tables \subseteq Tables /\ k.tables # {} /\ k.id # 0
       /\ job[p].at # "put" => entry' = entry
       /\ rows' \in [Tables -> [FileIds -> [Texts -> Nat]]]
  BY <1>1, <1>10, <1>11, <1>8, <1>3 DEF IndexInv, IndexTypes
<1> QED BY GoesOnWriting, <1>10, <1>11, <1>13, <1>14, <1>15, <1>16, <1>17, <1>8

(* Rows of the old text are deleted.                                       *)
LEMMA WipeTableKeeps ==
    ASSUME IndexInv, NEW p \in Procs, WipeTable(p)
    PROVE  IndexInv'
<1>1. job[p] \in Jobs /\ Shaped(job[p]) /\ job[p].at = "wipe"
  BY JobFacts DEF WipeTable
<1>2. /\ job[p].file \in Files /\ job[p].drop = {}
      /\ job[p].tables \subseteq Tables /\ job[p].tables # {} /\ job[p].id # 0 /\ job[p].id \in FileIds
      /\ \A f \in Files : Handles(job[p], f) <=> f = job[p].file
  BY <1>1, AtAFile DEF Shaped, Jobs
<1>3. PICK g \in Files : g = job[p].file
  BY <1>2
<1>4. PICK table : table = First(WipeOrder, job[p].tables)
  OBVIOUS
<1>5. table \in job[p].tables /\ table \in Tables /\ table \in All /\ table # "files"
  BY <1>4, <1>2, FirstIsLeft, IndexTables DEF All
<1>6. PICK k : k = IF job[p].tables # {table} THEN [job[p] EXCEPT !.tables = @ \ {table}]
                   ELSE [job[p] EXCEPT !.at = "fill", !.tables = Tables]
  OBVIOUS
<1>7. /\ k \in Jobs /\ k.op = job[p].op /\ k.file = job[p].file /\ k.read = job[p].read
      /\ k.id = job[p].id /\ k.drop = job[p].drop /\ k.todo = job[p].todo
      /\ \/ k.at = "wipe" /\ k.tables = job[p].tables \ {table} /\ k.tables # {}
         \/ k.at = "fill" /\ k.tables = Tables /\ job[p].tables = {table}
      /\ k.tables \subseteq Tables
  <2>1. CASE job[p].tables # {table}
    BY <2>1, <1>1, <1>6, <1>5, <1>2 DEF Jobs, Stages, All
  <2>2. CASE job[p].tables = {table}
    BY <2>2, <1>1, <1>6, <1>5, <1>2 DEF Jobs, Stages, All
  <2> QED BY <2>1, <2>2
<1>8. /\ Goto(p, k) /\ UNCHANGED history /\ Erase(table, {job[p].id})
      /\ UNCHANGED <<disk, watcher, pending, quiet>>
  BY <1>6, <1>4 DEF WipeTable, Silent, watching
<1>9. job'[p] = k /\ Alone(p)
  BY <1>7, <1>8, Goes
<1>10. \A f \in Files : entry[f] # NoEntry /\ entry[f].id \in {job[p].id} => Handles(job[p], f)
  BY <1>2 DEF IndexInv, OwnersInv, Owns
<1>11. IdsKept(p) /\ Untouched(p) /\ Orphans'
  BY <1>8, <1>5, <1>2, <1>10, ErasedDatabase
<1>12. /\ rows' \in [Tables -> [FileIds -> [Texts -> Nat]]]
       /\ entry' \in [Files -> Entries \cup {NoEntry}]
       /\ \A f \in Files : entry'[f] = entry[f]
       /\ \A t \in Tables, i \in FileIds : rows'[t][i] =
             IF t = table /\ i = job[p].id THEN NoRows ELSE rows[t][i]
       /\ entry' = entry
  <2>1. entry' = entry
    BY <1>8, <1>5 DEF Erase
  <2> QED BY <2>1, <1>8, <1>5, <1>2, ErasedRows DEF IndexInv
<1>13. IdsFrom(p)
  BY <1>7, <1>9 DEF IdsFrom
<1>14. ASSUME <<p, g>> \notin met PROVE Knows(job[p], g)'
  <2>1. Knows(job[p], g)
    BY <1>14 DEF IndexInv, SoloInv
  <2>2. /\ entry[g] # NoEntry /\ entry[g].hash = k.read /\ entry[g].id = k.id
        /\ \A t \in Tables \ job[p].tables : rows[t][k.id] = NoRows
    BY <2>1, <1>1, <1>7, <1>3 DEF Knows
  <2>3. \A t \in (Tables \ job[p].tables) \cup {table} : rows'[t][k.id] = NoRows
    <3>1. k.id = job[p].id /\ k.id \in FileIds
      BY <1>7, <1>2
    <3>2. \A t \in Tables : rows'[t][k.id] = IF t = table THEN NoRows ELSE rows[t][k.id]
      BY <3>1, <1>12
    <3> QED BY <3>2, <2>2, <1>5
  <2>4. k.at = "wipe" => \A t \in Tables \ k.tables : rows'[t][k.id] = NoRows
    BY <2>3, <1>7
  <2>5. k.at = "fill" => \A t \in Tables : rows'[t][k.id] = NoRows
    BY <2>3, <1>7
  <2> QED BY <2>2, <2>4, <2>5, <1>7, <1>9, <1>12 DEF Knows
<1>15. /\ \A f \in Files : f # job[p].file => entry'[f] = entry[f]
       /\ job[p].at \in {"put", "id", "wipe", "fill"} /\ k.at \in {"id", "wipe", "fill"}
       /\ k.at \in {"wipe", "fill"} => k.tables \subseteq Tables /\ k.tables # {} /\ k.id # 0
       /\ k.at = "id" => k.id = 0
       /\ job[p].at # "put" => entry' = entry
       /\ <<p, job[p].file>> \notin met => Knows(job[p], job[p].file)'
  <2>1. k.tables # {}
    BY <1>7, IndexTables
  <2>2. job'[p].file = g
    BY <1>7, <1>9, <1>3
  <2> QED BY <2>1, <2>2, <1>1, <1>7, <1>12, <1>14, <1>3, <1>2
<1> QED BY GoesOnWriting, <1>7, <1>8, <1>11, <1>12, <1>13, <1>15

(* Rows of the new text are inserted.                                      *)
LEMMA FillTableKeeps ==
    ASSUME IndexInv, NEW p \in Procs, FillTable(p)
    PROVE  IndexInv'
<1>1. job[p] \in Jobs /\ Shaped(job[p]) /\ job[p].at = "fill"
  BY JobFacts DEF FillTable
<1>2. /\ job[p].file \in Files /\ job[p].drop = {} /\ job[p].read \in Texts
      /\ job[p].tables \subseteq Tables /\ job[p].tables # {} /\ job[p].id # 0 /\ job[p].id \in FileIds
      /\ \A f \in Files : Handles(job[p], f) <=> f = job[p].file
      /\ \A f \in Files : ~Listed(job[p], f)
      /\ <<p, job[p].file>> \in met => job[p].file \in torn /\ job[p].file \in late
      /\ job[p].file \notin job[p].todo
  BY <1>1, AtAFile DEF Shaped, Jobs
<1>3. PICK g \in Files : g = job[p].file
  BY <1>2
<1>4. PICK table : table = First(FillOrder, job[p].tables)
  OBVIOUS
<1>5. table \in job[p].tables /\ table \in Tables
  BY <1>4, <1>2, FirstIsLeft, IndexTables
<1>6. PICK i \in FileIds : i = job[p].id
  BY <1>2
<1>7. PICK text \in Texts : text = job[p].read
  BY <1>2
<1>8. /\ rows' = [rows EXCEPT ![table][i][text] = IF table = "symbols" THEN 1 ELSE @ + 1]
      /\ entry' = entry /\ i \in LiveIds
      /\ UNCHANGED <<disk, watcher, pending, quiet>>
  BY <1>4, <1>6, <1>7 DEF FillTable, InsertRow, Silent, watching
<1>9. /\ rows \in [Tables -> [FileIds -> [Texts -> Nat]]]
      /\ entry \in [Files -> Entries \cup {NoEntry}]
  BY DEF IndexInv, IndexTypes
<1>10. PICK row : row = [rows[table][i] EXCEPT ![text] = IF table = "symbols" THEN 1 ELSE @ + 1]
  OBVIOUS
<1>11. /\ row \in [Texts -> Nat]
       /\ rows[table][i] = NoRows => row = Only(text)
  <2>1. rows[table][i] \in [Texts -> Nat]
    BY <1>5, <1>9
  <2>2. row \in [Texts -> Nat]
    BY <2>1, <1>10
  <2>3. ASSUME rows[table][i] = NoRows PROVE row = Only(text)
    <3>1. \A x \in Texts : row[x] = IF x = text THEN 1 ELSE 0
      BY <2>1, <2>3, <1>10 DEF NoRows
    <3>2. Only(text) \in [Texts -> Nat] /\ \A x \in Texts : Only(text)[x] = IF x = text THEN 1 ELSE 0
      BY DEF Only
    <3> QED BY <3>1, <3>2, <2>2
  <2> QED BY <2>2, <2>3
<1>12. PICK rest : rest = [rows[table] EXCEPT ![i] = row]
  OBVIOUS
<1>13. rows' = [rows EXCEPT ![table] = rest]
  BY <1>8, <1>10, <1>12
<1>14. /\ rows' \in [Tables -> [FileIds -> [Texts -> Nat]]]
       /\ \A t \in Tables, n \in FileIds : rows'[t][n] =
             IF t = table /\ n = i THEN row ELSE rows[t][n]
  <2>1. rest \in [FileIds -> [Texts -> Nat]] /\ \A n \in FileIds : rest[n] = IF n = i THEN row ELSE rows[table][n]
    BY <1>12, <1>9, <1>11, <1>5
  <2> QED BY <2>1, <1>13, <1>9, <1>5
<1>15. \A f \in Files : entry[f] # NoEntry => entry[f].id \in FileIds /\ (entry[f].id = i => f = g)
  BY <1>3, <1>6, <1>9 DEF IndexInv, OwnersInv, Owns, Entries
<1>16. IdsKept(p) /\ Untouched(p) /\ Orphans'
  <2>1. IdsKept(p)
    BY <1>8 DEF IdsKept
  <2>2. Untouched(p)
    BY <1>8, <1>14, <1>15, <1>3, <1>2 DEF Untouched
  <2>3. LiveIds' = LiveIds
    BY <1>8 DEF LiveIds
  <2>4. Orphans'
    BY <2>3, <1>8, <1>14 DEF Orphans, IndexInv, WholeInv
  <2> QED BY <2>1, <2>2, <2>4
<1>17. ASSUME <<p, g>> \notin met
       PROVE  /\ entry[g] # NoEntry /\ entry[g].hash = text /\ entry[g].id = i
              /\ \A t \in Tables : rows'[t][i] =
                    IF t \in job[p].tables \ {table} THEN NoRows ELSE Only(text)
  <2>1. Knows(job[p], g)
    BY <1>17 DEF IndexInv, SoloInv
  <2>2. /\ entry[g] # NoEntry /\ entry[g].hash = text /\ entry[g].id = i
        /\ \A t \in Tables : rows[t][i] = IF t \in job[p].tables THEN NoRows ELSE Only(text)
    BY <2>1, <1>1, <1>3, <1>6, <1>7 DEF Knows
  <2>3. rows'[table][i] = Only(text)
    BY <2>2, <1>14, <1>11, <1>5
  <2>4. \A t \in Tables : t # table => rows'[t][i] = rows[t][i]
    BY <1>14
  <2> QED BY <2>2, <2>3, <2>4, <1>5
<1>18. CASE job[p].tables # {table}
  <2>1. PICK k : k = [job[p] EXCEPT !.tables = @ \ {table}]
    OBVIOUS
  <2>2. /\ k \in Jobs /\ k.op = job[p].op /\ k.file = job[p].file /\ k.read = job[p].read
        /\ k.id = job[p].id /\ k.drop = job[p].drop /\ k.todo = job[p].todo /\ k.at = "fill"
        /\ k.tables = job[p].tables \ {table} /\ k.tables # {} /\ k.tables \subseteq Tables
    BY <2>1, <1>18, <1>1, <1>5, <1>2 DEF Jobs
  <2>3. Goto(p, k) /\ UNCHANGED history
    BY <2>1, <1>4, <1>18 DEF FillTable
  <2>4. job'[p] = k /\ Alone(p)
    BY <2>2, <2>3, Goes
  <2>5. IdsFrom(p)
    BY <2>2, <2>4 DEF IdsFrom
  <2>6. <<p, job[p].file>> \notin met => Knows(job[p], job[p].file)'
    <3>1. job'[p].file = g /\ job'[p].read = text /\ job'[p].id = i
      BY <2>2, <2>4, <1>3, <1>6, <1>7
    <3>2. \A t \in job[p].tables : t \in Tables
      BY <1>2
    <3> QED BY <3>1, <3>2, <1>3, <1>17, <1>8, <2>2, <2>4 DEF Knows
  <2>7. /\ \A f \in Files : f # job[p].file => entry'[f] = entry[f]
        /\ job[p].at \in {"put", "id", "wipe", "fill"} /\ k.at \in {"id", "wipe", "fill"}
        /\ k.at \in {"wipe", "fill"} => k.tables \subseteq Tables /\ k.tables # {} /\ k.id # 0
        /\ k.at = "id" => k.id = 0
        /\ job[p].at # "put" => entry' = entry
        /\ entry' \in [Files -> Entries \cup {NoEntry}]
    BY <1>1, <2>2, <1>8, <1>2, <1>9
  <2> QED BY GoesOnWriting, <2>2, <2>3, <1>16, <1>14, <1>8, <2>5, <2>6, <2>7
<1>19. CASE job[p].tables = {table}
  <2>1. PICK k : k = NextFile(job[p])
    OBVIOUS
  <2>2. /\ k \in Jobs /\ Shaped(k) /\ k.at = "next" /\ k.op = job[p].op /\ k.file = NoFile
        /\ k.id = 0 /\ k.drop = {} /\ k.todo = job[p].todo
        /\ \A f \in Files : ~Handles(k, f) /\ ~Listed(k, f) /\ ~OfOwnFile(k, f)
    BY <1>1, <2>1, <1>2, NextFileOf
  <2>3. Goto(p, k) /\ Complete(p, TRUE)
    BY <2>1, <1>4, <1>19 DEF FillTable
  <2>4. job'[p] = k /\ Alone(p)
    BY <2>2, <2>3, Goes
  <2>5. IdsFrom(p)
    BY <2>2, <2>4 DEF IdsFrom
  <2>6. /\ MetStep(p) /\ HistoryTypes'
        /\ \A f \in Files : f # g => (f \in torn' <=> f \in torn) /\ (f \in late' <=> f \in late)
        /\ g \in torn' <=> g \in torn /\ ~(<<p, g>> \notin met)
        /\ g \in late' <=> g \in late /\ ~(<<p, g>> \notin met /\ job[p].read = disk[g])
    BY <2>2, <2>3, <2>4, <1>2, <1>3, Completes
  <2>7. Solo(p)'
    BY <2>2, <2>4, IndexFiles DEF Solo, Knows, KnowsDrops
  <2>8. \A f \in Files : Handles(job[p], f) => WholeFile(f)'
    <3>1. ASSUME g \notin torn' PROVE Whole(g)'
      <4>1. <<p, g>> \notin met
        BY <3>1, <2>6, <1>3, <1>2
      <4>2. \A t \in Tables : rows'[t][i] = Only(text)
        BY <4>1, <1>17, <1>19
      <4> QED BY <4>1, <4>2, <1>17, <1>8 DEF Whole
    <3> QED BY <3>1, <1>3, <1>2 DEF WholeFile
  <2>9. <<p, g>> \notin met /\ disk[g] = text => Current(g)'
    <3>1. text # Gone
      BY IndexContents
    <3> QED BY <3>1, <1>17, <1>8 DEF Current
  <2>10. LateStep(p)
    <3> SUFFICES ASSUME NEW f \in Files \ Ignored, f \notin late'
                 PROVE  /\ f \in late => Current(f)'
                        /\ ToldBy(p, f) => ToldBy(p, f)'
                        /\ f = g /\ Settles(job[p], f) /\ f \notin late => LateBy(p, f)'
                        /\ Current(f) => LateBy(p, f)'
      BY <2>2, <2>4, <1>3, <1>2 DEF LateStep
    <3>1. f \in late => Current(f)'
      BY <2>6, <2>9, <1>7
    <3>2. ToldBy(p, f) => ToldBy(p, f)'
      BY <1>1, <2>2, <2>4 DEF ToldBy
    <3>3. Current(f) => LateBy(p, f)'
      BY <2>2, <2>4, <1>8 DEF LateBy, Current
    <3>4. ASSUME f = g, Settles(job[p], f), f \notin late PROVE LateBy(p, f)'
      <4>1. disk[g] = text
        BY <3>4, <1>1, <1>3, <1>7 DEF Settles
      <4>2. <<p, g>> \notin met
        BY <3>4, <1>3, <1>2
      <4> QED BY <4>1, <4>2, <2>9, <3>4, <2>2, <2>4 DEF LateBy
    <3> QED BY <3>1, <3>2, <3>3, <3>4
  <2>11. Progress(job[p]) /\ (\A f \in Files : <<p, f>> \notin met) => Progress(job[p])'
    <3> SUFFICES ASSUME Progress(job[p]), \A f \in Files : <<p, f>> \notin met PROVE Progress(job[p])'
      OBVIOUS
    <3>1. Outside(job[p]) /\ Inside(job[p]) /\ Present(job[p]) /\ Anew(job[p]) /\ Found' = Found
      BY <1>1, <1>8 DEF Progress, Found
    <3>2. disk[g] = text /\ <<p, g>> \notin met
      BY <3>1, <1>1, <1>3, <1>7 DEF Present
    <3>3. Outside(job[p])'
      BY <3>1, <1>1, <2>2, <2>4, <1>8, <1>2 DEF Outside
    <3>4. Inside(job[p])'
      <4>1. ASSUME NEW f \in Found, f # g, f \notin job[p].todo
            PROVE  Current(f)' /\ (job[p].op = "rebuild" => f \notin torn')
        BY <4>1, <3>1, <1>3, <1>8, <2>6 DEF Inside, Current, Found
      <4>2. Current(g)' /\ g \notin torn'
        BY <3>2, <2>9, <2>6
      <4> QED BY <4>1, <4>2, <3>1, <2>2, <2>4 DEF Inside
    <3>5. Present(job[p])' /\ Anew(job[p])'
      BY <3>1, <2>2, <2>4, <1>8 DEF Present, Anew
    <3> QED BY <3>3, <3>4, <3>5, <2>2, <2>4 DEF Progress
  <2>12. job[p] # Idle
    BY <1>1 DEF Idle
  <2> QED BY WorkKeeps, <2>2, <2>3, <1>16, <1>14, <1>9, <1>8, <2>5, <2>6, <2>7, <2>8, <2>10, <2>11, <2>12
<1> QED BY <1>18, <1>19

(* An entry that has gone is deleted, and its rows before it.              *)
LEMMA DeleteTableKeeps ==
    ASSUME IndexInv, NEW p \in Procs, DeleteTable(p)
    PROVE  IndexInv'
<1>1. job[p] \in Jobs /\ Shaped(job[p]) /\ job[p].at = "delete"
  BY JobFacts DEF DeleteTable
<1>2. /\ job[p].file \in Files /\ job[p].id # 0 /\ job[p].id \in FileIds /\ job[p].read = Gone
      /\ "files" \in job[p].tables /\ job[p].tables \subseteq All
      /\ \A d \in job[p].drop : d.file # job[p].file
  BY <1>1 DEF Shaped, Jobs
<1>3. PICK g \in Files : g = job[p].file
  BY <1>2
<1>4. PICK i \in FileIds : i = job[p].id
  BY <1>2
<1>5. \A f \in Files : /\ Handles(job[p], f) <=> f = g \/ \E d \in job[p].drop : d.file = f
                       /\ ~Listed(job[p], f)
                       /\ OfOwnFile(job[p], f) <=> f = g /\ job[p].op \notin Builds
  BY <1>1, <1>3 DEF Handles, Listed, OfOwnFile
<1>6. \A f \in Files : entry[f] # NoEntry /\ entry[f].id = i => f = g
  BY <1>3, <1>4 DEF IndexInv, OwnersInv, Owns
<1>7. PICK table : table = First(DeleteOrder, job[p].tables)
  OBVIOUS
<1>8. table \in job[p].tables /\ table \in All /\ (table = "files" <=> job[p].tables = {"files"})
  BY <1>7, <1>2, FilesComeLast
<1>9. /\ Erase(table, {i}) /\ UNCHANGED <<disk, watcher, pending, quiet>>
  BY <1>4, <1>7 DEF DeleteTable, Silent, watching
<1>10. IdsKept(p) /\ Untouched(p) /\ Orphans'
  <2>1. \A f \in Files : entry[f] # NoEntry /\ entry[f].id \in {i} => Handles(job[p], f)
    BY <1>5, <1>6
  <2>2. {i} \in SUBSET FileIds
    OBVIOUS
  <2> QED BY <2>1, <2>2, <1>9, <1>8, ErasedDatabase
<1>11. /\ rows' \in [Tables -> [FileIds -> [Texts -> Nat]]]
       /\ entry' \in [Files -> Entries \cup {NoEntry}]
       /\ \A f \in Files : entry'[f] =
             IF table = "files" /\ entry[f] # NoEntry /\ entry[f].id = i THEN NoEntry ELSE entry[f]
       /\ \A t \in Tables, n \in FileIds : n # i => rows'[t][n] = rows[t][n]
  <2>1. {i} \in SUBSET FileIds
    OBVIOUS
  <2> QED BY <2>1, <1>9, <1>8, ErasedRows DEF IndexInv
<1>12. \A f \in Files : entry'[f] # NoEntry =>
          /\ entry'[f] = entry[f] /\ entry[f].id \in FileIds
          /\ entry[f].id # i => \A t \in Tables : rows'[t][entry[f].id] = rows[t][entry[f].id]
  <2>1. \A f \in Files : entry[f] # NoEntry => entry[f].id \in FileIds
    BY DEF IndexInv, IndexTypes, Entries
  <2> QED BY <2>1, <1>11
<1>13. <<p, g>> \notin met => entry[g] # NoEntry /\ entry[g].id = i
  BY <1>1, <1>3, <1>4 DEF IndexInv, SoloInv, Knows
(* An entry that is not the one to be deleted.                             *)
<1>14. ASSUME NEW f \in Files, f \notin torn, entry'[f] # NoEntry, entry[f].id # i,
              Alone(p), \A q \in Procs : ~Half(job[q], f)'
       PROVE  Whole(f)'
  <2>1. entry'[f] = entry[f]
    BY <1>12, <1>14
  <2>2. ~Half(job[p], f)
    BY <1>1, <1>4, <1>14 DEF Half
  <2>3. \A q \in Procs \ {p} : ~Half(job[q], f)
    BY <2>1, <1>14 DEF Half, Alone
  <2>4. Whole(f)
    BY <2>1, <2>2, <2>3, <1>14 DEF IndexInv, WholeInv
  <2> QED BY <2>1, <2>4, <1>12, <1>14 DEF Whole
<1>15. job[p] # Idle
  BY <1>1 DEF Idle
<1>16. CASE table # "files"
  <2>1. PICK k : k = [job[p] EXCEPT !.tables = @ \ {table}]
    OBVIOUS
  <2>2. /\ k \in Jobs /\ k.op = job[p].op /\ k.file = job[p].file /\ k.read = job[p].read
        /\ k.id = job[p].id /\ k.drop = job[p].drop /\ k.todo = job[p].todo /\ k.at = "delete"
        /\ k.tables = job[p].tables \ {table}
    BY <2>1, <1>1 DEF Jobs
  <2>3. Goto(p, k) /\ UNCHANGED history
    BY <2>1, <1>7, <1>8, <1>16, <1>2 DEF DeleteTable
  <2>4. Shaped(k)
    BY <1>1, <1>2, <1>16, <2>2 DEF Shaped, Idle
  <2>5. job'[p] = k /\ Alone(p)
    BY <2>2, <2>3, Goes
  <2>6. \A f \in Files : entry'[f] = entry[f]
    BY <1>11, <1>16
  <2>7. IdsFrom(p)
    BY <2>2, <2>5 DEF IdsFrom
  <2>8. \A f \in Files : /\ Handles(k, f) <=> Handles(job[p], f)
                         /\ ~Listed(k, f) /\ ~Listed(job[p], f)
                         /\ OfOwnFile(k, f) => OfOwnFile(job[p], f)
    BY <1>1, <2>2 DEF Handles, Listed, OfOwnFile
  <2>9. MetStep(p) /\ HistoryTypes'
    BY <2>3, <2>5, <2>8, GoesOn
  <2>10. met' = met /\ torn' = torn /\ late' = late
    BY <2>3 DEF history
  <2>11. Solo(p)'
    BY <1>1, <2>2, <2>5, <2>6, <2>10 DEF IndexInv, SoloInv, Solo, Knows, KnowsDrops
  <2>12. \A f \in Files : Handles(job[p], f) => WholeFile(f)'
    <3> SUFFICES ASSUME NEW f \in Files, f \notin torn', entry'[f] # NoEntry,
                        \A q \in Procs : ~Half(job[q], f)'
                 PROVE  Whole(f)'
      BY DEF WholeFile
    <3>1. k.tables # All
      BY <2>2, <1>8
    <3>2. ~(f = g /\ entry[f].id = i)
      <4>1. ~Half(job[p], f)'
        OBVIOUS
      <4> QED BY <4>1, <3>1, <2>2, <2>5, <2>6, <1>3, <1>4 DEF Half
    <3>3. entry[f].id # i
      BY <3>2, <1>6, <2>6
    <3> QED BY <3>3, <1>14, <2>5, <2>10
  <2>13. LateStep(p)
    BY <1>1, <1>9, <2>2, <2>5, <2>6, <2>8, <2>10 DEF LateStep, LateBy, ToldBy, Settles, Current
  <2>14. Progress(job[p]) => Progress(job[p])'
    <3> SUFFICES ASSUME Progress(job[p]) PROVE Progress(job[p])'
      OBVIOUS
    <3>1. Outside(job[p]) /\ Inside(job[p]) /\ Present(job[p]) /\ Anew(job[p]) /\ Found' = Found
      BY <1>1, <1>9 DEF Progress, Found
    <3>2. Outside(job[p])'
      BY <3>1, <1>1, <2>2, <2>5, <2>6 DEF Outside
    <3>3. Inside(job[p])'
      BY <3>1, <1>9, <2>2, <2>5, <2>6, <2>10 DEF Inside, Current, Found
    <3>4. Present(job[p])' /\ Anew(job[p])'
      BY <3>1, <2>2, <2>5, <2>6 DEF Present, Anew
    <3> QED BY <3>2, <3>3, <3>4, <2>2, <2>5 DEF Progress
  <2> QED BY WorkKeeps, <2>2, <2>3, <2>4, <2>7, <2>9, <2>11, <2>12, <2>13, <2>14, <1>9, <1>10, <1>11, <1>15
<1>17. CASE table = "files"
  <2>1. PICK k : k = NextFile(job[p])
    OBVIOUS
  <2>2. /\ k \in Jobs /\ Shaped(k) /\ k.at = "next" /\ k.op = job[p].op /\ k.file = NoFile
        /\ k.id = 0 /\ k.drop = job[p].drop /\ k.todo = job[p].todo
        /\ \A f \in Files : /\ Handles(k, f) <=> \E d \in job[p].drop : d.file = f
                            /\ ~Listed(k, f) /\ ~OfOwnFile(k, f)
    BY <1>1, <2>1, NextFileOf
  <2>3. \A f \in Files : Handles(k, f) <=> Handles(job[p], f) /\ f # g
    BY <2>2, <1>3, <1>2, <1>5
  <2>4. Goto(p, k) /\ Complete(p, TRUE)
    BY <2>1, <1>7, <1>8, <1>17 DEF DeleteTable
  <2>5. job'[p] = k /\ Alone(p)
    BY <2>2, <2>4, Goes
  <2>6. IdsFrom(p)
    BY <2>2, <2>5 DEF IdsFrom
  <2>7. /\ MetStep(p) /\ HistoryTypes'
        /\ \A f \in Files : f # g =>
              /\ (f \in torn' <=> f \in torn) /\ (f \in late' <=> f \in late)
              /\ <<p, f>> \in met' <=> <<p, f>> \in met
        /\ g \in torn' <=> g \in torn /\ ~(<<p, g>> \notin met)
        /\ g \in late' <=> g \in late /\ ~(<<p, g>> \notin met /\ job[p].read = disk[g])
    BY <2>2, <2>3, <2>4, <2>5, <1>2, <1>3, <1>5, Completes
  <2>8. \A f \in Files : f # g => entry'[f] = entry[f]
    BY <1>11, <1>6
  <2>9. <<p, g>> \notin met \/ entry[g] = NoEntry => entry'[g] = NoEntry
    BY <1>11, <1>13, <1>17
  <2>10. Solo(p)'
    <3>1. \A f \in Files : Knows(k, f)'
      BY <2>2, IndexFiles DEF Knows
    <3>2. ASSUME NEW f \in Files, <<p, f>> \notin met' PROVE KnowsDrops(k, f)'
      <4>1. CASE f = g
        BY <4>1, <2>2, <1>3, <1>2 DEF KnowsDrops
      <4>2. CASE f # g
        <5>1. KnowsDrops(job[p], f)
          BY <4>2, <3>2, <2>7 DEF IndexInv, SoloInv
        <5> QED BY <5>1, <4>2, <2>2, <2>8 DEF KnowsDrops
      <4> QED BY <4>1, <4>2
    <3> QED BY <3>1, <3>2, <2>5 DEF Solo, Knows, KnowsDrops
  <2>11. \A f \in Files : Handles(job[p], f) => WholeFile(f)'
    <3> SUFFICES ASSUME NEW f \in Files, f \notin torn', entry'[f] # NoEntry,
                        \A q \in Procs : ~Half(job[q], f)'
                 PROVE  Whole(f)'
      BY DEF WholeFile
    <3>1. entry[f].id # i
      BY <1>11, <1>17
    <3>2. f \notin torn
      BY <2>7, <2>9
    <3> QED BY <3>1, <3>2, <1>14, <2>5
  <2>12. LateStep(p)
    <3> SUFFICES ASSUME NEW f \in Files \ Ignored, f \notin late'
                 PROVE  /\ f \in late => Current(f)' /\ f = g
                        /\ ToldBy(p, f) => ToldBy(p, f)'
                        /\ Handles(job[p], f) /\ Settles(job[p], f) /\ f \notin late => LateBy(p, f)'
                        /\ ~Handles(job[p], f) /\ Current(f) => LateBy(p, f)'
      BY <2>3, <2>5 DEF LateStep
    <3>1. disk[g] = Gone /\ entry'[g] = NoEntry => Current(g)'
      BY <1>9 DEF Current
    <3>2. f \in late => Current(f)' /\ f = g
      BY <2>7, <2>9, <3>1, <1>2
    <3>3. ToldBy(p, f) => ToldBy(p, f)'
      BY <1>1, <2>2, <2>5 DEF ToldBy
    <3>4. ASSUME ~Handles(job[p], f), Current(f) PROVE LateBy(p, f)'
      <4>1. f # g
        BY <3>4, <1>5
      <4> QED BY <4>1, <3>4, <2>3, <2>8, <2>5, <1>9 DEF LateBy, Current
    <3>5. ASSUME f = g, Settles(job[p], f), f \notin late PROVE LateBy(p, f)'
      <4>1. disk[g] = Gone
        BY <3>5, <1>1, <1>3 DEF Settles
      <4>2. job[p].op \in Builds => entry[g] = NoEntry
        BY <3>5, <1>1, <1>3 DEF Settles
      <4>3. job[p].op \notin Builds => <<p, g>> \notin met
        BY <3>5, <1>5 DEF IndexInv, MetInv
      <4> QED BY <4>1, <4>2, <4>3, <2>9, <3>1, <3>5, <2>3, <2>5 DEF LateBy
    <3>6. ASSUME f # g, Handles(job[p], f), Settles(job[p], f) PROVE LateBy(p, f)'
      <4>1. disk[f] = Gone /\ entry[f] = NoEntry
        BY <3>6, <1>5 DEF Settles
      <4>2. Settles(job[p], f)'
        BY <4>1, <3>6, <2>8, <2>2, <2>5, <1>9, IndexFiles DEF Settles
      <4> QED BY <4>2, <3>6, <2>3, <2>5 DEF LateBy
    <3> QED BY <3>2, <3>3, <3>4, <3>5, <3>6
  <2>13. Progress(job[p]) /\ (\A f \in Files : <<p, f>> \notin met) => Progress(job[p])'
    <3> SUFFICES ASSUME Progress(job[p]), \A f \in Files : <<p, f>> \notin met PROVE Progress(job[p])'
      OBVIOUS
    <3>1. Outside(job[p]) /\ Inside(job[p]) /\ Present(job[p]) /\ Anew(job[p]) /\ Found' = Found
      BY <1>1, <1>9 DEF Progress, Found
    <3>2. entry'[g] = NoEntry /\ g \notin Found
      BY <3>1, <2>9, <1>1, <1>3 DEF Outside
    <3>3. Outside(job[p])'
      BY <3>1, <3>2, <1>3, <2>8, <2>2, <2>5 DEF Outside
    <3>4. Inside(job[p])'
      BY <3>1, <3>2, <1>9, <1>3, <2>8, <2>2, <2>5, <2>7 DEF Inside, Current, Found
    <3>5. Present(job[p])'
      BY <2>2, <2>5 DEF Present
    <3>6. Anew(job[p])'
      BY <3>1, <3>2, <2>8, <2>2, <2>5 DEF Anew
    <3> QED BY <3>3, <3>4, <3>5, <3>6, <2>2, <2>5 DEF Progress
  <2> QED BY WorkKeeps, <2>2, <2>4, <2>6, <2>7, <2>10, <2>11, <2>12, <2>13, <1>9, <1>10, <1>11, <1>15
<1> QED BY <1>16, <1>17

(* The whole index is cleared, the entries last.                           *)
LEMMA ClearAllKeeps ==
    ASSUME IndexInv, NEW p \in Procs, ClearAll(p)
    PROVE  IndexInv'
<1>1. job[p] \in Jobs /\ Shaped(job[p]) /\ job[p].at = "clear"
  BY JobFacts DEF ClearAll
<1>2. /\ job[p].file = NoFile /\ job[p].id = 0 /\ job[p].drop = {} /\ job[p].todo = {}
      /\ "files" \in job[p].tables /\ job[p].tables \subseteq All /\ job[p].read = Gone
      /\ job[p].op \in Builds
  BY <1>1 DEF Shaped, Jobs
<1>3. \A f \in Files : /\ Handles(job[p], f) /\ ~Listed(job[p], f) /\ ~OfOwnFile(job[p], f)
  BY <1>1, <1>2, IndexFiles DEF Handles, Listed, OfOwnFile
<1>4. PICK table : table = First(ClearOrder, job[p].tables)
  OBVIOUS
<1>5. table \in job[p].tables /\ table \in All /\ (table = "files" <=> job[p].tables = {"files"})
  BY <1>4, <1>2, FilesComeLast
<1>6. (job[p].tables = {table}) <=> (table = "files")
  BY <1>5, <1>2
<1>7. PICK k : k = [job[p] EXCEPT !.tables = @ \ {table}, !.at = IF table = "files" THEN "list" ELSE "clear"]
  OBVIOUS
<1>8. /\ k \in Jobs /\ k.op = job[p].op /\ k.file = NoFile /\ k.read = Gone
      /\ k.id = 0 /\ k.drop = {} /\ k.todo = {}
      /\ k.at = IF table = "files" THEN "list" ELSE "clear"
      /\ k.tables = job[p].tables \ {table}
  BY <1>1, <1>7, <1>2 DEF Jobs, Stages
<1>9. /\ Erase(table, FileIds) /\ UNCHANGED <<disk, watcher, pending, quiet>>
      /\ Goto(p, k) /\ torn' = torn
      /\ late' = IF table = "files" THEN late \cup {f \in Files : disk[f] # Gone} ELSE late
      /\ met' = IF table = "files" THEN met \ ({p} \X Files) ELSE met
  <2>1. /\ Erase(table, FileIds) /\ Silent /\ torn' = torn
        /\ Goto(p, [job[p] EXCEPT !.tables = @ \ {table},
                             !.at = IF job[p].tables = {table} THEN "list" ELSE "clear"])
        /\ late' = IF job[p].tables = {table} THEN late \cup {f \in Files : disk[f] # Gone} ELSE late
        /\ met' = IF job[p].tables = {table} THEN met \ ({p} \X Files) ELSE met
    BY <1>4 DEF ClearAll
  <2> QED BY <2>1, <1>7, <1>6 DEF Silent, watching
<1>10. Shaped(k)
  BY <1>1, <1>8, <1>2 DEF Shaped, Idle
<1>11. job'[p] = k /\ Alone(p)
  BY <1>8, <1>9, Goes
<1>12. IdsKept(p) /\ Untouched(p) /\ Orphans'
  <2>1. FileIds \in SUBSET FileIds
    OBVIOUS
  <2> QED BY <2>1, <1>9, <1>5, <1>3, ErasedDatabase
<1>13. /\ rows' \in [Tables -> [FileIds -> [Texts -> Nat]]]
       /\ entry' \in [Files -> Entries \cup {NoEntry}]
       /\ \A f \in Files : entry'[f] = IF table = "files" THEN NoEntry ELSE entry[f]
  <2>1. FileIds \in SUBSET FileIds
    OBVIOUS
  <2>2. \A f \in Files : entry[f] # NoEntry => entry[f].id \in FileIds
    BY DEF IndexInv, IndexTypes, Entries
  <2> QED BY <2>1, <2>2, <1>9, <1>5, ErasedRows DEF IndexInv
<1>14. IdsFrom(p)
  BY <1>8, <1>11 DEF IdsFrom
<1>15. Solo(p)'
  BY <1>8, <1>11, IndexFiles DEF Solo, Knows, KnowsDrops
<1>16. job[p] # Idle
  BY <1>1 DEF Idle
<1>17. CASE table # "files"
  <2>1. UNCHANGED history
    BY <1>9, <1>17 DEF history
  <2>2. \A f \in Files : Handles(k, f) /\ ~Listed(k, f) /\ ~OfOwnFile(k, f)
    BY <1>8, <1>17, IndexFiles DEF Handles, Listed, OfOwnFile
  <2>3. MetStep(p) /\ HistoryTypes'
    BY <2>1, <2>2, <1>11, <1>3, GoesOn
  <2>4. \A f \in Files : Handles(job[p], f) => WholeFile(f)'
    <3>1. \A f \in Files : Half(job[p], f)'
      <4>1. k.tables # All
        BY <1>8, <1>5
      <4> QED BY <4>1, <1>8, <1>11, <1>17 DEF Half
    <3> QED BY <3>1 DEF WholeFile
  <2>5. LateStep(p)
    <3>1. \A f \in Files : Settles(job[p], f) => Settles(job[p], f)'
      BY <1>1, <1>8, <1>9, <1>11, <1>13, <1>17, IndexFiles DEF Settles, Current
    <3>2. \A f \in Files : ~ToldBy(p, f)
      BY <1>1, <1>2 DEF ToldBy
    <3> QED BY <3>1, <3>2, <2>2, <1>3, <1>9, <1>11, <1>17 DEF LateStep, LateBy
  <2>6. Progress(job[p])'
    BY <1>8, <1>11, <1>17 DEF Progress
  <2> QED BY WorkKeeps, <1>8, <1>9, <1>10, <1>12, <1>13, <1>14, <1>15, <1>16, <2>3, <2>4, <2>5, <2>6
<1>18. CASE table = "files"
  <2>1. \A f \in Files : ~Handles(k, f) /\ ~Listed(k, f) /\ ~OfOwnFile(k, f)
    BY <1>8, <1>18, IndexFiles DEF Handles, Listed, OfOwnFile
  <2>2. HistoryTypes'
    BY <1>9 DEF HistoryTypes, IndexInv, IndexTypes
  <2>3. MetStep(p)
    <3>1. \A q \in Procs, f \in Files : <<q, f>> \in met' <=> <<q, f>> \in met /\ q # p
      BY <1>9, <1>18
    <3>2. late \subseteq late' /\ torn' = torn
      BY <1>9
    <3> QED BY <3>1, <3>2, <2>1, <1>11 DEF MetStep
  <2>4. \A f \in Files : Handles(job[p], f) => WholeFile(f)'
    BY <1>13, <1>18 DEF WholeFile
  <2>5. LateStep(p)
    <3>1. \A f \in Files : f \notin late' => f \notin late /\ Current(f)'
      BY <1>9, <1>13, <1>18 DEF Current
    <3>2. \A f \in Files : ~ToldBy(p, f)
      BY <1>1, <1>2 DEF ToldBy
    <3> QED BY <3>1, <3>2, <2>1, <1>11 DEF LateStep, LateBy
  <2>6. Progress(job[p])'
    BY <1>8, <1>11, <1>13, <1>18 DEF Progress
  <2> QED BY WorkKeeps, <1>8, <1>9, <1>10, <1>12, <1>13, <1>14, <1>15, <1>16, <2>2, <2>3, <2>4, <2>5, <2>6
<1> QED BY <1>17, <1>18

-----------------------------------------------------------------------------

(* What the commands do besides: nothing that the invariant is about.      *)
LEMMA NothingChanges ==
    ASSUME IndexInv, watcher' \in Watchers \cup {NoWatcher},
           UNCHANGED <<disk, database, job, pending, history, quiet>>
    PROVE  IndexInv'
<1>1. /\ disk' = disk /\ entry' = entry /\ rows' = rows /\ job' = job /\ pending' = pending
      /\ met' = met /\ torn' = torn /\ late' = late /\ quiet' = quiet
  BY DEF database, history
<1> USE DEF IndexInv
<1>2. IndexTypes'
  BY <1>1 DEF IndexTypes
<1>3. JobsInv' /\ OwnersInv' /\ MetInv'
  BY <1>1 DEF JobsInv, OwnersInv, MetInv, Owns
<1>4. SoloInv' /\ WholeInv'
  BY <1>1 DEF SoloInv, WholeInv, Knows, KnowsDrops, Half, Whole, LiveIds
<1>5. LateInv'
  BY <1>1 DEF LateInv, Told, ToldBy, Settles, Current
<1>6. BuildInv'
  BY <1>1 DEF BuildInv, Progress, Outside, Inside, Present, Anew, Found, Current
<1> QED BY <1>2, <1>3, <1>4, <1>5, <1>6

(* A thread without a job handles nothing.                                 *)
LEMMA IdleFacts ==
    /\ Idle \in Jobs /\ Shaped(Idle) /\ Idle.at = "idle" /\ Idle.op = "none" /\ Idle.file = NoFile
    /\ Idle.id = 0 /\ Idle.drop = {} /\ Idle.todo = {} /\ Idle.read = Gone
    /\ \A f \in Files : ~Handles(Idle, f) /\ ~Listed(Idle, f) /\ ~OfOwnFile(Idle, f)
<1>1. /\ Idle \in Jobs /\ Idle.at = "idle" /\ Idle.op = "none" /\ Idle.file = NoFile
      /\ Idle.id = 0 /\ Idle.drop = {} /\ Idle.todo = {} /\ Idle.read = Gone
  BY DEF Idle, Jobs, Stages, Contents
<1>2. Shaped(Idle)
  BY <1>1 DEF Shaped
<1>3. \A f \in Files : ~Handles(Idle, f) /\ ~Listed(Idle, f) /\ ~OfOwnFile(Idle, f)
  BY <1>1, IndexFiles DEF Handles, Listed, OfOwnFile
<1> QED BY <1>1, <1>2, <1>3

(* A file changes.                                                         *)
LEMMA ChangeKeeps ==
    ASSUME IndexInv, NEW g \in Files, NEW text \in Contents, Edit(g, text)
    PROVE  IndexInv'
<1> USE DEF IndexInv
<1>1. /\ disk' = [disk EXCEPT ![g] = text] /\ quiet' = FALSE
      /\ entry' = entry /\ rows' = rows /\ job' = job /\ watcher' = watcher
      /\ met' = met /\ torn' = torn
      /\ \/ /\ watcher # NoWatcher
            /\ pending' = [pending EXCEPT ![watcher] = @ \cup {g}] /\ late' = late
         \/ late' = late \cup {g} /\ pending' = pending
  BY DEF Edit, database
<1>2. IndexTypes'
  <2>1. disk' \in [Files -> Contents]
    BY <1>1 DEF IndexTypes
  <2>2. pending' \in [Watchers -> SUBSET Files] /\ late' \subseteq Files
    BY <1>1 DEF IndexTypes
  <2> QED BY <2>1, <2>2, <1>1 DEF IndexTypes
<1>3. JobsInv' /\ OwnersInv'
  BY <1>1 DEF JobsInv, OwnersInv, Owns
<1>4. SoloInv' /\ WholeInv'
  BY <1>1 DEF SoloInv, WholeInv, Knows, KnowsDrops, Half, Whole, LiveIds
<1>5. late \subseteq late'
  BY <1>1
<1>6. MetInv'
  BY <1>1, <1>5 DEF MetInv
<1>7. BuildInv'
  BY <1>1 DEF BuildInv
<1>8. /\ \A w \in Watchers : pending[w] \subseteq pending'[w]
      /\ g \in late' \/ \E w \in Watchers : g \in pending'[w]
      /\ \A f \in Files : f # g => disk'[f] = disk[f]
  BY <1>1 DEF IndexTypes
<1>9. LateInv'
  <2> SUFFICES ASSUME NEW f \in Files \ Ignored, f \notin late' PROVE LateFile(f)'
    BY DEF LateInv, LateFile
  <2>1. CASE f = g
    BY <2>1, <1>8 DEF LateFile, Told
  <2>2. CASE f # g
    <3>1. disk'[f] = disk[f] /\ f \notin late
      BY <2>2, <1>5, <1>8
    <3>2. Told(f) => Told(f)'
      BY <1>1, <1>8 DEF Told, ToldBy
    <3>3. Current(f)' <=> Current(f)
      BY <3>1, <1>1 DEF Current
    <3>4. \A p \in Procs : Settles(job[p], f) => Settles(job[p], f)'
      BY <3>1, <3>3, <1>1 DEF Settles
    <3>5. \A p \in Procs : Handles(job'[p], f) <=> Handles(job[p], f)
      BY <1>1
    <3> QED BY <3>1, <3>2, <3>3, <3>4, <3>5 DEF LateInv, LateFile
  <2> QED BY <2>1, <2>2
<1> QED BY <1>2, <1>3, <1>4, <1>6, <1>7, <1>9

(* A watcher's thread ends, and drops what is pending.                     *)
LEMMA EndThreadKeeps ==
    ASSUME IndexInv, NEW w \in Watchers, EndThread(w)
    PROVE  IndexInv'
<1> USE DEF IndexInv
<1>1. /\ disk' = disk /\ entry' = entry /\ rows' = rows /\ job' = job /\ watcher' = watcher
      /\ met' = met /\ torn' = torn /\ quiet' = quiet
      /\ late' = late \cup pending[w] /\ pending' = [pending EXCEPT ![w] = {}]
  BY DEF EndThread, database
<1>2. IndexTypes'
  BY <1>1 DEF IndexTypes
<1>3. JobsInv' /\ OwnersInv'
  BY <1>1 DEF JobsInv, OwnersInv, Owns
<1>4. SoloInv' /\ WholeInv'
  BY <1>1 DEF SoloInv, WholeInv, Knows, KnowsDrops, Half, Whole, LiveIds
<1>5. late \subseteq late'
  BY <1>1
<1>6. MetInv'
  BY <1>1, <1>5 DEF MetInv
<1>7. BuildInv'
  BY <1>1 DEF BuildInv, Progress, Outside, Inside, Present, Anew, Found, Current
<1>8. LateInv'
  <2> SUFFICES ASSUME NEW f \in Files \ Ignored, f \notin late' PROVE LateFile(f)'
    BY DEF LateInv, LateFile
  <2>1. f \notin late /\ f \notin pending[w]
    BY <1>1
  <2>2. \A v \in Watchers : f \in pending[v] => f \in pending'[v]
    BY <2>1, <1>1 DEF IndexTypes
  <2>3. Told(f) => Told(f)'
    BY <2>2, <1>1 DEF Told, ToldBy
  <2>4. Current(f)' <=> Current(f)
    BY <1>1 DEF Current
  <2>5. \A p \in Procs : Settles(job[p], f) => Settles(job[p], f)'
    BY <2>4, <1>1 DEF Settles
  <2>6. \A p \in Procs : Handles(job'[p], f) <=> Handles(job[p], f)
    BY <1>1
  <2> QED BY <2>1, <2>3, <2>4, <2>5, <2>6 DEF LateInv, LateFile
<1> QED BY <1>2, <1>3, <1>4, <1>6, <1>7, <1>8

(* The program ends: every thread leaves its file as it is.                *)
LEMMA ExitKeeps ==
    ASSUME IndexInv, Exit
    PROVE  IndexInv'
<1> USE DEF IndexInv
<1>1. /\ disk' = disk /\ entry' = entry /\ rows' = rows
      /\ job' = [p \in Procs |-> Idle] /\ watcher' = NoWatcher
      /\ pending' = [w \in Watchers |-> {}]
      /\ met' = {} /\ quiet' = FALSE
      /\ torn' = torn \cup UNION {HalfWritten(job[p]) : p \in Procs}
      /\ late' = late \cup ({job[p].file : p \in Procs} \ {NoFile})
                    \cup UNION {pending[w] \cup job[w].todo : w \in Watchers}
  BY DEF Exit, database
<1>2. /\ \A p \in Procs : job'[p] = Idle
      /\ \A p \in Procs : job[p] \in Jobs
      /\ torn \subseteq torn' /\ late \subseteq late'
  BY <1>1 DEF IndexTypes
<1>3. \A p \in Procs, f \in Files : f \in HalfWritten(job[p]) => f \in torn'
  BY <1>1
<1>4. \A p \in Procs, f \in Files : job[p].file = f => f \in late'
  BY <1>1, IndexFiles
<1>5. \A w \in Watchers, f \in Files : f \in pending[w] \/ f \in job[w].todo => f \in late'
  BY <1>1
<1>6. IndexTypes'
  <2>1. torn' \subseteq Files
    BY <1>1 DEF IndexTypes, HalfWritten
  <2>2. late' \subseteq Files
    BY <1>1 DEF IndexTypes, Jobs, Procs
  <2>3. job' \in [Procs -> Jobs]
    BY <1>1, IdleFacts
  <2> QED BY <2>1, <2>2, <2>3, <1>1 DEF IndexTypes
<1>7. JobsInv'
  BY <1>2, IdleFacts DEF JobsInv, Procs, Builds
<1>8. OwnersInv'
  <2>1. \A f \in Files : entry[f] # NoEntry => entry[f].id # 0
    BY DEF IndexTypes, Entries, FileIds
  <2> QED BY <2>1, <1>1, <1>2, IdleFacts DEF OwnersInv, Owns
<1>9. MetInv'
  BY <1>1, <1>2, IdleFacts DEF MetInv
<1>10. SoloInv'
  BY <1>2, IdleFacts, IndexFiles DEF SoloInv, Knows, KnowsDrops
<1>11. WholeInv'
  <2>1. ASSUME NEW f \in Files, f \notin torn', entry[f] # NoEntry PROVE Whole(f)
    <3>1. ASSUME NEW p \in Procs PROVE ~Half(job[p], f)
      <4>1. f \notin HalfWritten(job[p])
        BY <1>3, <2>1
      <4> QED BY <4>1, <2>1 DEF Half, HalfWritten, All
    <3> QED BY <3>1, <2>1, <1>2 DEF WholeInv
  <2>2. Orphans
    BY DEF WholeInv, Orphans
  <2> QED BY <2>1, <2>2, <1>1 DEF WholeInv, Whole, Orphans, LiveIds
<1>12. BuildInv'
  BY <1>1 DEF BuildInv
<1>13. LateInv'
  <2> SUFFICES ASSUME NEW f \in Files \ Ignored, f \notin late' PROVE Current(f)'
    BY <1>2, IdleFacts DEF LateInv
  <2>1. ~Told(f)
    BY <1>4, <1>5 DEF Told, ToldBy
  <2>2. \A p \in Procs : Handles(job[p], f) /\ Settles(job[p], f) => Current(f)
    BY <1>4 DEF Handles, Settles, Current
  <2>3. Current(f)
    BY <2>1, <2>2, <1>2 DEF LateInv
  <2> QED BY <2>3, <1>1 DEF Current
<1> QED BY <1>6, <1>7, <1>8, <1>9, <1>10, <1>11, <1>12, <1>13

(* A command begins: a refresh, a rebuild, or the update of one file.      *)
LEMMA StartBuildKeeps ==
    ASSUME IndexInv, NEW op \in Builds, StartBuild(op), UNCHANGED <<watcher, pending>>
    PROVE  IndexInv'
<1> USE DEF IndexInv
<1>1. Command \in Procs /\ Command \notin Watchers /\ job[Command] = Idle
  BY IndexThreads DEF Procs, StartBuild
<1>2. PICK k : k = [Idle EXCEPT !.op = op,
           !.at = IF op = "rebuild" THEN "clear" ELSE "list",
           !.tables = IF op = "rebuild" THEN Tables \cup {"files"} ELSE {}]
  OBVIOUS
<1>3. /\ k \in Jobs /\ k.op = op /\ k.at = (IF op = "rebuild" THEN "clear" ELSE "list")
      /\ k.file = NoFile /\ k.read = Gone /\ k.id = 0 /\ k.drop = {} /\ k.todo = {}
      /\ k.tables = IF op = "rebuild" THEN All ELSE {}
  BY <1>2 DEF Idle, Jobs, Stages, Contents, All
<1>4. /\ Goto(Command, k) /\ UNCHANGED database /\ disk' = disk
      /\ quiet' = \A w \in Watchers : job[w] = Idle
      /\ IF op = "rebuild" THEN Begin(Command, Files) ELSE UNCHANGED history
  BY <1>2 DEF StartBuild, Goto, watching
<1>5. Shaped(k)
  <2>1. k.at = "clear" => "files" \in k.tables
    BY <1>3 DEF All
  <2> QED BY <1>3, <2>1 DEF Shaped, Idle
<1>6. job'[Command] = k /\ Alone(Command) /\ job' \in [Procs -> Jobs]
  BY <1>1, <1>3, <1>4, Goes
<1>7. /\ IdsKept(Command) /\ Untouched(Command) /\ Orphans' /\ entry' = entry /\ rows' = rows
  BY <1>1, <1>4, SameDatabase
<1>8. IdsFrom(Command)
  BY <1>3, <1>6 DEF IdsFrom
<1>9. \A f \in Files : /\ Handles(k, f) <=> op = "rebuild"
                       /\ ~Handles(job[Command], f) /\ ~Listed(job[Command], f)
                       /\ ~Listed(k, f) /\ ~OfOwnFile(k, f)
  BY <1>1, <1>3, IdleFacts, IndexFiles DEF Handles, Listed, OfOwnFile
<1>10. MetStep(Command) /\ HistoryTypes' /\ late \subseteq late'
  <2>1. CASE op = "rebuild"
    <3>1. Files \in SUBSET Files /\ Begin(Command, Files)
      BY <2>1, <1>4
    <3> QED BY <3>1, <2>1, <1>1, <1>6, <1>9, Begins
  <2>2. CASE op # "rebuild"
    <3>1. UNCHANGED history
      BY <2>2, <1>4
    <3>2. MetStep(Command) /\ HistoryTypes'
      BY <3>1, <2>2, <1>1, <1>6, <1>9, GoesOn
    <3> QED BY <3>1, <3>2 DEF history
  <2> QED BY <2>1, <2>2
<1>11. IndexTypes'
  <2>1. quiet' \in BOOLEAN
    BY <1>4
  <2> QED BY <2>1, <1>4, <1>6, <1>7, <1>10 DEF IndexTypes, HistoryTypes
<1>12. Solo(Command)'
  BY <1>3, <1>6, IndexFiles DEF Solo, Knows, KnowsDrops
<1>13. \A f \in Files : Handles(job[Command], f) => WholeFile(f)'
  BY <1>9
<1>14. LateStep(Command)
  <2>1. \A f \in Files : ~ToldBy(Command, f)
    BY <1>1, IdleFacts DEF ToldBy
  <2>2. ASSUME NEW f \in Files, Current(f) PROVE LateBy(Command, f)'
    <3>1. Current(f)'
      BY <2>2, <1>4, <1>7 DEF Current
    <3>2. CASE op = "rebuild"
      <4>1. Settles(job[Command], f)'
        BY <3>1, <3>2, <1>3, <1>6, IndexFiles DEF Settles
      <4> QED BY <4>1, <3>2, <1>6, <1>9 DEF LateBy
    <3>3. CASE op # "rebuild"
      BY <3>1, <3>3, <1>6, <1>9 DEF LateBy
    <3> QED BY <3>2, <3>3
  <2> QED BY <2>1, <2>2, <1>9, <1>10 DEF LateStep
<1>15. BuildInv'
  <2> SUFFICES ASSUME quiet'
               PROVE  /\ \A w \in Watchers : job'[w] = Idle
                      /\ \A f \in Files : <<Command, f>> \notin met'
                      /\ Progress(job[Command])'
    BY DEF BuildInv
  <2>1. \A w \in Watchers : job[w] = Idle
    BY <1>4
  <2>2. \A q \in Procs \ {Command}, f \in Files : ~Handles(job[q], f)
    BY <2>1, IdleFacts DEF Procs
  <2>3. \A f \in Files : <<Command, f>> \notin met
    BY <1>1, <1>9 DEF MetInv
  <2>4. \A f \in Files : <<Command, f>> \notin met'
    BY <2>2, <2>3, <1>10 DEF MetStep
  <2>5. Progress(job[Command])'
    BY <1>3, <1>6 DEF Progress
  <2>6. \A w \in Watchers : job'[w] = Idle
    BY <2>1, <1>1, <1>6 DEF Alone, Procs
  <2> QED BY <2>4, <2>5, <2>6
<1>16. PendingKept
  BY DEF PendingKept, Told
<1> QED BY StepKeeps, <1>1, <1>4, <1>5, <1>6, <1>7, <1>8, <1>10, <1>11, <1>12, <1>13, <1>14, <1>15, <1>16

(* A job with files to look at begins.                                     *)
LEMMA TakesUp ==
    ASSUME IndexInv, NEW p \in Procs, NEW op \in {"update", "flush"}, NEW fs \in SUBSET Files,
           job[p] = Idle,
           job' = [job EXCEPT ![p] = [Idle EXCEPT !.op = op, !.at = "next", !.todo = fs]],
           UNCHANGED <<disk, database, watcher, history>>,
           pending' \in [Watchers -> SUBSET Files],
           \A w \in Watchers, f \in Files :
              f \in pending[w] => f \in pending'[w] \/ (p \in Watchers /\ f \in fs),
           quiet' \in {quiet, FALSE}, p \in Watchers => quiet' = FALSE
    PROVE  IndexInv'
<1> USE DEF IndexInv
<1>1. PICK k : k = [Idle EXCEPT !.op = op, !.at = "next", !.todo = fs]
  OBVIOUS
<1>2. /\ k \in Jobs /\ k.op = op /\ k.at = "next"
      /\ k.file = NoFile /\ k.read = Gone /\ k.id = 0 /\ k.drop = {} /\ k.todo = fs
  BY <1>1 DEF Idle, Jobs, Stages, Contents
<1>3. Goto(p, k) /\ UNCHANGED database /\ UNCHANGED history /\ op \notin Builds
  BY <1>1 DEF Goto, Builds
<1>4. Shaped(k)
  BY <1>2 DEF Shaped, Idle
<1>5. job'[p] = k /\ Alone(p) /\ job' \in [Procs -> Jobs]
  BY <1>2, <1>3, Goes
<1>6. /\ IdsKept(p) /\ Untouched(p) /\ Orphans' /\ entry' = entry /\ rows' = rows
  BY <1>3, SameDatabase
<1>7. IdsFrom(p)
  BY <1>2, <1>5 DEF IdsFrom
<1>8. \A f \in Files : /\ ~Handles(k, f) /\ ~Handles(job[p], f) /\ ~Listed(job[p], f)
                       /\ ~Listed(k, f) /\ ~OfOwnFile(k, f)
  BY <1>2, IdleFacts, IndexFiles DEF Handles, Listed, OfOwnFile
<1>9. MetStep(p) /\ HistoryTypes'
  BY <1>3, <1>5, <1>8, GoesOn
<1>10. IndexTypes'
  <2>1. quiet' \in BOOLEAN
    BY DEF IndexTypes
  <2> QED BY <2>1, <1>5, <1>6, <1>9 DEF IndexTypes, HistoryTypes
<1>11. Solo(p)'
  BY <1>2, <1>5, IndexFiles DEF Solo, Knows, KnowsDrops
<1>12. \A f \in Files : Handles(job[p], f) => WholeFile(f)'
  BY <1>8
<1>13. LateStep(p)
  <2>1. \A f \in Files : ~ToldBy(p, f)
    BY IdleFacts DEF ToldBy
  <2>2. ASSUME NEW f \in Files, Current(f) PROVE LateBy(p, f)'
    <3>1. Current(f)'
      BY <2>2, <1>6 DEF Current
    <3> QED BY <3>1, <1>5, <1>8 DEF LateBy
  <2>3. late' = late
    BY DEF history
  <2> QED BY <2>1, <2>2, <2>3, <1>8 DEF LateStep
<1>14. BuildInv'
  <2>1. CASE p \in Watchers
    BY <2>1 DEF BuildInv
  <2>2. CASE p = Command
    BY <2>2, <1>2, <1>3, <1>5 DEF BuildInv
  <2> QED BY <2>1, <2>2 DEF Procs
<1>15. PendingKept
  <2> SUFFICES ASSUME NEW f \in Files, NEW w \in Watchers, f \in pending[w] PROVE Told(f)'
    BY DEF PendingKept
  <2>1. CASE f \in pending'[w]
    BY <2>1 DEF Told
  <2>2. CASE p \in Watchers /\ f \in fs
    <3>1. ToldBy(p, f)'
      BY <2>2, <1>2, <1>5 DEF ToldBy
    <3> QED BY <3>1 DEF Told
  <2> QED BY <2>1, <2>2
<1>16. p \in Watchers => job'[p].op \notin Builds
  BY <1>2, <1>3, <1>5
<1> QED BY StepKeeps, <1>2, <1>4, <1>5, <1>6, <1>7, <1>9, <1>10, <1>11, <1>12, <1>13, <1>14, <1>15, <1>16

(* The editor has saved a file.                                            *)
LEMMA UpdateFileKeeps ==
    ASSUME IndexInv, NEW f \in Files, UpdateFile(f)
    PROVE  IndexInv'
<1>1. /\ job[Command] = Idle /\ Command \in Procs /\ Command \notin Watchers
      /\ job' = [job EXCEPT ![Command] = [Idle EXCEPT !.op = "update", !.at = "next", !.todo = {f}]]
      /\ UNCHANGED <<disk, database, watcher, history>> /\ pending' = pending /\ quiet' = quiet
  BY IndexThreads DEF UpdateFile, watching, Procs
<1>2. pending' \in [Watchers -> SUBSET Files]
  BY <1>1 DEF IndexInv, IndexTypes
<1>3. {f} \in SUBSET Files
  OBVIOUS
<1> QED BY TakesUp, <1>1, <1>2, <1>3

(* The watcher's thread takes up what it was told of.                      *)
LEMMA FlushKeeps ==
    ASSUME IndexInv, NEW w \in Watchers, Flush(w)
    PROVE  IndexInv'
<1>1. /\ job[w] = Idle /\ w \in Procs /\ quiet' = FALSE
      /\ job' = [job EXCEPT ![w] = [Idle EXCEPT !.op = "flush", !.at = "next", !.todo = pending[w]]]
      /\ UNCHANGED <<disk, database, watcher, history>>
      /\ pending' = [pending EXCEPT ![w] = {}]
  BY DEF Flush, Procs
<1>2. pending \in [Watchers -> SUBSET Files]
  BY DEF IndexInv, IndexTypes
<1>3. /\ pending[w] \in SUBSET Files
      /\ pending' \in [Watchers -> SUBSET Files]
      /\ \A v \in Watchers, f \in Files :
            f \in pending[v] => f \in pending'[v] \/ (w \in Watchers /\ f \in pending[w])
  BY <1>1, <1>2
<1> QED BY TakesUp, <1>1, <1>3

-----------------------------------------------------------------------------

(* The index is empty at first, and every file is late.                    *)
LEMMA IndexInitially ==
    ASSUME IndexInit PROVE IndexInv
<1>1. /\ disk \in [Files -> Contents] /\ entry = [f \in Files |-> NoEntry]
      /\ rows = [t \in Tables |-> [i \in FileIds |-> NoRows]]
      /\ job = [p \in Procs |-> Idle] /\ watcher = NoWatcher
      /\ pending = [w \in Watchers |-> {}]
      /\ met = {} /\ torn = {} /\ quiet = FALSE
      /\ late = {f \in Files : disk[f] # Gone}
  BY FirstFiles DEF IndexInit
<1>2. IndexTypes
  <2>1. rows \in [Tables -> [FileIds -> [Texts -> Nat]]]
    BY <1>1 DEF NoRows
  <2> QED BY <2>1, <1>1, IdleFacts DEF IndexTypes
<1>3. \A p \in Procs : job[p] = Idle
  BY <1>1
<1>4. JobsInv
  BY <1>3, IdleFacts DEF JobsInv, Procs, Builds
<1>5. OwnersInv /\ MetInv /\ SoloInv
  BY <1>1, <1>3, IdleFacts, IndexFiles DEF OwnersInv, Owns, MetInv, SoloInv, Knows, KnowsDrops
<1>6. WholeInv /\ BuildInv
  BY <1>1 DEF WholeInv, BuildInv
<1>7. LateInv
  BY <1>1, <1>3, IdleFacts DEF LateInv, Current
<1> QED BY <1>2, <1>4, <1>5, <1>6, <1>7 DEF IndexInv

(* Every step keeps the invariant.                                         *)
LEMMA IndexSteps ==
    ASSUME IndexInv, [IndexNext]_indexVars PROVE IndexInv'
<1> DEFINE Same == watcher' \in Watchers \cup {NoWatcher}
                   /\ UNCHANGED <<disk, database, job, pending, history, quiet>>
<1>1. CASE UNCHANGED indexVars
  <2>1. Same
    BY <1>1 DEF indexVars, watching, IndexInv, IndexTypes
  <2> QED BY <2>1, NothingChanges
<1>2. CASE Open \/ Stats \/ StatsFail \/ StartWatching \/ Leave
  <2>1. Same
    BY <1>2 DEF Open, Stats, StatsFail, StartWatching, Leave, watching, IndexInv, IndexTypes
  <2> QED BY <2>1, NothingChanges
<1>3. ASSUME NEW f \in Files, NEW text \in Contents, Edit(f, text) PROVE IndexInv'
  BY <1>3, ChangeKeeps
<1>4. CASE Exit
  BY <1>4, ExitKeeps
<1>5. CASE FirstBuild
  BY <1>5, StartBuildKeeps DEF FirstBuild, StartBuild, watching, Builds
<1>6. ASSUME NEW op \in {"refresh", "rebuild"}, BuildAgain(op) PROVE IndexInv'
  BY <1>6, StartBuildKeeps DEF BuildAgain, StartBuild, watching, Builds
<1>7. ASSUME NEW f \in Files, UpdateFile(f) PROVE IndexInv'
  BY <1>7, UpdateFileKeeps
<1>8. ASSUME NEW w \in Watchers, Flush(w) \/ EndThread(w) PROVE IndexInv'
  BY <1>8, FlushKeeps, EndThreadKeeps
<1>9. ASSUME NEW p \in Procs, Work(p) PROVE IndexInv'
  BY <1>9, ClearAllKeeps, ListIndexedKeeps, WalkKeeps, PickLostKeeps, FinishKeeps, PickFileKeeps,
     ReadFileKeeps, CannotReadKeeps, SkipFileKeeps, LookUpKeeps, UpsertKeeps, SelectIdKeeps,
     WipeTableKeeps, FillTableKeeps, InsertRefusedKeeps, FindRowKeeps, DeleteTableKeeps DEF Work
<1>10. ASSUME NEW p \in Procs, Fail(p) PROVE IndexInv'
  BY <1>10, FailKeeps
<1> QED BY <1>1, <1>2, <1>3, <1>4, <1>5, <1>6, <1>7, <1>8, <1>9, <1>10 DEF IndexNext

(* The invariant holds in every state: what each thread may rely on        *)
(* between two SQL statements of index_manager.rs and index_db.rs,         *)
(* whatever the other threads, the editor and faults do meanwhile.         *)
THEOREM IndexInvariant == IndexSpec => []IndexInv
BY IndexInitially, IndexSteps, PTL DEF IndexSpec

(* An entry that no thread is at and that was not left half written or     *)
(* written by two has exactly the rows of the text whose hash it stores;   *)
(* and the rows of every id that is not in indexed_files are gone, however *)
(* build, update_file and the watcher's threads interleave their           *)
(* statements.                                                             *)
THEOREM EntriesWhole == IndexSpec => []EntriesAreWhole
<1>1. ASSUME IndexInv PROVE EntriesAreWhole
  <2>1. \A p \in Procs, f \in Files : Half(job[p], f) => Handles(job[p], f)
    BY <1>1, HalfIsHandled DEF IndexInv, IndexTypes
  <2> QED BY <1>1, <2>1 DEF EntriesAreWhole, IndexInv, WholeInv
<1> QED BY <1>1, IndexInvariant, PTL

(* The index shows the present text of every file that is not ignored,     *)
(* unless a thread is at it or has been told of it, its change came while  *)
(* no watcher was installed or was dropped with one, its update was given  *)
(* up, or two threads met at it.                                           *)
THEOREM IndexCurrent == IndexSpec => []IndexIsCurrent
<1>1. ASSUME IndexInv PROVE IndexIsCurrent
  BY <1>1 DEF IndexIsCurrent, IndexInv, LateInv, Told, ToldBy
<1> QED BY <1>1, IndexInvariant, PTL

(* When an undisturbed build_index_inner has gone through its files, the   *)
(* index is that of the disk; a rebuild leaves every entry whole, and a    *)
(* refresh all those that were not left half written.                      *)
THEOREM Repairs == IndexSpec => []BuildsRepair
<1>1. ASSUME IndexInv PROVE BuildsRepair
  <2> SUFFICES ASSUME quiet, job[Command].op \in Builds, job[Command].at = "next",
                      job[Command].drop = {}, job[Command].todo = {}, NEW f \in Files
               PROVE  /\ IF f \in Ignored THEN entry[f] = NoEntry ELSE Current(f)
                      /\ entry[f] # NoEntry /\ (job[Command].op = "rebuild" \/ f \notin torn) => Whole(f)
    BY DEF BuildsRepair
  <2>1. /\ \A w \in Watchers : job[w] = Idle
        /\ Outside(job[Command]) /\ Inside(job[Command])
    BY <1>1 DEF IndexInv, BuildInv, Progress
  <2>2. job[Command].file = NoFile
    BY <1>1, JobFacts DEF Shaped, Procs
  <2>3. f \notin Found => entry[f] = NoEntry
    BY <2>1 DEF Outside
  <2>4. f \in Found => Current(f) /\ (job[Command].op = "rebuild" => f \notin torn)
    BY <2>1, <2>2, IndexFiles DEF Inside
  <2>5. IF f \in Ignored THEN entry[f] = NoEntry ELSE Current(f)
    BY <2>3, <2>4 DEF Found, Current
  <2>6. ASSUME entry[f] # NoEntry, f \notin torn PROVE Whole(f)
    <3>1. \A p \in Procs : ~Half(job[p], f)
      BY <2>1, IdleFacts DEF Half, Procs
    <3> QED BY <3>1, <2>6, <1>1 DEF IndexInv, WholeInv
  <2> QED BY <2>3, <2>4, <2>5, <2>6
<1> QED BY <1>1, IndexInvariant, PTL
=============================================================================
