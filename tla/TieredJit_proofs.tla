-------------------------- MODULE TieredJit_proofs --------------------------
(***************************************************************************)
(* Compiled code.  Caches: whatever processes write, remove, evict or edit *)
(* at once, a compilation returns whole code of its build for its model.   *)
(* Tiers: a run calls its own code and climbs one tier at a time, and no   *)
(* thread compiles with another's settings, for any number of runs, threads*)
(* and refusals and any threshold.                                         *)
(***************************************************************************)

EXTENDS TieredJit, CompileCache, SequenceTheorems, TLAPS

-----------------------------------------------------------------------------
(***************************************************************************)
(*                                THE CACHES                               *)
(***************************************************************************)
(* The inductive invariant: what is in the caches belongs to its key, and  *)
(* a compilation knows where its key, its sources and its code come from.  *)

Sources(n) == [id: 0..n, layout: 0..n]
Disks(n) == [near: Sources(n) \cup {Absent}, far: Sources(n)]

Bundles == [file: {"near", "far"}, source: Sources(MaxEdits),
            dep: Sources(MaxEdits) \cup {Absent}, key: CodegenKeys, edited: BOOLEAN]

ObjectFiles == [id: Int, layout: Int, build: Nat, size: Int, whole: BOOLEAN]

Pcs == {"idle", "load", "readEntry", "readObject", "removeObject", "removeEntry", "generate",
        "emptyObject", "fillObject", "emptyEntry", "fillEntry", "finish", "done"}

Compilations == [pc: Pcs, bundle: Bundles \cup {Nothing}, key: CodegenKeys \cup {Nothing},
                 file: {"near", "far", Nothing}, source: Sources(MaxEdits) \cup {Nothing},
                 seen: Disks(MaxEdits) \cup {Nothing}, epoch: Disks(MaxEdits) \cup {Nothing},
                 size: Nat, code: ObjectFiles \cup {Nothing}]

(* A source at or before the last edit.  A time that is over does not      *)
(* return: the file found first is another one now, or there was none.     *)
Lapsed(d) == d.near # disk.near

\* What the caches know of a bundle under an artifact key, for a build.
GoodBundle(bundle, key, b) ==
  /\ bundle \in Bundles
  /\ key \in Disks(edits)
  /\ bundle.key.build = b
  /\ bundle.key.layout = bundle.source.layout
  /\ ~bundle.edited => /\ bundle.dep = bundle.source
                       /\ bundle.file = "far" => key.near = Absent \/ Lapsed(key)

GoodEntries(b) == {e \in [key: Disks(edits), bundle: Bundles] : GoodBundle(e.bundle, e.key, b)}

DiskInv ==
  /\ edits \in 0..MaxEdits
  /\ disk \in Disks(edits)
  /\ build \in [Procs -> 1..MaxBuilds]
  /\ libEpoch \in [Procs -> Disks(edits) \cup {Nothing}]

BundleInv ==
  /\ DOMAIN lru = Procs
  /\ \A p \in Procs : lru[p] \in Seq(GoodEntries(build[p]))
  /\ \A key \in DOMAIN rows : GoodBundle(rows[key].bundle, key, rows[key].build)

\* A whole object file of a key.
Proper(file, key) ==
  /\ file \in ObjectFiles
  /\ file.whole /\ file.size > 0 /\ file.layout = key.layout /\ file.build = key.build

FileInv ==
  /\ objects \in [CodegenKeys -> [object: ObjectFiles, entry: Nat]]
  /\ \A key \in CodegenKeys \ clashed :
       objects[key].object \in {Missing, Empty} \/ Proper(objects[key].object, key)

\* A bundle is of the file as it is, and of the file the name stands for.
OfTheModel(c) ==
  /\ c.seen[c.bundle.file] = c.bundle.source
  /\ c.epoch = c.seen => c.bundle.file = ModelFile(c.seen)

\* What a compilation knows of where it found the model.
OriginOf(c, b) ==
  c.pc \notin {"idle", "load"} =>
    /\ c.key \in CodegenKeys /\ c.key.build = b
    /\ c.seen \in Disks(edits)
    /\ c.bundle # Nothing => /\ c.key.layout = c.bundle.source.layout
                             /\ ~c.bundle.edited => OfTheModel(c)
    /\ c.bundle = Nothing => /\ c.file = ModelFile(c.seen)
                             /\ c.source = c.seen[c.file] /\ c.source \in Sources(MaxEdits)
                             /\ c.key.layout = c.source.layout

\* What it knows of its code.
CodeInv(c) ==
  /\ c.pc \in {"generate", "emptyObject", "finish"} \cup Writing => c.bundle = Nothing
  /\ c.pc = "readObject" => c.size > 0
  /\ c.pc \in {"emptyObject"} \cup Writing => Proper(c.code, c.key)
  /\ c.pc \in {"finish", "done"} /\ c.key \notin clashed =>
       c.code.whole /\ c.code.layout = c.key.layout /\ c.code.build = c.key.build

CompilationInv ==
  /\ procs \in [Procs -> Compilations]
  /\ \A p \in Procs : OriginOf(procs[p], build[p]) /\ CodeInv(procs[p])

\* Two that write under a key at once write the same code, and what is written
\* over is no other.
WriterInv ==
  /\ \A p, q \in Procs : procs[p].pc \in Writing /\ procs[q].pc \in Writing
        /\ procs[p].key = procs[q].key /\ procs[p].key \notin clashed
           => procs[p].code = procs[q].code
  /\ \A p \in Procs : procs[p].pc = "fillObject" /\ procs[p].key \notin clashed =>
        objects[procs[p].key].object \in {Missing, Empty, procs[p].code}

CacheInv ==
  /\ DiskInv
  /\ BundleInv
  /\ FileInv
  /\ CompilationInv
  /\ WriterInv

-----------------------------------------------------------------------------
LEMMA AbsentIsNoSource == \A n \in Nat : Absent \notin Sources(n)
BY DEF Absent, Sources

LEMMA SourcesGrow ==
  ASSUME NEW m \in Nat, NEW n \in Nat, m <= n
  PROVE  Sources(m) \subseteq Sources(n) /\ Disks(m) \subseteq Disks(n)
<1>1. Sources(m) \subseteq Sources(n)
  BY DEF Sources
<1>2. QED
  BY <1>1 DEF Disks

LEMMA EditsBound ==
  ASSUME DiskInv
  PROVE  /\ edits \in Nat /\ MaxEdits \in Nat
         /\ Sources(edits) \subseteq Sources(MaxEdits)
         /\ Disks(edits) \subseteq Disks(MaxEdits)
<1>1. edits \in Nat /\ MaxEdits \in Nat /\ edits <= MaxEdits
  BY CacheBounds DEF DiskInv
<1>2. QED
  BY <1>1, SourcesGrow

\* The name stands for a file that is there.
LEMMA ModelIsThere ==
  ASSUME NEW n \in Nat, NEW d \in Disks(n)
  PROVE  /\ ModelFile(d) \in {"near", "far"}
         /\ d[ModelFile(d)] \in Sources(n)
         /\ ModelFile(d) = "far" <=> d.near = Absent
BY DEF ModelFile, Disks

LEMMA SequencesWiden ==
  ASSUME NEW S, NEW T, S \subseteq T, NEW s \in Seq(S)
  PROVE  s \in Seq(T)
BY SeqDef

-----------------------------------------------------------------------------
(* Lookups and stores.                                                     *)
GoodRows(stored) == \A key \in DOMAIN stored : GoodBundle(stored[key].bundle, key, stored[key].build)

LEMMA PrunedIsGood ==
  ASSUME BundleInv, NEW stored \in Pruned
  PROVE  GoodRows(stored)
<1>1. PICK kept \in SUBSET DOMAIN rows : stored = Restrict(rows, kept)
  BY DEF Pruned
<1>2. DOMAIN stored = kept /\ \A key \in kept : stored[key] = rows[key]
  BY <1>1 DEF Restrict
<1>3. QED
  BY <1>1, <1>2 DEF BundleInv, GoodRows

LEMMA LookupIsGood ==
  ASSUME BundleInv, NEW p \in Procs, NEW key, NEW stored, GoodRows(stored),
         Lookup(p, key, stored) # Nothing
  PROVE  GoodBundle(Lookup(p, key, stored), key, build[p])
<1>1. CASE Kept(p, key) # {}
  <2>1. PICK i : i = CHOOSE j \in Kept(p, key) : TRUE
    OBVIOUS
  <2>2. i \in DOMAIN lru[p] /\ lru[p][i].key = key
    BY <1>1, <2>1 DEF Kept
  <2>3. lru[p][i] \in GoodEntries(build[p])
    BY <2>2, ElementOfSeq DEF BundleInv
  <2>4. Lookup(p, key, stored) = lru[p][i].bundle
    BY <1>1, <2>1 DEF Lookup
  <2>5. QED
    BY <2>2, <2>3, <2>4 DEF GoodEntries
<1>2. CASE Kept(p, key) = {}
  <2>1. key \in DOMAIN stored /\ stored[key].build = build[p]
    BY <1>2 DEF Lookup
  <2>2. QED
    BY <1>2, <2>1 DEF Lookup, GoodRows
<1>3. QED
  BY <1>1, <1>2

LEMMA Promoted ==
  ASSUME BundleInv, NEW p \in Procs, NEW key, NEW bundle, GoodBundle(bundle, key, build[p]),
         Promote(p, key, bundle)
  PROVE  /\ DOMAIN lru' = Procs
         /\ \A q \in Procs : lru'[q] \in Seq(GoodEntries(build[q]))
<1>1. PICK S : S = GoodEntries(build[p])
  OBVIOUS
<1>2. PICK e : e = [key |-> key, bundle |-> bundle]
  OBVIOUS
<1>3. e \in S
  BY <1>1, <1>2 DEF GoodEntries, GoodBundle
<1>4. PICK old : old = lru[p]
  OBVIOUS
<1>5. old \in Seq(S)
  BY <1>1, <1>4 DEF BundleInv
<1>6. PICK others : others = IF Kept(p, key) = {} THEN old
                             ELSE RemoveAt(old, CHOOSE i \in Kept(p, key) : TRUE)
  OBVIOUS
<1>7. others \in Seq(S)
  <2>1. CASE Kept(p, key) = {}
    BY <1>5, <1>6, <2>1
  <2>2. CASE Kept(p, key) # {}
    <3>1. PICK i : i = CHOOSE j \in Kept(p, key) : TRUE
      OBVIOUS
    <3>2. i \in 1..Len(old) /\ Len(old) \in Nat
      BY <1>4, <1>5, <2>2, <3>1, LenProperties DEF Kept
    <3>3. SubSeq(old, 1, i - 1) \in Seq(S) /\ SubSeq(old, i + 1, Len(old)) \in Seq(S)
      <4>1. \A j \in 1..(i - 1) : j \in 1..Len(old)
        BY <3>2
      <4>2. \A j \in (i + 1)..Len(old) : j \in 1..Len(old)
        BY <3>2
      <4>3. i - 1 \in Int /\ i + 1 \in Int /\ Len(old) \in Int
        BY <3>2
      <4>4. QED
        BY <1>5, <3>2, <4>1, <4>2, <4>3, SubSeqProperties
    <3>4. others = SubSeq(old, 1, i - 1) \o SubSeq(old, i + 1, Len(old))
      BY <1>6, <2>2, <3>1 DEF RemoveAt
    <3>5. QED
      BY <3>3, <3>4, ConcatProperties
  <2>3. QED
    BY <2>1, <2>2
<1>8. PICK full : full = Append(others, e)
  OBVIOUS
<1>9. full \in Seq(S) /\ full # << >>
  BY <1>3, <1>7, <1>8, AppendProperties
<1>10. Tail(full) \in Seq(S)
  BY <1>9, HeadTailProperties
<1>11. PICK new : new = IF Len(full) > LruCap THEN Tail(full) ELSE full
  OBVIOUS
<1>12. lru' = [lru EXCEPT ![p] = new]
  BY <1>2, <1>4, <1>6, <1>8, <1>11 DEF Promote
<1>13. new \in Seq(S)
  BY <1>9, <1>10, <1>11
<1>14. QED
  BY <1>1, <1>12, <1>13 DEF BundleInv

-----------------------------------------------------------------------------
(* What a step leaves of each part of the invariant.                       *)

LEMMA GoodStays ==
  ASSUME edits' = edits, disk' = disk, NEW bundle, NEW key, NEW b, GoodBundle(bundle, key, b)
  PROVE  GoodBundle(bundle, key, b)'
BY DEF GoodBundle, Lapsed

LEMMA EntriesStay ==
  ASSUME edits' = edits, disk' = disk, NEW b
  PROVE  GoodEntries(b)' = GoodEntries(b)
BY DEF GoodEntries, GoodBundle, Lapsed

LEMMA BundlesStay ==
  ASSUME BundleInv, UNCHANGED <<edits, disk, build, lru, rows>>
  PROVE  BundleInv'
<1>1. \A b : GoodEntries(b)' = GoodEntries(b)
  BY EntriesStay
<1>2. \A p \in Procs : lru'[p] \in Seq(GoodEntries(build[p])')
  BY <1>1 DEF BundleInv
<1>3. \A key \in DOMAIN rows : GoodBundle(rows[key].bundle, key, rows[key].build)'
  BY GoodStays DEF BundleInv
<1>4. QED
  BY <1>2, <1>3 DEF BundleInv

LEMMA DiskStays ==
  ASSUME DiskInv, UNCHANGED <<edits, disk, build, libEpoch>>
  PROVE  DiskInv'
BY DEF DiskInv

\* Object files are emptied or removed, if anything.
Fades == \A key \in CodegenKeys : objects'[key].object \in {objects[key].object, Missing, Empty}

LEMMA FilesFade ==
  ASSUME FileInv, Fades, clashed \subseteq clashed',
         objects' \in [CodegenKeys -> [object: ObjectFiles, entry: Nat]]
  PROVE  FileInv'
<1>1. ASSUME NEW key \in CodegenKeys \ clashed'
      PROVE  objects'[key].object \in {Missing, Empty} \/ Proper(objects'[key].object, key)
  BY <1>1 DEF Fades, FileInv
<1>2. QED
  BY <1>1 DEF FileInv

\* One compilation takes a step.
LEMMA OneCompiles ==
  ASSUME CompilationInv, NEW p \in Procs, NEW c \in Compilations,
         procs' = [procs EXCEPT ![p] = c],
         edits' = edits, build' = build, clashed \subseteq clashed',
         OriginOf(c, build[p]), CodeInv(c)
  PROVE  CompilationInv'
<1>1. procs' \in [Procs -> Compilations] /\ procs'[p] = c
  BY DEF CompilationInv
<1>2. ASSUME NEW q \in Procs
      PROVE  OriginOf(procs[q], build[q])' /\ CodeInv(procs[q])'
  <2>1. procs'[q] = IF q = p THEN c ELSE procs[q]
    BY DEF CompilationInv
  <2>2. PICK d : d = procs'[q]
    OBVIOUS
  <2>3. OriginOf(d, build[q]) /\ CodeInv(d)
    BY <2>1, <2>2 DEF CompilationInv
  <2>4. OriginOf(d, build[q])'
    BY <2>3 DEF OriginOf
  <2>5. CodeInv(d)'
    BY <2>3 DEF CodeInv
  <2>6. QED
    BY <2>2, <2>4, <2>5 DEF OriginOf, CodeInv
<1>3. QED
  BY <1>1, <1>2 DEF CompilationInv

LEMMA CompilationsStay ==
  ASSUME CompilationInv, UNCHANGED <<procs, edits, build, clashed>>
  PROVE  CompilationInv'
BY DEF CompilationInv, OriginOf, CodeInv

\* A compilation that does not write, or goes on writing what it has written.
LEMMA NoNewWriter ==
  ASSUME CompilationInv, WriterInv, NEW p \in Procs, NEW c,
         procs' = [procs EXCEPT ![p] = c], clashed' = clashed, Fades,
         c.pc \in Writing => /\ c.pc # "fillObject" /\ procs[p].pc \in Writing
                             /\ c.key = procs[p].key /\ c.code = procs[p].code
  PROVE  WriterInv'
<1>1. \A q \in Procs : procs'[q] = IF q = p THEN c ELSE procs[q]
  BY DEF CompilationInv
<1>2. \A q \in Procs : procs'[q].pc \in Writing =>
         procs[q].pc \in Writing /\ procs'[q].key = procs[q].key /\ procs'[q].code = procs[q].code
  BY <1>1
<1>3. \A q \in Procs : procs'[q].pc = "fillObject" => procs'[q] = procs[q]
  BY <1>1 DEF Writing
<1>4. ASSUME NEW q \in Procs, NEW r \in Procs, procs'[q].pc \in Writing, procs'[r].pc \in Writing,
             procs'[q].key = procs'[r].key, procs'[q].key \notin clashed'
      PROVE  procs'[q].code = procs'[r].code
  BY <1>2, <1>4 DEF WriterInv
<1>5. ASSUME NEW q \in Procs, procs'[q].pc = "fillObject", procs'[q].key \notin clashed'
      PROVE  objects'[procs'[q].key].object \in {Missing, Empty, procs'[q].code}
  <2>1. procs'[q] = procs[q]
    BY <1>3, <1>5
  <2>2. objects[procs[q].key].object \in {Missing, Empty, procs[q].code}
    BY <1>5, <2>1 DEF WriterInv
  <2>3. procs[q].key \in CodegenKeys
    BY <1>5, <2>1 DEF CompilationInv, OriginOf
  <2>4. QED
    BY <2>1, <2>2, <2>3 DEF Fades
<1>6. QED
  BY <1>4, <1>5 DEF WriterInv

LEMMA WritersStay ==
  ASSUME CompilationInv, WriterInv, procs' = procs, clashed' = clashed, Fades
  PROVE  WriterInv'
<1>1. ASSUME NEW q \in Procs, procs'[q].pc = "fillObject", procs'[q].key \notin clashed'
      PROVE  objects'[procs'[q].key].object \in {Missing, Empty, procs'[q].code}
  <2>1. objects[procs[q].key].object \in {Missing, Empty, procs[q].code}
    BY <1>1 DEF WriterInv
  <2>2. procs[q].key \in CodegenKeys
    BY <1>1 DEF CompilationInv, OriginOf
  <2>3. QED
    BY <2>1, <2>2 DEF Fades
<1>2. QED
  BY <1>1 DEF WriterInv

LEMMA FilesStay ==
  ASSUME FileInv, objects' = objects
  PROVE  /\ Fades
         /\ objects' \in [CodegenKeys -> [object: ObjectFiles, entry: Nat]]
         /\ clashed \subseteq clashed' => FileInv'
<1>1. Fades /\ objects' \in [CodegenKeys -> [object: ObjectFiles, entry: Nat]]
  BY DEF Fades, FileInv
<1>2. QED
  BY <1>1, FilesFade

\* One compilation takes a step and leaves the caches as they are.
LEMMA OnlyCompiles ==
  ASSUME CacheInv, NEW p \in Procs, NEW c \in Compilations,
         procs' = [procs EXCEPT ![p] = c],
         UNCHANGED <<edits, disk, build, libEpoch, lru, rows, objects, clashed>>,
         OriginOf(c, build[p]), CodeInv(c),
         c.pc \in Writing => /\ c.pc # "fillObject" /\ procs[p].pc \in Writing
                             /\ c.key = procs[p].key /\ c.code = procs[p].code
  PROVE  CacheInv'
<1>1. DiskInv' /\ BundleInv'
  BY DiskStays, BundlesStay DEF CacheInv
<1>2. FileInv' /\ Fades
  BY FilesStay DEF CacheInv
<1>3. CompilationInv'
  BY OneCompiles DEF CacheInv
<1>4. WriterInv'
  BY <1>2, NoNewWriter DEF CacheInv
<1>5. QED
  BY <1>1, <1>2, <1>3, <1>4 DEF CacheInv

\* What is known of a compilation that has found its sources.
LEMMA Compiling ==
  ASSUME CacheInv, NEW p \in Procs
  PROVE  /\ procs[p] \in Compilations
         /\ OriginOf(procs[p], build[p]) /\ CodeInv(procs[p])
         /\ edits \in Nat /\ MaxEdits \in Nat /\ build[p] \in 1..MaxBuilds
BY EditsBound DEF CacheInv, CompilationInv, DiskInv

LEMMA LoadModelPreserves ==
  ASSUME CacheInv, NEW p \in Procs, LoadModel(p)
  PROVE  CacheInv'
<1>1. PICK file : file = ModelFile(disk)
  OBVIOUS
<1>2. edits \in Nat /\ disk \in Disks(edits) /\ build[p] \in 1..MaxBuilds
  BY EditsBound DEF CacheInv, DiskInv
<1>3. file \in {"near", "far"} /\ disk[file] \in Sources(edits)
  BY <1>1, <1>2, ModelIsThere
<1>4. PICK source \in Sources(MaxEdits) : source = disk[file]
  BY <1>3, EditsBound DEF CacheInv
<1>5. CodegenKey(source, build[p]) \in CodegenKeys
  BY <1>2, <1>4 DEF CodegenKey, CodegenKeys, Sources
<1>6. PICK c : c = [Idle EXCEPT !.pc = "readEntry", !.key = CodegenKey(source, build[p]),
                       !.file = file, !.source = source, !.seen = disk]
  OBVIOUS
<1>7. /\ c.pc = "readEntry" /\ c.bundle = Nothing /\ c.key = CodegenKey(source, build[p])
      /\ c.file = file /\ c.source = source /\ c.seen = disk
  BY <1>6 DEF Idle
<1>8. c \in Compilations
  <2>1. disk \in Disks(MaxEdits)
    BY <1>2, EditsBound DEF CacheInv
  <2>2. QED
    BY <1>3, <1>5, <1>6, <2>1 DEF Compilations, Pcs, Idle
<1>9. OriginOf(c, build[p])
  BY <1>1, <1>2, <1>4, <1>5, <1>7 DEF OriginOf, CodegenKey
<1>10. CodeInv(c)
  BY <1>7 DEF CodeInv, Writing
<1>11. procs' = [procs EXCEPT ![p] = c]
  BY <1>1, <1>4, <1>6 DEF LoadModel
<1>12. QED
  BY <1>7, <1>8, <1>9, <1>10, <1>11, OnlyCompiles DEF LoadModel, caches, Writing

\* A compilation goes on to a step at which less, or as much, is known of it.
LEMMA MovesOn ==
  ASSUME CacheInv, NEW p \in Procs, NEW pc \in Pcs, NEW c, c = [procs[p] EXCEPT !.pc = pc],
         procs[p].pc \notin {"idle", "load"} \/ pc \in {"idle", "load"},
         pc \in {"generate", "finish"} => procs[p].bundle = Nothing,
         pc \notin {"readObject", "emptyObject", "done"} \cup Writing,
         pc = "finish" => procs[p].pc \in {"emptyObject"} \cup Writing
  PROVE  /\ c \in Compilations /\ OriginOf(c, build[p]) /\ CodeInv(c)
         /\ c.pc \notin Writing
<1>1. procs[p] \in Compilations /\ OriginOf(procs[p], build[p]) /\ CodeInv(procs[p])
  BY Compiling
<1>2. /\ c.pc = pc /\ c.bundle = procs[p].bundle /\ c.key = procs[p].key
      /\ c.file = procs[p].file /\ c.source = procs[p].source /\ c.seen = procs[p].seen
      /\ c.epoch = procs[p].epoch /\ c.size = procs[p].size /\ c.code = procs[p].code
  BY <1>1 DEF Compilations
<1>3. c \in Compilations
  BY <1>1 DEF Compilations
<1>4. OriginOf(c, build[p])
  BY <1>1, <1>2 DEF OriginOf, OfTheModel
<1>5. CodeInv(c)
  BY <1>1, <1>2 DEF CodeInv, Proper
<1>6. QED
  BY <1>2, <1>3, <1>4, <1>5

LEMMA MoveToPreserves ==
  ASSUME CacheInv, NEW p \in Procs, NEW pc \in Pcs, MoveTo(p, pc),
         UNCHANGED <<edits, disk, build, libEpoch, lru, rows, objects, clashed>>,
         procs[p].pc \notin {"idle", "load"} \/ pc \in {"idle", "load"},
         pc \in {"generate", "finish"} => procs[p].bundle = Nothing,
         pc \notin {"readObject", "emptyObject", "done"} \cup Writing,
         pc = "finish" => procs[p].pc \in {"emptyObject"} \cup Writing
  PROVE  CacheInv'
<1>1. PICK c : c = [procs[p] EXCEPT !.pc = pc]
  OBVIOUS
<1>2. c \in Compilations /\ OriginOf(c, build[p]) /\ CodeInv(c) /\ c.pc \notin Writing
  BY <1>1, MovesOn
<1>3. procs' = [procs EXCEPT ![p] = c]
  BY <1>1 DEF MoveTo
<1>4. QED
  BY <1>2, <1>3, OnlyCompiles

LEMMA MissGoesOn ==
  ASSUME NEW p
  PROVE  /\ AfterMiss(p) \in {"load", "generate"}
         /\ AfterMiss(p) = "generate" => procs[p].bundle = Nothing
BY DEF AfterMiss

LEMMA ReadEntryPreserves ==
  ASSUME CacheInv, NEW p \in Procs, ReadEntry(p)
  PROVE  CacheInv'
<1>1. PICK entry : entry = objects[procs[p].key].entry
  OBVIOUS
<1>2. UNCHANGED <<edits, disk, build, libEpoch, lru, rows, objects, clashed>>
  BY DEF ReadEntry, caches
<1>3. procs[p].pc = "readEntry"
  BY DEF ReadEntry
<1>4. CASE MoveTo(p, AfterMiss(p))
  BY <1>2, <1>3, <1>4, MissGoesOn, MoveToPreserves DEF Pcs, Writing
<1>5. CASE MoveTo(p, "removeObject")
  BY <1>2, <1>3, <1>5, MoveToPreserves DEF Pcs, Writing
<1>6. CASE /\ entry # NoEntry
           /\ procs' = [procs EXCEPT ![p].size = entry, ![p].pc = "readObject"]
  <2>1. PICK c : c = [procs[p] EXCEPT !.size = entry, !.pc = "readObject"]
    OBVIOUS
  <2>2. procs' = [procs EXCEPT ![p] = c]
    BY <1>1, <1>6, <2>1 DEF ReadEntry
  <2>3. procs[p] \in Compilations /\ OriginOf(procs[p], build[p])
    BY Compiling
  <2>4. entry \in Nat /\ entry > 0
    BY <1>1, <1>3, <1>6, <2>3 DEF OriginOf, CacheInv, FileInv, NoEntry
  <2>5. /\ c.pc = "readObject" /\ c.bundle = procs[p].bundle /\ c.key = procs[p].key
        /\ c.file = procs[p].file /\ c.source = procs[p].source /\ c.seen = procs[p].seen
        /\ c.epoch = procs[p].epoch /\ c.size = entry
    BY <2>1, <2>3 DEF Compilations
  <2>6. c \in Compilations
    BY <2>1, <2>3, <2>4 DEF Compilations, Pcs
  <2>7. OriginOf(c, build[p])
    BY <1>3, <2>3, <2>5 DEF OriginOf, OfTheModel
  <2>8. CodeInv(c)
    BY <2>4, <2>5 DEF CodeInv, Writing
  <2>9. QED
    BY <1>2, <2>2, <2>5, <2>6, <2>7, <2>8, OnlyCompiles DEF Writing
<1>7. QED
  BY <1>1, <1>4, <1>5, <1>6 DEF ReadEntry

\* What is known of a compilation that has got its code.
LEMMA CodeIsGot ==
  ASSUME CacheInv, NEW p \in Procs, procs[p].pc \notin {"idle", "load"},
         NEW made \in ObjectFiles,
         procs[p].key \notin clashed => made.whole /\ made.layout = procs[p].key.layout
                                                   /\ made.build = procs[p].key.build,
         NEW pc \in {"finish", "done", "emptyObject"},
         pc # "done" => procs[p].bundle = Nothing,
         pc = "emptyObject" => Proper(made, procs[p].key),
         NEW c, c = [procs[p] EXCEPT !.code = made, !.pc = pc]
  PROVE  c \in Compilations /\ OriginOf(c, build[p]) /\ CodeInv(c) /\ c.pc \notin Writing
<1>1. procs[p] \in Compilations /\ OriginOf(procs[p], build[p])
  BY Compiling
<1>2. /\ c.pc = pc /\ c.bundle = procs[p].bundle /\ c.key = procs[p].key
      /\ c.file = procs[p].file /\ c.source = procs[p].source /\ c.seen = procs[p].seen
      /\ c.epoch = procs[p].epoch /\ c.code = made
  BY <1>1 DEF Compilations
<1>3. c \in Compilations
  BY <1>1 DEF Compilations, Pcs
<1>4. OriginOf(c, build[p])
  BY <1>1, <1>2 DEF OriginOf, OfTheModel
<1>5. CodeInv(c)
  BY <1>2 DEF CodeInv, Writing
<1>6. QED
  BY <1>2, <1>3, <1>4, <1>5 DEF Writing

LEMMA ReadObjectPreserves ==
  ASSUME CacheInv, NEW p \in Procs, ReadObject(p)
  PROVE  CacheInv'
<1>1. PICK object : object = objects[procs[p].key].object
  OBVIOUS
<1>2. UNCHANGED <<edits, disk, build, libEpoch, lru, rows, objects, clashed>>
  BY DEF ReadObject, caches
<1>3. procs[p].pc = "readObject"
  BY DEF ReadObject
<1>4. CASE MoveTo(p, AfterMiss(p))
  BY <1>2, <1>3, <1>4, MissGoesOn, MoveToPreserves DEF Pcs, Writing
<1>5. CASE MoveTo(p, "removeObject")
  BY <1>2, <1>3, <1>5, MoveToPreserves DEF Pcs, Writing
<1>6. CASE object # Missing /\ object.size = procs[p].size /\ Found(p, object)
  <2>1. Found(p, object)
    BY <1>6
  <2>2. PICK pc : pc = IF procs[p].bundle # Nothing THEN "done" ELSE "finish"
    OBVIOUS
  <2>3. PICK c : c = [procs[p] EXCEPT !.code = object, !.pc = pc]
    OBVIOUS
  <2>4. procs' = [procs EXCEPT ![p] = c]
    BY <2>1, <2>2, <2>3 DEF Found
  <2>5. OriginOf(procs[p], build[p]) /\ CodeInv(procs[p]) /\ procs[p].key \in CodegenKeys
    BY <1>3, Compiling DEF OriginOf
  <2>6. object \in ObjectFiles
    BY <1>1, <2>5 DEF CacheInv, FileInv
  <2>7. procs[p].key \notin clashed => Proper(object, procs[p].key)
    <3>1. procs[p].size > 0
      BY <1>3, <2>5 DEF CodeInv
    <3>2. object # Empty
      BY <1>6, <3>1 DEF Empty
    <3>3. QED
      BY <1>1, <1>6, <2>5, <3>2 DEF CacheInv, FileInv
  <2>8. c \in Compilations /\ OriginOf(c, build[p]) /\ CodeInv(c) /\ c.pc \notin Writing
    BY <1>3, <2>2, <2>3, <2>6, <2>7, CodeIsGot DEF Proper
  <2>9. QED
    BY <1>2, <2>4, <2>8, OnlyCompiles
<1>7. QED
  BY <1>1, <1>4, <1>5, <1>6 DEF ReadObject

LEMMA GeneratePreserves ==
  ASSUME CacheInv, NEW p \in Procs, Generate(p)
  PROVE  CacheInv'
<1>1. UNCHANGED <<edits, disk, build, libEpoch, lru, rows, objects, clashed>>
  BY DEF Generate, caches
<1>2. procs[p].pc = "generate"
  BY DEF Generate
<1>3. PICK made : made = CodeOf(procs[p].source, build[p])
  OBVIOUS
<1>4. PICK pc \in {"emptyObject", "finish"} :
         procs' = [procs EXCEPT ![p].code = made, ![p].pc = pc]
  BY <1>3 DEF Generate
<1>5. OriginOf(procs[p], build[p]) /\ procs[p].bundle = Nothing /\ build[p] \in 1..MaxBuilds
  BY <1>2, Compiling DEF CodeInv
<1>6. /\ procs[p].source \in Sources(MaxEdits) /\ procs[p].key.layout = procs[p].source.layout
      /\ procs[p].key.build = build[p]
  BY <1>2, <1>5 DEF OriginOf
<1>7. Proper(made, procs[p].key) /\ made \in ObjectFiles
  <2>1. SizeOf[procs[p].source.id] \in Nat \ {0}
    BY <1>6, CodeHasASize DEF Sources
  <2>2. QED
    BY <1>3, <1>5, <1>6, <2>1, CacheBounds DEF Proper, ObjectFiles, CodeOf, Sources
<1>8. PICK c : c = [procs[p] EXCEPT !.code = made, !.pc = pc]
  OBVIOUS
<1>9. procs' = [procs EXCEPT ![p] = c]
  BY <1>4, <1>8
<1>10. c \in Compilations /\ OriginOf(c, build[p]) /\ CodeInv(c) /\ c.pc \notin Writing
  BY <1>2, <1>4, <1>5, <1>7, <1>8, CodeIsGot DEF Proper
<1>11. QED
  BY <1>1, <1>9, <1>10, OnlyCompiles

LEMMA WriteFailsPreserves ==
  ASSUME CacheInv, NEW p \in Procs, WriteFails(p)
  PROVE  CacheInv'
<1>1. UNCHANGED <<edits, disk, build, libEpoch, lru, rows, objects, clashed>>
  BY DEF WriteFails, caches
<1>2. procs[p].pc \in {"emptyObject"} \cup Writing /\ MoveTo(p, "finish")
  BY DEF WriteFails
<1>3. procs[p].bundle = Nothing
  BY <1>2, Compiling DEF CodeInv
<1>4. QED
  BY <1>1, <1>2, <1>3, MoveToPreserves DEF Pcs, Writing

LEMMA IdleIsFree ==
  ASSUME NEW b
  PROVE  Idle \in Compilations /\ OriginOf(Idle, b) /\ CodeInv(Idle) /\ Idle.pc \notin Writing
<1>1. Idle \in Compilations
  BY DEF Idle, Compilations, Pcs
<1>2. Idle.pc = "idle"
  BY DEF Idle
<1>3. QED
  BY <1>1, <1>2 DEF OriginOf, CodeInv, Writing

LEMMA ReturnPreserves ==
  ASSUME CacheInv, NEW p \in Procs, Return(p)
  PROVE  CacheInv'
<1>1. UNCHANGED <<edits, disk, build, libEpoch, lru, rows, objects, clashed>>
  BY DEF Return, caches
<1>2. procs' = [procs EXCEPT ![p] = Idle]
  BY DEF Return
<1>3. QED
  BY <1>1, <1>2, IdleIsFree, OnlyCompiles

-----------------------------------------------------------------------------
(* Steps that touch the files.                                             *)

\* A file or its entry changes and a compilation takes a step.
LEMMA OneFileFades ==
  ASSUME FileInv, NEW key \in CodegenKeys, NEW file \in [object: ObjectFiles, entry: Nat],
         file.object \in {objects[key].object, Missing, Empty},
         objects' = [objects EXCEPT ![key] = file]
  PROVE  /\ Fades
         /\ objects' \in [CodegenKeys -> [object: ObjectFiles, entry: Nat]]
BY DEF Fades, FileInv

LEMMA NoFiles == Missing \in ObjectFiles /\ Empty \in ObjectFiles /\ NoEntry \in Nat
<1>1. -1 \in Int
  OBVIOUS
<1>2. Empty \in ObjectFiles
  BY <1>1 DEF Empty, ObjectFiles
<1>3. Missing \in ObjectFiles
  BY <1>1, <1>2 DEF Missing, ObjectFiles
<1>4. QED
  BY <1>2, <1>3 DEF NoEntry

LEMMA TouchesFiles ==
  ASSUME CacheInv, NEW p \in Procs, NEW c \in Compilations,
         procs' = [procs EXCEPT ![p] = c],
         UNCHANGED <<edits, disk, build, libEpoch, lru, rows, clashed>>,
         OriginOf(c, build[p]), CodeInv(c),
         c.pc \in Writing => /\ c.pc # "fillObject" /\ procs[p].pc \in Writing
                             /\ c.key = procs[p].key /\ c.code = procs[p].code,
         Fades, objects' \in [CodegenKeys -> [object: ObjectFiles, entry: Nat]]
  PROVE  CacheInv'
<1>1. DiskInv' /\ BundleInv'
  BY DiskStays, BundlesStay DEF CacheInv
<1>2. FileInv'
  BY FilesFade DEF CacheInv
<1>3. CompilationInv'
  BY OneCompiles DEF CacheInv
<1>4. WriterInv'
  BY NoNewWriter DEF CacheInv
<1>5. QED
  BY <1>1, <1>2, <1>3, <1>4 DEF CacheInv

LEMMA RemoveObjectPreserves ==
  ASSUME CacheInv, NEW p \in Procs, RemoveObject(p)
  PROVE  CacheInv'
<1>1. PICK key : key = procs[p].key
  OBVIOUS
<1>2. procs[p].pc = "removeObject" /\ key \in CodegenKeys
  BY <1>1, Compiling DEF RemoveObject, OriginOf
<1>3. PICK file : file = [objects[key] EXCEPT !.object = Missing]
  OBVIOUS
<1>4. objects[key] \in [object: ObjectFiles, entry: Nat]
  BY <1>2 DEF CacheInv, FileInv
<1>5. file \in [object: ObjectFiles, entry: Nat] /\ file.object = Missing
  BY <1>3, <1>4, NoFiles
<1>6. objects' = [objects EXCEPT ![key] = file]
  BY <1>1, <1>3 DEF RemoveObject
<1>7. Fades /\ objects' \in [CodegenKeys -> [object: ObjectFiles, entry: Nat]]
  BY <1>2, <1>5, <1>6, OneFileFades DEF CacheInv
<1>8. PICK c : c = [procs[p] EXCEPT !.pc = "removeEntry"]
  OBVIOUS
<1>9. c \in Compilations /\ OriginOf(c, build[p]) /\ CodeInv(c) /\ c.pc \notin Writing
  BY <1>2, <1>8, MovesOn DEF Pcs, Writing
<1>10. procs' = [procs EXCEPT ![p] = c]
  BY <1>8 DEF RemoveObject, MoveTo
<1>11. QED
  BY <1>7, <1>9, <1>10, TouchesFiles DEF RemoveObject, caches

LEMMA RemoveEntryPreserves ==
  ASSUME CacheInv, NEW p \in Procs, RemoveEntry(p)
  PROVE  CacheInv'
<1>1. PICK key : key = procs[p].key
  OBVIOUS
<1>2. procs[p].pc = "removeEntry" /\ key \in CodegenKeys
  BY <1>1, Compiling DEF RemoveEntry, OriginOf
<1>3. PICK file : file = [objects[key] EXCEPT !.entry = NoEntry]
  OBVIOUS
<1>4. objects[key] \in [object: ObjectFiles, entry: Nat]
  BY <1>2 DEF CacheInv, FileInv
<1>5. file \in [object: ObjectFiles, entry: Nat] /\ file.object = objects[key].object
  BY <1>3, <1>4, NoFiles
<1>6. objects' = [objects EXCEPT ![key] = file]
  BY <1>1, <1>3 DEF RemoveEntry
<1>7. Fades /\ objects' \in [CodegenKeys -> [object: ObjectFiles, entry: Nat]]
  BY <1>2, <1>5, <1>6, OneFileFades DEF CacheInv
<1>8. PICK pc : pc = AfterMiss(p)
  OBVIOUS
<1>9. PICK c : c = [procs[p] EXCEPT !.pc = pc]
  OBVIOUS
<1>10. c \in Compilations /\ OriginOf(c, build[p]) /\ CodeInv(c) /\ c.pc \notin Writing
  BY <1>2, <1>8, <1>9, MissGoesOn, MovesOn DEF Pcs, Writing
<1>11. procs' = [procs EXCEPT ![p] = c]
  BY <1>8, <1>9 DEF RemoveEntry, MoveTo
<1>12. QED
  BY <1>7, <1>10, <1>11, TouchesFiles DEF RemoveEntry, caches

\* A writer goes on with its code.
WritesOn(p, c) ==
  /\ c \in Compilations /\ OriginOf(c, build[p]) /\ CodeInv(c)
  /\ c.key = procs[p].key /\ c.code = procs[p].code
  /\ c.pc = "fillObject" \/ (c.pc \in Writing /\ procs[p].pc \in Writing)

LEMMA WriterGoesOn ==
  ASSUME CacheInv, NEW p \in Procs, NEW pc, NEW c, c = [procs[p] EXCEPT !.pc = pc],
         \/ procs[p].pc = "emptyObject" /\ pc = "fillObject"
         \/ procs[p].pc = "fillObject" /\ pc = "emptyEntry"
         \/ procs[p].pc = "emptyEntry" /\ pc = "fillEntry"
  PROVE  WritesOn(p, c)
<1>1. procs[p] \in Compilations /\ OriginOf(procs[p], build[p]) /\ CodeInv(procs[p])
  BY Compiling
<1>2. /\ c.pc = pc /\ c.bundle = procs[p].bundle /\ c.key = procs[p].key
      /\ c.file = procs[p].file /\ c.source = procs[p].source /\ c.seen = procs[p].seen
      /\ c.epoch = procs[p].epoch /\ c.size = procs[p].size /\ c.code = procs[p].code
  BY <1>1 DEF Compilations
<1>3. pc \in Writing /\ pc \in Pcs
  BY DEF Writing, Pcs
<1>4. c \in Compilations
  BY <1>1, <1>3 DEF Compilations
<1>5. OriginOf(c, build[p])
  BY <1>1, <1>2 DEF OriginOf, OfTheModel
<1>6. Proper(procs[p].code, procs[p].key) /\ procs[p].bundle = Nothing
  BY <1>1 DEF CodeInv, Writing
<1>7. CodeInv(c)
  BY <1>2, <1>3, <1>6 DEF CodeInv, Writing
<1>8. QED
  BY <1>2, <1>3, <1>4, <1>5, <1>7 DEF WritesOn, Writing

LEMMA EmptyEntryPreserves ==
  ASSUME CacheInv, NEW p \in Procs, EmptyEntry(p)
  PROVE  CacheInv'
<1>1. PICK key : key = procs[p].key
  OBVIOUS
<1>2. procs[p].pc = "emptyEntry" /\ key \in CodegenKeys
  BY <1>1, Compiling DEF EmptyEntry, OriginOf
<1>3. PICK file : file = [objects[key] EXCEPT !.entry = NoEntry]
  OBVIOUS
<1>4. objects[key] \in [object: ObjectFiles, entry: Nat]
  BY <1>2 DEF CacheInv, FileInv
<1>5. file \in [object: ObjectFiles, entry: Nat] /\ file.object = objects[key].object
  BY <1>3, <1>4, NoFiles
<1>6. objects' = [objects EXCEPT ![key] = file]
  BY <1>1, <1>3 DEF EmptyEntry
<1>7. Fades /\ objects' \in [CodegenKeys -> [object: ObjectFiles, entry: Nat]]
  BY <1>2, <1>5, <1>6, OneFileFades DEF CacheInv
<1>8. PICK c : c = [procs[p] EXCEPT !.pc = "fillEntry"]
  OBVIOUS
<1>9. WritesOn(p, c)
  BY <1>2, <1>8, WriterGoesOn
<1>10. procs' = [procs EXCEPT ![p] = c]
  BY <1>8 DEF EmptyEntry, MoveTo
<1>11. c.pc = "fillEntry"
  BY <1>8, Compiling DEF Compilations
<1>12. QED
  BY <1>2, <1>7, <1>8, <1>9, <1>10, <1>11, TouchesFiles DEF EmptyEntry, caches, WritesOn, Writing

LEMMA FillEntryPreserves ==
  ASSUME CacheInv, NEW p \in Procs, FillEntry(p)
  PROVE  CacheInv'
<1>1. PICK key : key = procs[p].key
  OBVIOUS
<1>2. procs[p].pc = "fillEntry" /\ key \in CodegenKeys
  BY <1>1, Compiling DEF FillEntry, OriginOf
<1>3. procs[p].bundle = Nothing /\ procs[p].code.size \in Nat
  <2>1. procs[p].bundle = Nothing /\ Proper(procs[p].code, key)
    BY <1>1, <1>2, Compiling DEF CodeInv, Writing
  <2>2. QED
    BY <2>1 DEF Proper, ObjectFiles
<1>4. PICK file : file = [objects[key] EXCEPT !.entry = procs[p].code.size]
  OBVIOUS
<1>5. objects[key] \in [object: ObjectFiles, entry: Nat]
  BY <1>2 DEF CacheInv, FileInv
<1>6. file \in [object: ObjectFiles, entry: Nat] /\ file.object = objects[key].object
  BY <1>3, <1>4, <1>5
<1>7. objects' = [objects EXCEPT ![key] = file]
  BY <1>1, <1>4 DEF FillEntry
<1>8. Fades /\ objects' \in [CodegenKeys -> [object: ObjectFiles, entry: Nat]]
  BY <1>2, <1>6, <1>7, OneFileFades DEF CacheInv
<1>9. PICK c : c = [procs[p] EXCEPT !.pc = "finish"]
  OBVIOUS
<1>10. c \in Compilations /\ OriginOf(c, build[p]) /\ CodeInv(c) /\ c.pc \notin Writing
  BY <1>2, <1>3, <1>9, MovesOn DEF Pcs, Writing
<1>11. procs' = [procs EXCEPT ![p] = c]
  BY <1>9 DEF FillEntry, MoveTo
<1>12. QED
  BY <1>8, <1>10, <1>11, TouchesFiles DEF FillEntry, caches

(* The file is emptied: from now on whoever fills it writes the same code, *)
(* or the key has clashed.                                                 *)
LEMMA EmptyObjectPreserves ==
  ASSUME CacheInv, NEW p \in Procs, EmptyObject(p)
  PROVE  CacheInv'
<1>1. PICK key : key = procs[p].key
  OBVIOUS
<1>2. procs[p].pc = "emptyObject" /\ key \in CodegenKeys
  BY <1>1, Compiling DEF EmptyObject, OriginOf
<1>3. PICK file : file = [objects[key] EXCEPT !.object = Empty]
  OBVIOUS
<1>4. objects[key] \in [object: ObjectFiles, entry: Nat]
  BY <1>2 DEF CacheInv, FileInv
<1>5. file \in [object: ObjectFiles, entry: Nat] /\ file.object = Empty
  BY <1>3, <1>4, NoFiles
<1>6. objects' = [objects EXCEPT ![key] = file]
  BY <1>1, <1>3 DEF EmptyObject
<1>7. Fades /\ objects' \in [CodegenKeys -> [object: ObjectFiles, entry: Nat]]
  BY <1>2, <1>5, <1>6, OneFileFades DEF CacheInv
<1>8. PICK c : c = [procs[p] EXCEPT !.pc = "fillObject"]
  OBVIOUS
<1>9. WritesOn(p, c)
  BY <1>2, <1>8, WriterGoesOn
<1>10. procs' = [procs EXCEPT ![p] = c]
  BY <1>8 DEF EmptyObject, MoveTo
<1>11. clashed' = (IF Rivals(p) # {} THEN clashed \cup {key} ELSE clashed)
  BY <1>1 DEF EmptyObject
<1>12. clashed \subseteq clashed'
  BY <1>11
<1>13. UNCHANGED <<edits, disk, build, libEpoch, lru, rows>>
  BY DEF EmptyObject, caches
<1>14. DiskInv' /\ BundleInv'
  BY <1>13, DiskStays, BundlesStay DEF CacheInv
<1>15. FileInv'
  BY <1>7, <1>12, FilesFade DEF CacheInv
<1>16. CompilationInv'
  BY <1>9, <1>10, <1>12, <1>13, OneCompiles DEF CacheInv, WritesOn
<1>17. WriterInv'
  <2>1. \A q \in Procs : procs'[q] = IF q = p THEN c ELSE procs[q]
    BY <1>10 DEF CacheInv, CompilationInv
  <2>2. c.key = key /\ c.code = procs[p].code /\ c.pc = "fillObject"
    BY <1>1, <1>8, <1>9, Compiling DEF WritesOn, Compilations
  <2>3. ASSUME NEW q \in Procs \ {p}, procs[q].pc \in Writing, procs[q].key = key, key \notin clashed'
        PROVE  procs[q].code = procs[p].code
    <3>1. Rivals(p) = {}
      BY <1>11, <2>3
    <3>2. QED
      BY <1>1, <2>3, <3>1 DEF Rivals
  <2>4. ASSUME NEW q \in Procs, NEW r \in Procs, procs'[q].pc \in Writing, procs'[r].pc \in Writing,
               procs'[q].key = procs'[r].key, procs'[q].key \notin clashed'
        PROVE  procs'[q].code = procs'[r].code
    <3>1. CASE q = p /\ r = p
      BY <3>1
    <3>2. CASE q = p /\ r # p
      BY <2>1, <2>2, <2>3, <2>4, <3>2
    <3>3. CASE q # p /\ r = p
      BY <2>1, <2>2, <2>3, <2>4, <3>3
    <3>4. CASE q # p /\ r # p
      <4>1. procs'[q] = procs[q] /\ procs'[r] = procs[r] /\ procs[q].key \notin clashed
        BY <1>12, <2>1, <2>4, <3>4
      <4>2. QED
        BY <2>4, <4>1 DEF CacheInv, WriterInv
    <3>5. QED
      BY <3>1, <3>2, <3>3, <3>4
  <2>5. ASSUME NEW q \in Procs, procs'[q].pc = "fillObject", procs'[q].key \notin clashed'
        PROVE  objects'[procs'[q].key].object \in {Missing, Empty, procs'[q].code}
    <3>1. CASE q = p
      <4>1. objects'[key].object = Empty
        BY <1>2, <1>5, <1>6 DEF CacheInv, FileInv
      <4>2. QED
        BY <2>1, <2>2, <3>1, <4>1
    <3>2. CASE q # p
      <4>1. procs'[q] = procs[q] /\ procs[q].key \notin clashed
        BY <1>12, <2>1, <2>5, <3>2
      <4>2. objects[procs[q].key].object \in {Missing, Empty, procs[q].code}
        BY <2>5, <4>1 DEF CacheInv, WriterInv
      <4>3. procs[q].key \in CodegenKeys
        BY <2>5, <4>1, Compiling DEF OriginOf
      <4>4. QED
        BY <1>7, <4>1, <4>2, <4>3 DEF Fades
    <3>3. QED
      BY <3>1, <3>2
  <2>6. QED
    BY <2>4, <2>5 DEF WriterInv
<1>18. QED
  BY <1>14, <1>15, <1>16, <1>17 DEF CacheInv

(* The file is filled: unless the key has clashed nothing but the same code*)
(* was in it, so that no longer end of another is left.                    *)
LEMMA FillObjectPreserves ==
  ASSUME CacheInv, NEW p \in Procs, FillObject(p)
  PROVE  CacheInv'
<1>1. PICK key : key = procs[p].key
  OBVIOUS
<1>2. procs[p].pc = "fillObject" /\ key \in CodegenKeys
  BY <1>1, Compiling DEF FillObject, OriginOf
<1>3. PICK made : made = procs[p].code
  OBVIOUS
<1>4. Proper(made, key) /\ made \in ObjectFiles
  BY <1>1, <1>2, <1>3, Compiling DEF CodeInv, Writing, Proper
<1>5. PICK old : old = objects[key].object
  OBVIOUS
<1>6. objects[key] \in [object: ObjectFiles, entry: Nat] /\ old \in ObjectFiles
  BY <1>2, <1>5 DEF CacheInv, FileInv
<1>7. PICK new : new = IF old = Missing THEN Missing
                       ELSE IF old.size > made.size
                            THEN [made EXCEPT !.size = old.size, !.whole = FALSE]
                            ELSE made
  OBVIOUS
<1>8. PICK file : file = [objects[key] EXCEPT !.object = new]
  OBVIOUS
<1>9. objects' = [objects EXCEPT ![key] = file]
  BY <1>1, <1>3, <1>5, <1>7, <1>8 DEF FillObject
<1>10. new \in ObjectFiles
  BY <1>4, <1>6, <1>7, NoFiles DEF ObjectFiles
<1>11. file \in [object: ObjectFiles, entry: Nat] /\ file.object = new
  BY <1>6, <1>8, <1>10
<1>12. key \notin clashed => new \in {Missing, made}
  <2>1. SUFFICES ASSUME key \notin clashed
                 PROVE  new \in {Missing, made}
    OBVIOUS
  <2>2. old \in {Missing, Empty, made}
    BY <1>1, <1>2, <1>3, <1>5, <2>1 DEF CacheInv, WriterInv
  <2>3. Empty.size = 0 /\ made.size > 0 /\ made.size \in Int
    BY <1>4 DEF Empty, Proper, ObjectFiles
  <2>4. old = Missing \/ ~(old.size > made.size)
    BY <2>2, <2>3
  <2>5. QED
    BY <1>7, <2>4
<1>13. UNCHANGED <<edits, disk, build, libEpoch, lru, rows, clashed>>
  BY DEF FillObject, caches
<1>14. DiskInv' /\ BundleInv'
  BY <1>13, DiskStays, BundlesStay DEF CacheInv
<1>15. \A k \in CodegenKeys : objects'[k].object = IF k = key THEN new ELSE objects[k].object
  BY <1>2, <1>9, <1>11 DEF CacheInv, FileInv
<1>16. FileInv'
  <2>1. objects' \in [CodegenKeys -> [object: ObjectFiles, entry: Nat]]
    BY <1>2, <1>9, <1>11 DEF CacheInv, FileInv
  <2>2. ASSUME NEW k \in CodegenKeys \ clashed
        PROVE  objects'[k].object \in {Missing, Empty} \/ Proper(objects'[k].object, k)
    <3>1. CASE k = key
      BY <1>4, <1>12, <1>15, <2>2, <3>1
    <3>2. CASE k # key
      BY <1>15, <2>2, <3>2 DEF CacheInv, FileInv
    <3>3. QED
      BY <3>1, <3>2
  <2>3. QED
    BY <1>13, <2>1, <2>2 DEF FileInv
<1>17. PICK c : c = [procs[p] EXCEPT !.pc = "emptyEntry"]
  OBVIOUS
<1>18. WritesOn(p, c) /\ c.pc = "emptyEntry"
  BY <1>2, <1>17, WriterGoesOn, Compiling DEF Compilations
<1>19. procs' = [procs EXCEPT ![p] = c]
  BY <1>17 DEF FillObject, MoveTo
<1>20. CompilationInv'
  BY <1>13, <1>18, <1>19, OneCompiles DEF CacheInv, WritesOn
<1>21. WriterInv'
  <2>1. \A q \in Procs : procs'[q] = IF q = p THEN c ELSE procs[q]
    BY <1>19 DEF CacheInv, CompilationInv
  <2>2. \A q \in Procs : procs'[q].pc \in Writing =>
           procs[q].pc \in Writing /\ procs'[q].key = procs[q].key /\ procs'[q].code = procs[q].code
    BY <1>2, <1>18, <2>1 DEF Writing, WritesOn
  <2>3. ASSUME NEW q \in Procs, NEW r \in Procs, procs'[q].pc \in Writing, procs'[r].pc \in Writing,
               procs'[q].key = procs'[r].key, procs'[q].key \notin clashed'
        PROVE  procs'[q].code = procs'[r].code
    BY <1>13, <2>2, <2>3 DEF CacheInv, WriterInv
  <2>4. ASSUME NEW q \in Procs, procs'[q].pc = "fillObject", procs'[q].key \notin clashed'
        PROVE  objects'[procs'[q].key].object \in {Missing, Empty, procs'[q].code}
    <3>1. q # p /\ procs'[q] = procs[q] /\ procs[q].key \notin clashed /\ procs[q].pc = "fillObject"
      BY <1>13, <1>18, <2>1, <2>4
    <3>2. procs[q].key \in CodegenKeys
      BY <3>1, Compiling DEF OriginOf
    <3>3. CASE procs[q].key = key
      <4>1. procs[q].code = made
        BY <1>1, <1>2, <1>3, <3>1, <3>3 DEF CacheInv, WriterInv, Writing
      <4>2. QED
        BY <1>12, <1>15, <3>1, <3>2, <3>3, <4>1
    <3>4. CASE procs[q].key # key
      BY <1>15, <3>1, <3>2, <3>4 DEF CacheInv, WriterInv
    <3>5. QED
      BY <3>3, <3>4
  <2>5. QED
    BY <2>3, <2>4 DEF WriterInv
<1>22. QED
  BY <1>14, <1>16, <1>20, <1>21 DEF CacheInv

LEMMA EvictPreserves ==
  ASSUME CacheInv, NEW key \in CodegenKeys, Evict(key)
  PROVE  CacheInv'
<1>1. UNCHANGED <<edits, disk, build, libEpoch, lru, rows, procs, clashed>>
  BY DEF Evict, caches
<1>2. objects[key] \in [object: ObjectFiles, entry: Nat]
  BY DEF CacheInv, FileInv
<1>3. PICK file \in [object: ObjectFiles, entry: Nat] :
         /\ file.object \in {objects[key].object, Missing}
         /\ objects' = [objects EXCEPT ![key] = file]
  <2>1. CASE objects' = [objects EXCEPT ![key].object = Missing]
    <3>1. PICK file : file = [objects[key] EXCEPT !.object = Missing]
      OBVIOUS
    <3>2. file \in [object: ObjectFiles, entry: Nat] /\ file.object = Missing
      BY <1>2, <3>1, NoFiles
    <3>3. QED
      BY <2>1, <3>1, <3>2
  <2>2. CASE objects' = [objects EXCEPT ![key].entry = NoEntry]
    <3>1. PICK file : file = [objects[key] EXCEPT !.entry = NoEntry]
      OBVIOUS
    <3>2. file \in [object: ObjectFiles, entry: Nat] /\ file.object = objects[key].object
      BY <1>2, <3>1, NoFiles
    <3>3. QED
      BY <2>2, <3>1, <3>2
  <2>3. QED
    BY <2>1, <2>2 DEF Evict
<1>4. Fades /\ objects' \in [CodegenKeys -> [object: ObjectFiles, entry: Nat]]
  BY <1>3, OneFileFades DEF CacheInv
<1>5. DiskInv' /\ BundleInv'
  BY <1>1, DiskStays, BundlesStay DEF CacheInv
<1>6. FileInv' /\ CompilationInv' /\ WriterInv'
  BY <1>1, <1>4, FilesFade, CompilationsStay, WritersStay DEF CacheInv
<1>7. QED
  BY <1>5, <1>6 DEF CacheInv

-----------------------------------------------------------------------------
(* Steps of the epochs, of the processes and of the user.                  *)

LEMMA EpochExpiresPreserves ==
  ASSUME CacheInv, NEW p \in Procs, EpochExpires(p)
  PROVE  CacheInv'
<1>1. UNCHANGED <<edits, disk, build, lru, rows, objects, procs, clashed>>
  BY DEF EpochExpires
<1>2. DiskInv'
  BY DEF EpochExpires, CacheInv, DiskInv
<1>3. BundleInv'
  BY <1>1, BundlesStay DEF CacheInv
<1>4. FileInv' /\ CompilationInv' /\ WriterInv'
  BY <1>1, FilesStay, CompilationsStay, WritersStay DEF CacheInv
<1>5. QED
  BY <1>2, <1>3, <1>4 DEF CacheInv

LEMMA RestartPreserves ==
  ASSUME CacheInv, NEW p \in Procs, Restart(p)
  PROVE  CacheInv'
<1>1. UNCHANGED <<edits, disk, rows, objects, clashed>>
  BY DEF Restart
<1>2. PICK b \in build[p]..MaxBuilds : build' = [build EXCEPT ![p] = b]
  BY DEF Restart
<1>3. b \in 1..MaxBuilds
  BY <1>2, CacheBounds DEF CacheInv, DiskInv
<1>4. libEpoch' = [libEpoch EXCEPT ![p] = Nothing] /\ lru' = [lru EXCEPT ![p] = << >>]
      /\ procs' = [procs EXCEPT ![p] = Idle]
  BY DEF Restart
<1>5. DiskInv'
  BY <1>1, <1>2, <1>3, <1>4 DEF CacheInv, DiskInv
<1>6. \A q \in Procs : build'[q] = IF q = p THEN b ELSE build[q]
  BY <1>2 DEF CacheInv, DiskInv
<1>7. BundleInv'
  <2>1. DOMAIN lru' = Procs /\ \A q \in Procs : lru'[q] = IF q = p THEN << >> ELSE lru[q]
    BY <1>4 DEF CacheInv, BundleInv
  <2>2. ASSUME NEW q \in Procs
        PROVE  lru'[q] \in Seq(GoodEntries(build'[q]))
    <3>1. CASE q = p
      BY <2>1, <3>1, EmptySeq
    <3>2. CASE q # p
      BY <1>6, <2>1, <3>2 DEF CacheInv, BundleInv
    <3>3. QED
      BY <3>1, <3>2
  <2>3. \A q \in Procs : lru'[q] \in Seq(GoodEntries(build[q])')
    <3>1. \A q \in Procs : GoodEntries(build[q])' = GoodEntries(build'[q])
      BY <1>1 DEF GoodEntries, GoodBundle, Lapsed
    <3>2. QED
      BY <2>2, <3>1
  <2>4. \A key \in DOMAIN rows : GoodBundle(rows[key].bundle, key, rows[key].build)'
    BY <1>1, GoodStays DEF CacheInv, BundleInv
  <2>5. QED
    BY <1>1, <2>1, <2>3, <2>4 DEF BundleInv
<1>8. FileInv' /\ Fades
  BY <1>1, FilesStay DEF CacheInv
<1>9. CompilationInv'
  <2>1. procs' \in [Procs -> Compilations]
    BY <1>4, IdleIsFree DEF CacheInv, CompilationInv
  <2>2. ASSUME NEW q \in Procs
        PROVE  OriginOf(procs[q], build[q])' /\ CodeInv(procs[q])'
    <3>1. PICK d : d = procs'[q]
      OBVIOUS
    <3>2. OriginOf(d, build'[q]) /\ CodeInv(d)
      <4>1. CASE q = p
        BY <1>4, <3>1, <4>1, IdleIsFree DEF CacheInv, CompilationInv
      <4>2. CASE q # p
        BY <1>4, <1>6, <3>1, <4>2 DEF CacheInv, CompilationInv
      <4>3. QED
        BY <4>1, <4>2
    <3>3. QED
      BY <1>1, <3>1, <3>2 DEF OriginOf, CodeInv
  <2>3. QED
    BY <2>1, <2>2 DEF CompilationInv
<1>10. WriterInv'
  BY <1>1, <1>4, <1>8, IdleIsFree, NoNewWriter DEF CacheInv
<1>11. QED
  BY <1>5, <1>7, <1>8, <1>9, <1>10 DEF CacheInv

(* An edit gives a file a number it has never had: a bundle kept under     *)
(* sources of another time is not taken for one of these.                  *)
LEMMA EditPreserves ==
  ASSUME CacheInv, NEW file \in {"near", "far"}, Edit(file)
  PROVE  CacheInv'
<1>1. UNCHANGED <<build, libEpoch, lru, rows, objects, procs, clashed>>
  BY DEF Edit, caches
<1>2. edits \in Nat /\ edits' = edits + 1 /\ edits' \in 0..MaxEdits /\ MaxEdits \in Nat
  BY CacheBounds DEF CacheInv, DiskInv, Edit
<1>3. Sources(edits) \subseteq Sources(edits') /\ Disks(edits) \subseteq Disks(edits')
  BY <1>2, SourcesGrow
<1>4. disk \in Disks(edits)
  BY DEF CacheInv, DiskInv
<1>5. PICK source : /\ disk' = [disk EXCEPT ![file] = source]
                    /\ \/ source.id = edits' /\ source \in Sources(edits')
                       \/ source = Absent /\ file = "near"
  <2>1. PICK new : /\ disk' = [disk EXCEPT ![file] = new]
                   /\ \/ new = [id |-> edits', layout |-> edits']
                      \/ disk[file] # Absent /\ new = [disk[file] EXCEPT !.id = edits']
                      \/ new = Absent /\ file = "near"
    BY <1>2 DEF Edit
  <2>2. CASE new = [id |-> edits', layout |-> edits']
    <3>1. edits' \in 0..edits' /\ new.id = edits'
      BY <1>2, <2>2
    <3>2. new \in Sources(edits')
      BY <2>2, <3>1 DEF Sources
    <3>3. QED
      BY <2>1, <3>1, <3>2
  <2>3. CASE disk[file] # Absent /\ new = [disk[file] EXCEPT !.id = edits']
    <3>1. disk[file] \in Sources(edits)
      BY <1>4, <2>3 DEF Disks
    <3>2. new.id = edits' /\ new.layout \in 0..edits'
      BY <1>2, <2>3, <3>1 DEF Sources
    <3>3. new \in Sources(edits')
      BY <1>2, <2>3, <3>1, <3>2 DEF Sources
    <3>4. QED
      BY <2>1, <3>2, <3>3
  <2>4. CASE new = Absent /\ file = "near"
    BY <2>1, <2>4
  <2>5. QED
    BY <2>1, <2>2, <2>3, <2>4
<1>6. disk' \in Disks(edits')
  <2>1. CASE file = "near"
    BY <1>3, <1>4, <1>5, <2>1 DEF Disks
  <2>2. CASE file = "far"
    BY <1>3, <1>4, <1>5, <2>2 DEF Disks
  <2>3. QED
    BY <2>1, <2>2
<1>7. DiskInv'
  BY <1>1, <1>2, <1>3, <1>6 DEF CacheInv, DiskInv
<1>8. ASSUME NEW key \in Disks(edits), key.near = Absent \/ Lapsed(key)
      PROVE  key.near = Absent \/ key.near # disk'.near
  <2>1. SUFFICES ASSUME key.near # Absent
                 PROVE  key.near # disk'.near
    OBVIOUS
  <2>2. key.near \in Sources(edits) /\ key.near # disk.near
    BY <1>8, <2>1 DEF Disks, Lapsed
  <2>3. key.near.id # edits'
    BY <1>2, <2>2 DEF Sources
  <2>4. CASE file = "near"
    BY <1>4, <1>5, <2>1, <2>3, <2>4 DEF Disks
  <2>5. CASE file = "far"
    BY <1>4, <1>5, <2>2, <2>5 DEF Disks
  <2>6. QED
    BY <2>4, <2>5
<1>9. ASSUME NEW bundle, NEW key, NEW b, GoodBundle(bundle, key, b)
      PROVE  GoodBundle(bundle, key, b)'
  BY <1>3, <1>8, <1>9 DEF GoodBundle, Lapsed
<1>10. BundleInv'
  <2>1. ASSUME NEW p \in Procs
        PROVE  lru[p] \in Seq(GoodEntries(build[p])')
    <3>1. GoodEntries(build[p]) \subseteq GoodEntries(build[p])'
      BY <1>1, <1>3, <1>9 DEF GoodEntries
    <3>2. QED
      BY <3>1, SequencesWiden DEF CacheInv, BundleInv
  <2>2. \A key \in DOMAIN rows : GoodBundle(rows[key].bundle, key, rows[key].build)'
    BY <1>1, <1>9 DEF CacheInv, BundleInv
  <2>3. QED
    BY <1>1, <2>1, <2>2 DEF CacheInv, BundleInv
<1>11. FileInv' /\ WriterInv'
  BY <1>1, FilesStay, WritersStay DEF CacheInv
<1>12. CompilationInv'
  <2>1. ASSUME NEW p \in Procs
        PROVE  OriginOf(procs[p], build[p])' /\ CodeInv(procs[p])'
    <3>1. OriginOf(procs[p], build[p]) /\ CodeInv(procs[p])
      BY Compiling
    <3>2. QED
      BY <1>1, <1>3, <3>1 DEF OriginOf, CodeInv
  <2>2. QED
    BY <1>1, <2>1 DEF CacheInv, CompilationInv
<1>13. QED
  BY <1>7, <1>10, <1>11, <1>12 DEF CacheInv

\* The epoch a process goes by is of sources that have been.
LEMMA EpochIsKnown ==
  ASSUME CacheInv, NEW p \in Procs
  PROVE  Epoch(p) \in Disks(edits) /\ Epoch(p) \in Disks(MaxEdits)
<1>1. Epoch(p) \in Disks(edits)
  BY DEF CacheInv, DiskInv, Epoch
<1>2. QED
  BY <1>1, EditsBound DEF CacheInv

\* A bundle whose file has not changed is of the model.
LEMMA FoundIsOfTheModel ==
  ASSUME CacheInv, NEW bundle, NEW key, NEW b, GoodBundle(bundle, key, b), DepsMatch(bundle),
         ~bundle.edited
  PROVE  /\ disk[bundle.file] = bundle.source
         /\ key = disk => bundle.file = ModelFile(disk)
<1>1. bundle \in Bundles /\ bundle.dep = bundle.source
  BY DEF GoodBundle
<1>2. edits \in Nat /\ MaxEdits \in Nat /\ disk \in Disks(edits)
  BY EditsBound DEF CacheInv, DiskInv
<1>3. bundle.source # Absent
  BY <1>1, <1>2, AbsentIsNoSource DEF Bundles
<1>4. disk[bundle.file] = bundle.source
  BY <1>1, <1>3 DEF DepsMatch
<1>5. ASSUME key = disk
      PROVE  bundle.file = ModelFile(disk)
  <2>1. CASE bundle.file = "near"
    BY <1>3, <1>4, <2>1 DEF ModelFile
  <2>2. CASE bundle.file = "far"
    <3>1. key.near = Absent
      BY <1>5, <2>2 DEF GoodBundle, Lapsed
    <3>2. QED
      BY <1>5, <2>2, <3>1 DEF ModelFile
  <2>3. QED
    BY <1>1, <2>1, <2>2 DEF Bundles
<1>6. QED
  BY <1>4, <1>5

LEMMA CompilePreserves ==
  ASSUME CacheInv, NEW p \in Procs, Compile(p)
  PROVE  CacheInv'
<1>1. UNCHANGED <<edits, disk, build, objects, clashed>>
  BY DEF Compile
<1>2. PICK key : key = Epoch(p)
  OBVIOUS
<1>3. key \in Disks(edits) /\ key \in Disks(MaxEdits)
  BY <1>2, EpochIsKnown
<1>4. rows' \in Pruned /\ GoodRows(rows')
  BY PrunedIsGood DEF Compile, CacheInv
<1>5. PICK found : found = Lookup(p, key, rows')
  OBVIOUS
<1>6. found # Nothing => GoodBundle(found, key, build[p])
  BY <1>4, <1>5, LookupIsGood DEF CacheInv
<1>7. DiskInv'
  BY <1>1, <1>2, <1>3 DEF Compile, CacheInv, DiskInv
<1>8. BundleInv'
  <2>1. /\ DOMAIN lru' = Procs
        /\ \A q \in Procs : lru'[q] \in Seq(GoodEntries(build[q]))
    <3>1. CASE found # Nothing /\ Kept(p, key) = {}
      <4>1. Promote(p, key, found)
        BY <1>2, <1>5, <3>1 DEF Compile, ArtifactKey
      <4>2. QED
        BY <1>6, <3>1, <4>1, Promoted DEF CacheInv
    <3>2. CASE ~(found # Nothing /\ Kept(p, key) = {})
      <4>1. lru' = lru
        BY <1>2, <1>5, <3>2 DEF Compile, ArtifactKey
      <4>2. QED
        BY <4>1 DEF CacheInv, BundleInv
    <3>3. QED
      BY <3>1, <3>2
  <2>2. \A q \in Procs : lru'[q] \in Seq(GoodEntries(build[q])')
    BY <1>1, <2>1 DEF GoodEntries, GoodBundle, Lapsed
  <2>3. \A k \in DOMAIN rows' : GoodBundle(rows'[k].bundle, k, rows'[k].build)
    BY <1>4 DEF GoodRows
  <2>4. \A k \in DOMAIN rows' : GoodBundle(rows[k].bundle, k, rows[k].build)'
    BY <1>1, <2>3 DEF GoodBundle, Lapsed
  <2>5. QED
    BY <1>1, <2>1, <2>2, <2>4 DEF BundleInv
<1>9. PICK c : /\ procs' = [procs EXCEPT ![p] = c]
               /\ c = IF found # Nothing /\ DepsMatch(found)
                      THEN [Idle EXCEPT !.pc = "readEntry", !.bundle = found,
                               !.key = found.key, !.seen = disk, !.epoch = key]
                      ELSE [Idle EXCEPT !.pc = "load"]
  BY <1>2, <1>5 DEF Compile, ArtifactKey
<1>10. c \in Compilations /\ OriginOf(c, build[p]) /\ CodeInv(c) /\ c.pc \notin Writing
  <2>1. CASE found # Nothing /\ DepsMatch(found)
    <3>1. c = [Idle EXCEPT !.pc = "readEntry", !.bundle = found,
                  !.key = found.key, !.seen = disk, !.epoch = key]
      BY <1>9, <2>1
    <3>2. /\ c.pc = "readEntry" /\ c.bundle = found /\ c.key = found.key
          /\ c.seen = disk /\ c.epoch = key
      BY <3>1 DEF Idle
    <3>3. GoodBundle(found, key, build[p]) /\ found \in Bundles /\ found.key \in CodegenKeys
      BY <1>6, <2>1 DEF GoodBundle, Bundles
    <3>4. disk \in Disks(edits) /\ disk \in Disks(MaxEdits)
      BY EditsBound DEF CacheInv, DiskInv
    <3>5. c \in Compilations
      BY <1>3, <3>1, <3>3, <3>4 DEF Compilations, Pcs, Idle
    <3>6. ~found.edited => OfTheModel(c)
      BY <2>1, <3>2, <3>3, FoundIsOfTheModel DEF OfTheModel
    <3>7. OriginOf(c, build[p])
      BY <2>1, <3>2, <3>3, <3>4, <3>6 DEF OriginOf, GoodBundle
    <3>8. CodeInv(c)
      BY <3>2 DEF CodeInv, Writing
    <3>9. QED
      BY <3>2, <3>5, <3>7, <3>8 DEF Writing
  <2>2. CASE ~(found # Nothing /\ DepsMatch(found))
    <3>1. c = [Idle EXCEPT !.pc = "load"]
      BY <1>9, <2>2
    <3>2. c.pc = "load" /\ c \in Compilations
      BY <3>1 DEF Idle, Compilations, Pcs
    <3>3. QED
      BY <3>2 DEF OriginOf, CodeInv, Writing
  <2>3. QED
    BY <2>1, <2>2
<1>11. CompilationInv'
  BY <1>1, <1>9, <1>10, OneCompiles DEF CacheInv
<1>12. FileInv' /\ Fades
  BY <1>1, FilesStay DEF CacheInv
<1>13. WriterInv'
  BY <1>1, <1>9, <1>10, <1>12, NoNewWriter DEF CacheInv
<1>14. QED
  BY <1>7, <1>8, <1>11, <1>12, <1>13 DEF CacheInv

(* The bundle goes under an epoch that may be of another time; if its file *)
(* is found last, there was no file before it then, or it is lapsed.       *)
LEMMA FinishPreserves ==
  ASSUME CacheInv, NEW p \in Procs, Finish(p)
  PROVE  CacheInv'
<1>1. UNCHANGED <<edits, disk, build, objects, clashed>> /\ procs[p].pc = "finish"
  BY DEF Finish
<1>2. PICK key : key = Epoch(p)
  OBVIOUS
<1>3. key \in Disks(edits)
  BY <1>2, EpochIsKnown
<1>4. PICK bundle : bundle = [file |-> procs[p].file, source |-> procs[p].source,
                              dep |-> disk[procs[p].file], key |-> procs[p].key,
                              edited |-> disk # procs[p].seen]
  OBVIOUS
<1>5. GoodBundle(bundle, key, build[p])
  <2>1. /\ bundle.file = procs[p].file /\ bundle.source = procs[p].source
        /\ bundle.dep = disk[procs[p].file] /\ bundle.key = procs[p].key
        /\ bundle.edited = (disk # procs[p].seen)
    BY <1>4
  <2>2. OriginOf(procs[p], build[p]) /\ procs[p].bundle = Nothing
    BY <1>1, Compiling DEF CodeInv
  <2>3. /\ procs[p].key \in CodegenKeys /\ procs[p].key.build = build[p]
        /\ procs[p].seen \in Disks(edits)
        /\ procs[p].file = ModelFile(procs[p].seen)
        /\ procs[p].source = procs[p].seen[procs[p].file] /\ procs[p].source \in Sources(MaxEdits)
        /\ procs[p].key.layout = procs[p].source.layout
    BY <1>1, <2>2 DEF OriginOf
  <2>4. edits \in Nat /\ disk \in Disks(edits) /\ Sources(edits) \subseteq Sources(MaxEdits)
    BY EditsBound DEF CacheInv, DiskInv
  <2>5. procs[p].file \in {"near", "far"}
    BY <2>3, <2>4, ModelIsThere
  <2>6. disk[procs[p].file] \in Sources(MaxEdits) \cup {Absent}
    BY <2>4, <2>5 DEF Disks
  <2>7. bundle \in Bundles
    BY <1>4, <2>3, <2>5, <2>6 DEF Bundles
  <2>8. ASSUME ~bundle.edited
        PROVE  /\ bundle.dep = bundle.source
               /\ bundle.file = "far" => key.near = Absent \/ Lapsed(key)
    <3>1. disk = procs[p].seen
      BY <2>1, <2>8
    <3>2. bundle.dep = bundle.source
      BY <2>1, <2>3, <3>1
    <3>3. bundle.file = "far" => disk.near = Absent
      BY <2>1, <2>3, <2>4, <3>1, ModelIsThere
    <3>4. QED
      BY <3>2, <3>3 DEF Lapsed
  <2>9. QED
    BY <1>3, <2>1, <2>3, <2>7, <2>8 DEF GoodBundle
<1>6. DiskInv'
  BY <1>1, <1>2, <1>3 DEF Finish, CacheInv, DiskInv
<1>7. BundleInv'
  <2>1. CASE DeferredWrite
    BY <1>1, <2>1, BundlesStay DEF Finish, CacheInv
  <2>2. CASE ~DeferredWrite
    <3>1. Promote(p, key, bundle)
      BY <1>2, <1>4, <2>2 DEF Finish, ArtifactKey
    <3>2. /\ DOMAIN lru' = Procs
          /\ \A q \in Procs : lru'[q] \in Seq(GoodEntries(build[q]))
      BY <1>5, <3>1, Promoted DEF CacheInv
    <3>3. \A q \in Procs : lru'[q] \in Seq(GoodEntries(build[q])')
      BY <1>1, <3>2 DEF GoodEntries, GoodBundle, Lapsed
    <3>4. PICK stored \in Pruned :
             rows' = [k \in {key} \cup DOMAIN stored |->
                        IF k = key THEN [bundle |-> bundle, build |-> build[p]] ELSE stored[k]]
      BY <1>2, <1>4, <2>2 DEF Finish, ArtifactKey
    <3>5. GoodRows(stored)
      BY PrunedIsGood DEF CacheInv
    <3>6. ASSUME NEW k \in DOMAIN rows'
          PROVE  GoodBundle(rows'[k].bundle, k, rows'[k].build)
      <4>1. CASE k = key
        <5>1. rows'[k] = [bundle |-> bundle, build |-> build[p]]
          BY <3>4, <4>1
        <5>2. QED
          BY <1>5, <4>1, <5>1
      <4>2. CASE k # key
        BY <3>4, <3>5, <3>6, <4>2 DEF GoodRows
      <4>3. QED
        BY <4>1, <4>2
    <3>7. \A k \in DOMAIN rows' : GoodBundle(rows[k].bundle, k, rows[k].build)'
      BY <1>1, <3>6 DEF GoodBundle, Lapsed
    <3>8. QED
      BY <1>1, <3>2, <3>3, <3>7 DEF BundleInv
  <2>3. QED
    BY <2>1, <2>2
<1>8. PICK c : c = [procs[p] EXCEPT !.pc = "done"]
  OBVIOUS
<1>9. procs' = [procs EXCEPT ![p] = c]
  BY <1>8 DEF Finish, MoveTo
<1>10. c \in Compilations /\ OriginOf(c, build[p]) /\ CodeInv(c) /\ c.pc \notin Writing
  <2>1. procs[p] \in Compilations /\ OriginOf(procs[p], build[p]) /\ CodeInv(procs[p])
    BY Compiling
  <2>2. /\ c.pc = "done" /\ c.bundle = procs[p].bundle /\ c.key = procs[p].key
        /\ c.file = procs[p].file /\ c.source = procs[p].source /\ c.seen = procs[p].seen
        /\ c.epoch = procs[p].epoch /\ c.code = procs[p].code
    BY <1>8, <2>1 DEF Compilations
  <2>3. c \in Compilations
    BY <1>8, <2>1 DEF Compilations, Pcs
  <2>4. OriginOf(c, build[p])
    BY <1>1, <2>1, <2>2 DEF OriginOf, OfTheModel
  <2>5. CodeInv(c)
    BY <1>1, <2>1, <2>2 DEF CodeInv, Writing
  <2>6. QED
    BY <2>2, <2>3, <2>4, <2>5 DEF Writing
<1>11. CompilationInv'
  BY <1>1, <1>9, <1>10, OneCompiles DEF CacheInv
<1>12. FileInv' /\ Fades
  BY <1>1, FilesStay DEF CacheInv
<1>13. WriterInv'
  BY <1>1, <1>9, <1>10, <1>12, NoNewWriter DEF CacheInv
<1>14. QED
  BY <1>6, <1>7, <1>11, <1>12, <1>13 DEF CacheInv

LEMMA CacheStarts == CacheInit => CacheInv
<1> SUFFICES ASSUME CacheInit
             PROVE  CacheInv
  OBVIOUS
<1>1. edits = 0 /\ MaxEdits \in Nat /\ 0 \in 0..MaxEdits
  BY CacheBounds DEF CacheInit
<1>2. disk \in Disks(edits)
  <2>1. [id |-> 0, layout |-> 0] \in Sources(0)
    BY DEF Sources
  <2>2. QED
    BY <1>1, <2>1 DEF CacheInit, Disks
<1>3. DiskInv
  BY <1>1, <1>2, CacheBounds DEF CacheInit, DiskInv
<1>4. BundleInv
  <2>1. \A p \in Procs : lru[p] \in Seq(GoodEntries(build[p]))
    BY EmptySeq DEF CacheInit
  <2>2. QED
    BY <2>1 DEF CacheInit, BundleInv
<1>5. FileInv
  BY NoFiles DEF CacheInit, FileInv
<1>6. CompilationInv
  BY IdleIsFree DEF CacheInit, CompilationInv
<1>7. WriterInv
  <2>1. \A p \in Procs : procs[p].pc \notin Writing /\ procs[p].pc # "fillObject"
    BY IdleIsFree DEF CacheInit, Writing
  <2>2. QED
    BY <2>1 DEF WriterInv
<1>8. QED
  BY <1>3, <1>4, <1>5, <1>6, <1>7 DEF CacheInv

LEMMA CacheStutters == CacheInv /\ UNCHANGED cacheVars => CacheInv'
<1> SUFFICES ASSUME CacheInv, UNCHANGED cacheVars
             PROVE  CacheInv'
  OBVIOUS
<1>1. UNCHANGED <<edits, disk, build, libEpoch, lru, rows, objects, procs, clashed>>
  BY DEF cacheVars, caches
<1>2. QED
  BY <1>1, DiskStays, BundlesStay, FilesStay, CompilationsStay, WritersStay DEF CacheInv

LEMMA CacheStep == CacheInv /\ [CacheNext]_cacheVars => CacheInv'
<1>1. SUFFICES ASSUME CacheInv, CacheNext
               PROVE  CacheInv'
  BY CacheStutters
<1>2. CASE \E p \in Procs :
              \/ Compile(p) \/ LoadModel(p)
              \/ ReadEntry(p) \/ ReadObject(p) \/ RemoveObject(p) \/ RemoveEntry(p)
              \/ Generate(p) \/ EmptyObject(p) \/ FillObject(p) \/ EmptyEntry(p) \/ FillEntry(p)
              \/ WriteFails(p) \/ Finish(p) \/ Return(p)
              \/ Restart(p) \/ EpochExpires(p)
  BY <1>1, <1>2, CompilePreserves, LoadModelPreserves, ReadEntryPreserves, ReadObjectPreserves,
     RemoveObjectPreserves, RemoveEntryPreserves, GeneratePreserves, EmptyObjectPreserves,
     FillObjectPreserves, EmptyEntryPreserves, FillEntryPreserves, WriteFailsPreserves,
     FinishPreserves, ReturnPreserves, RestartPreserves, EpochExpiresPreserves
<1>3. CASE \E key \in CodegenKeys : Evict(key)
  BY <1>1, <1>3, EvictPreserves
<1>4. CASE \E file \in {"near", "far"} : Edit(file)
  BY <1>1, <1>4, EditPreserves
<1>5. QED
  BY <1>1, <1>2, <1>3, <1>4 DEF CacheNext

\* The invariant of the caches.
THEOREM CacheInvariant == CacheSpec => []CacheInv
<1>1. QED
  BY CacheStarts, CacheStep, PTL DEF CacheSpec

(* Code from an object file is whole, of this build and for the variables  *)
(* of the model, for any number of processes, edits, restarts, evictions   *)
(* and failed writes, unless two wrote different codes at once.            *)
THEOREM WholeCode == CacheSpec => []CodeIsWhole
<1>1. ASSUME CacheInv
      PROVE  CodeIsWhole
  <2>1. SUFFICES ASSUME NEW p \in Procs, procs[p].pc \in {"finish", "done"},
                        procs[p].key \notin clashed
                 PROVE  /\ procs[p].code.whole
                        /\ procs[p].code.build = build[p]
                        /\ procs[p].code.layout = (IF procs[p].bundle # Nothing
                                                   THEN procs[p].bundle.source
                                                   ELSE procs[p].source).layout
    BY DEF CodeIsWhole
  <2>2. OriginOf(procs[p], build[p]) /\ CodeInv(procs[p])
    BY <1>1, Compiling
  <2>3. /\ procs[p].code.whole /\ procs[p].code.layout = procs[p].key.layout
        /\ procs[p].code.build = procs[p].key.build
    BY <2>1, <2>2 DEF CodeInv
  <2>4. QED
    BY <2>1, <2>2, <2>3 DEF OriginOf
<1>2. QED
  BY <1>1, CacheInvariant, PTL

(* A bundle that is used is of the file as it is, and of the file the name *)
(* stands for unless the epoch is out of date, however often sources are   *)
(* edited, added and removed.                                              *)
THEOREM BundlesAreCurrent == CacheSpec => []BundleIsOfTheModel
<1>1. ASSUME CacheInv
      PROVE  BundleIsOfTheModel
  <2>1. SUFFICES ASSUME NEW p \in Procs, procs[p].pc \notin {"idle", "load"},
                        procs[p].bundle # Nothing, ~procs[p].bundle.edited
                 PROVE  OfTheModel(procs[p])
    BY DEF BundleIsOfTheModel, OfTheModel
  <2>2. OriginOf(procs[p], build[p])
    BY <1>1, Compiling
  <2>3. QED
    BY <2>1, <2>2 DEF OriginOf
<1>2. QED
  BY <1>1, CacheInvariant, PTL

-----------------------------------------------------------------------------
(***************************************************************************)
(*                                THE TIERS                                *)
(***************************************************************************)
(***************************************************************************)
(* The inductive invariant, in three independent parts.                    *)
(***************************************************************************)

\* Code belongs to the run that calls it or is offered it.
OwnInv ==
  /\ Running => code.run = run /\ code.tier = tier
  /\ \A r \in 1..Runs : pending[r] # None => pending[r].run = r

\* One thread at most holds the lock, and the environment is as it set it.  When
\* it has gone the folding is as it found it, but for what a mismatch leaves.
LockInv ==
  /\ CompilesAsItsTier
  /\ lock = "free" => (fold = "0" <=> LeftOff)
  /\ \A i \in 1..Len(threads) : threads[i].pc = "compiling" => (threads[i].fold = "0" <=> LeftOff)
  /\ \A i \in 1..Len(threads) : threads[i].pc = "compiling" => lock = "held"
  /\ \A i, j \in 1..Len(threads) :
       threads[i].pc = "compiling" /\ threads[j].pc = "compiling" => i = j

\* The run under way has one thread alive, or one upgrade pending, or neither;
\* either is for the next tier.
FlightInv ==
  /\ \A i \in 1..Len(threads) : threads[i].run <= run
  /\ \A r \in 1..Runs : r > run => pending[r] = None
  /\ run > 0 /\ pending[run] # None => inFlight /\ pending[run].tier = tier + 1
  /\ \A i \in 1..Len(threads) :
       Alive(i) /\ Mine(i) => inFlight /\ pending[run] = None /\ threads[i].tier = tier + 1
  /\ \A i, j \in 1..Len(threads) :
       Alive(i) /\ Mine(i) /\ Alive(j) /\ Mine(j) => i = j

-----------------------------------------------------------------------------

USE TieredAssumption DEF Interpreter, FastJit, OptimizedJit, ProfileGuided, Tiers,
        deopt, scheduler, environment, guards, Main, vars

\* The next tier is the next number.
LEMMA NextTier ==
  ASSUME NEW t \in Tiers, NEW n \in Nat
  PROVE  ShouldTierUp(t, n) # None => ShouldTierUp(t, n) = t + 1 /\ t + 1 \in 1..3
<1>1. CASE n < Threshold
  BY <1>1 DEF ShouldTierUp
<1>2. CASE n >= Threshold /\ t \in {0, 1}
  BY <1>2 DEF ShouldTierUp
<1>3. CASE n >= Threshold /\ t = 2
  BY <1>3 DEF ShouldTierUp
<1>4. CASE n >= Threshold /\ t = 3
  BY <1>4 DEF ShouldTierUp
<1> QED
  BY <1>1, <1>2, <1>3, <1>4

\* What changes when one thread moves on.
LEMMA Update ==
  ASSUME NEW s \in Seq(Thread), NEW i \in 1..Len(s), NEW t \in Thread
  PROVE  LET u == [s EXCEPT ![i] = t]
         IN  /\ u \in Seq(Thread) /\ Len(u) = Len(s)
             /\ \A j \in 1..Len(s) : u[j] = IF j = i THEN t ELSE s[j]
  OBVIOUS

\* What changes when a thread is started.
LEMMA Start ==
  ASSUME NEW s \in Seq(Thread), NEW t \in Thread
  PROVE  LET u == Append(s, t)
         IN  /\ u \in Seq(Thread) /\ Len(u) = Len(s) + 1
             /\ \A j \in 1..Len(s) : u[j] = s[j]
             /\ u[Len(s) + 1] = t
  OBVIOUS

\* Thread i is at a new label and otherwise the same, but for its fold.
Moved(i, label) ==
  /\ threads' \in Seq(Thread) /\ Len(threads') = Len(threads)
  /\ i \in 1..Len(threads)
  /\ threads'[i].pc = label
  /\ threads'[i].run = threads[i].run /\ threads'[i].tier = threads[i].tier
  /\ \A j \in 1..Len(threads) : j # i => threads'[j] = threads[j]

LEMMA GotoMoves ==
  ASSUME threads \in Seq(Thread), NEW i \in 1..Len(threads), NEW label \in ThreadLabels,
         Goto(i, label)
  PROVE  Moved(i, label)
<1>1. threads[i] \in Thread
  OBVIOUS
<1>2. [threads[i] EXCEPT !.pc = label] \in Thread
  BY <1>1 DEF Thread
<1>3. threads' = [threads EXCEPT ![i] = [threads[i] EXCEPT !.pc = label]]
  BY DEF Goto
<1> QED
  BY <1>1, <1>2, <1>3, Update DEF Moved, Thread

LEMMA Replaced ==
  ASSUME threads \in Seq(Thread), NEW i \in 1..Len(threads), NEW t \in Thread,
         threads' = [threads EXCEPT ![i] = t]
  PROVE  /\ threads' \in Seq(Thread) /\ Len(threads') = Len(threads)
         /\ threads'[i] = t
         /\ \A j \in 1..Len(threads) : j # i => threads'[j] = threads[j]
  OBVIOUS

LEMMA FoldMoves ==
  ASSUME threads \in Seq(Thread), NEW i \in 1..Len(threads), NEW label \in ThreadLabels,
         NEW f \in {"user", "0"},
         threads' = [threads EXCEPT ![i].pc = label, ![i].fold = f]
  PROVE  Moved(i, label)
<1>1. threads[i] \in Thread
  OBVIOUS
<1> DEFINE t == [threads[i] EXCEPT !.pc = label, !.fold = f]
<1>2. t \in Thread /\ t.pc = label /\ t.run = threads[i].run /\ t.tier = threads[i].tier
  BY <1>1 DEF Thread
<1>3. threads' = [threads EXCEPT ![i] = t]
  OBVIOUS
<1> HIDE DEF t
<1>4. /\ threads' \in Seq(Thread) /\ Len(threads') = Len(threads)
      /\ threads'[i] = t
      /\ \A j \in 1..Len(threads) : j # i => threads'[j] = threads[j]
  BY <1>2, <1>3, Replaced
<1> QED
  BY <1>2, <1>4 DEF Moved

\* Where each action leaves the thread that takes it.
LEMMA ThreadMoves ==
  ASSUME TypeOK, NEW i \in Nat, ThreadStep(i)
  PROVE  \/ Speculate(i) /\ threads[i].pc = "spawned" /\ Moved(i, "locking")
         \/ Enter(i) /\ threads[i].pc = "locking" /\ Moved(i, "compiling")
         \/ EnterFails(i) /\ threads[i].pc = "locking" /\ Moved(i, "failed")
         \/ CompileOk(i) /\ threads[i].pc = "compiling" /\ Moved(i, "done")
         \/ CompileFails(i) /\ threads[i].pc = "compiling" /\ Moved(i, "failed")
         \/ LayoutMismatch(i) /\ threads[i].pc = "compiling" /\ Moved(i, "mismatched")
         \/ Panic(i) /\ threads[i].pc = "compiling" /\ Moved(i, "failed")
<1> threads \in Seq(Thread) /\ fold \in {"user", "0"}
  BY DEF TypeOK
<1> USE DEF At, ThreadLabels, Ended
<1>1. CASE Speculate(i)
  BY <1>1, GotoMoves DEF Speculate
<1>2. CASE Enter(i)
  BY <1>2, FoldMoves DEF Enter
<1>3. CASE EnterFails(i)
  BY <1>3, GotoMoves DEF EnterFails
<1>4. CASE CompileOk(i)
  BY <1>4, FoldMoves DEF CompileOk, Restore
<1>5. CASE CompileFails(i)
  BY <1>5, FoldMoves DEF CompileFails, Restore
<1>6. CASE LayoutMismatch(i)
  BY <1>6, FoldMoves DEF LayoutMismatch
<1>7. CASE Panic(i)
  BY <1>7, FoldMoves DEF Panic
<1> QED
  BY <1>1, <1>2, <1>3, <1>4, <1>5, <1>6, <1>7 DEF ThreadStep

-----------------------------------------------------------------------------

LEMMA TypeInit == Init => TypeOK
<1> SUFFICES ASSUME Init
             PROVE  TypeOK
  OBVIOUS
<1> USE DEF Init
<1>1. code \in Code
  BY DEF Code
<1>2. threads \in Seq(Thread) /\ Len(threads) <= MaxThreads
  OBVIOUS
<1>3. registry \in [generation : Nat, holds : BOOLEAN]
  OBVIOUS
<1>4. pending \in [1..Runs -> Code \union {None}]
  OBVIOUS
<1>5. steps \in 0..Threshold /\ refused \in 0..MaxRefused /\ tier \in Tiers /\ run \in 0..Runs
  OBVIOUS
<1> QED
  BY <1>1, <1>2, <1>3, <1>4, <1>5 DEF TypeOK

\* A tier-up that is asked for: the thread it starts, if any.
LEMMA Requested ==
  ASSUME TypeOK, run \in 1..Runs, NEW t \in 1..3, RequestTierUp(t)
  PROVE  /\ threads' \in Seq(Thread) /\ Len(threads') <= MaxThreads
         /\ inFlight' \in BOOLEAN /\ refused' \in 0..MaxRefused
         /\ \A j \in 1..Len(threads) : threads'[j] = threads[j]
         /\ \/ threads' = threads
            \/ /\ Len(threads') = Len(threads) + 1 /\ inFlight'
               /\ threads'[Len(threads')].run = run /\ threads'[Len(threads')].tier = t
               /\ threads'[Len(threads')].pc \in {"spawned", "locking"}
<1> DEFINE new == [run |-> run, tier |-> t, profiled |-> profile, fold |-> "user",
                   pc |-> IF t = ProfileGuided THEN "spawned" ELSE "locking"]
<1> USE DEF TypeOK
<1> new \in Thread
  BY DEF Thread, ThreadLabels
<1>0. /\ new.run = run /\ new.tier = t /\ new.pc \in {"spawned", "locking"}
  OBVIOUS
<1>3. \/ /\ threads' = Append(threads, new) /\ inFlight' = TRUE /\ refused' = refused
         /\ Len(threads) < MaxThreads
      \/ /\ threads' = threads /\ inFlight' = FALSE /\ refused' = refused + 1
         /\ refused < MaxRefused
  BY DEF RequestTierUp
<1> HIDE DEF new
<1>1. CASE threads' = Append(threads, new) /\ inFlight' = TRUE /\ refused' = refused
           /\ Len(threads) < MaxThreads
  <2>1. /\ threads' \in Seq(Thread) /\ Len(threads') = Len(threads) + 1
        /\ \A j \in 1..Len(threads) : threads'[j] = threads[j]
        /\ threads'[Len(threads) + 1] = new
    BY <1>1, Start
  <2>2. Len(threads') <= MaxThreads
    BY <1>1, <2>1
  <2> QED
    BY <1>0, <1>1, <2>1, <2>2
<1>2. CASE threads' = threads /\ inFlight' = FALSE /\ refused' = refused + 1
           /\ refused < MaxRefused
  <2>0. threads' = threads
    BY <1>2
  <2>1. /\ threads' \in Seq(Thread) /\ Len(threads') <= MaxThreads
        /\ \A j \in 1..Len(threads) : threads'[j] = threads[j]
    BY <2>0
  <2>2. refused \in Nat /\ MaxRefused \in Nat
    OBVIOUS
  <2>3. refused' \in 0..MaxRefused
    BY <1>2, <2>2
  <2> QED
    BY <1>2, <2>1, <2>3
<1> QED
  BY <1>1, <1>2, <1>3


\* What a step of the scheduler does: an upgrade that is ready is installed, and
\* a thread is started only when none is under way.
Stepped ==
  /\ steps' \in 0..Threshold /\ code' \in Code /\ tier' \in Tiers
  /\ refused' \in 0..MaxRefused /\ inFlight' \in BOOLEAN
  /\ threads' \in Seq(Thread) /\ Len(threads') <= MaxThreads
  /\ pending' = [pending EXCEPT ![run] = None]
  /\ pending[run] # None => code' = pending[run] /\ tier' = pending[run].tier
  /\ pending[run] = None => code' = code /\ tier' = tier
  /\ \A j \in 1..Len(threads) : threads'[j] = threads[j]
  /\ \/ threads' = threads /\ (inFlight /\ pending[run] = None => inFlight')
     \/ /\ pending[run] # None \/ ~inFlight
        /\ Len(threads') = Len(threads) + 1 /\ inFlight'
        /\ threads'[Len(threads')].run = run
        /\ threads'[Len(threads')].tier = tier' + 1
        /\ threads'[Len(threads')].pc \in {"spawned", "locking"}

LEMMA OnStepSteps ==
  ASSUME TypeOK, run \in 1..Runs, OnStep
  PROVE  Stepped
<1>1. steps' \in 0..Threshold
  <2>1. steps \in 0..Threshold /\ Threshold \in Nat
    BY DEF TypeOK
  <2>2. steps' = IF steps < Threshold THEN steps + 1 ELSE steps
    BY DEF OnStep
  <2> QED
    BY <2>1, <2>2
<1>2. /\ code' \in Code /\ tier' \in Tiers
      /\ pending[run] # None => code' = pending[run] /\ tier' = pending[run].tier
      /\ pending[run] = None => code' = code /\ tier' = tier
  <2>1. CASE pending[run] # None
    <3>1. code' = pending[run] /\ tier' = pending[run].tier
      BY <2>1 DEF OnStep
    <3>2. pending[run] \in Code
      BY <2>1 DEF TypeOK
    <3>3. pending[run].tier \in Tiers
      BY <3>2 DEF Code
    <3> QED
      BY <2>1, <3>1, <3>2, <3>3
  <2>2. CASE pending[run] = None
    BY <2>2 DEF OnStep, TypeOK
  <2> QED
    BY <2>1, <2>2
<1>3. pending' = [pending EXCEPT ![run] = None]
  BY DEF OnStep
<1> DEFINE asks == (pending[run] # None \/ ~inFlight) /\ ShouldTierUp(tier', steps') # None
<1>4. CASE asks
  <2> DEFINE next == ShouldTierUp(tier', steps')
  <2>1. RequestTierUp(next)
    BY <1>4 DEF OnStep
  <2>2. next = tier' + 1 /\ next \in 1..3
    <3>1. steps' \in Nat
      BY <1>1
    <3> QED
      BY <1>2, <1>4, <3>1, NextTier
  <2> HIDE DEF next
  <2>3. /\ threads' \in Seq(Thread) /\ Len(threads') <= MaxThreads
        /\ inFlight' \in BOOLEAN /\ refused' \in 0..MaxRefused
        /\ \A j \in 1..Len(threads) : threads'[j] = threads[j]
        /\ \/ threads' = threads
           \/ /\ Len(threads') = Len(threads) + 1 /\ inFlight'
              /\ threads'[Len(threads')].run = run /\ threads'[Len(threads')].tier = next
              /\ threads'[Len(threads')].pc \in {"spawned", "locking"}
    BY <2>1, <2>2, Requested
  <2> QED
    BY <1>1, <1>2, <1>3, <1>4, <2>2, <2>3 DEF Stepped
<1>5. CASE ~asks
  <2>1. threads' = threads /\ refused' = refused /\ inFlight' = (inFlight /\ pending[run] = None)
    BY <1>5 DEF OnStep
  <2>2. threads \in Seq(Thread) /\ Len(threads) <= MaxThreads /\ refused \in 0..MaxRefused
    BY DEF TypeOK
  <2> QED
    BY <1>1, <1>2, <1>3, <2>1, <2>2 DEF Stepped
<1> QED
  BY <1>4, <1>5

\* A step boundary either keeps the run on the code it has, without its guards
\* at most, or is a step of the scheduler.
LEMMA BoundarySteps ==
  ASSUME TypeOK, run \in 1..Runs, Boundary
  PROVE  \/ Stepped
         \/ /\ code' \in Code /\ code'.run = code.run /\ code'.tier = code.tier
            /\ UNCHANGED <<scheduler, pending, threads>>
<1>1. CASE locked'
  <2>1. code \in Code
    BY DEF TypeOK
  <2>2. /\ code' \in {code, [code EXCEPT !.guards = 0]}
        /\ UNCHANGED <<scheduler, pending, threads>>
    BY <1>1 DEF Boundary
  <2> QED
    BY <2>1, <2>2 DEF Code
<1>2. CASE ~locked'
  <2>1. OnStep
    BY <1>2 DEF Boundary
  <2> QED
    BY <2>1, OnStepSteps
<1> QED
  BY <1>1, <1>2

-----------------------------------------------------------------------------
(* Types are kept: a run under way has a number, since it calls its own code. *)

\* The registry filled anew, or some guard of it withdrawn.
LEMMA RegistryKept ==
  ASSUME TypeOK,
         \/ NewGuards
         \/ \E b \in BOOLEAN : registry' = [registry EXCEPT !.holds = @ /\ b]
         \/ UNCHANGED registry
  PROVE  registry' \in [generation : Nat, holds : BOOLEAN]
<1>0. registry \in [generation : Nat, holds : BOOLEAN]
  BY DEF TypeOK
<1>1. CASE NewGuards
  <2>1. registry.generation + 1 \in Nat
    BY <1>0
  <2> QED
    BY <1>1, <2>1 DEF NewGuards
<1>2. ASSUME NEW b \in BOOLEAN, registry' = [registry EXCEPT !.holds = @ /\ b]
      PROVE  registry' \in [generation : Nat, holds : BOOLEAN]
  BY <1>0, <1>2
<1> QED
  BY <1>0, <1>1, <1>2

LEMMA TypeBegin == TypeOK /\ BeginRun => TypeOK'
<1> SUFFICES ASSUME TypeOK, BeginRun
             PROVE  TypeOK'
  OBVIOUS
<1> USE DEF TypeOK
<1>1. registry' \in [generation : Nat, holds : BOOLEAN]
  <2>1. NewGuards \/ UNCHANGED registry
    BY DEF BeginRun, Refill
  <2> QED
    BY <2>1, RegistryKept
<1>2. ActiveGuards' \in Nat
  BY <1>1 DEF ActiveGuards
<1>3. run' \in 1..Runs /\ tier' \in Tiers
  BY DEF BeginRun
<1>4. code' \in Code
  BY <1>2, <1>3 DEF BeginRun, Code
<1>5. /\ profile' \in BOOLEAN /\ generic' \in BOOLEAN /\ deoptPending' \in BOOLEAN
      /\ locked' \in BOOLEAN /\ inFlight' \in BOOLEAN /\ signal' \in BOOLEAN
  BY DEF BeginRun
<1>6. steps' \in 0..Threshold /\ run' \in 0..Runs /\ mpc' \in {"idle", "boundary", "call"}
  BY <1>3 DEF BeginRun
<1>7. UNCHANGED <<refused, pending, threads, lock, optLevel, fold>>
  BY DEF BeginRun
<1> QED
  BY <1>1, <1>3, <1>4, <1>5, <1>6, <1>7

LEMMA TypeBoundary == TypeOK /\ OwnInv /\ Boundary => TypeOK'
<1> SUFFICES ASSUME TypeOK, OwnInv, Boundary
             PROVE  TypeOK'
  OBVIOUS
<1>1. run \in 1..Runs
  BY DEF TypeOK, OwnInv, Running, Boundary, Code
<1>2. registry' \in [generation : Nat, holds : BOOLEAN]
  BY DEF TypeOK, Boundary
<1>3. /\ mpc' \in {"idle", "boundary", "call"} /\ deoptPending' \in BOOLEAN
      /\ locked' \in BOOLEAN
      /\ UNCHANGED <<run, profile, generic, lock, optLevel, fold, signal>>
  BY DEF TypeOK, Boundary
<1>4. CASE Stepped
  <2>1. pending' \in [1..Runs -> Code \union {None}]
    BY <1>4 DEF TypeOK, Stepped
  <2> QED
    BY <1>2, <1>3, <1>4, <2>1 DEF TypeOK, Stepped
<1>5. CASE code' \in Code /\ UNCHANGED <<scheduler, pending, threads>>
  BY <1>2, <1>3, <1>5 DEF TypeOK
<1> QED
  BY <1>1, <1>4, <1>5, BoundarySteps

\* A thread does not touch the run, and leaves everything else within its type.
LEMMA TypeThread ==
  ASSUME TypeOK, NEW i \in Nat, ThreadStep(i)
  PROVE  TypeOK'
<1> USE DEF TypeOK
<1>1. /\ threads' \in Seq(Thread) /\ Len(threads') = Len(threads)
      /\ i \in 1..Len(threads)
  BY ThreadMoves DEF Moved
<1>2. threads[i] \in Thread
  BY <1>1
<1>3. UNCHANGED <<mpc, run, code, profile, generic, deoptPending, locked,
                  tier, steps, inFlight, refused, signal>>
  BY DEF ThreadStep, Speculate, Enter, EnterFails, CompileOk, CompileFails,
         LayoutMismatch, Panic
<1>4. registry' \in [generation : Nat, holds : BOOLEAN]
  <2>1. CASE CompileOk(i)
    <3>1. \E b \in BOOLEAN : registry' = [registry EXCEPT !.holds = @ /\ b]
      BY <2>1 DEF CompileOk, DualCompile
    <3> QED
      BY <3>1, RegistryKept
  <2>2. CASE ~CompileOk(i)
    <3>1. NewGuards \/ UNCHANGED registry
      BY <2>2 DEF ThreadStep, Speculate, Enter, EnterFails, CompileFails, LayoutMismatch, Panic,
         Refill
    <3> QED
      BY <3>1, RegistryKept
  <2> QED
    BY <2>1, <2>2
<1>5. pending' \in [1..Runs -> Code \union {None}]
  <2>1. ActiveGuards \in Nat
    BY DEF ActiveGuards
  <2>2. Compiled(i) \in Code
    BY <1>2, <2>1 DEF Compiled, Code, Thread
  <2>3. CASE UNCHANGED pending
    BY <2>3
  <2>4. CASE Offer(i)
    <3>1. threads[i].run \in 1..Runs
      BY <1>2 DEF Thread
    <3> QED
      BY <2>2, <2>4, <3>1 DEF Offer
  <2> QED
    BY <2>3, <2>4 DEF ThreadStep, Speculate, Enter, EnterFails, CompileOk, CompileFails,
       LayoutMismatch, Panic
<1>6. /\ lock' \in {"free", "held", "poisoned"}
      /\ optLevel' \in {"user", "none", "speed"} /\ fold' \in {"user", "0"}
  BY <1>2 DEF ThreadStep, Speculate, Enter, EnterFails, CompileOk, CompileFails,
     LayoutMismatch, Panic, Restore, OptLevel, Thread
<1> QED
  BY <1>1, <1>3, <1>4, <1>5, <1>6

LEMMA TypeStep == TypeOK /\ OwnInv /\ [Next]_vars => TypeOK'
<1> SUFFICES ASSUME TypeOK, OwnInv, [Next]_vars
             PROVE  TypeOK'
  OBVIOUS
<1>1. CASE BeginRun
  BY <1>1, TypeBegin
<1>2. CASE EndRun
  BY <1>2 DEF TypeOK, EndRun
<1>3. CASE Boundary
  BY <1>3, TypeBoundary
<1>4. CASE CallCode
  BY <1>4 DEF TypeOK, CallCode
<1>5. ASSUME NEW i \in 1..Len(threads), ThreadStep(i)
      PROVE  TypeOK'
  BY <1>5, TypeThread
<1>6. CASE UNCHANGED vars
  BY <1>6 DEF TypeOK
<1> QED
  BY <1>1, <1>2, <1>3, <1>4, <1>5, <1>6 DEF Next, Pass, Done

-----------------------------------------------------------------------------
(* Code stays with its run: an upgrade is kept for the run it was compiled    *)
(* for, and a run installs only its own.                                      *)

LEMMA OwnStep == TypeOK /\ OwnInv /\ [Next]_vars => OwnInv'
<1> SUFFICES ASSUME TypeOK, OwnInv, [Next]_vars
             PROVE  OwnInv'
  OBVIOUS
<1>1. CASE BeginRun
  BY <1>1 DEF OwnInv, BeginRun, Running
<1>2. CASE EndRun
  BY <1>2 DEF OwnInv, EndRun, Running
<1>3. CASE Boundary
  <2>1. Running /\ Running' /\ run' = run /\ run \in 1..Runs
    BY <1>3 DEF Boundary, Running, OwnInv, TypeOK, Code
  <2>2. CASE Stepped
    <3>1. code'.run = run /\ code'.tier = tier'
      BY <2>1, <2>2 DEF Stepped, OwnInv
    <3>2. ASSUME NEW r \in 1..Runs, pending'[r] # None
          PROVE  pending'[r].run = r
      BY <2>2, <3>2 DEF Stepped, OwnInv, TypeOK
    <3> QED
      BY <2>1, <3>1, <3>2 DEF OwnInv
  <2>3. CASE code'.run = code.run /\ code'.tier = code.tier
             /\ UNCHANGED <<scheduler, pending, threads>>
    BY <2>1, <2>3 DEF OwnInv
  <2> QED
    BY <1>3, <2>1, <2>2, <2>3, BoundarySteps
<1>4. CASE CallCode
  BY <1>4 DEF OwnInv, CallCode, Running
<1>5. ASSUME NEW i \in 1..Len(threads), ThreadStep(i)
      PROVE  OwnInv'
  <2>1. UNCHANGED <<mpc, run, code, tier>>
    BY <1>5 DEF ThreadStep, Speculate, Enter, EnterFails, CompileOk, CompileFails,
       LayoutMismatch, Panic
  <2>2. UNCHANGED pending \/ Offer(i)
    BY <1>5 DEF ThreadStep, Speculate, Enter, EnterFails, CompileOk, CompileFails,
       LayoutMismatch, Panic
  <2>3. ASSUME NEW r \in 1..Runs, pending'[r] # None, Offer(i)
        PROVE  pending'[r].run = r
    BY <2>3 DEF OwnInv, Offer, Compiled, TypeOK
  <2> QED
    BY <2>1, <2>2, <2>3 DEF OwnInv, Running
<1>6. CASE UNCHANGED vars
  BY <1>6 DEF OwnInv, Running
<1> QED
  BY <1>1, <1>2, <1>3, <1>4, <1>5, <1>6 DEF Next, Pass, Done

-----------------------------------------------------------------------------
(* The lock keeps the compiling threads apart.                                *)

\* Steps that start no compilation and leave the environment alone.
LEMMA LockKept ==
  ASSUME TypeOK, LockInv, UNCHANGED environment, LeftOff' <=> LeftOff,
         threads' \in Seq(Thread), Len(threads') >= Len(threads),
         \A j \in 1..Len(threads') : threads'[j].pc = "compiling"
            => j \in 1..Len(threads) /\ threads'[j] = threads[j]
  PROVE  LockInv'
<1>1. UNCHANGED <<lock, optLevel, fold>>
  OBVIOUS
<1>2. \A j \in 1..Len(threads') : threads'[j].pc = "compiling"
        => /\ lock = "held" /\ optLevel = OptLevel(threads'[j].tier)
           /\ fold = "0" <=> SkipsFolding(threads'[j].tier) \/ LeftOff
           /\ threads'[j].fold = "0" <=> LeftOff
  BY DEF LockInv, CompilesAsItsTier
<1>3. \A i, j \in 1..Len(threads') :
        threads'[i].pc = "compiling" /\ threads'[j].pc = "compiling" => i = j
  BY DEF LockInv
<1>4. lock' = "free" => (fold' = "0" <=> LeftOff')
  BY <1>1 DEF LockInv
<1>5. CompilesAsItsTier'
  BY <1>1, <1>2 DEF CompilesAsItsTier, OptLevel, SkipsFolding
<1> QED
  BY <1>1, <1>2, <1>3, <1>4, <1>5 DEF LockInv

\* Only a mismatch leaves the folding off.
LEMMA NothingLeft ==
  ASSUME NEW i \in Nat, NEW label \in ThreadLabels, Moved(i, label),
         threads[i].pc # "mismatched"
  PROVE  LeftOff' <=> LeftOff \/ (label = "mismatched" /\ SkipsFolding(threads[i].tier))
<1>1. \A j \in 1..Len(threads) : j # i => threads'[j] = threads[j]
  BY DEF Moved
<1>2. /\ Len(threads') = Len(threads) /\ i \in 1..Len(threads)
      /\ threads'[i].pc = label /\ threads'[i].tier = threads[i].tier
  BY DEF Moved
<1> QED
  BY <1>1, <1>2 DEF LeftOff, SkipsFolding

\* A thread that stops compiling leaves none that does.
LEMMA LockReleased ==
  ASSUME TypeOK, LockInv, NEW i \in Nat, NEW label \in Ended,
         threads[i].pc = "compiling", Moved(i, label),
         lock' = "free" => (fold' = "0" <=> LeftOff')
  PROVE  LockInv'
<1>1. \A j \in 1..Len(threads') : threads'[j].pc # "compiling"
  BY DEF LockInv, Moved, Ended
<1> QED
  BY <1>1 DEF LockInv, CompilesAsItsTier

LEMMA LockThread ==
  ASSUME TypeOK, LockInv, NEW i \in Nat, ThreadStep(i)
  PROVE  LockInv'
<1> USE DEF ThreadLabels, Ended
<1>1. CASE Speculate(i) /\ threads[i].pc = "spawned" /\ Moved(i, "locking")
  <2>1. LeftOff' <=> LeftOff
    BY <1>1, NothingLeft
  <2> QED
    BY <1>1, <2>1, LockKept DEF Moved, Speculate
<1>2. CASE Enter(i) /\ threads[i].pc = "locking" /\ Moved(i, "compiling")
  <2>1. \A j \in 1..Len(threads) : threads[j].pc # "compiling"
    BY <1>2 DEF LockInv, Enter
  <2>2. \A j \in 1..Len(threads') : threads'[j].pc = "compiling" => j = i
    BY <1>2, <2>1 DEF Moved
  <2>3. /\ lock' = "held" /\ threads'[i].tier = threads[i].tier
        /\ optLevel' = OptLevel(threads[i].tier)
        /\ fold' = IF SkipsFolding(threads[i].tier) THEN "0" ELSE fold
    BY <1>2 DEF Enter, Moved
  <2>4. threads'[i].fold = fold
    <3>1. threads[i] \in Thread /\ i \in 1..Len(threads) /\ threads \in Seq(Thread)
      BY <1>2 DEF TypeOK, Moved
    <3>2. threads' = [threads EXCEPT ![i].pc = "compiling", ![i].fold = fold]
      BY <1>2 DEF Enter
    <3> QED
      BY <3>1, <3>2 DEF Thread
  <2>5. (LeftOff' <=> LeftOff) /\ (fold = "0" <=> LeftOff)
    BY <1>2, NothingLeft DEF LockInv, Enter
  <2>6. CompilesAsItsTier'
    BY <2>2, <2>3, <2>5 DEF CompilesAsItsTier, OptLevel, SkipsFolding
  <2> QED
    BY <2>2, <2>3, <2>4, <2>5, <2>6 DEF LockInv
<1>3. CASE EnterFails(i) /\ threads[i].pc = "locking" /\ Moved(i, "failed")
  <2>1. LeftOff' <=> LeftOff
    BY <1>3, NothingLeft
  <2> QED
    BY <1>3, <2>1, LockKept DEF Moved, EnterFails
<1>4. ASSUME NEW label \in {"done", "failed"}, Restore(i, label),
             threads[i].pc = "compiling", Moved(i, label)
      PROVE  LockInv'
  <2>1. (LeftOff' <=> LeftOff) /\ (threads[i].fold = "0" <=> LeftOff)
    BY <1>4, NothingLeft DEF LockInv, Moved
  <2>2. fold' = "0" <=> LeftOff'
    BY <1>4, <2>1 DEF Restore
  <2> QED
    BY <1>4, <2>2, LockReleased
<1>5. CASE LayoutMismatch(i) /\ threads[i].pc = "compiling" /\ Moved(i, "mismatched")
  <2>1. LeftOff' <=> LeftOff \/ SkipsFolding(threads[i].tier)
    BY <1>5, NothingLeft
  <2>2. fold' = "0" <=> LeftOff'
    BY <1>5, <2>1 DEF LayoutMismatch, LockInv, CompilesAsItsTier, Moved
  <2> QED
    BY <1>5, <2>2, LockReleased
<1>6. CASE Panic(i) /\ threads[i].pc = "compiling" /\ Moved(i, "failed")
  BY <1>6, LockReleased DEF Panic
<1> QED
  BY <1>1, <1>2, <1>3, <1>4, <1>5, <1>6, ThreadMoves DEF CompileOk, CompileFails

LEMMA LockStep == TypeOK /\ OwnInv /\ LockInv /\ [Next]_vars => LockInv'
<1> SUFFICES ASSUME TypeOK, OwnInv, LockInv, [Next]_vars
             PROVE  LockInv'
  OBVIOUS
<1>0. threads \in Seq(Thread)
  BY DEF TypeOK
<1>1. ASSUME UNCHANGED <<environment, threads>>
      PROVE  LockInv'
  <2>1. LeftOff' <=> LeftOff
    BY <1>1 DEF LeftOff
  <2> QED
    BY <1>0, <1>1, <2>1, LockKept
<1>2. CASE Boundary
  <2>1. run \in 1..Runs /\ UNCHANGED environment
    BY <1>2 DEF Boundary, Running, OwnInv, TypeOK, Code
  <2>2. CASE Stepped
    <3>0. Len(threads) \in Nat
      BY <1>0
    <3>1. threads' \in Seq(Thread) /\ Len(threads') >= Len(threads)
      BY <2>2, <3>0 DEF Stepped
    <3>2. ASSUME NEW j \in 1..Len(threads'), threads'[j].pc = "compiling"
          PROVE  j \in 1..Len(threads) /\ threads'[j] = threads[j]
      <4>1. j \in 1..Len(threads) \/ (j = Len(threads') /\ threads' # threads)
        BY <2>2, <3>0 DEF Stepped
      <4>2. j \in 1..Len(threads)
        BY <2>2, <3>2, <4>1 DEF Stepped
      <4> QED
        BY <2>2, <4>2 DEF Stepped
    <3>3. LeftOff' <=> LeftOff
      <4>1. \A j \in 1..Len(threads) : j \in 1..Len(threads') /\ threads'[j] = threads[j]
        BY <2>2, <3>0 DEF Stepped
      <4>2. \A j \in 1..Len(threads') : threads'[j].pc = "mismatched" => j \in 1..Len(threads)
        BY <2>2, <3>0 DEF Stepped
      <4> QED
        BY <4>1, <4>2 DEF LeftOff
    <3> QED
      BY <2>1, <3>1, <3>2, <3>3, LockKept
  <2>3. CASE UNCHANGED threads
    BY <1>1, <2>1, <2>3
  <2> QED
    BY <1>2, <2>1, <2>2, <2>3, BoundarySteps
<1>3. ASSUME NEW i \in 1..Len(threads), ThreadStep(i)
      PROVE  LockInv'
  BY <1>3, LockThread
<1>4. CASE BeginRun \/ EndRun \/ CallCode \/ UNCHANGED vars
  BY <1>1, <1>4 DEF BeginRun, EndRun, CallCode
<1> QED
  BY <1>2, <1>3, <1>4 DEF Next, Pass, Done

-----------------------------------------------------------------------------
(* One attempt at a time, for the next tier.                                  *)

\* A run that begins has neither a thread nor an upgrade.
LEMMA FlightBegin == TypeOK /\ FlightInv /\ BeginRun => FlightInv'
<1> SUFFICES ASSUME TypeOK, FlightInv, BeginRun
             PROVE  FlightInv'
  OBVIOUS
<1>1. run \in Nat /\ run' = run + 1 /\ run' \in 1..Runs /\ UNCHANGED <<pending, threads>>
  BY DEF TypeOK, BeginRun
<1>2. pending'[run'] = None
  BY <1>1 DEF FlightInv
<1>3. \A i \in 1..Len(threads) : threads[i].run \in Nat /\ threads[i].run <= run
  <2>1. \A i \in 1..Len(threads) : threads[i] \in Thread
    BY DEF TypeOK
  <2> QED
    BY <2>1 DEF FlightInv, Thread
<1>4. \A i \in 1..Len(threads') : ~Mine(i)'
  BY <1>1, <1>3 DEF Mine
<1> QED
  BY <1>1, <1>2, <1>3, <1>4 DEF FlightInv

LEMMA FlightStepped ==
  ASSUME TypeOK, FlightInv, run \in 1..Runs, run' = run, Stepped
  PROVE  FlightInv'
<1>1. pending'[run] = None /\ \A r \in 1..Runs : r # run => pending'[r] = pending[r]
  BY DEF TypeOK, Stepped
<1>2. \A r \in 1..Runs : r > run' => pending'[r] = None
  BY <1>1 DEF FlightInv
<1>3. \A i \in 1..Len(threads) : (Alive(i)' <=> Alive(i)) /\ (Mine(i)' <=> Mine(i))
                                 /\ threads'[i].tier = threads[i].tier
                                 /\ threads'[i].run = threads[i].run
  BY DEF Stepped, Alive, Mine
<1>4. CASE threads' = threads /\ (inFlight /\ pending[run] = None => inFlight')
  <2>1. ASSUME NEW i \in 1..Len(threads), Alive(i), Mine(i)
        PROVE  inFlight' /\ threads'[i].tier = tier' + 1
    BY <1>3, <1>4, <2>1 DEF FlightInv, Stepped
  <2> QED
    BY <1>1, <1>2, <1>3, <1>4, <2>1 DEF FlightInv
<1>5. CASE /\ pending[run] # None \/ ~inFlight
           /\ Len(threads') = Len(threads) + 1 /\ inFlight'
           /\ threads'[Len(threads')].run = run
           /\ threads'[Len(threads')].tier = tier' + 1
  <2>1. \A i \in 1..Len(threads) : ~(Alive(i) /\ Mine(i))
    BY <1>5 DEF FlightInv
  <2>2. \A i \in 1..Len(threads') : i \in 1..Len(threads) \/ i = Len(threads')
    <3>1. Len(threads) \in Nat
      BY DEF TypeOK
    <3> QED
      BY <1>5, <3>1
  <2>3. \A i \in 1..Len(threads') : Alive(i)' /\ Mine(i)' => i = Len(threads')
    BY <1>3, <2>1, <2>2
  <2>4. \A i \in 1..Len(threads') : threads'[i].run <= run'
    BY <1>3, <1>5, <2>2 DEF FlightInv
  <2> QED
    BY <1>1, <1>2, <1>5, <2>3, <2>4 DEF FlightInv
<1> QED
  BY <1>4, <1>5 DEF Stepped

\* A thread that goes on to another label, whatever becomes of it, takes no
\* other thread with it.
LEMMA FlightMoved ==
  ASSUME TypeOK, FlightInv, NEW i \in Nat, NEW label \in ThreadLabels, Moved(i, label),
         threads[i].pc \in {"spawned", "locking", "compiling"},
         UNCHANGED <<run, tier, inFlight, pending>>
  PROVE  FlightInv'
<1>1. \A j \in 1..Len(threads) : /\ Alive(j)' => Alive(j)
                                 /\ Mine(j)' <=> Mine(j)
                                 /\ threads'[j].tier = threads[j].tier
                                 /\ threads'[j].run = threads[j].run
  BY DEF Moved, Alive, Mine, Ended
<1>2. Len(threads') = Len(threads)
  BY DEF Moved
<1> QED
  BY <1>1, <1>2 DEF FlightInv

\* The upgrade takes the place of its thread.
LEMMA FlightOffered ==
  ASSUME TypeOK, FlightInv, NEW i \in Nat, CompileOk(i), threads[i].pc = "compiling",
         Moved(i, "done")
  PROVE  FlightInv'
<1>1. \A j \in 1..Len(threads) : /\ Alive(j)' <=> Alive(j) /\ j # i
                                 /\ Mine(j)' <=> Mine(j)
                                 /\ threads'[j].tier = threads[j].tier
                                 /\ threads'[j].run = threads[j].run
  BY DEF Moved, Alive, Mine, CompileOk, Ended
<1>2. Len(threads') = Len(threads) /\ i \in 1..Len(threads) /\ Alive(i)
  BY DEF Moved, Alive, Ended
<1>3. UNCHANGED <<run, tier, inFlight>>
  BY DEF CompileOk
<1>4. threads[i].run \in 1..Runs /\ threads[i].run <= run /\ run \in Nat
  <2>1. threads[i] \in Thread /\ run \in Nat
    BY <1>2 DEF TypeOK
  <2> QED
    BY <1>2, <2>1 DEF FlightInv, Thread
<1>5. /\ pending'[threads[i].run] = Compiled(i)
      /\ \A r \in 1..Runs : r # threads[i].run => pending'[r] = pending[r]
  BY <1>4 DEF CompileOk, Offer, TypeOK
<1>6. \A r \in 1..Runs : r > run' => pending'[r] = None
  BY <1>3, <1>4, <1>5 DEF FlightInv
<1>7. Mine(i) => inFlight /\ pending'[run].tier = tier + 1
  BY <1>2, <1>5 DEF FlightInv, Compiled, Mine
<1>8. ~Mine(i) => pending'[run] = pending[run] \/ run = 0
  BY <1>4, <1>5 DEF Mine, TypeOK
<1>9. run' > 0 /\ pending'[run'] # None => inFlight' /\ pending'[run'].tier = tier' + 1
  BY <1>3, <1>7, <1>8 DEF FlightInv
<1>10. ASSUME NEW j \in 1..Len(threads'), Alive(j)', Mine(j)'
       PROVE  inFlight' /\ pending'[run'] = None /\ threads'[j].tier = tier' + 1
  <2>1. Alive(j) /\ Mine(j) /\ j # i /\ j \in 1..Len(threads)
    BY <1>1, <1>2, <1>10
  <2>2. ~Mine(i)
    BY <1>2, <2>1 DEF FlightInv
  <2>3. run # 0
    BY <1>4, <2>1, <1>2 DEF Mine, TypeOK, Thread
  <2> QED
    BY <1>1, <1>3, <1>8, <2>1, <2>2, <2>3 DEF FlightInv
<1> QED
  BY <1>1, <1>2, <1>3, <1>6, <1>9, <1>10 DEF FlightInv

LEMMA FlightThread ==
  ASSUME TypeOK, FlightInv, NEW i \in Nat, ThreadStep(i)
  PROVE  FlightInv'
<1>1. CASE CompileOk(i) /\ threads[i].pc = "compiling" /\ Moved(i, "done")
  BY <1>1, FlightOffered
<1>2. CASE \/ Speculate(i) \/ Enter(i) \/ EnterFails(i)
           \/ CompileFails(i) \/ LayoutMismatch(i) \/ Panic(i)
  <2>1. UNCHANGED <<run, tier, inFlight, pending>>
    BY <1>2 DEF Speculate, Enter, EnterFails, CompileFails, LayoutMismatch, Panic
  <2>2. \E label \in ThreadLabels : Moved(i, label)
    BY ThreadMoves DEF ThreadLabels, Ended
  <2>3. threads[i].pc \in {"spawned", "locking", "compiling"}
    BY ThreadMoves
  <2> QED
    BY <2>1, <2>2, <2>3, FlightMoved
<1> QED
  BY <1>1, <1>2, ThreadMoves

LEMMA FlightStep == TypeOK /\ OwnInv /\ FlightInv /\ [Next]_vars => FlightInv'
<1> SUFFICES ASSUME TypeOK, OwnInv, FlightInv, [Next]_vars
             PROVE  FlightInv'
  OBVIOUS
<1>1. ASSUME UNCHANGED <<run, tier, inFlight, pending, threads>>
      PROVE  FlightInv'
  BY <1>1 DEF FlightInv, Alive, Mine
<1>2. CASE BeginRun
  BY <1>2, FlightBegin
<1>3. CASE Boundary
  <2>1. run \in 1..Runs /\ run' = run
    BY <1>3 DEF Boundary, Running, OwnInv, TypeOK, Code
  <2>2. CASE Stepped
    BY <2>1, <2>2, FlightStepped
  <2>3. CASE UNCHANGED <<scheduler, pending, threads>>
    BY <1>1, <2>1, <2>3
  <2> QED
    BY <1>3, <2>1, <2>2, <2>3, BoundarySteps
<1>4. ASSUME NEW i \in 1..Len(threads), ThreadStep(i)
      PROVE  FlightInv'
  BY <1>4, FlightThread
<1>5. CASE EndRun \/ CallCode \/ UNCHANGED vars
  BY <1>1, <1>5 DEF EndRun, CallCode
<1> QED
  BY <1>2, <1>3, <1>4, <1>5 DEF Next, Pass, Done

-----------------------------------------------------------------------------
(* Theorems                                                                   *)

LEMMA InitInv == Init => OwnInv /\ LockInv /\ FlightInv
  BY DEF Init, OwnInv, LockInv, FlightInv, Running, CompilesAsItsTier, LeftOff

LEMMA Invariance == Spec => [](TypeOK /\ OwnInv /\ LockInv /\ FlightInv)
<1>1. TypeOK /\ OwnInv /\ LockInv /\ FlightInv /\ [Next]_vars
        => (TypeOK /\ OwnInv /\ LockInv /\ FlightInv)'
  BY TypeStep, OwnStep, LockStep, FlightStep
<1> QED
  BY <1>1, TypeInit, InitInv, PTL DEF Spec

\* Every reachable state of the tiered runs is well typed.
THEOREM TypeCorrect == Spec => []TypeOK
  BY Invariance, PTL

\* A run never calls code of another run, nor of a tier other than the one its
\* scheduler believes it is on (TieredJitScheduler::on_step).
THEOREM OwnCode == Spec => []CallsItsOwnCode
<1>1. OwnInv => CallsItsOwnCode
  BY DEF OwnInv, CallsItsOwnCode
<1> QED
  BY <1>1, Invariance, PTL

\* A thread compiles with the settings of its own tier (TIER_UP_ENV_LOCK), but for
\* the folding that a mismatch has left off.
THEOREM TierSettings == Spec => []CompilesAsItsTier
<1>1. LockInv => CompilesAsItsTier
  BY DEF LockInv
<1> QED
  BY <1>1, Invariance, PTL

\* Every step of a run goes up one tier or none: there is never a second
\* attempt under way that could be installed out of turn.
LEMMA ClimbStep ==
  TypeOK /\ OwnInv /\ FlightInv /\ [Next]_vars => (run' = run => tier' \in {tier, tier + 1})
<1> SUFFICES ASSUME TypeOK, OwnInv, FlightInv, [Next]_vars, run' = run
             PROVE  tier' \in {tier, tier + 1}
  OBVIOUS
<1>1. CASE BeginRun
  BY <1>1 DEF BeginRun, TypeOK
<1>2. CASE Boundary
  <2>1. run \in 1..Runs
    BY <1>2 DEF Boundary, Running, OwnInv, TypeOK, Code
  <2>2. CASE Stepped
    BY <2>1, <2>2 DEF Stepped, FlightInv
  <2>3. CASE UNCHANGED <<scheduler, pending, threads>>
    BY <2>3
  <2> QED
    BY <1>2, <2>1, <2>2, <2>3, BoundarySteps
<1>3. ASSUME NEW i \in 1..Len(threads), ThreadStep(i)
      PROVE  UNCHANGED tier
  BY <1>3 DEF ThreadStep, Speculate, Enter, EnterFails, CompileOk, CompileFails,
     LayoutMismatch, Panic
<1>4. CASE EndRun \/ CallCode \/ UNCHANGED vars
  BY <1>4 DEF EndRun, CallCode
<1> QED
  BY <1>1, <1>2, <1>3, <1>4 DEF Next, Pass, Done

\* The tier of a run changes by one, upwards, or not at all.
THEOREM ClimbsOneTier == Spec => ClimbsByOne
<1>1. TypeOK /\ OwnInv /\ FlightInv /\ [Next]_vars
        => [run' = run => tier' \in {tier, tier + 1}]_vars
  BY ClimbStep
<1> QED
  BY <1>1, Invariance, PTL DEF Spec, ClimbsByOne

=============================================================================
