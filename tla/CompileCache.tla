---------------------------- MODULE CompileCache ----------------------------
(***************************************************************************)
(* The caches between a source file and the code a compilation returns     *)
(* (compile_model/compile/entry.rs, entry_finish_jit.rs, jit/compile.rs):  *)
(* artifact bundles by a library epoch, in the process and in a database,  *)
(* and object files with their entries, by a codegen key.                  *)
(*                                                                         *)
(* Processes compile one model with one set of options while its sources   *)
(* are edited.  A source is the number of its last edit and that of its    *)
(* variables; equal numbers are equal texts, sizes and modification times. *)
(***************************************************************************)
EXTENDS Integers, Sequences, Functions, SequencesExt

CONSTANTS
    Procs,          \* processes that compile
    MaxEdits,       \* bound: edits of the sources
    MaxCompiles,    \* bound: compilations begun
    MaxBuilds,      \* bound: versions of the program
    MaxFaults,      \* bound: restarts, evictions, failed writes, refusals
    LruCap,         \* bundles a process keeps
    SizeOf,         \* size of the object file generated from a source
    DeferredWrite,  \* bundles wait for a confirmation that nobody gives
    Nothing         \* nothing cached

ASSUME CacheBounds ==
    /\ MaxEdits \in Nat /\ MaxCompiles \in Nat /\ MaxFaults \in Nat
    /\ MaxBuilds \in Nat \ {0} /\ LruCap \in Nat \ {0}
ASSUME CodeHasASize == SizeOf \in [0..MaxEdits -> Nat \ {0}]
ASSUME WriteMode == DeferredWrite \in BOOLEAN

Absent == [id |-> -1, layout |-> -1]    \* no such file

VARIABLES
    edits,      \* number of the last edit
    disk,       \* the sources: `near` is found before `far`
    build,      \* the version of the program each process runs
    libEpoch,   \* LIB_EPOCH_CACHE of each process
    lru,        \* artifact_lru of each process
    rows,       \* the database's bundles
    objects,    \* object file and entry of each codegen key
    procs,      \* the compilation each process is at
    compiles,   \* compilations begun
    faults,     \* restarts, evictions, failed writes, refusals
    clashed     \* history: keys whose files two different codes were written to at once

caches == <<libEpoch, lru, rows>>
cacheVars == <<edits, disk, build, caches, objects, procs, compiles, faults, clashed>>

Idle == [pc |-> "idle", bundle |-> Nothing, key |-> Nothing, file |-> Nothing,
         source |-> Nothing, seen |-> Nothing, epoch |-> Nothing, size |-> 0, code |-> Nothing]

(* Where the loader finds the model.                                       *)
ModelFile(d) == IF d.near # Absent THEN "near" ELSE "far"

(* Variables and the build; of the equations only the variables they are   *)
(* in.                                                                     *)
CodegenKey(source, b) == [layout |-> source.layout, build |-> b]

CodegenKeys == [layout: 0..MaxEdits, build: 1..MaxBuilds]

CodeOf(source, b) ==
    [id |-> source.id, layout |-> source.layout, build |-> b,
     size |-> SizeOf[source.id], whole |-> TRUE]

Empty == [id |-> -1, layout |-> -1, build |-> 0, size |-> 0, whole |-> FALSE]
Missing == [Empty EXCEPT !.size = -1]
NoEntry == 0

Fault == faults < MaxFaults /\ faults' = faults + 1

MoveTo(p, pc) == procs' = [procs EXCEPT ![p].pc = pc]

(***************************************************************************)
(* Artifact bundles                                                        *)
(***************************************************************************)
(* compute_lib_epoch: sizes and times of all sources, for up to 30 s as    *)
(* they were when they were last looked at.                                *)
Epoch(p) == IF libEpoch[p] # Nothing THEN libEpoch[p] ELSE disk

ArtifactKey(p) == Epoch(p)

Kept(p, key) == {i \in DOMAIN lru[p] : lru[p][i].key = key}

(* artifact_cache::get.  A row of another build counts as none.            *)
Lookup(p, key, stored) ==
    IF Kept(p, key) # {} THEN lru[p][CHOOSE i \in Kept(p, key) : TRUE].bundle
    ELSE IF key \in DOMAIN stored /\ stored[key].build = build[p] THEN stored[key].bundle
    ELSE Nothing

Promote(p, key, bundle) ==
    LET hits   == Kept(p, key)
        others == IF hits = {} THEN lru[p] ELSE RemoveAt(lru[p], CHOOSE i \in hits : TRUE)
        full   == Append(others, [key |-> key, bundle |-> bundle])
    IN  lru' = [lru EXCEPT ![p] = IF Len(full) > LruCap THEN Tail(full) ELSE full]

(* prune_sqlite: rows go when they are old or too many.                    *)
Pruned == {Restrict(rows, kept) : kept \in SUBSET DOMAIN rows}

\* Mutant: the file the bundle was made from is not looked at.
DepsMatchNever(bundle) == TRUE
(* A file that could not be read when the bundle was made is not among its *)
(* dependencies.                                                           *)
DepsMatch(bundle) == bundle.dep = Absent \/ disk[bundle.file] = bundle.dep

(* A compilation begins with the bundles.                                  *)
Compile(p) ==
    LET key == ArtifactKey(p)
    IN  /\ procs[p] = Idle /\ compiles < MaxCompiles
        /\ compiles' = compiles + 1
        /\ libEpoch' = [libEpoch EXCEPT ![p] = Epoch(p)]
        /\ rows' \in Pruned
        /\ LET found == Lookup(p, key, rows')
           IN  /\ IF found # Nothing /\ Kept(p, key) = {} THEN Promote(p, key, found)
                                                          ELSE UNCHANGED lru
               /\ procs' = [procs EXCEPT ![p] =
                      IF found # Nothing /\ DepsMatch(found)
                      THEN [Idle EXCEPT !.pc = "readEntry", !.bundle = found,
                               !.key = found.key, !.seen = disk, !.epoch = Epoch(p)]
                      ELSE [Idle EXCEPT !.pc = "load"]]
        /\ UNCHANGED <<edits, disk, build, objects, faults, clashed>>

(***************************************************************************)
(* Without a bundle the sources are loaded                                 *)
(***************************************************************************)
LoadModel(p) ==
    /\ procs[p].pc = "load"
    /\ LET file == ModelFile(disk)
       IN  procs' = [procs EXCEPT ![p] =
              [Idle EXCEPT !.pc = "readEntry", !.key = CodegenKey(disk[file], build[p]),
                  !.file = file, !.source = disk[file], !.seen = disk]]
    /\ UNCHANGED <<edits, disk, build, caches, objects, compiles, faults, clashed>>

(***************************************************************************)
(* Object files: the entry is read first, and a pair that does not agree   *)
(* is removed                                                              *)
(***************************************************************************)
(* A bundle without code sends the compilation to the sources, a source    *)
(* without code is compiled.                                               *)
AfterMiss(p) == IF procs[p].bundle # Nothing THEN "load" ELSE "generate"

Found(p, code) ==
    LET pc == IF procs[p].bundle # Nothing THEN "done" ELSE "finish"
    IN  procs' = [procs EXCEPT ![p].code = code, ![p].pc = pc]

(* An entry is also refused for what its key does not hold: parameters     *)
(* folded into the code, the version of the cache.                         *)
ReadEntry(p) ==
    LET entry == objects[procs[p].key].entry
    IN  /\ procs[p].pc = "readEntry"
        /\ \/ entry = NoEntry /\ MoveTo(p, AfterMiss(p)) /\ UNCHANGED faults
           \/ entry # NoEntry /\ MoveTo(p, "removeObject") /\ Fault
           \/ /\ entry # NoEntry /\ UNCHANGED faults
              /\ procs' = [procs EXCEPT ![p].size = entry, ![p].pc = "readObject"]
        /\ UNCHANGED <<edits, disk, build, caches, objects, compiles, clashed>>

\* Mutant: the size in the entry is not compared.
ReadObjectAnySize(p) ==
    LET object == objects[procs[p].key].object
    IN  /\ procs[p].pc = "readObject"
        /\ IF object = Missing THEN MoveTo(p, AfterMiss(p)) ELSE Found(p, object)
        /\ UNCHANGED <<edits, disk, build, caches, objects, compiles, faults, clashed>>

(* An object of the right size that does not load stays where it is.       *)
ReadObject(p) ==
    LET object == objects[procs[p].key].object
    IN  /\ procs[p].pc = "readObject"
        /\ \/ object = Missing /\ MoveTo(p, AfterMiss(p)) /\ UNCHANGED faults
           \/ /\ object # Missing /\ object.size # procs[p].size
              /\ MoveTo(p, "removeObject") /\ UNCHANGED faults
           \/ /\ object # Missing /\ object.size = procs[p].size
              /\ Found(p, object) /\ UNCHANGED faults
           \/ /\ object # Missing /\ object.size = procs[p].size
              /\ MoveTo(p, AfterMiss(p)) /\ Fault
        /\ UNCHANGED <<edits, disk, build, caches, objects, compiles, clashed>>

RemoveObject(p) ==
    /\ procs[p].pc = "removeObject"
    /\ objects' = [objects EXCEPT ![procs[p].key].object = Missing]
    /\ MoveTo(p, "removeEntry")
    /\ UNCHANGED <<edits, disk, build, caches, compiles, faults, clashed>>

RemoveEntry(p) ==
    /\ procs[p].pc = "removeEntry"
    /\ objects' = [objects EXCEPT ![procs[p].key].entry = NoEntry]
    /\ MoveTo(p, AfterMiss(p))
    /\ UNCHANGED <<edits, disk, build, caches, compiles, faults, clashed>>

(***************************************************************************)
(* put_object: object file, then entry.  Each is emptied and then filled.  *)
(***************************************************************************)
(* A large model is not written, nor one whose object cannot be emitted.   *)
Generate(p) ==
    /\ procs[p].pc = "generate"
    /\ \E pc \in {"emptyObject", "finish"} :
          procs' = [procs EXCEPT ![p].code = CodeOf(procs[p].source, build[p]), ![p].pc = pc]
    /\ UNCHANGED <<edits, disk, build, caches, objects, compiles, faults, clashed>>

Writing == {"fillObject", "emptyEntry", "fillEntry"}
Rivals(p) == {q \in Procs \ {p} : /\ procs[q].pc \in Writing
                                  /\ procs[q].key = procs[p].key
                                  /\ procs[q].code # procs[p].code}

EmptyObject(p) ==
    /\ procs[p].pc = "emptyObject"
    /\ objects' = [objects EXCEPT ![procs[p].key].object = Empty]
    /\ clashed' = IF Rivals(p) # {} THEN clashed \cup {procs[p].key} ELSE clashed
    /\ MoveTo(p, "fillObject")
    /\ UNCHANGED <<edits, disk, build, caches, compiles, faults>>

(* A file that was removed meanwhile stays removed, and a longer one that  *)
(* was filled meanwhile keeps its end.                                     *)
FillObject(p) ==
    LET code == procs[p].code
        Over(old) == IF old = Missing THEN Missing
                     ELSE IF old.size > code.size THEN [code EXCEPT !.size = old.size, !.whole = FALSE]
                     ELSE code
    IN  /\ procs[p].pc = "fillObject"
        /\ objects' = [objects EXCEPT ![procs[p].key].object = Over(@)]
        /\ MoveTo(p, "emptyEntry")
        /\ UNCHANGED <<edits, disk, build, caches, compiles, faults, clashed>>

EmptyEntry(p) ==
    /\ procs[p].pc = "emptyEntry"
    /\ objects' = [objects EXCEPT ![procs[p].key].entry = NoEntry]
    /\ MoveTo(p, "fillEntry")
    /\ UNCHANGED <<edits, disk, build, caches, compiles, faults, clashed>>

FillEntry(p) ==
    /\ procs[p].pc = "fillEntry"
    /\ objects' = [objects EXCEPT ![procs[p].key].entry = procs[p].code.size]
    /\ MoveTo(p, "finish")
    /\ UNCHANGED <<edits, disk, build, caches, compiles, faults, clashed>>

(* A file cannot be written: the code in memory is used all the same.      *)
WriteFails(p) ==
    /\ procs[p].pc \in Writing \cup {"emptyObject"}
    /\ MoveTo(p, "finish")
    /\ Fault
    /\ UNCHANGED <<edits, disk, build, caches, objects, compiles, clashed>>

(* The bundle is put under the key, and with the dependencies, of the      *)
(* moment when everything else is done; `edited` is history.               *)
Finish(p) ==
    LET key == ArtifactKey(p)
        bundle == [file |-> procs[p].file, source |-> procs[p].source,
                   dep |-> disk[procs[p].file], key |-> procs[p].key,
                   edited |-> disk # procs[p].seen]
    IN  /\ procs[p].pc = "finish"
        /\ libEpoch' = [libEpoch EXCEPT ![p] = Epoch(p)]
        /\ IF DeferredWrite THEN UNCHANGED <<lru, rows>>
           ELSE /\ \E stored \in Pruned :
                      rows' = [k \in {key} \cup DOMAIN stored |->
                          IF k = key THEN [bundle |-> bundle, build |-> build[p]] ELSE stored[k]]
                /\ Promote(p, key, bundle)
        /\ MoveTo(p, "done")
        /\ UNCHANGED <<edits, disk, build, objects, compiles, faults, clashed>>

Return(p) ==
    /\ procs[p].pc = "done"
    /\ procs' = [procs EXCEPT ![p] = Idle]
    /\ UNCHANGED <<edits, disk, build, caches, objects, compiles, faults, clashed>>

(***************************************************************************)
(* What happens meanwhile                                                  *)
(***************************************************************************)
(* A process ends at any point, and its successor may be a newer build.    *)
Restart(p) ==
    /\ Fault
    /\ procs' = [procs EXCEPT ![p] = Idle]
    /\ lru' = [lru EXCEPT ![p] = << >>]
    /\ libEpoch' = [libEpoch EXCEPT ![p] = Nothing]
    /\ \E b \in build[p]..MaxBuilds : build' = [build EXCEPT ![p] = b]
    /\ UNCHANGED <<edits, disk, rows, objects, compiles, clashed>>

(* The 30 s of a library's epoch are over.                                 *)
EpochExpires(p) ==
    /\ libEpoch[p] # Nothing
    /\ libEpoch' = [libEpoch EXCEPT ![p] = Nothing]
    /\ UNCHANGED <<edits, disk, build, lru, rows, objects, procs, compiles, faults, clashed>>

(* enforce_global_budget removes single files, the oldest first.           *)
Evict(key) ==
    /\ Fault
    /\ \/ objects' = [objects EXCEPT ![key].object = Missing]
       \/ objects' = [objects EXCEPT ![key].entry = NoEntry]
    /\ UNCHANGED <<edits, disk, build, caches, procs, compiles, clashed>>

(* The user changes equations, or variables too; adds a file that is found *)
(* first, in a directory whose time is not looked at; or removes it.       *)
Edit(file) ==
    LET n == edits + 1
        Changed == {[id |-> n, layout |-> n]} \cup
                   (IF disk[file] = Absent THEN {} ELSE {[disk[file] EXCEPT !.id = n]})
    IN  /\ edits < MaxEdits
        /\ edits' = n
        /\ \E source \in Changed \cup (IF file = "near" THEN {Absent} ELSE {}) :
              disk' = [disk EXCEPT ![file] = source]
        /\ UNCHANGED <<build, caches, objects, procs, compiles, faults, clashed>>

CacheInit ==
    /\ edits = 0
    /\ disk = [near |-> Absent, far |-> [id |-> 0, layout |-> 0]]
    /\ build = [p \in Procs |-> 1]
    /\ libEpoch = [p \in Procs |-> Nothing]
    /\ lru = [p \in Procs |-> << >>]
    /\ rows = [key \in {} |-> Nothing]
    /\ objects = [key \in CodegenKeys |-> [object |-> Missing, entry |-> NoEntry]]
    /\ procs = [p \in Procs |-> Idle]
    /\ compiles = 0
    /\ faults = 0
    /\ clashed = {}

CacheNext ==
    \/ \E p \in Procs :
          \/ Compile(p) \/ LoadModel(p)
          \/ ReadEntry(p) \/ ReadObject(p) \/ RemoveObject(p) \/ RemoveEntry(p)
          \/ Generate(p) \/ EmptyObject(p) \/ FillObject(p) \/ EmptyEntry(p) \/ FillEntry(p)
          \/ WriteFails(p) \/ Finish(p) \/ Return(p)
          \/ Restart(p) \/ EpochExpires(p)
    \/ \E key \in CodegenKeys : Evict(key)
    \/ \E file \in {"near", "far"} : Edit(file)

CacheSpec == CacheInit /\ [][CacheNext]_cacheVars

-----------------------------------------------------------------------------
(* Code from an object file is a whole file, of this build and for the     *)
(* variables of the model (cache_store.rs:208), whoever else writes,       *)
(* removes or evicts the two files, fails or ends half way, unless two     *)
(* processes wrote different codes under one key at once.                  *)
CodeIsWhole ==
    \A p \in Procs :
       procs[p].pc \in {"finish", "done"} /\ procs[p].key \notin clashed =>
          LET code == procs[p].code
          IN  /\ code.whole
              /\ code.build = build[p]
              /\ code.layout = (IF procs[p].bundle # Nothing THEN procs[p].bundle.source
                                                             ELSE procs[p].source).layout

(* A bundle that is used was made from its file as the file is now, and,   *)
(* unless the library's epoch is out of date and not yet 30 s old          *)
(* (lib_epoch.rs:53), from the file the name now stands for.  Bundles of   *)
(* sources edited while they were compiled are excepted: the hash and the  *)
(* epoch taken at the end went with the old code (entry_finish_jit.rs:400).*)
BundleIsOfTheModel ==
    \A p \in Procs :
       procs[p].pc \notin {"idle", "load"} /\ procs[p].bundle # Nothing =>
          LET bundle == procs[p].bundle
              seen == procs[p].seen
          IN  ~bundle.edited =>
                /\ seen[bundle.file] = bundle.source
                /\ procs[p].epoch = seen => bundle.file = ModelFile(seen)

=============================================================================
