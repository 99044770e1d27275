-------------------------- MODULE LocalCacheProofs --------------------------
(***************************************************************************)
(* What holds of LocalCache for every number of processes, units, header   *)
(* versions and files, whatever the processes interleave and whoever       *)
(* crashes: its types; that manifests neither hold two entries for the     *)
(* same headers nor lose one to a race; when entries keep their objects    *)
(* and builds end up in the cache; that hits give the files of one         *)
(* compilation and misses are real while the headers stay as they are; and *)
(* that the statistics count every object once.                            *)
(***************************************************************************)
EXTENDS LocalCache, SequenceTheorems, FiniteSetTheorems, WellFoundedInduction, TLAPS

-----------------------------------------------------------------------------
(* Lists of entries.                                                       *)

\* Every nonempty set of natural numbers has a least element.
LEMMA LeastElement ==
    ASSUME NEW T, T \subseteq Nat, T # {}
    PROVE  \E x \in T : \A y \in T : x <= y
  <1> DEFINE R == {ss \in Nat \X Nat : ss[1] < ss[2]}
  <1>1. R = OpToRel(<, Nat)
    BY DEF OpToRel
  <1>2. IsWellFoundedOn(R, Nat)
    BY <1>1, NatLessThanWellFounded
  <1> HIDE DEF R
  <1>3. PICK x \in T : \A y \in T : ~ (<<y, x>> \in R)
    BY <1>2, WFMin, Zenon
  <1>4. ASSUME NEW y \in T PROVE x <= y
    <2>1. x \in Nat /\ y \in Nat
      OBVIOUS
    <2>2. ~(y < x)
      BY <1>3, <2>1 DEF R
    <2> QED BY <2>1, <2>2
  <1> QED BY <1>4

\* A manifest that has an entry for dep has a first one (the search of
\* manifest_search and of ensure_output).
LEMMA FirstForExists ==
    ASSUME NEW m \in Seq(Entry), NEW dep \in Deps(m)
    PROVE  /\ FirstFor(m, dep) \in DOMAIN m
           /\ m[FirstFor(m, dep)].dep = dep
  <1> DEFINE T == {i \in DOMAIN m : m[i].dep = dep}
  <1>1. T \subseteq Nat /\ T # {}
    BY DEF Deps
  <1>2. \E x \in T : \A y \in T : x <= y
    BY <1>1, LeastElement
  <1>3. \E i \in DOMAIN m : /\ m[i].dep = dep
                            /\ \A j \in DOMAIN m : m[j].dep = dep => i <= j
    BY <1>2
  <1> QED
    BY <1>3 DEF FirstFor

\* addEntry puts an entry in front of the others.
LEMMA AddEntryProperties ==
    ASSUME NEW m \in Seq(Entry), NEW entry \in Entry
    PROVE  /\ addEntry(m, entry) \in Seq(Entry)
           /\ DOMAIN addEntry(m, entry) = 1..(Len(m) + 1)
           /\ addEntry(m, entry)[1] = entry
           /\ \A i \in DOMAIN m : addEntry(m, entry)[i + 1] = m[i]
  <1>1. <<entry>> \in Seq(Entry) /\ Len(<<entry>>) = 1 /\ <<entry>>[1] = entry
    OBVIOUS
  <1>2. Len(m) \in Nat /\ DOMAIN m = 1..Len(m)
    OBVIOUS
  <1> DEFINE n == <<entry>> \o m
  <1>3. n \in Seq(Entry) /\ Len(n) = 1 + Len(m)
    BY <1>1, ConcatProperties
  <1>4. \A i \in 1..(1 + Len(m)) : n[i] = IF i <= 1 THEN <<entry>>[i] ELSE m[i - 1]
    BY <1>1, ConcatProperties
  <1>5. DOMAIN n = 1..(Len(m) + 1)
    BY <1>2, <1>3
  <1>6. n[1] = entry
    BY <1>1, <1>2, <1>4
  <1>7. \A i \in DOMAIN m : n[i + 1] = m[i]
    BY <1>2, <1>4
  <1> QED
    BY <1>3, <1>5, <1>6, <1>7 DEF addEntry

\* What ensure_output writes is a list of entries.
LEMMA PublishedType ==
    ASSUME NEW m \in Seq(Entry), NEW entry \in Entry
    PROVE  published(m, entry) \in Seq(Entry)
  <1>1. CASE entry.dep \notin Deps(m)
    BY <1>1, AddEntryProperties DEF published
  <1>2. CASE entry.dep \in Deps(m)
    <2> DEFINE i == FirstFor(m, entry.dep)
               e == [m[i] EXCEPT !.out = entry.out]
    <2>1. i \in 1..Len(m)
      BY <1>2, FirstForExists
    <2>2. m[i] \in Entry
      BY <2>1, ElementOfSeq
    <2>3. e \in Entry
      <3> HIDE DEF i
      <3> QED BY <2>2 DEF Entry
    <2>4. [m EXCEPT ![i] = e] \in Seq(Entry)
      BY <2>1, <2>3, ExceptSeq
    <2> QED
      BY <1>2, <2>4 DEF published, replaceOutput
  <1> QED BY <1>1, <1>2

Distinct(m) == \A i, j \in DOMAIN m : m[i].dep = m[j].dep => i = j

\* Publishing an entry keeps the header contents that are there, and a list
\* without duplicates has none afterwards.
LEMMA PublishedDeps ==
    ASSUME NEW m \in Seq(Entry), NEW entry \in Entry, Distinct(m)
    PROVE  /\ Deps(m) \subseteq Deps(published(m, entry))
           /\ Distinct(published(m, entry))
  <1>0. Len(m) \in Nat /\ DOMAIN m = 1..Len(m)
    OBVIOUS
  <1>1. CASE entry.dep \notin Deps(m)
    <2> DEFINE n == addEntry(m, entry)
    <2>1. /\ DOMAIN n = 1..(Len(m) + 1)
          /\ n[1] = entry
          /\ \A i \in DOMAIN m : n[i + 1] = m[i]
      BY AddEntryProperties
    <2> HIDE DEF n
    <2>2. \A i \in DOMAIN n : i = 1 \/ (i - 1 \in DOMAIN m /\ n[i] = m[i - 1])
      BY <1>0, <2>1
    <2>3. \A i \in DOMAIN m : i + 1 \in DOMAIN n
      BY <1>0, <2>1
    <2>4. Deps(m) \subseteq Deps(n)
      BY <2>1, <2>3 DEF Deps
    <2>5. \A i \in DOMAIN m : m[i].dep # entry.dep
      BY <1>1 DEF Deps
    <2>6. ASSUME NEW i \in DOMAIN n, NEW j \in DOMAIN n, n[i].dep = n[j].dep
          PROVE  i = j
      <3>1. i \in Nat /\ j \in Nat
        BY <2>1
      <3> QED
        BY <2>1, <2>2, <2>5, <2>6, <3>1 DEF Distinct
    <2>7. Distinct(n)
      BY <2>6 DEF Distinct
    <2> QED
      BY <1>1, <2>4, <2>7 DEF published, n
  <1>2. CASE entry.dep \in Deps(m)
    <2> DEFINE n == replaceOutput(m, entry)
    <2>1. DOMAIN n = DOMAIN m
      BY DEF replaceOutput
    <2>2. \A i \in DOMAIN m : m[i] \in Entry
      BY <1>0, ElementOfSeq
    <2>3. \A i \in DOMAIN m : n[i].dep = m[i].dep
      BY <2>2 DEF replaceOutput, Entry
    <2>4. Deps(m) \subseteq Deps(n) /\ Distinct(n)
      BY <2>1, <2>3 DEF Deps, Distinct
    <2> QED
      BY <1>2, <2>4 DEF published
  <1> QED BY <1>1, <1>2

-----------------------------------------------------------------------------
(* Types.  A published entry is typed because the headers have been hashed *)
(* before.                                                                 *)

HashedPcs == {"addLock", "addCopy", "addReplace", "pubRead", "pubWrite"}

Hashed == \A p \in Proc : pc[p] \in HashedPcs => seen[p] \in Version

TypeInv == TypeOK /\ Hashed

\* What an idle process has in memory is well typed.
LEMMA Defaults ==
    /\ Key0 \in Key /\ Unit0 \in Unit
    /\ NoOut \in [Slots -> Key]
    /\ 1 \in Slots
  <1>1. 1 \in Slots
    BY ConstantsAssumption DEF Slots
  <1>2. PICK u \in Unit, v \in Version, s \in Stamp : TRUE
    BY ConstantsAssumption
  <1>3. <<[unit |-> u, dep |-> v, stamp |-> s], 1>> \in Key
    BY <1>1 DEF Key, Artifact
  <1>4. Key0 \in Key /\ Unit0 \in Unit
    BY <1>2, <1>3 DEF Key0, Unit0
  <1> QED BY <1>1, <1>4 DEF NoOut

\* The initial state is one of the invariant.
LEMMA TypeInit == Init => TypeInv
  <1> SUFFICES ASSUME Init PROVE TypeInv
    OBVIOUS
  <1>3. Key0 \in Key /\ Unit0 \in Unit /\ NoOut \in [Slots -> Key] /\ 1 \in Slots
    BY Defaults
  <1>4. << >> \in Seq(Entry)
    OBVIOUS
  <1>5. TypeOK
    BY <1>3, <1>4, DirectoryAssumption DEF Init, NoOutput, TypeOK, SharedType,
       LockType, ControlType, DataType, Pcs
  <1>6. Hashed
    BY DEF Init, Hashed, HashedPcs
  <1> QED BY <1>5, <1>6 DEF TypeInv

\* A process that starts has its variables well typed.
LEMMA FreshType ==
    ASSUME TypeOK, NEW p \in Proc, Fresh(p)
    PROVE  /\ seen' \in [Proc -> Version \cup {None}]
           /\ unit' \in [Proc -> Unit]
           /\ man' \in [Proc -> Seq(Entry)]
           /\ out' \in [Proc -> [Slots -> Key]]
           /\ slot' \in [Proc -> Slots]
           /\ ok' \in [Proc -> BOOLEAN]
           /\ tmp' \in [Proc -> Key \cup {None, Husk}]
           /\ pending' \in [Proc -> SUBSET (Unit \X Slots \X Key)]
           /\ cnt' \in [Proc -> Nat]
           /\ want' \in [Proc -> SUBSET Section]
  <1>3. Key0 \in Key /\ Unit0 \in Unit /\ NoOut \in [Slots -> Key] /\ 1 \in Slots
    BY Defaults
  <1>4. << >> \in Seq(Entry)
    OBVIOUS
  <1> QED
    BY <1>3, <1>4 DEF Fresh, TypeOK, ControlType, DataType

\* A process that ends has its variables well typed.
LEMMA IdleType ==
    ASSUME TypeOK, NEW p \in Proc, Idle(p)
    PROVE  /\ pc' \in [Proc -> Pcs]
           /\ job' \in [Proc -> SUBSET Unit]
           /\ todo' \in [Proc -> SUBSET Unit]
           /\ hits' \in [Proc -> SUBSET Hit]
  BY DEF Idle, Goto, TypeOK, ControlType, DataType, Pcs
  
\* Releasing every mutex of a process leaves the tables of mutexes well typed.
LEMMA ReleaseAllType ==
    ASSUME TypeOK, NEW p \in Proc, ReleaseAll(p)
    PROVE  /\ manLock' \in [Section -> Proc \cup {None}]
           /\ objLock' \in [Section -> Proc \cup {None}]
           /\ statLock' \in Proc \cup {None}
  BY DEF ReleaseAll, Without, TypeOK, LockType

\* Going to another step keeps the steps well typed.
LEMMA GotoType ==
    ASSUME TypeOK, NEW p \in Proc, NEW where \in Pcs, Goto(p, where)
    PROVE  pc' \in [Proc -> Pcs]
  BY DEF Goto, TypeOK, ControlType

\* Changing one cell of a table keeps it a table.
LEMMA TableExcept ==
    ASSUME NEW A, NEW B, NEW C, NEW f \in [A -> [B -> C]],
           NEW a \in A, NEW b \in B, NEW c \in C
    PROVE  [f EXCEPT ![a][b] = c] \in [A -> [B -> C]]
  OBVIOUS

\* Deleting an output file keeps the files well typed.
LEMMA TargetDeletedType ==
    ASSUME TypeOK, NEW p \in Proc, TargetDeleted(p)
    PROVE  /\ file' \in [Unit -> [Slots -> Key \cup {None}]]
           /\ meta' \in [Unit -> [Slots -> Key \cup {None}]]
  <1>1. unit[p] \in Unit /\ slot[p] \in Slots /\ None \in Key \cup {None}
    BY DEF TypeOK, ControlType
  <1> QED
    BY <1>1, TableExcept DEF TargetDeleted, TypeOK, SharedType

\* The hits of p once manifest_hit has searched the manifest that p has read
Found(p) ==
    LET m     == man[p]
        entry == m[FirstFor(m, HeaderHash(p))]
    IN  IF HeaderHash(p) \in Deps(m)
        THEN hits[p] \cup {[unit |-> unit[p], dep |-> entry.dep, out |-> entry.out]}
        ELSE hits[p]

\* A manifest that is read is empty or one of the manifests on disk.
LEMMA FoundType ==
    ASSUME TypeOK, NEW p \in Proc
    PROVE  Found(p) \in SUBSET Hit
  <1> DEFINE m     == man[p]
             entry == m[FirstFor(m, HeaderHash(p))]
  <1>1. CASE HeaderHash(p) \in Deps(m)
    <2>1. m \in Seq(Entry)
      BY DEF TypeOK, DataType
    <2>2. FirstFor(m, HeaderHash(p)) \in 1..Len(m)
      BY <1>1, <2>1, FirstForExists
    <2>3. entry \in Entry
      BY <2>1, <2>2, ElementOfSeq
    <2> DEFINE hit == [unit |-> unit[p], dep |-> entry.dep, out |-> entry.out]
    <2>4. hit \in Hit
      <3> HIDE DEF entry
      <3> QED BY <2>3 DEF TypeOK, ControlType, Entry, Hit
    <2> QED
      BY <1>1, <2>4 DEF Found, TypeOK, DataType
  <1>2. CASE HeaderHash(p) \notin Deps(m)
    BY <1>2 DEF Found, TypeOK, DataType
  <1> QED BY <1>1, <1>2

\* The steps of one process
Moves(p) == Build(p) \/ Command(p) \/ Step(p) \/ CompileFails(p) \/ Crash(p)

\* The disk.
LEMMA SharedTypeStep ==
    ASSUME TypeOK, Hashed, NEW p \in Proc, Moves(p)
    PROVE  SharedType'
  <1> USE DEF TypeOK, SharedType
  <1>1. ASSUME \/ Build(p) \/ Command(p) \/ PreRead(p) \/ PreMatch(p)
               \/ Get(p) \/ GetMiss(p) \/ GetLock(p) \/ FileGone(p)
               \/ PostInvoke(p) \/ PostInit(p)
               \/ Collect(p) \/ HashOut(p) \/ HashDep(p)
               \/ AddDuplicate(p) \/ AddLock(p) \/ AddFails(p)
               \/ PubRead(p) \/ LockManifests(p) \/ LockObjects(p)
               \/ Clean(p) \/ LockStatistics(p)
        PROVE  UNCHANGED shared
    BY <1>1 DEF Build, Command, PreRead, PreMatch, Get, GetMiss, GetLock,
       FileGone, PostInvoke, PostInit, Collect, HashOut,
       HashDep, AddDuplicate, AddLock, AddFails, PubRead, LockManifests,
       LockObjects, Clean, LockStatistics
  <1>2. CASE UNCHANGED shared
    BY <1>2 DEF shared
  <1>3. CASE GetCopy(p)
    <2>1. CASE UpToDate(p)
      BY <1>3, <2>1 DEF GetCopy
    <2>2. CASE ~UpToDate(p)
      <3>1. /\ key(p) \in Key /\ unit[p] \in Unit /\ slot[p] \in Slots
            /\ store[key(p)] \in Key
        BY <1>3, <2>2 DEF GetCopy, HasObject, ControlType, DataType, key
      <3>2. /\ file' = [file EXCEPT ![unit[p]][slot[p]] = store[key(p)]]
            /\ meta' = [meta EXCEPT ![unit[p]][slot[p]] = key(p)]
        BY <1>3, <2>2 DEF GetCopy
      <3>3. file' \in [Unit -> [Slots -> Key \cup {None}]]
        BY <3>1, <3>2, TableExcept
      <3>4. meta' \in [Unit -> [Slots -> Key \cup {None}]]
        BY <3>1, <3>2, TableExcept
      <3> QED BY <1>3, <3>3, <3>4 DEF GetCopy
    <2> QED BY <2>1, <2>2
  <1>4. CASE GetVanished(p)
    BY <1>4, TargetDeletedType DEF GetVanished
  <1>5. CASE Report(p)
    BY <1>5, FreshType DEF Report, ControlType, DataType, Flushed
  <1>6. CASE Compile(p)
    BY <1>6 DEF Compile, NoOutput, ControlType, DataType, Key, Artifact
  <1>7. CASE AddCopy(p)
    BY <1>7, SectionAssumption DEF AddCopy, ControlType, DataType, ObjSec, key
  <1>8. CASE AddReplace(p)
    BY <1>8 DEF AddReplace, ControlType, DataType, key
  <1>9. CASE PubWrite(p)
    <2> DEFINE entry == [dep |-> seen[p], out |-> out[p]]
               n     == published(man[p], entry)
    <2>1. entry \in Entry
      BY <1>9 DEF PubWrite, DataType, Hashed, HashedPcs, Entry
    <2>2. n \in Seq(Entry)
      <3> HIDE DEF entry
      <3> QED BY <2>1, PublishedType DEF DataType
    <2>3. ManSec(p) \in Section
      BY SectionAssumption DEF ManSec, ControlType
    <2>4. \/ /\ manifest' = [manifest EXCEPT ![unit[p]] = n]
             /\ manDirs' = manDirs \cup {ManSec(p)}
          \/ UNCHANGED <<manifest, manDirs>>
      BY <1>9 DEF PubWrite
    <2> HIDE DEF n
    <2> QED BY <1>9, <2>2, <2>3, <2>4 DEF PubWrite
  <1>10. CASE PostFlush(p)
    BY <1>10 DEF PostFlush, ControlType, DataType, Flushed
  <1>11. CASE PostStats(p)
    BY <1>11, FreshType, IdleType DEF PostStats, ControlType, DataType
  <1>12. CASE WipeManifests(p)
    BY <1>12 DEF WipeManifests, ControlType, DataType
  <1>13. CASE WipeObjects(p)
    BY <1>13 DEF WipeObjects, ControlType, DataType
  <1>14. CASE Cleared(p)
    BY <1>14, ReleaseAllType DEF Cleared, ControlType, DataType
  <1>15. CASE Crash(p)
    <2>1. /\ file' \in [Unit -> [Slots -> Key \cup {None}]]
          /\ meta' \in [Unit -> [Slots -> Key \cup {None}]]
      BY <1>15, TargetDeletedType DEF Crash
    <2>2. manifest' \in [Unit -> Seq(Entry)]
      <3>1. CASE manifest' = manifest
        BY <3>1
      <3>2. CASE ManifestsHalfWiped(p)
        <4>1. PICK kept \in SUBSET Unit :
                  manifest' = [u \in Unit |-> IF u \in kept THEN manifest[u] ELSE << >>]
          BY <3>2 DEF ManifestsHalfWiped
        <4>2. << >> \in Seq(Entry)
          OBVIOUS
        <4> QED BY <4>1, <4>2
      <3> QED BY <1>15, <3>1, <3>2 DEF Crash
    <2>3. store' \in [Key -> Key \cup {None, Husk}]
      <3>1. CASE store' = store
        BY <3>1
      <3>2. CASE ObjectsHalfWiped(p)
        <4>1. PICK left \in SUBSET {k \in Key : hasEntry(k)} :
                  \E husks \in {{}} \cup {{k} : k \in left} :
                      store' = [k \in Key |-> IF k \in husks THEN Husk
                                              ELSE IF k \in left THEN store[k] ELSE None]
          BY <3>2 DEF ObjectsHalfWiped
        <4>2. PICK husks \in {{}} \cup {{k} : k \in left} :
                  store' = [k \in Key |-> IF k \in husks THEN Husk
                                          ELSE IF k \in left THEN store[k] ELSE None]
          BY <4>1
        <4> QED BY <4>2
      <3> QED BY <1>15, <3>1, <3>2 DEF Crash
    <2> QED BY <1>15, <2>1, <2>2, <2>3 DEF Crash
  <1>16. CASE CompileFails(p)
    <2>1. NoOutput \in [Slots -> Key \cup {None}]
      BY DEF NoOutput
    <2>2. CASE UNCHANGED <<file, meta, faults>>
      BY <1>16, <2>2 DEF CompileFails
    <2>3. CASE \E u \in todo[p] : /\ file' = [file EXCEPT ![u] = NoOutput]
                                  /\ meta' = [meta EXCEPT ![u] = NoOutput]
      <3>1. PICK u \in todo[p] : /\ file' = [file EXCEPT ![u] = NoOutput]
                                 /\ meta' = [meta EXCEPT ![u] = NoOutput]
        BY <2>3
      <3> HIDE DEF NoOutput
      <3>2. /\ file' \in [Unit -> [Slots -> Key \cup {None}]]
            /\ meta' \in [Unit -> [Slots -> Key \cup {None}]]
        BY <2>1, <3>1
      <3> QED BY <1>16, <3>2 DEF CompileFails
    <2> QED BY <1>16, <2>2, <2>3 DEF CompileFails
  <1> QED
    BY <1>1, <1>2, <1>3, <1>4, <1>5, <1>6, <1>7, <1>8, <1>9, <1>10, <1>11,
       <1>12, <1>13, <1>14, <1>15, <1>16 DEF Moves, Step

\* The mutexes and the bounds.
LEMMA LockTypeStep ==
    ASSUME TypeOK, Hashed, NEW p \in Proc, Moves(p)
    PROVE  LockType'
  <1> USE DEF TypeOK, LockType
  <1>1. ASSUME \/ PreRead(p) \/ PreMatch(p) \/ Get(p) \/ GetMiss(p)
               \/ Report(p) \/ Compile(p)
               \/ PostInvoke(p) \/ PostInit(p) \/ Collect(p)
               \/ HashOut(p) \/ HashDep(p) \/ AddDuplicate(p)
               \/ AddCopy(p) \/ PostFlush(p) \/ PostStats(p)
               \/ WipeManifests(p) \/ WipeObjects(p)
        PROVE  UNCHANGED <<locks, bounds>>
    BY <1>1 DEF PreRead, PreMatch, Get, GetMiss, Report, Compile,
       PostInvoke, PostInit, Collect, HashOut, HashDep,
       AddDuplicate, AddCopy, PostFlush, PostStats, WipeManifests, WipeObjects
  <1>2. CASE UNCHANGED <<locks, bounds>>
    BY <1>2 DEF locks, bounds
  <1>3. CASE Build(p)
    BY <1>3 DEF Build, locks, bounds
  <1>4. CASE Command(p)
    BY <1>4 DEF Command, locks, bounds
  <1>5. CASE GetLock(p)
    BY <1>5 DEF GetLock, locks, bounds
  <1>6. CASE GetCopy(p)
    BY <1>6 DEF GetCopy, locks, bounds
  <1>7. CASE GetVanished(p)
    BY <1>7, FreshType, IdleType, ReleaseAllType DEF GetVanished, Dies, locks,
       bounds
  <1>8. CASE FileGone(p)
    BY <1>8, FreshType, IdleType, ReleaseAllType DEF FileGone, Dies, locks,
       bounds
  <1>9. CASE AddLock(p)
    BY <1>9 DEF AddLock, locks, bounds
  <1>10. CASE AddReplace(p)
    BY <1>10 DEF AddReplace, locks, bounds
  <1>11. CASE AddFails(p)
    <2>1. objLock' \in [Section -> Proc \cup {None}]
      BY <1>11 DEF AddFails
    <2>2. faults' \in Nat
      BY <1>11 DEF AddFails
    <2> QED BY <1>11, <2>1, <2>2 DEF AddFails
  <1>12. CASE PubRead(p)
    BY <1>12 DEF PubRead, locks, bounds
  <1>13. CASE PubWrite(p)
    BY <1>13 DEF PubWrite, locks, bounds
  <1>14. CASE LockManifests(p)
    BY <1>14 DEF LockManifests, locks, bounds
  <1>15. CASE LockObjects(p)
    BY <1>15 DEF LockObjects, locks, bounds
  <1>16. CASE Clean(p)
    BY <1>16, ReleaseAllType DEF Clean, locks, bounds
  <1>17. CASE LockStatistics(p)
    BY <1>17 DEF LockStatistics, locks, bounds
  <1>18. CASE Cleared(p)
    BY <1>18, ReleaseAllType DEF Cleared, locks, bounds
  <1>19. CASE Crash(p)
    BY <1>19, FreshType, IdleType, ReleaseAllType DEF Crash, Dies
  <1>20. CASE CompileFails(p)
    BY <1>20 DEF CompileFails, locks, bounds
  <1> QED
    BY <1>1, <1>2, <1>3, <1>4, <1>5, <1>6, <1>7, <1>8, <1>9, <1>10, <1>11,
       <1>12, <1>13, <1>14, <1>15, <1>16, <1>17, <1>18, <1>19, <1>20 DEF Moves, Step

\* Where the processes are.
LEMMA ControlTypeStep ==
    ASSUME TypeOK, Hashed, NEW p \in Proc, Moves(p)
    PROVE  ControlType'
  <1> USE DEF TypeOK, ControlType
  <1>1. CASE Build(p)
    BY <1>1, GotoType DEF Build, Pcs, PrePcs, PostPcs, AllPcs, WipePcs
  <1>2. CASE Command(p)
    BY <1>2, GotoType DEF Command, SharedType, Pcs, PrePcs, PostPcs, AllPcs,
       WipePcs
  <1>3. CASE PreRead(p)
    BY <1>3, GotoType DEF PreRead, Pcs, PrePcs, PostPcs, AllPcs, WipePcs
  <1>4. CASE PreMatch(p)
    <2> DEFINE us == {h.unit : h \in Found(p)}
    <2>1. us \in SUBSET Unit
      BY FoundType DEF Hit
    <2>2. todo' = [todo EXCEPT ![p] = us] \/ todo' = todo
      BY <1>4 DEF PreMatch, Found
    <2> HIDE DEF us
    <2>3. pc' \in [Proc -> Pcs]
      BY <1>4, GotoType DEF PreMatch, Pcs, PrePcs
    <2> QED
      BY <1>4, <2>1, <2>2, <2>3 DEF PreMatch
  <1>5. CASE Get(p)
    BY <1>5, ConstantsAssumption, GotoType DEF Get, Slots, Pcs, PrePcs,
       PostPcs, AllPcs, WipePcs
  <1>6. CASE GetMiss(p)
    BY <1>6, GotoType DEF GetMiss, Pcs, PrePcs, PostPcs, AllPcs, WipePcs
  <1>7. CASE GetLock(p)
    BY <1>7, GotoType DEF GetLock, Pcs, PrePcs, PostPcs, AllPcs, WipePcs
  <1>8. CASE GetCopy(p)
    BY <1>8, ConstantsAssumption, GotoType DEF GetCopy, Slots, Pcs, PrePcs,
       PostPcs, AllPcs, WipePcs
  <1>9. CASE GetVanished(p)
    BY <1>9, FreshType, IdleType, ReleaseAllType, GotoType DEF GetVanished,
       Dies, Pcs, PrePcs, PostPcs, AllPcs, WipePcs
  <1>10. CASE FileGone(p)
    BY <1>10, FreshType, IdleType, ReleaseAllType, GotoType DEF FileGone,
       Dies, Pcs, PrePcs, PostPcs, AllPcs, WipePcs
  <1>11. CASE Report(p)
    BY <1>11, FreshType, GotoType DEF Report, Pcs, PrePcs, PostPcs, AllPcs,
       WipePcs
  <1>12. CASE Compile(p)
    BY <1>12, GotoType DEF Compile, Pcs, PrePcs, PostPcs, AllPcs, WipePcs
  <1>13. CASE CompileFails(p)
    BY <1>13, FreshType, IdleType, GotoType DEF CompileFails, Pcs, PrePcs,
       PostPcs, AllPcs, WipePcs
  <1>14. CASE PostInvoke(p)
    <2> DEFINE compiled == job[p] \ {h.unit : h \in hits[p]}
    <2>1. CASE compiled = {}
      BY <1>14, <2>1, IdleType, FreshType DEF PostInvoke
    <2>2. CASE compiled # {}
      <3>1. compiled \in SUBSET Unit
        OBVIOUS
      <3>2. /\ Goto(p, "postInit") /\ Fresh(p)
            /\ todo' = [todo EXCEPT ![p] = compiled]
            /\ job' = job
        BY <1>14, <2>2 DEF PostInvoke
      <3> HIDE DEF compiled
      <3>3. pc' \in [Proc -> Pcs]
        BY <3>2, GotoType DEF Pcs, PostPcs
      <3> QED BY <3>1, <3>2, <3>3, FreshType
    <2> QED BY <2>1, <2>2
  <1>15. CASE PostInit(p)
    <2>1. /\ Goto(p, "cleanMan") \/ Goto(p, "post")
          /\ want' = want \/ want' = [want EXCEPT ![p] = manDirs]
          /\ todo' = todo \/ todo' = [todo EXCEPT ![p] = {}]
          /\ UNCHANGED <<job, unit, slot, ok>>
      BY <1>15 DEF PostInit
    <2>2. pc' \in [Proc -> Pcs]
      BY <2>1, GotoType DEF Pcs, AllPcs, PostPcs
    <2>3. want' \in [Proc -> SUBSET Section]
      BY <2>1 DEF SharedType
    <2>4. todo' \in [Proc -> SUBSET Unit]
      BY <2>1
    <2> QED BY <2>1, <2>2, <2>3, <2>4
  <1>16. CASE Collect(p)
    BY <1>16, ConstantsAssumption, GotoType DEF Collect, Slots, Pcs, PrePcs,
       PostPcs, AllPcs, WipePcs
  <1>17. CASE HashOut(p)
    BY <1>17, ConstantsAssumption, GotoType DEF HashOut, Slots, Pcs, PrePcs,
       PostPcs, AllPcs, WipePcs
  <1>18. CASE HashDep(p)
    BY <1>18, GotoType DEF HashDep, Pcs, PrePcs, PostPcs, AllPcs, WipePcs
  <1>19. CASE AddDuplicate(p)
    BY <1>19, ConstantsAssumption, GotoType DEF AddDuplicate, Slots, AfterAdd,
       Pcs, PrePcs, PostPcs, AllPcs, WipePcs
  <1>20. CASE AddLock(p)
    BY <1>20, GotoType DEF AddLock, Pcs, PrePcs, PostPcs, AllPcs, WipePcs
  <1>21. CASE AddCopy(p)
    BY <1>21, GotoType DEF AddCopy, Pcs, PrePcs, PostPcs, AllPcs, WipePcs
  <1>22. CASE AddReplace(p)
    BY <1>22, ConstantsAssumption, GotoType DEF AddReplace, Slots, AfterAdd,
       Pcs, PrePcs, PostPcs, AllPcs, WipePcs
  <1>23. CASE AddFails(p)
    BY <1>23, ConstantsAssumption, GotoType DEF AddFails, Slots, AfterAdd,
       Pcs, PrePcs, PostPcs, AllPcs, WipePcs
  <1>24. CASE PubRead(p)
    BY <1>24, GotoType DEF PubRead, Pcs, PrePcs, PostPcs, AllPcs, WipePcs
  <1>25. CASE PubWrite(p)
    BY <1>25, GotoType DEF PubWrite, Pcs, PrePcs, PostPcs, AllPcs, WipePcs
  <1>26. CASE PostFlush(p)
    BY <1>26, GotoType DEF PostFlush, Pcs, PrePcs, PostPcs, AllPcs, WipePcs
  <1>27. CASE PostStats(p)
    BY <1>27, FreshType, IdleType, GotoType DEF PostStats, Pcs, PrePcs,
       PostPcs, AllPcs, WipePcs
  <1>28. CASE LockManifests(p)
    <2>1. pc' \in [Proc -> Pcs]
      BY <1>28, GotoType DEF LockManifests, Pcs, AllPcs, WipePcs
    <2>2. want' \in [Proc -> SUBSET Section]
      <3>1. CASE want' = [want EXCEPT ![p] = objDirs]
        BY <3>1 DEF SharedType
      <3>2. CASE \E s \in First(want[p]) : want' = [want EXCEPT ![p] = @ \ {s}]
        BY <3>2
      <3> QED BY <1>28, <3>1, <3>2 DEF LockManifests
    <2> QED BY <1>28, <2>1, <2>2 DEF LockManifests
  <1>29. CASE LockObjects(p)
    BY <1>29, GotoType DEF LockObjects, Pcs, PrePcs, PostPcs, AllPcs, WipePcs
  <1>30. CASE Clean(p)
    BY <1>30, ReleaseAllType, GotoType DEF Clean, Pcs, PrePcs, PostPcs,
       AllPcs, WipePcs
  <1>31. CASE LockStatistics(p)
    BY <1>31, GotoType DEF LockStatistics, Pcs, PrePcs, PostPcs, AllPcs,
       WipePcs
  <1>32. CASE WipeManifests(p)
    BY <1>32, GotoType DEF WipeManifests, Pcs, PrePcs, PostPcs, AllPcs,
       WipePcs
  <1>33. CASE WipeObjects(p)
    BY <1>33, GotoType DEF WipeObjects, Pcs, PrePcs, PostPcs, AllPcs, WipePcs
  <1>34. CASE Cleared(p)
    BY <1>34, ReleaseAllType, GotoType DEF Cleared, Pcs, PrePcs, PostPcs,
       AllPcs, WipePcs
  <1>35. CASE Crash(p)
    BY <1>35, FreshType, IdleType, ReleaseAllType, GotoType DEF Crash, Dies,
       Pcs, PrePcs, PostPcs, AllPcs, WipePcs
  <1> QED
    BY <1>1, <1>2, <1>3, <1>4, <1>5, <1>6, <1>7, <1>8, <1>9, <1>10, <1>11,
       <1>12, <1>13, <1>14, <1>15, <1>16, <1>17, <1>18, <1>19, <1>20, <1>21,
       <1>22, <1>23, <1>24, <1>25, <1>26, <1>27, <1>28, <1>29, <1>30, <1>31,
       <1>32, <1>33, <1>34, <1>35 DEF Moves, Step

\* rmtree leaves the temporary directories well typed, and only touches those
\* of processes that are about to rename one.
LEMMA TmpWipedType ==
    ASSUME TypeOK, NEW p \in Proc, TmpWiped(p)
    PROVE  /\ tmp' \in [Proc -> Key \cup {None, Husk}]
           /\ \A q \in Proc : tmp'[q] \in {tmp[q], None, Husk}
  <1>1. PICK ts \in [Proc -> {None, Husk}],
             qs \in SUBSET {q \in Proc : /\ pc[q] = "addReplace"
                                         /\ ObjSec(q) \in Survivors(p, objLock)} :
             tmp' = [q \in Proc |-> IF q \in qs THEN ts[q] ELSE tmp[q]]
    BY DEF TmpWiped
  <1>2. tmp \in [Proc -> Key \cup {None, Husk}]
    BY DEF TypeOK, DataType
  <1> QED BY <1>1, <1>2

\* What the processes have read.
LEMMA DataTypeStep ==
    ASSUME TypeOK, Hashed, NEW p \in Proc, Moves(p)
    PROVE  DataType'
  <1> USE DEF TypeOK, DataType
  <1>1. CASE Build(p)
    BY <1>1 DEF Build
  <1>2. CASE Command(p)
    BY <1>2 DEF Command
  <1>3. CASE PreRead(p)
    BY <1>3 DEF PreRead, ControlType, SharedType
  <1>4. CASE PreMatch(p)
    <2>1. hits' = [hits EXCEPT ![p] = Found(p)]
      BY <1>4 DEF PreMatch, Found
    <2>2. HeaderHash(p) \in Version
      BY DEF HeaderHash, SharedType
    <2>3. \/ seen' = [seen EXCEPT ![p] = HeaderHash(p)]
          \/ seen' = [seen EXCEPT ![p] = seen[p]]
      BY <1>4 DEF PreMatch
    <2> QED
      BY <1>4, <2>1, <2>2, <2>3, FoundType DEF PreMatch
  <1>5. CASE Get(p)
    BY <1>5 DEF Get, ControlType, Hit
  <1>6. CASE GetMiss(p)
    BY <1>6 DEF GetMiss
  <1>7. CASE GetLock(p)
    BY <1>7 DEF GetLock
  <1>8. CASE GetCopy(p)
    BY <1>8 DEF GetCopy, ControlType, key
  <1>9. CASE GetVanished(p)
    BY <1>9, FreshType, IdleType, ReleaseAllType DEF GetVanished, Dies
  <1>10. CASE FileGone(p)
    BY <1>10, FreshType, IdleType, ReleaseAllType DEF FileGone, Dies
  <1>11. CASE Report(p)
    BY <1>11, FreshType DEF Report
  <1>12. CASE Compile(p)
    BY <1>12 DEF Compile
  <1>13. CASE CompileFails(p)
    BY <1>13, FreshType, IdleType DEF CompileFails
  <1>14. CASE PostInvoke(p)
    BY <1>14, FreshType, IdleType DEF PostInvoke
  <1>15. CASE PostInit(p)
    BY <1>15 DEF PostInit
  <1>16. CASE Collect(p)
    BY <1>16 DEF Collect
  <1>17. CASE HashOut(p)
    BY <1>17 DEF HashOut, ControlType, SharedType
  <1>18. CASE HashDep(p)
    BY <1>18 DEF HashDep, ControlType, SharedType, HeaderHash
  <1>19. CASE AddDuplicate(p)
    BY <1>19 DEF AddDuplicate, ControlType, WillFlush, key
  <1>20. CASE AddLock(p)
    BY <1>20 DEF AddLock, ControlType, WillFlush, key
  <1>21. CASE AddCopy(p)
    BY <1>21 DEF AddCopy, ControlType, SharedType, ObjSec, key
  <1>22. CASE AddReplace(p)
    BY <1>22 DEF AddReplace
  <1>23. CASE AddFails(p)
    BY <1>23 DEF AddFails
  <1>24. CASE PubRead(p)
    BY <1>24 DEF PubRead, ControlType, SharedType
  <1>25. CASE PubWrite(p)
    BY <1>25 DEF PubWrite
  <1>26. CASE PostFlush(p)
    BY <1>26 DEF PostFlush
  <1>27. CASE PostStats(p)
    BY <1>27, FreshType, IdleType DEF PostStats
  <1>28. CASE LockManifests(p)
    BY <1>28 DEF LockManifests
  <1>29. CASE LockObjects(p)
    BY <1>29 DEF LockObjects
  <1>30. CASE Clean(p)
    BY <1>30, ReleaseAllType DEF Clean
  <1>31. CASE LockStatistics(p)
    BY <1>31 DEF LockStatistics
  <1>32. CASE WipeManifests(p)
    BY <1>32 DEF WipeManifests
  <1>33. CASE WipeObjects(p)
    BY <1>33, TmpWipedType DEF WipeObjects
  <1>34. CASE Cleared(p)
    BY <1>34, ReleaseAllType DEF Cleared
  <1>35. CASE Crash(p)
    BY <1>35, FreshType, IdleType, ReleaseAllType DEF Crash, Dies
  <1> QED
    BY <1>1, <1>2, <1>3, <1>4, <1>5, <1>6, <1>7, <1>8, <1>9, <1>10, <1>11,
       <1>12, <1>13, <1>14, <1>15, <1>16, <1>17, <1>18, <1>19, <1>20, <1>21,
       <1>22, <1>23, <1>24, <1>25, <1>26, <1>27, <1>28, <1>29, <1>30, <1>31,
       <1>32, <1>33, <1>34, <1>35 DEF Moves, Step

\* A process hashes the headers before it publishes.
LEMMA HashedStep ==
    ASSUME TypeOK, Hashed, NEW p \in Proc, Moves(p)
    PROVE  Hashed'
  <1> USE DEF TypeOK, ControlType, DataType, Hashed, HashedPcs
  <1>1. CASE Build(p)
    BY <1>1 DEF Build, Goto
  <1>2. CASE Command(p)
    BY <1>2 DEF Command, Goto
  <1>3. CASE PreRead(p)
    BY <1>3 DEF PreRead, Goto
  <1>4. CASE PreMatch(p)
    BY <1>4 DEF PreMatch, Goto
  <1>5. CASE Get(p)
    BY <1>5 DEF Get, Goto, Hit
  <1>6. CASE GetMiss(p)
    BY <1>6 DEF GetMiss, Goto
  <1>7. CASE GetLock(p)
    BY <1>7 DEF GetLock, Goto
  <1>8. CASE GetCopy(p)
    BY <1>8 DEF GetCopy, Goto, key
  <1>9. CASE GetVanished(p)
    BY <1>9, FreshType, IdleType, ReleaseAllType DEF GetVanished, Dies, Goto,
       Idle, Fresh, PrePcs
  <1>10. CASE FileGone(p)
    BY <1>10, FreshType, IdleType, ReleaseAllType DEF FileGone, Dies, Goto,
       Idle, Fresh, PrePcs
  <1>11. CASE Report(p)
    BY <1>11, FreshType DEF Report, Goto, Idle, Fresh, PrePcs
  <1>12. CASE Compile(p)
    BY <1>12 DEF Compile, Goto, Key, Artifact
  <1>13. CASE CompileFails(p)
    BY <1>13, FreshType, IdleType DEF CompileFails, Goto, Idle, Fresh, PrePcs
  <1>14. CASE PostInvoke(p)
    BY <1>14, FreshType, IdleType DEF PostInvoke, Goto, Idle, Fresh, PrePcs
  <1>15. CASE PostInit(p)
    BY <1>15 DEF PostInit, Goto
  <1>16. CASE Collect(p)
    BY <1>16 DEF Collect, Goto
  <1>17. CASE HashOut(p)
    BY <1>17 DEF HashOut, Goto
  <1>18. CASE HashDep(p)
    <2>1. HeaderHash(p) \in Version
      BY DEF HeaderHash, SharedType
    <2> QED
      BY <1>18, <2>1 DEF HashDep, Goto
  <1>19. CASE AddDuplicate(p)
    BY <1>19 DEF AddDuplicate, Goto, AfterAdd, WillFlush, key
  <1>20. CASE AddLock(p)
    BY <1>20 DEF AddLock, Goto, WillFlush, key
  <1>21. CASE AddCopy(p)
    BY <1>21 DEF AddCopy, Goto, ObjSec, key
  <1>22. CASE AddReplace(p)
    BY <1>22 DEF AddReplace, Goto, AfterAdd, key
  <1>23. CASE AddFails(p)
    BY <1>23 DEF AddFails, Goto, AfterAdd
  <1>24. CASE PubRead(p)
    BY <1>24 DEF PubRead, Goto
  <1>25. CASE PubWrite(p)
    BY <1>25 DEF PubWrite, Goto
  <1>26. CASE PostFlush(p)
    BY <1>26 DEF PostFlush, Goto, Flushed
  <1>27. CASE PostStats(p)
    BY <1>27, FreshType, IdleType DEF PostStats, Goto, Idle, Fresh, PrePcs
  <1>28. CASE LockManifests(p)
    BY <1>28 DEF LockManifests, Goto
  <1>29. CASE LockObjects(p)
    BY <1>29 DEF LockObjects, Goto
  <1>30. CASE Clean(p)
    BY <1>30, ReleaseAllType DEF Clean, Goto
  <1>31. CASE LockStatistics(p)
    BY <1>31 DEF LockStatistics, Goto
  <1>32. CASE WipeManifests(p)
    BY <1>32 DEF WipeManifests, Goto
  <1>33. CASE WipeObjects(p)
    BY <1>33 DEF WipeObjects, Goto
  <1>34. CASE Cleared(p)
    BY <1>34, ReleaseAllType DEF Cleared, Goto
  <1>35. CASE Crash(p)
    BY <1>35, FreshType, IdleType, ReleaseAllType DEF Crash, Dies, Goto, Idle,
       Fresh, PrePcs
  <1> QED
    BY <1>1, <1>2, <1>3, <1>4, <1>5, <1>6, <1>7, <1>8, <1>9, <1>10, <1>11,
       <1>12, <1>13, <1>14, <1>15, <1>16, <1>17, <1>18, <1>19, <1>20, <1>21,
       <1>22, <1>23, <1>24, <1>25, <1>26, <1>27, <1>28, <1>29, <1>30, <1>31,
       <1>32, <1>33, <1>34, <1>35 DEF Moves, Step

\* Every step keeps the types.
LEMMA TypeStep == TypeInv /\ [Next]_vars => TypeInv'
  <1> SUFFICES ASSUME TypeOK, Hashed, [Next]_vars
               PROVE  TypeOK' /\ Hashed'
    BY DEF TypeInv
  <1>1. ASSUME NEW p \in Proc, Moves(p)
        PROVE  TypeOK' /\ Hashed'
    <2>1. SharedType'
      BY <1>1, SharedTypeStep
    <2>2. LockType'
      BY <1>1, LockTypeStep
    <2>3. ControlType'
      BY <1>1, ControlTypeStep
    <2>4. DataType'
      BY <1>1, DataTypeStep
    <2>5. Hashed'
      BY <1>1, HashedStep
    <2> QED
      BY <2>1, <2>2, <2>3, <2>4, <2>5 DEF TypeOK
  <1> USE DEF TypeOK, SharedType, LockType, ControlType, DataType, Hashed
  <1>2. CASE EditHeader
    BY <1>2 DEF EditHeader, locks, bounds, local
  <1>3. CASE UNCHANGED vars
    BY <1>3 DEF vars, shared, locks, bounds, local
  <1> QED
    BY <1>1, <1>2, <1>3 DEF Next, Moves

\* Every variable has its type in every reachable state (TypeOK): no process of
\* any interleaving publishes an entry with a hash it has not computed.
THEOREM Typed == Spec => []TypeOK
  <1>1. Init => TypeInv
    BY TypeInit
  <1>2. TypeInv /\ [Next]_vars => TypeInv'
    BY TypeStep
  <1>3. TypeInv => TypeOK
    BY DEF TypeInv
  <1> QED
    BY <1>1, <1>2, <1>3, PTL DEF Spec
-----------------------------------------------------------------------------
(* Manifests.  A process that is about to write a manifest holds the lock  *)
(* under which it has read it, so it knows every entry that is there.      *)

Publishing ==
    \A p \in Proc : pc[p] = "pubWrite" =>
        /\ manLock[ManSec(p)] = p
        /\ Distinct(man[p])
        /\ Deps(manifest[unit[p]]) \subseteq Deps(man[p])

ManifestInv == TypeInv /\ UniqueDeps /\ Publishing

\* A process leaves the variables of the others alone.
LEMMA OthersUnchanged ==
    ASSUME TypeOK, NEW p \in Proc, Moves(p), NEW q \in Proc \ {p}
    PROVE  /\ pc'[q] = pc[q] /\ unit'[q] = unit[q] /\ man'[q] = man[q]
           /\ job'[q] = job[q] /\ todo'[q] = todo[q] /\ hits'[q] = hits[q]
           /\ seen'[q] = seen[q] /\ out'[q] = out[q] /\ slot'[q] = slot[q]
           /\ pending'[q] = pending[q]
           /\ tmp'[q] = tmp[q] \/ (pc[p] = "wipeObj" /\ tmp'[q] \in {None, Husk})
  <1> USE DEF TypeOK, ControlType, DataType, Goto, Fresh, Idle
  <1>1. CASE Build(p) \/ Command(p) \/ PreRead(p) \/ PreMatch(p) \/ Get(p) \/ GetMiss(p)
    BY <1>1 DEF Build, Command, PreRead, PreMatch, Get, GetMiss
  <1>2. CASE GetLock(p) \/ GetCopy(p) \/ Report(p) \/ Compile(p) \/ CompileFails(p)
    BY <1>2 DEF GetLock, GetCopy, Report, Compile, CompileFails
  <1>3. CASE PostInvoke(p) \/ PostInit(p) \/ Collect(p) \/ HashOut(p) \/ HashDep(p)
    BY <1>3 DEF PostInvoke, PostInit, Collect, HashOut, HashDep
  <1>4. CASE AddDuplicate(p) \/ AddLock(p) \/ AddCopy(p) \/ AddReplace(p) \/ AddFails(p)
    BY <1>4 DEF AddDuplicate, AddLock, AddCopy, AddReplace, AddFails, AfterAdd,
       WillFlush
  <1>5. CASE PubRead(p) \/ PubWrite(p) \/ PostFlush(p) \/ PostStats(p)
    BY <1>5 DEF PubRead, PubWrite, PostFlush, PostStats
  <1>6. CASE LockManifests(p) \/ LockObjects(p) \/ Clean(p) \/ LockStatistics(p)
    BY <1>6 DEF LockManifests, LockObjects, Clean, LockStatistics
  <1>7. CASE WipeManifests(p) \/ Cleared(p)
    BY <1>7 DEF WipeManifests, Cleared
  <1>8. CASE GetVanished(p) \/ FileGone(p) \/ Crash(p)
    BY <1>8 DEF GetVanished, FileGone, Crash, Dies
  <1>9. CASE WipeObjects(p)
    <2>1. tmp'[q] \in {tmp[q], None, Husk}
      BY <1>9, TmpWipedType DEF WipeObjects
    <2> QED BY <1>9, <2>1 DEF WipeObjects
  <1> QED
    BY <1>1, <1>2, <1>3, <1>4, <1>5, <1>6, <1>7, <1>8, <1>9 DEF Moves, Step

\* Only ensure_output's read leads to its write.
LEMMA OnlyPubRead ==
    ASSUME TypeOK, NEW p \in Proc, Moves(p), pc'[p] = "pubWrite"
    PROVE  PubRead(p)
  <1> USE DEF TypeOK, ControlType, Goto, Idle
  <1>1. CASE Build(p) \/ Command(p) \/ PreRead(p) \/ PreMatch(p) \/ Get(p) \/ GetMiss(p)
    BY <1>1 DEF Build, Command, PreRead, PreMatch, Get, GetMiss
  <1>2. CASE GetLock(p) \/ GetCopy(p) \/ Report(p) \/ Compile(p) \/ CompileFails(p)
    BY <1>2 DEF GetLock, GetCopy, Report, Compile, CompileFails
  <1>3. CASE PostInvoke(p) \/ PostInit(p) \/ Collect(p) \/ HashOut(p) \/ HashDep(p)
    BY <1>3 DEF PostInvoke, PostInit, Collect, HashOut, HashDep
  <1>4. CASE AddDuplicate(p) \/ AddLock(p) \/ AddCopy(p) \/ AddReplace(p) \/ AddFails(p)
    BY <1>4 DEF AddDuplicate, AddLock, AddCopy, AddReplace, AddFails, AfterAdd
  <1>5. CASE PubWrite(p) \/ PostFlush(p) \/ PostStats(p)
    BY <1>5 DEF PubWrite, PostFlush, PostStats
  <1>6. CASE LockManifests(p) \/ LockObjects(p) \/ Clean(p) \/ LockStatistics(p)
    BY <1>6 DEF LockManifests, LockObjects, Clean, LockStatistics
  <1>7. CASE WipeManifests(p) \/ WipeObjects(p) \/ Cleared(p)
    BY <1>7 DEF WipeManifests, WipeObjects, Cleared
  <1>8. CASE GetVanished(p) \/ FileGone(p) \/ Crash(p)
    BY <1>8 DEF GetVanished, FileGone, Crash, Dies
  <1> QED
    BY <1>1, <1>2, <1>3, <1>4, <1>5, <1>6, <1>7, <1>8 DEF Moves, Step

\* Nobody takes another process's manifest lock.
LEMMA ManLockKept ==
    ASSUME TypeOK, Publishing, NEW p \in Proc, Moves(p),
           NEW q \in Proc \ {p}, NEW s \in Section, manLock[s] = q
    PROVE  manLock'[s] = q
  <1> USE DEF TypeOK, LockType
  <1>0. q # None
    BY ConstantsAssumption
  <1>1. CASE PubRead(p) \/ LockManifests(p)
    BY <1>0, <1>1 DEF PubRead, LockManifests
  <1>2. CASE PubWrite(p)
    BY <1>2 DEF PubWrite, Publishing
  <1>3. CASE Clean(p) \/ Cleared(p) \/ GetVanished(p) \/ FileGone(p) \/ Crash(p)
    BY <1>3 DEF Clean, Cleared, GetVanished, FileGone, Crash, Dies, ReleaseAll, Without
  <1>4. ASSUME \/ Build(p) \/ Command(p) \/ PreRead(p) \/ PreMatch(p)
               \/ Get(p) \/ GetMiss(p) \/ GetLock(p) \/ GetCopy(p) \/ Report(p)
               \/ Compile(p) \/ CompileFails(p) \/ PostInvoke(p) \/ PostInit(p)
               \/ Collect(p) \/ HashOut(p) \/ HashDep(p) \/ AddDuplicate(p)
               \/ AddLock(p) \/ AddCopy(p) \/ AddReplace(p) \/ AddFails(p)
               \/ PostFlush(p) \/ PostStats(p) \/ LockObjects(p)
               \/ LockStatistics(p) \/ WipeManifests(p) \/ WipeObjects(p)
        PROVE  manLock' = manLock
    BY <1>4 DEF locks, Build, Command, PreRead, PreMatch, Get, GetMiss, GetLock,
       GetCopy, Report, Compile, CompileFails, PostInvoke, PostInit, Collect,
       HashOut, HashDep, AddDuplicate, AddLock, AddCopy, AddReplace, AddFails,
       PostFlush, PostStats, LockObjects, LockStatistics, WipeManifests,
       WipeObjects
  <1> QED
    BY <1>1, <1>2, <1>3, <1>4 DEF Moves, Step

\* Only PubWrite and --clear touch a manifest, and the latter adds nothing.
LEMMA ManifestKept ==
    ASSUME TypeOK, NEW p \in Proc, Moves(p)
    PROVE  \/ PubWrite(p)
           \/ pc[p] = "wipeMan" /\ \A u \in Unit : manifest'[u] \in {manifest[u], << >>}
           \/ manifest' = manifest
  <1>1. CASE WipeManifests(p)
    BY <1>1 DEF WipeManifests, TypeOK, SharedType
  <1>2. ASSUME \/ Build(p) \/ Command(p) \/ PreRead(p) \/ PreMatch(p)
               \/ Get(p) \/ GetMiss(p) \/ GetLock(p) \/ GetCopy(p) \/ Report(p)
               \/ Compile(p) \/ CompileFails(p) \/ PostInvoke(p) \/ PostInit(p)
               \/ Collect(p) \/ HashOut(p) \/ HashDep(p) \/ AddDuplicate(p)
               \/ AddLock(p) \/ AddCopy(p) \/ AddReplace(p) \/ AddFails(p)
               \/ PostFlush(p) \/ PostStats(p) \/ LockObjects(p)
               \/ LockStatistics(p) \/ WipeObjects(p) \/ PubRead(p)
               \/ LockManifests(p) \/ Clean(p) \/ Cleared(p) \/ GetVanished(p)
               \/ FileGone(p)
        PROVE  manifest' = manifest
    BY <1>2 DEF shared, Build, Command, PreRead, PreMatch, Get, GetMiss, GetLock,
       GetCopy, Report, Compile, CompileFails, PostInvoke, PostInit, Collect,
       HashOut, HashDep, AddDuplicate, AddLock, AddCopy, AddReplace, AddFails,
       PostFlush, PostStats, LockObjects, LockStatistics, WipeObjects, PubRead,
       LockManifests, Clean, Cleared, GetVanished, FileGone
  <1>3. CASE Crash(p)
    BY <1>3 DEF Crash, ManifestsHalfWiped, TypeOK, SharedType
  <1> QED
    BY <1>1, <1>2, <1>3 DEF Moves, Step

\* ensure_output's write keeps what is there, and no two entries for a header.
LEMMA PubWriteManifest ==
    ASSUME TypeInv, Publishing, UniqueDeps, NEW p \in Proc, PubWrite(p)
    PROVE  /\ \A u \in Unit : Deps(manifest[u]) \subseteq Deps(manifest'[u])
           /\ \A u \in Unit : Distinct(manifest'[u])
           /\ \A u \in Unit \ {unit[p]} : manifest'[u] = manifest[u]
  <1> DEFINE entry == [dep |-> seen[p], out |-> out[p]]
             n     == published(man[p], entry)
  <1>1. entry \in Entry
    BY DEF TypeInv, TypeOK, PubWrite, DataType, Hashed, HashedPcs, Entry
  <1>2. man[p] \in Seq(Entry) /\ unit[p] \in Unit
    BY DEF TypeInv, TypeOK, DataType, ControlType
  <1>3. Distinct(man[p]) /\ Deps(manifest[unit[p]]) \subseteq Deps(man[p])
    BY DEF PubWrite, Publishing
  <1>4. \A u \in Unit : Distinct(manifest[u])
    BY DEF UniqueDeps, Distinct
  <1>5. manifest' = [manifest EXCEPT ![unit[p]] = n] \/ manifest' = manifest
    BY DEF PubWrite
  <1>6. Deps(man[p]) \subseteq Deps(n) /\ Distinct(n)
    <2> HIDE DEF entry
    <2> QED BY <1>1, <1>2, <1>3, PublishedDeps
  <1> HIDE DEF n
  <1> QED
    BY <1>2, <1>3, <1>4, <1>5, <1>6 DEF TypeInv, TypeOK, SharedType

\* Every step keeps one entry for each dependency hash.
LEMMA ManifestStep == ManifestInv /\ [Next]_vars => ManifestInv'
  <1> SUFFICES ASSUME ManifestInv, [Next]_vars PROVE ManifestInv'
    OBVIOUS
  <1>0. TypeInv /\ TypeInv' /\ TypeOK
    BY TypeStep DEF ManifestInv, TypeInv
  <1>1. ASSUME NEW p \in Proc, Moves(p) PROVE UniqueDeps' /\ Publishing'
    <2>1. UniqueDeps'
      <3>1. CASE PubWrite(p)
        BY <1>0, <3>1, PubWriteManifest DEF ManifestInv, UniqueDeps, Distinct
      <3>2. CASE \A u \in Unit : manifest'[u] \in {manifest[u], << >>}
        BY <3>2 DEF ManifestInv, UniqueDeps
      <3>3. CASE manifest' = manifest
        BY <3>3 DEF ManifestInv, UniqueDeps
      <3> QED BY <1>0, <1>1, <3>1, <3>2, <3>3, ManifestKept
    <2>2. ASSUME NEW q \in Proc, pc'[q] = "pubWrite"
          PROVE  /\ manLock'[ManSec(q)'] = q
                 /\ Distinct(man'[q])
                 /\ Deps(manifest'[unit'[q]]) \subseteq Deps(man'[q])
      <3>1. CASE q = p
        <4>1. PubRead(p)
          BY <1>0, <1>1, <2>2, <3>1, OnlyPubRead
        <4>2. manLock'[ManSec(p)'] = p
          BY <1>0, <4>1, SectionAssumption DEF PubRead, ManSec, TypeOK, LockType, ControlType
        <4>3. man'[p] = manifest[unit[p]] /\ unit' = unit /\ manifest' = manifest
          BY <1>0, <4>1 DEF PubRead, TypeOK, DataType, shared
        <4>4. unit[p] \in Unit
          BY <1>0 DEF TypeOK, ControlType
        <4>5. Distinct(man'[p])
          BY <4>3, <4>4 DEF ManifestInv, UniqueDeps, Distinct
        <4> QED BY <3>1, <4>2, <4>3, <4>5
      <3>2. CASE q # p
        <4>1. pc[q] = "pubWrite" /\ unit'[q] = unit[q] /\ man'[q] = man[q]
          BY <1>0, <1>1, <2>2, <3>2, OthersUnchanged
        <4>2. /\ manLock[ManSec(q)] = q
              /\ Distinct(man[q])
              /\ Deps(manifest[unit[q]]) \subseteq Deps(man[q])
          BY <4>1 DEF ManifestInv, Publishing
        <4>3. ManSec(q) \in Section /\ ManSec(q)' = ManSec(q) /\ unit[q] \in Unit
          BY <1>0, <4>1, SectionAssumption DEF ManSec, TypeOK, ControlType
        <4>4. manLock'[ManSec(q)] = q
          BY <1>0, <1>1, <3>2, <4>2, <4>3, ManLockKept DEF ManifestInv
        <4>5. Deps(manifest'[unit[q]]) \subseteq Deps(manifest[unit[q]])
          <5>1. CASE PubWrite(p)
            <6>1. manLock[ManSec(p)] = p
              BY <5>1 DEF PubWrite, ManifestInv, Publishing
            <6>2. unit[q] # unit[p]
              BY <3>2, <4>2, <6>1 DEF ManSec
            <6> QED
              BY <1>0, <4>3, <5>1, <6>2, PubWriteManifest DEF ManifestInv
          <5>2. CASE \A u \in Unit : manifest'[u] \in {manifest[u], << >>}
            BY <4>3, <5>2 DEF Deps
          <5>3. CASE manifest' = manifest
            BY <5>3
          <5> QED BY <1>0, <1>1, <5>1, <5>2, <5>3, ManifestKept
        <4> QED BY <4>1, <4>2, <4>3, <4>4, <4>5
      <3> QED BY <3>1, <3>2
    <2> QED BY <2>1, <2>2 DEF Publishing
  <1>2. CASE UNCHANGED <<manifest, manLock, pc, unit, man>>
    <2>1. UniqueDeps'
      BY <1>2 DEF ManifestInv, UniqueDeps
    <2>2. Publishing'
      <3> SUFFICES ASSUME NEW q \in Proc, pc'[q] = "pubWrite"
                   PROVE  /\ manLock'[ManSec(q)'] = q
                          /\ Distinct(man'[q])
                          /\ Deps(manifest'[unit'[q]]) \subseteq Deps(man'[q])
        BY DEF Publishing
      <3>1. /\ manLock[ManSec(q)] = q
            /\ Distinct(man[q])
            /\ Deps(manifest[unit[q]]) \subseteq Deps(man[q])
        BY <1>2 DEF ManifestInv, Publishing
      <3>2. ManSec(q)' = ManSec(q)
        BY <1>2 DEF ManSec
      <3> QED BY <1>2, <3>1, <3>2
    <2> QED BY <1>0, <2>1, <2>2 DEF ManifestInv
  <1>3. ASSUME EditHeader \/ UNCHANGED vars
        PROVE  UNCHANGED <<manifest, manLock, pc, unit, man>>
    BY <1>3 DEF EditHeader, vars, shared, locks, local
  <1> QED
    BY <1>0, <1>1, <1>2, <1>3 DEF Next, Moves, ManifestInv

\* The invariant about manifests holds in every state.
LEMMA ManifestInvariant == Spec => []ManifestInv
  <1>1. Init => ManifestInv
    <2>1. ASSUME Init PROVE UniqueDeps /\ Publishing
      BY <2>1 DEF Init, UniqueDeps, Publishing
    <2> QED BY <2>1, TypeInit DEF ManifestInv
  <1> QED
    BY <1>1, ManifestStep, PTL DEF Spec

\* No interleaving of post-invoke processes puts two entries for the same
\* header contents in a manifest (UniqueDeps).
THEOREM OneEntryPerHeader == Spec => []UniqueDeps
  <1>1. ManifestInv => UniqueDeps
    BY DEF ManifestInv
  <1> QED
    BY <1>1, ManifestInvariant, PTL

\* No process that publishes an entry loses one (EntriesSurvive): only --clear
\* removes entries.
THEOREM NoEntryIsLost == Spec => EntriesSurvive
  <1> DEFINE Kept == \/ \E p \in Proc : pc[p] = "wipeMan"
                     \/ \A u \in Unit : Deps(manifest[u]) \subseteq Deps(manifest[u])'
  <1>1. ASSUME ManifestInv, [Next]_vars PROVE Kept \/ UNCHANGED vars
    <2>1. ASSUME NEW p \in Proc, Moves(p) PROVE Kept
      <3>1. CASE PubWrite(p)
        <4>1. \A u \in Unit : Deps(manifest[u]) \subseteq Deps(manifest'[u])
          BY <1>1, <3>1, PubWriteManifest DEF ManifestInv
        <4> QED BY <4>1
      <3>2. CASE ~PubWrite(p)
        <4>1. pc[p] = "wipeMan" \/ manifest' = manifest
          BY <1>1, <2>1, <3>2, ManifestKept DEF ManifestInv, TypeInv
        <4> QED BY <4>1
      <3> QED BY <3>1, <3>2
    <2>2. CASE EditHeader
      BY <2>2 DEF EditHeader, Deps
    <2> QED
      BY <1>1, <2>1, <2>2 DEF Next, Moves
  <1>2. ManifestInv /\ [Next]_vars => [Kept]_vars
    BY <1>1
  <1> QED
    BY <1>2, ManifestInvariant, PTL DEF Spec, EntriesSurvive

-----------------------------------------------------------------------------
(* Objects.  When nobody clears the cache the store only grows, and the    *)
(* process that is about to add an object holds the mutex under which it   *)
(* has seen that it is missing.                                            *)

NoWipe == \A p \in Proc : pc[p] \notin WipePcs

\* A directory without its object is left by --clear only.
NoHusk ==
    /\ \A k \in Key : store[k] # Husk
    /\ \A p \in Proc : tmp[p] # Husk

Held ==
    \A p \in Proc : pc[p] \in {"getCopy", "addCopy", "addReplace"} => objLock[ObjSec(p)] = p

\* A process that will publish an entry has its objects in the store, up to
\* the one it is adding.
Adding(p) ==
    /\ pc[p] \in {"addCopy", "addReplace"} => store[key(p)] = None
    /\ pc[p] = "addReplace" => tmp[p] # None
    /\ pc[p] = "hashDep" => slot[p] = 1
    /\ pc[p] \in {"addLock", "addCopy", "addReplace"} =>
           \A i \in Slots : i < slot[p] => store[out[p][i]] # None
    /\ pc[p] \in {"pubRead", "pubWrite"} => \A i \in Slots : store[out[p][i]] # None
    /\ pc[p] = "pubWrite" => man[p] = manifest[unit[p]]

BackedInv ==
    /\ ManifestInv /\ NoWipe /\ NoHusk /\ Held /\ EntriesAreBacked
    /\ \A p \in Proc : Adding(p)

\* The cache is not cleared, and no program holds an object's directory open.
Undisturbed == "clear" \notin Commands /\ "rename" \notin FaultKinds

\* The actions that lead into the steps which the invariants speak of
LEMMA Entering ==
    ASSUME TypeOK, NEW p \in Proc, Moves(p),
           pc'[p] \in {"getCopy", "hashDep", "addLock", "addCopy", "addReplace",
                       "pubRead", "pubWrite"}
    PROVE  \/ GetLock(p) \/ HashOut(p) \/ HashDep(p) \/ AddDuplicate(p) \/ AddLock(p)
           \/ AddCopy(p) \/ AddReplace(p) \/ AddFails(p) \/ PubRead(p)
  <1> USE DEF TypeOK, ControlType, Goto, Idle
  <1>1. CASE Build(p) \/ Command(p) \/ PreRead(p) \/ PreMatch(p) \/ Get(p) \/ GetMiss(p)
    BY <1>1 DEF Build, Command, PreRead, PreMatch, Get, GetMiss
  <1>2. CASE GetCopy(p) \/ Report(p) \/ Compile(p) \/ CompileFails(p)
    BY <1>2 DEF GetCopy, Report, Compile, CompileFails
  <1>3. CASE PostInvoke(p) \/ PostInit(p) \/ Collect(p)
    BY <1>3 DEF PostInvoke, PostInit, Collect
  <1>4. CASE PubWrite(p) \/ PostFlush(p) \/ PostStats(p)
    BY <1>4 DEF PubWrite, PostFlush, PostStats
  <1>5. CASE LockManifests(p) \/ LockObjects(p) \/ Clean(p) \/ LockStatistics(p)
    BY <1>5 DEF LockManifests, LockObjects, Clean, LockStatistics
  <1>6. CASE WipeManifests(p) \/ WipeObjects(p) \/ Cleared(p)
    BY <1>6 DEF WipeManifests, WipeObjects, Cleared
  <1>7. CASE GetVanished(p) \/ FileGone(p) \/ Crash(p)
    BY <1>7 DEF GetVanished, FileGone, Crash, Dies
  <1> QED
    BY <1>1, <1>2, <1>3, <1>4, <1>5, <1>6, <1>7 DEF Moves, Step

\* A process fills its temporary directory with an output file.
LEMMA TmpOwn ==
    ASSUME TypeOK, NEW p \in Proc, Moves(p), pc[p] # "wipeObj"
    PROVE  /\ tmp'[p] \in {tmp[p], None, file[unit[p]][slot[p]]}
           /\ tmp'[p] # Husk \/ tmp'[p] = tmp[p]
  <1> USE ConstantsAssumption DEF TypeOK, ControlType, DataType, SharedType, Fresh
  <1>1. CASE Build(p) \/ Command(p) \/ PreRead(p) \/ PreMatch(p) \/ Get(p) \/ GetMiss(p)
    BY <1>1 DEF Build, Command, PreRead, PreMatch, Get, GetMiss
  <1>2. CASE GetLock(p) \/ GetCopy(p) \/ Report(p) \/ Compile(p) \/ CompileFails(p)
    BY <1>2 DEF GetLock, GetCopy, Report, Compile, CompileFails
  <1>3. CASE PostInvoke(p) \/ PostInit(p) \/ Collect(p) \/ HashOut(p) \/ HashDep(p)
    BY <1>3 DEF PostInvoke, PostInit, Collect, HashOut, HashDep
  <1>4. CASE AddDuplicate(p) \/ AddLock(p) \/ AddReplace(p) \/ AddFails(p)
    BY <1>4 DEF AddDuplicate, AddLock, AddReplace, AddFails
  <1>5. CASE PubRead(p) \/ PubWrite(p) \/ PostFlush(p) \/ PostStats(p)
    BY <1>5 DEF PubRead, PubWrite, PostFlush, PostStats
  <1>6. CASE LockManifests(p) \/ LockObjects(p) \/ Clean(p) \/ LockStatistics(p)
    BY <1>6 DEF LockManifests, LockObjects, Clean, LockStatistics
  <1>7. CASE WipeManifests(p) \/ Cleared(p)
    BY <1>7 DEF WipeManifests, Cleared
  <1>8. CASE GetVanished(p) \/ FileGone(p) \/ Crash(p)
    BY <1>8 DEF GetVanished, FileGone, Crash, Dies
  <1>9. ~WipeObjects(p)
    BY DEF WipeObjects
  <1>10. CASE AddCopy(p)
    <2>1. file[unit[p]][slot[p]] \in Key
      BY <1>10 DEF AddCopy
    <2> QED BY <1>10, <2>1 DEF AddCopy
  <1> QED
    BY <1>1, <1>2, <1>3, <1>4, <1>5, <1>6, <1>7, <1>8, <1>9, <1>10 DEF Moves, Step

\* Nobody starts to wipe the directory but --clear.
LEMMA NoWipeStep ==
    ASSUME "clear" \notin Commands, TypeOK, NoWipe, NEW p \in Proc, Moves(p)
    PROVE  pc'[p] \notin WipePcs
  <1> USE DEF TypeOK, ControlType, Goto, Idle, WipePcs, NoWipe
  <1>1. CASE Build(p) \/ Command(p) \/ PreRead(p) \/ PreMatch(p) \/ Get(p) \/ GetMiss(p)
    BY <1>1 DEF Build, Command, PreRead, PreMatch, Get, GetMiss
  <1>2. CASE GetLock(p) \/ GetCopy(p) \/ Report(p) \/ Compile(p) \/ CompileFails(p)
    BY <1>2 DEF GetLock, GetCopy, Report, Compile, CompileFails
  <1>3. CASE PostInvoke(p) \/ PostInit(p) \/ Collect(p) \/ HashOut(p) \/ HashDep(p)
    BY <1>3 DEF PostInvoke, PostInit, Collect, HashOut, HashDep
  <1>4. CASE AddDuplicate(p) \/ AddLock(p) \/ AddCopy(p) \/ AddReplace(p) \/ AddFails(p)
    BY <1>4 DEF AddDuplicate, AddLock, AddCopy, AddReplace, AddFails, AfterAdd
  <1>5. CASE PubRead(p) \/ PubWrite(p) \/ PostFlush(p) \/ PostStats(p)
    BY <1>5 DEF PubRead, PubWrite, PostFlush, PostStats
  <1>6. CASE LockManifests(p) \/ LockObjects(p) \/ Clean(p) \/ LockStatistics(p)
    BY <1>6 DEF LockManifests, LockObjects, Clean, LockStatistics
  <1>7. CASE WipeManifests(p) \/ WipeObjects(p) \/ Cleared(p)
    BY <1>7 DEF WipeManifests, WipeObjects, Cleared
  <1>8. CASE GetVanished(p) \/ FileGone(p) \/ Crash(p)
    BY <1>8 DEF GetVanished, FileGone, Crash, Dies
  <1> QED
    BY <1>1, <1>2, <1>3, <1>4, <1>5, <1>6, <1>7, <1>8 DEF Moves, Step

\* Only AddReplace and --clear touch the store, and the latter adds no object.
LEMMA StoreKept ==
    ASSUME NEW p \in Proc, Moves(p)
    PROVE  \/ AddReplace(p)
           \/ pc[p] = "wipeObj" /\ \A k \in Key : store'[k] \in {store[k], None, Husk}
           \/ store' = store
  <1>1. CASE WipeObjects(p)
    BY <1>1 DEF WipeObjects
  <1>2. CASE Crash(p)
    BY <1>2 DEF Crash, ObjectsHalfWiped
  <1> SUFFICES
        ASSUME \/ Build(p) \/ Command(p) \/ PreRead(p) \/ PreMatch(p)
               \/ Get(p) \/ GetMiss(p) \/ GetLock(p) \/ GetCopy(p) \/ Report(p)
               \/ Compile(p) \/ CompileFails(p) \/ PostInvoke(p) \/ PostInit(p)
               \/ Collect(p) \/ HashOut(p) \/ HashDep(p) \/ AddDuplicate(p)
               \/ AddLock(p) \/ AddCopy(p) \/ AddFails(p) \/ PubWrite(p)
               \/ PostFlush(p) \/ PostStats(p) \/ LockObjects(p)
               \/ LockStatistics(p) \/ WipeManifests(p) \/ PubRead(p)
               \/ LockManifests(p) \/ Clean(p) \/ Cleared(p) \/ GetVanished(p)
               \/ FileGone(p)
        PROVE  store' = store
    BY <1>1, <1>2 DEF Moves, Step
  <1> QED
    BY DEF shared, Build, Command, PreRead, PreMatch, Get, GetMiss, GetLock,
       GetCopy, Report, Compile, CompileFails, PostInvoke, PostInit, Collect,
       HashOut, HashDep, AddDuplicate, AddLock, AddCopy, AddFails, PubWrite,
       PostFlush, PostStats, LockObjects, LockStatistics, WipeManifests, PubRead,
       LockManifests, Clean, Cleared, GetVanished, FileGone

\* Only a process that clears leaves a directory without its object.
LEMMA NoHuskStep ==
    ASSUME TypeOK, NoWipe, NoHusk, NEW p \in Proc, Moves(p)
    PROVE  NoHusk'
  <1>0. pc[p] # "wipeObj"
    BY DEF NoWipe, WipePcs
  <1>1. \A k \in Key : store'[k] # Husk
    <2>1. CASE AddReplace(p)
      BY <2>1 DEF AddReplace, NoHusk, TypeOK, SharedType
    <2> QED BY <1>0, <2>1, StoreKept DEF NoHusk
  <1>2. ASSUME NEW q \in Proc PROVE tmp'[q] # Husk
    <2>1. CASE q # p
      BY <1>0, <2>1, OthersUnchanged DEF NoHusk
    <2>2. CASE q = p
      BY <1>0, <2>2, TmpOwn DEF NoHusk
    <2> QED BY <2>1, <2>2
  <1> QED BY <1>1, <1>2 DEF NoHusk

\* Nobody takes another process's object lock.
LEMMA ObjLockKept ==
    ASSUME TypeOK, Held, NEW p \in Proc, Moves(p),
           NEW q \in Proc \ {p}, NEW s \in Section, objLock[s] = q
    PROVE  objLock'[s] = q
  <1> USE DEF TypeOK, LockType
  <1>0. q # None
    BY ConstantsAssumption
  <1>1. CASE GetLock(p) \/ AddLock(p) \/ LockObjects(p)
    BY <1>0, <1>1 DEF GetLock, AddLock, LockObjects
  <1>2. CASE GetCopy(p) \/ AddReplace(p) \/ AddFails(p)
    BY <1>2 DEF GetCopy, AddReplace, AddFails, Held
  <1>3. CASE Clean(p) \/ Cleared(p) \/ GetVanished(p) \/ FileGone(p) \/ Crash(p)
    BY <1>3 DEF Clean, Cleared, GetVanished, FileGone, Crash, Dies, ReleaseAll, Without
  <1>4. ASSUME \/ Build(p) \/ Command(p) \/ PreRead(p) \/ PreMatch(p)
               \/ Get(p) \/ GetMiss(p) \/ Report(p)
               \/ Compile(p) \/ CompileFails(p) \/ PostInvoke(p) \/ PostInit(p)
               \/ Collect(p) \/ HashOut(p) \/ HashDep(p) \/ AddDuplicate(p)
               \/ AddCopy(p) \/ PubRead(p) \/ PubWrite(p)
               \/ PostFlush(p) \/ PostStats(p) \/ LockManifests(p)
               \/ LockStatistics(p) \/ WipeManifests(p) \/ WipeObjects(p)
        PROVE  objLock' = objLock
    BY <1>4 DEF locks, Build, Command, PreRead, PreMatch, Get, GetMiss,
       Report, Compile, CompileFails, PostInvoke, PostInit, Collect,
       HashOut, HashDep, AddDuplicate, AddCopy, PubRead, PubWrite,
       PostFlush, PostStats, LockManifests, LockStatistics, WipeManifests,
       WipeObjects
  <1> QED
    BY <1>1, <1>2, <1>3, <1>4 DEF Moves, Step

\* A process holds the mutex of the object it copies.
LEMMA HeldStep ==
    ASSUME TypeOK, TypeOK', Held, NEW p \in Proc, Moves(p)
    PROVE  Held'
  <1> SUFFICES ASSUME NEW q \in Proc, pc'[q] \in {"getCopy", "addCopy", "addReplace"}
               PROVE  objLock'[ObjSec(q)'] = q
    BY DEF Held
  <1>0. \A r \in Proc : out[r][slot[r]] \in Key /\ ObjSec(r) \in Section
    BY SectionAssumption DEF TypeOK, ControlType, DataType, ObjSec, key
  <1>1. CASE q = p
    <2>1. \/ GetLock(p) \/ AddLock(p) \/ AddCopy(p)
      <3> USE <1>1 DEF TypeOK, ControlType, Goto
      <3>1. ~HashOut(p) /\ ~HashDep(p) /\ ~PubRead(p)
        BY DEF HashOut, HashDep, PubRead
      <3>2. ~AddDuplicate(p) /\ ~AddReplace(p) /\ ~AddFails(p)
        BY DEF AddDuplicate, AddReplace, AddFails, AfterAdd
      <3> QED BY <3>1, <3>2, Entering
    <2>2. ObjSec(p)' = ObjSec(p)
      BY <2>1 DEF GetLock, AddLock, AddCopy, ObjSec, key
    <2>3. CASE GetLock(p) \/ AddLock(p)
      BY <1>0, <1>1, <2>2, <2>3 DEF GetLock, AddLock, TypeOK, LockType
    <2>4. CASE AddCopy(p)
      BY <1>1, <2>2, <2>4 DEF AddCopy, Held, locks
    <2> QED BY <2>1, <2>3, <2>4
  <1>2. CASE q # p
    <2>1. pc'[q] = pc[q] /\ ObjSec(q)' = ObjSec(q)
      BY <1>2, OthersUnchanged DEF ObjSec, key
    <2> QED
      BY <1>0, <1>2, <2>1, ObjLockKept DEF Held
  <1> QED BY <1>1, <1>2

\* The rename onto the key does not fail: nobody has added the object since.
LEMMA RenameSucceeds ==
    ASSUME Undisturbed, NEW p \in Proc, Adding(p)
    PROVE  ~AddFails(p)
  BY DEF Undisturbed, Adding, AddFails, hasEntry

\* Objects stay.
LEMMA StoreGrows ==
    ASSUME TypeOK, NoWipe, NEW p \in Proc, Adding(p), Moves(p)
    PROVE  \A k \in Key : store[k] # None => store'[k] # None
  <1>1. pc[p] # "wipeObj"
    BY DEF NoWipe, WipePcs
  <1>2. CASE AddReplace(p)
    BY <1>2 DEF AddReplace, Adding, TypeOK, SharedType, DataType
  <1> QED BY <1>1, <1>2, StoreKept

\* What the steps of another process leave of Adding
LEMMA AddingOther ==
    ASSUME BackedInv, NEW p \in Proc, Moves(p), NEW q \in Proc \ {p}
    PROVE  Adding(q)'
  <1>0. TypeOK /\ TypeInv /\ NoWipe /\ Held /\ Adding(p) /\ Adding(q) /\ Publishing
    BY DEF BackedInv, ManifestInv, TypeInv
  <1>1. /\ pc'[q] = pc[q] /\ unit'[q] = unit[q] /\ man'[q] = man[q]
        /\ out'[q] = out[q] /\ slot'[q] = slot[q] /\ tmp'[q] = tmp[q]
    BY <1>0, OthersUnchanged DEF NoWipe, WipePcs
  <1>2. key(q)' = key(q) /\ key(q) \in Key /\ key(p) \in Key /\ \A i \in Slots : out[q][i] \in Key
    BY <1>0, <1>1 DEF key, TypeOK, ControlType, DataType
  <1>3. \A k \in Key : store[k] # None => store'[k] # None
    BY <1>0, StoreGrows
  <1>4. ASSUME pc[q] \in {"addCopy", "addReplace"} PROVE store'[key(q)] = None
    <2>1. store[key(q)] = None /\ objLock[ObjSec(q)] = q
      BY <1>0, <1>4 DEF Adding, Held
    <2>2. CASE AddReplace(p)
      <3>1. objLock[ObjSec(p)] = p
        BY <1>0, <2>2 DEF AddReplace, Held
      <3>2. key(p) # key(q)
        BY <2>1, <3>1 DEF ObjSec
      <3> QED BY <1>0, <1>2, <2>1, <2>2, <3>2 DEF AddReplace, TypeOK, SharedType
    <2>3. pc[p] # "wipeObj"
      BY <1>0 DEF NoWipe, WipePcs
    <2> QED BY <2>1, <2>2, <2>3, StoreKept
  <1>5. ASSUME pc[q] = "pubWrite" PROVE manifest'[unit[q]] = manifest[unit[q]]
    <2>1. manLock[ManSec(q)] = q /\ unit[q] \in Unit
      BY <1>0, <1>5 DEF Publishing, TypeOK, ControlType
    <2>2. CASE PubWrite(p)
      <3>1. manLock[ManSec(p)] = p
        BY <1>0, <2>2 DEF PubWrite, Publishing
      <3>2. unit[q] # unit[p]
        BY <2>1, <3>1 DEF ManSec
      <3> QED BY <1>0, <2>1, <2>2, <3>2, PubWriteManifest DEF BackedInv, ManifestInv
    <2>3. pc[p] # "wipeMan"
      BY <1>0 DEF NoWipe, WipePcs
    <2> QED BY <1>0, <2>2, <2>3, ManifestKept
  <1> QED
    BY <1>0, <1>1, <1>2, <1>3, <1>4, <1>5 DEF Adding

\* The files of the unit are added in order, so the next one is the first that
\* may be missing.
LEMMA NextSlot ==
    ASSUME TypeOK, NEW p \in Proc, AfterAdd(p, TRUE),
           out' = out, store'[key(p)] # None,
           \A i \in Slots : store[out[p][i]] # None => store'[out[p][i]] # None,
           \A i \in Slots : i < slot[p] => store[out[p][i]] # None
    PROVE  /\ pc'[p] \in {"addLock", "pubRead"}
           /\ pc'[p] = "addLock" =>
                \A i \in Slots : i < slot'[p] => store'[out'[p][i]] # None
           /\ pc'[p] = "pubRead" => \A i \in Slots : store'[out'[p][i]] # None
  <1>0. slot[p] \in Nat /\ slot[p] \in 1..NSlots /\ NSlots \in Nat
    BY ConstantsAssumption DEF TypeOK, ControlType, Slots
  <1>1. \A i \in Slots : i < slot[p] \/ i = slot[p] => store'[out[p][i]] # None
    BY DEF key
  <1>2. CASE slot[p] < NSlots
    <2>1. pc'[p] = "addLock" /\ slot'[p] = slot[p] + 1
      BY <1>2 DEF AfterAdd, Goto, TypeOK, ControlType
    <2>2. \A i \in Slots : i < slot[p] + 1 => i < slot[p] \/ i = slot[p]
      BY <1>0 DEF Slots
    <2> QED BY <1>1, <2>1, <2>2
  <1>3. CASE ~(slot[p] < NSlots)
    <2>1. pc'[p] = "pubRead"
      BY <1>3 DEF AfterAdd, Goto, TypeOK, ControlType
    <2>2. \A i \in Slots : i < slot[p] \/ i = slot[p]
      BY <1>0, <1>3 DEF Slots
    <2> QED BY <1>1, <2>1, <2>2
  <1> QED BY <1>2, <1>3

\* What its own steps make of it
LEMMA AddingOwn ==
    ASSUME Undisturbed, BackedInv, NEW p \in Proc, Moves(p)
    PROVE  Adding(p)'
  <1>0. TypeOK /\ NoWipe /\ Held /\ Adding(p)
    BY DEF BackedInv, ManifestInv, TypeInv
  <1>1. ~AddFails(p)
    BY <1>0, RenameSucceeds
  <1>2. key(p) \in Key /\ \A i \in Slots : out[p][i] \in Key
    BY <1>0 DEF key, TypeOK, ControlType, DataType
  <1> USE DEF TypeOK, ControlType, Goto
  <1>3. CASE GetLock(p)
    BY <1>0, <1>3 DEF GetLock, Adding
  <1>4. CASE HashOut(p)
    BY <1>0, <1>4, ConstantsAssumption DEF HashOut, Adding, Slots
  <1>5. CASE HashDep(p)
    <2>1. /\ pc'[p] = "addLock" /\ slot'[p] = 1
      BY <1>0, <1>5 DEF HashDep, Adding
    <2>2. \A i \in Slots : ~(i < 1)
      BY DEF Slots
    <2> QED BY <2>1, <2>2 DEF Adding
  <1>6. CASE AddDuplicate(p)
    <2>1. /\ AfterAdd(p, TRUE) /\ out' = out /\ store' = store /\ store[key(p)] # None
          /\ \A i \in Slots : i < slot[p] => store[out[p][i]] # None
      BY <1>0, <1>6 DEF AddDuplicate, Adding, shared, hasEntry
    <2> QED BY <1>0, <2>1, NextSlot DEF Adding
  <1>7. CASE AddLock(p)
    BY <1>0, <1>7 DEF AddLock, Adding, shared, key, hasEntry
  <1>8. CASE AddCopy(p)
    BY <1>0, <1>8 DEF AddCopy, Adding, key, DataType
  <1>9. CASE AddReplace(p)
    <2>1. /\ AfterAdd(p, TRUE) /\ out' = out /\ store'[key(p)] = tmp[p] /\ tmp[p] # None
          /\ \A i \in Slots : i < slot[p] => store[out[p][i]] # None
      BY <1>0, <1>2, <1>9 DEF AddReplace, Adding, SharedType
    <2>2. \A i \in Slots : store[out[p][i]] # None => store'[out[p][i]] # None
      BY <1>0, <1>2, StoreGrows
    <2> QED BY <1>0, <2>1, <2>2, NextSlot DEF Adding
  <1>10. CASE PubRead(p)
    BY <1>0, <1>10 DEF PubRead, Adding, shared, DataType
  <1>11. CASE pc'[p] \notin {"getCopy", "hashDep", "addLock", "addCopy", "addReplace",
                             "pubRead", "pubWrite"}
    BY <1>11 DEF Adding
  <1> QED
    BY <1>0, <1>1, <1>3, <1>4, <1>5, <1>6, <1>7, <1>8, <1>9, <1>10, <1>11, Entering

\* An entry of what ensure_output writes was there before, or has the new
\* object hashes.
LEMMA PublishedOut ==
    ASSUME NEW m \in Seq(Entry), NEW entry \in Entry, NEW i \in DOMAIN published(m, entry)
    PROVE  \/ published(m, entry)[i].out = entry.out
           \/ \E j \in DOMAIN m : published(m, entry)[i] = m[j]
  <1>1. CASE entry.dep \notin Deps(m)
    <2> DEFINE n == addEntry(m, entry)
    <2>1. /\ DOMAIN n = 1..(Len(m) + 1)
          /\ n[1] = entry
          /\ \A j \in DOMAIN m : n[j + 1] = m[j]
      BY AddEntryProperties
    <2>2. published(m, entry) = n
      BY <1>1 DEF published
    <2>3. Len(m) \in Nat /\ DOMAIN m = 1..Len(m)
      OBVIOUS
    <2> HIDE DEF n
    <2>4. i = 1 \/ (i - 1 \in DOMAIN m /\ n[i] = m[i - 1])
      BY <2>1, <2>2, <2>3
    <2> QED BY <2>1, <2>2, <2>4
  <1>2. CASE entry.dep \in Deps(m)
    <2> DEFINE f == FirstFor(m, entry.dep)
    <2>1. published(m, entry) = [m EXCEPT ![f].out = entry.out]
      BY <1>2 DEF published, replaceOutput
    <2>2. f \in DOMAIN m /\ m[f] \in Entry
      BY <1>2, FirstForExists, ElementOfSeq
    <2> HIDE DEF f
    <2>3. CASE i = f
      BY <2>1, <2>2, <2>3 DEF Entry
    <2>4. CASE i # f
      BY <2>1, <2>4
    <2> QED BY <2>3, <2>4
  <1> QED BY <1>1, <1>2

\* An entry names objects that are in the store after every step.
LEMMA EntriesBackedStep ==
    ASSUME BackedInv, NEW p \in Proc, Moves(p)
    PROVE  EntriesAreBacked'
  <1>0. TypeInv /\ TypeOK /\ NoWipe /\ Adding(p) /\ EntriesAreBacked
    BY DEF BackedInv, ManifestInv, TypeInv
  <1>1. \A k \in Key : store[k] # None => store'[k] # None
    BY <1>0, StoreGrows
  <1>2. ASSUME NEW u \in Unit, NEW i \in DOMAIN manifest'[u], NEW j \in Slots,
               \E x \in DOMAIN manifest[u] : manifest'[u][i].out = manifest[u][x].out
        PROVE  store'[manifest'[u][i].out[j]] # None
    <2>1. PICK x \in DOMAIN manifest[u] : manifest'[u][i].out = manifest[u][x].out
      BY <1>2
    <2>2. store[manifest[u][x].out[j]] # None
      BY <1>0 DEF EntriesAreBacked, Backed, HasObject
    <2>3. manifest[u][x] \in Entry
      BY <1>0, ElementOfSeq DEF TypeOK, SharedType
    <2>4. manifest[u][x].out[j] \in Key
      BY <2>3 DEF Entry
    <2> QED BY <1>1, <2>1, <2>2, <2>4
  <1>6. ASSUME \A u \in Unit : \A i \in DOMAIN manifest'[u] : \A j \in Slots :
                   store'[manifest'[u][i].out[j]] # None
        PROVE  EntriesAreBacked'
    <2>1. NoHusk' /\ TypeOK'
      BY <1>0, NoHuskStep, ManifestStep DEF BackedInv, ManifestInv, TypeInv, Next, Moves
    <2>2. ASSUME NEW u \in Unit, NEW i \in DOMAIN manifest'[u], NEW j \in Slots
          PROVE  manifest'[u][i].out[j] \in Key
      <3>1. manifest'[u][i] \in Entry
        BY <2>1, ElementOfSeq DEF TypeOK, SharedType
      <3> QED BY <3>1 DEF Entry
    <2> QED BY <1>6, <2>1, <2>2 DEF EntriesAreBacked, Backed, HasObject, NoHusk
  <1>3. CASE PubWrite(p)
    <2> DEFINE entry == [dep |-> seen[p], out |-> out[p]]
               n     == published(man[p], entry)
    <2>1. entry \in Entry /\ man[p] \in Seq(Entry) /\ unit[p] \in Unit
      BY <1>0, <1>3 DEF TypeInv, TypeOK, PubWrite, DataType, ControlType, Hashed,
         HashedPcs, Entry
    <2>2. man[p] = manifest[unit[p]] /\ \A j \in Slots : store[out[p][j]] # None
      BY <1>0, <1>3 DEF PubWrite, Adding
    <2>3. entry.out = out[p] /\ \A j \in Slots : out[p][j] \in Key
      BY <1>0 DEF TypeOK, DataType
    <2>4. manifest' = [manifest EXCEPT ![unit[p]] = n] \/ manifest' = manifest
      BY <1>3 DEF PubWrite
    <2> HIDE DEF entry
    <2>5. ASSUME NEW u \in Unit, NEW i \in DOMAIN manifest'[u], NEW j \in Slots
          PROVE  store'[manifest'[u][i].out[j]] # None
      <3>1. CASE manifest'[u] = manifest[u]
        BY <1>2, <3>1
      <3>2. CASE u = unit[p] /\ manifest'[u] = n
        <4>1. n[i].out = entry.out \/ \E x \in DOMAIN man[p] : n[i] = man[p][x]
          BY <2>1, <3>2, PublishedOut
        <4>2. CASE n[i].out = entry.out
          BY <1>1, <2>2, <2>3, <3>2, <4>2
        <4>3. CASE \E x \in DOMAIN man[p] : n[i] = man[p][x]
          BY <1>2, <2>2, <3>2, <4>3
        <4> QED BY <4>1, <4>2, <4>3
      <3> HIDE DEF n
      <3>3. manifest'[u] = manifest[u] \/ (u = unit[p] /\ manifest'[u] = n)
        BY <1>0, <2>1, <2>4 DEF TypeOK, SharedType
      <3> QED BY <3>1, <3>2, <3>3
    <2> QED BY <1>6, <2>5
  <1>4. CASE manifest' = manifest
    BY <1>2, <1>4, <1>6
  <1>5. pc[p] # "wipeMan"
    BY <1>0 DEF NoWipe, WipePcs
  <1> QED BY <1>0, <1>3, <1>4, <1>5, ManifestKept

\* Every step keeps the objects of the entries.
LEMMA BackedStep ==
    ASSUME Undisturbed PROVE BackedInv /\ [Next]_vars => BackedInv'
  <1> SUFFICES ASSUME BackedInv, [Next]_vars PROVE BackedInv'
    OBVIOUS
  <1>0. ManifestInv /\ ManifestInv' /\ TypeOK /\ TypeOK'
    BY ManifestStep DEF BackedInv, ManifestInv, TypeInv
  <1>1. ASSUME NEW p \in Proc, Moves(p) PROVE BackedInv'
    <2>1. NoWipe'
      <3> SUFFICES ASSUME NEW q \in Proc PROVE pc'[q] \notin WipePcs
        BY DEF NoWipe
      <3>1. CASE q = p
        BY <1>0, <1>1, <3>1, NoWipeStep DEF Undisturbed, BackedInv
      <3>2. CASE q # p
        BY <1>0, <1>1, <3>2, OthersUnchanged DEF BackedInv, NoWipe
      <3> QED BY <3>1, <3>2
    <2>2. Held'
      BY <1>0, <1>1, HeldStep DEF BackedInv
    <2>3. EntriesAreBacked'
      BY <1>1, EntriesBackedStep
    <2>4. \A q \in Proc : Adding(q)'
      BY <1>1, AddingOther, AddingOwn
    <2>5. NoHusk'
      BY <1>0, <1>1, NoHuskStep DEF BackedInv
    <2> QED BY <1>0, <2>1, <2>2, <2>3, <2>4, <2>5 DEF BackedInv
  <1>2. CASE EditHeader \/ UNCHANGED vars
    <2>1. UNCHANGED <<manifest, store, objLock, pc, unit, man, out, slot, tmp>>
      BY <1>2 DEF EditHeader, vars, shared, locks, local
    <2>2. \A q \in Proc : key(q)' = key(q) /\ ObjSec(q)' = ObjSec(q)
      BY <2>1 DEF key, ObjSec
    <2>3. NoWipe' /\ NoHusk' /\ Held'
      BY <2>1, <2>2 DEF BackedInv, NoWipe, NoHusk, Held
    <2>4. EntriesAreBacked'
      BY <2>1 DEF BackedInv, EntriesAreBacked, Backed, HasObject
    <2>5. \A q \in Proc : Adding(q)'
      <3> SUFFICES ASSUME NEW q \in Proc PROVE Adding(q)'
        OBVIOUS
      <3>1. Adding(q)
        BY DEF BackedInv
      <3> QED BY <2>1, <2>2, <3>1 DEF Adding
    <2> QED BY <1>0, <2>3, <2>4, <2>5 DEF BackedInv
  <1> QED
    BY <1>1, <1>2 DEF Next, Moves

\* It holds initially,
LEMMA BackedInit == Init => BackedInv
  <1> SUFFICES ASSUME Init PROVE BackedInv
    OBVIOUS
  <1>1. TypeInv
    BY TypeInit
  <1>2. UniqueDeps /\ Publishing
    BY DEF Init, UniqueDeps, Publishing
  <1>3. NoWipe /\ NoHusk /\ Held /\ EntriesAreBacked
    BY ConstantsAssumption DEF Init, NoWipe, NoHusk, Held, WipePcs, EntriesAreBacked
  <1>4. \A p \in Proc : Adding(p)
    BY DEF Init, Adding
  <1> QED BY <1>1, <1>2, <1>3, <1>4 DEF BackedInv, ManifestInv

\* and in every state.
LEMMA BackedInvariant ==
    ASSUME Undisturbed PROVE Spec => []BackedInv
  <1>1. Init => BackedInv
    BY BackedInit
  <1>2. BackedInv /\ [Next]_vars => BackedInv'
    BY BackedStep
  <1> QED
    BY <1>1, <1>2, PTL DEF Spec

\* An entry of a manifest names objects that are in the store, whoever crashes
\* between add_object and ensure_output and whatever is interleaved
\* (EntriesAreBacked), if the cache is not cleared and no rename fails.
THEOREM EntriesKeepObjects ==
    ASSUME Undisturbed PROVE Spec => []EntriesAreBacked
  <1>1. BackedInv => EntriesAreBacked
    BY DEF BackedInv
  <1>2. Spec => []BackedInv
    BY BackedInvariant
  <1> QED
    BY <1>1, <1>2, PTL

-----------------------------------------------------------------------------
(* What a post-invoke process has done.                                    *)

WorkPcs == {"hashOut", "hashDep", "addLock", "addCopy", "addReplace", "pubRead",
            "pubWrite"}

HitUnits(p) == {h.unit : h \in hits[p]}

\* The units that a post-invoke process has not published yet
Outstanding(p) == todo[p] \cup IF pc[p] \in WorkPcs THEN {unit[p]} ELSE {}

\* The other units it was given are in the cache with the hash of the headers
\* that it has memoised.
Filed(p) ==
    /\ pc[p] \in {"idle"} \cup AllPcs => job[p] = {}
    /\ pc[p] = "postStats" => todo[p] = {}
    /\ pc[p] \in PostPcs =>
           \A u \in (job[p] \ HitUnits(p)) \ Outstanding(p) : seen[p] \in Deps(manifest[u])

FiledInv == BackedInv /\ \A p \in Proc : Filed(p)

Full == cacheEntries >= MaxSize

\* Nobody but --clear removes an entry.
LEMMA DepsGrow ==
    ASSUME BackedInv, NEW p \in Proc, Moves(p)
    PROVE  \A u \in Unit : Deps(manifest[u]) \subseteq Deps(manifest'[u])
  <1>1. CASE PubWrite(p)
    BY <1>1, PubWriteManifest DEF BackedInv, ManifestInv
  <1>2. pc[p] # "wipeMan"
    BY DEF BackedInv, NoWipe, WipePcs
  <1>3. CASE manifest' = manifest
    BY <1>3
  <1> QED BY <1>1, <1>2, <1>3, ManifestKept DEF BackedInv, ManifestInv, TypeInv

\* An entry that is published is for the headers the process has hashed.
LEMMA PublishedHasDep ==
    ASSUME NEW m \in Seq(Entry), NEW entry \in Entry
    PROVE  /\ entry.dep \in Deps(published(m, entry))
           /\ identical(m, entry) => entry.dep \in Deps(m)
  <1>1. CASE entry.dep \notin Deps(m)
    <2>1. /\ DOMAIN addEntry(m, entry) = 1..(Len(m) + 1)
          /\ addEntry(m, entry)[1] = entry
      BY AddEntryProperties
    <2>2. 1 \in 1..(Len(m) + 1)
      OBVIOUS
    <2> QED BY <1>1, <2>1, <2>2 DEF published, identical, Deps
  <1>2. CASE entry.dep \in Deps(m)
    <2>1. FirstFor(m, entry.dep) \in DOMAIN m /\ m[FirstFor(m, entry.dep)].dep = entry.dep
      BY <1>2, FirstForExists
    <2>2. m[FirstFor(m, entry.dep)] \in Entry
      BY <2>1, ElementOfSeq
    <2>3. /\ DOMAIN published(m, entry) = DOMAIN m
          /\ published(m, entry)[FirstFor(m, entry.dep)].dep = entry.dep
      BY <1>2, <2>1, <2>2 DEF published, replaceOutput, Entry
    <2> QED BY <1>2, <2>1, <2>3 DEF Deps
  <1> QED BY <1>1, <1>2

\* A step after which the process still has outstanding what it had
LEMMA FiledKept ==
    ASSUME FiledInv, NEW p \in Proc, Moves(p), pc[p] \in PostPcs,
           pc'[p] \notin {"idle"} \cup AllPcs,
           pc'[p] = "postStats" => todo'[p] = {},
           job'[p] = job[p], hits'[p] = hits[p], seen'[p] = seen[p],
           Outstanding(p) \subseteq Outstanding(p)'
    PROVE  Filed(p)'
  <1>1. \A u \in Unit : Deps(manifest[u]) \subseteq Deps(manifest'[u])
    BY DepsGrow DEF FiledInv
  <1>2. HitUnits(p)' = HitUnits(p)
    BY DEF HitUnits
  <1>3. job[p] \subseteq Unit
    BY DEF FiledInv, BackedInv, ManifestInv, TypeInv, TypeOK, ControlType
  <1>4. \A u \in (job[p] \ HitUnits(p)) \ Outstanding(p) : seen[p] \in Deps(manifest[u])
    BY DEF FiledInv, Filed
  <1>5. \A u \in (job[p] \ HitUnits(p)) \ Outstanding(p)' : seen[p] \in Deps(manifest'[u])
    BY <1>1, <1>3, <1>4
  <1> QED BY <1>2, <1>5 DEF Filed

\* The actions after which a process is at work, done or idle
LEMMA Filing ==
    ASSUME TypeOK, NEW p \in Proc, Moves(p),
           pc'[p] \in {"idle"} \cup AllPcs \cup PostPcs
    PROVE  \/ Command(p) \/ PostInvoke(p) \/ PostInit(p) \/ Collect(p) \/ HashOut(p)
           \/ HashDep(p) \/ AddDuplicate(p) \/ AddLock(p) \/ AddCopy(p) \/ AddReplace(p)
           \/ AddFails(p) \/ PubRead(p) \/ PubWrite(p) \/ PostFlush(p)
           \/ LockManifests(p) \/ LockObjects(p) \/ Clean(p) \/ pc[p] = "wiped"
           \/ job'[p] = {} /\ pc'[p] = "idle"
  <1> USE DEF TypeOK, ControlType, Goto, Idle, PrePcs, PostPcs, AllPcs
  <1>1. CASE Build(p) \/ PreRead(p) \/ PreMatch(p) \/ Get(p) \/ GetMiss(p)
    BY <1>1 DEF Build, PreRead, PreMatch, Get, GetMiss
  <1>2. CASE GetLock(p) \/ GetCopy(p) \/ Report(p) \/ Compile(p) \/ CompileFails(p)
    BY <1>2 DEF GetLock, GetCopy, Report, Compile, CompileFails
  <1>3. CASE PostStats(p)
    BY <1>3 DEF PostStats
  <1>4. CASE LockStatistics(p) \/ WipeManifests(p) \/ WipeObjects(p)
    BY <1>4 DEF LockStatistics, WipeManifests, WipeObjects
  <1>5. CASE Cleared(p)
    BY <1>5 DEF Cleared
  <1>6. CASE GetVanished(p) \/ FileGone(p) \/ Crash(p)
    BY <1>6 DEF GetVanished, FileGone, Crash, Dies
  <1> QED
    BY <1>1, <1>2, <1>3, <1>4, <1>5, <1>6 DEF Moves, Step

\* What its own steps make of Filed
LEMMA FiledOwn ==
    ASSUME Undisturbed, FiledInv, ~Full, NEW p \in Proc, Moves(p)
    PROVE  Filed(p)'
  <1>0. TypeOK /\ TypeInv /\ NoWipe /\ Adding(p) /\ Publishing /\ UniqueDeps /\ Filed(p)
    BY DEF FiledInv, BackedInv, ManifestInv, TypeInv
  <1>1. ~AddFails(p) /\ pc[p] # "wiped"
    BY <1>0, RenameSucceeds DEF NoWipe, WipePcs
  <1>2. \A u \in Unit : Deps(manifest[u]) \subseteq Deps(manifest'[u])
    BY DepsGrow DEF FiledInv
  <1> USE DEF Goto, PostPcs, AllPcs
  <1>3. CASE Command(p)
    BY <1>0, <1>3 DEF Command, Filed, TypeOK, ControlType, WipePcs
  <1>4. CASE PostInvoke(p)
    <2> DEFINE compiled == job[p] \ {h.unit : h \in hits[p]}
    <2>1. CASE compiled = {}
      BY <1>0, <1>4, <2>1 DEF PostInvoke, Idle, Filed, TypeOK, ControlType
    <2>2. CASE compiled # {}
      <3>1. /\ pc'[p] = "postInit" /\ todo'[p] = compiled
            /\ job' = job /\ hits' = hits
        BY <1>0, <1>4, <2>2 DEF PostInvoke, TypeOK, ControlType
      <3>2. (job[p] \ HitUnits(p)) \ Outstanding(p)' = {}
        BY <3>1 DEF HitUnits, Outstanding
      <3>3. HitUnits(p)' = HitUnits(p)
        BY <3>1 DEF HitUnits
      <3> QED BY <3>1, <3>2, <3>3 DEF Filed
    <2> QED BY <2>1, <2>2
  <1>5. CASE PostInit(p)
    <2>1. pc[p] = "postInit" /\ pc'[p] = "post" /\ todo' = todo
      BY <1>0, <1>5 DEF PostInit, Full, TypeOK, ControlType
    <2> QED
      BY <1>5, <2>1, FiledKept DEF PostInit, Outstanding, WorkPcs
  <1>6. CASE Collect(p)
    <2>1. /\ pc[p] = "post" /\ pc'[p] = "hashOut"
          /\ Outstanding(p)' = Outstanding(p)
      BY <1>0, <1>6 DEF Collect, Outstanding, WorkPcs, TypeOK, ControlType
    <2> QED
      BY <1>6, <2>1, FiledKept DEF Collect
  <1>7. CASE HashOut(p)
    <2>1. /\ pc[p] = "hashOut" /\ pc'[p] \in {"hashOut", "hashDep"}
          /\ Outstanding(p)' = Outstanding(p)
      BY <1>0, <1>7 DEF HashOut, Outstanding, WorkPcs, TypeOK, ControlType
    <2> QED
      BY <1>7, <2>1, FiledKept DEF HashOut
  <1>8. CASE HashDep(p)
    <2>1. /\ pc[p] = "hashDep" /\ pc'[p] = "addLock"
          /\ Outstanding(p)' = Outstanding(p)
          /\ job' = job /\ hits' = hits /\ manifest' = manifest
          /\ seen'[p] = HeaderHash(p)
      BY <1>0, <1>8 DEF HashDep, Outstanding, WorkPcs, TypeOK, ControlType, DataType,
         shared
    <2>2. CASE seen[p] # None
      BY <1>8, <2>1, <2>2, FiledKept DEF HeaderHash
    <2>3. CASE seen[p] = None
      <3>1. \A u \in Unit : None \notin Deps(manifest[u])
        <4> SUFFICES ASSUME NEW u \in Unit, NEW i \in DOMAIN manifest[u]
                     PROVE  manifest[u][i].dep # None
          BY DEF Deps
        <4>1. manifest[u][i] \in Entry
          BY <1>0, ElementOfSeq DEF TypeOK, SharedType
        <4> QED BY <4>1, ConstantsAssumption DEF Entry
      <3>2. (job[p] \ HitUnits(p)) \ Outstanding(p) = {}
        BY <1>0, <2>1, <2>3, <3>1 DEF Filed, TypeOK, ControlType
      <3>3. HitUnits(p)' = HitUnits(p)
        BY <2>1 DEF HitUnits
      <3> QED BY <2>1, <3>2, <3>3 DEF Filed
    <2> QED BY <2>2, <2>3
  <1>9. CASE AddDuplicate(p) \/ AddLock(p) \/ AddCopy(p) \/ AddReplace(p) \/ PubRead(p)
    <2>1. /\ pc[p] \in {"addLock", "addCopy", "addReplace", "pubRead"}
          /\ pc'[p] \in {"addLock", "addCopy", "addReplace", "pubRead", "pubWrite"}
      BY <1>0, <1>9 DEF AddDuplicate, AddLock, AddCopy, AddReplace, PubRead, AfterAdd,
         TypeOK, ControlType
    <2>2. UNCHANGED <<job, hits, seen, todo, unit>>
      BY <1>9 DEF AddDuplicate, AddLock, AddCopy, AddReplace, PubRead
    <2>3. Outstanding(p)' = Outstanding(p)
      BY <2>1, <2>2 DEF Outstanding, WorkPcs
    <2> QED BY <2>1, <2>2, <2>3, FiledKept
  <1>10. CASE PubWrite(p)
    <2> DEFINE entry == [dep |-> seen[p], out |-> out[p]]
    <2>1. entry \in Entry /\ man[p] \in Seq(Entry) /\ unit[p] \in Unit /\ job[p] \subseteq Unit
      BY <1>0, <1>10 DEF TypeInv, TypeOK, PubWrite, DataType, ControlType, Hashed,
         HashedPcs, Entry
    <2>2. pc[p] = "pubWrite" /\ pc'[p] = "post" /\ UNCHANGED <<job, hits, seen, todo, unit>>
      BY <1>0, <1>10 DEF PubWrite, TypeOK, ControlType
    <2>3. man[p] = manifest[unit[p]]
      BY <1>0, <2>2 DEF Adding
    <2>4. seen[p] = entry.dep
      OBVIOUS
    <2>5. \/ identical(man[p], entry) /\ manifest' = manifest
          \/ manifest' = [manifest EXCEPT ![unit[p]] = published(man[p], entry)]
      BY <1>10 DEF PubWrite
    <2> HIDE DEF entry
    <2>6. seen[p] \in Deps(manifest'[unit[p]])
      <3>1. CASE identical(man[p], entry) /\ manifest' = manifest
        BY <2>1, <2>3, <2>4, <3>1, PublishedHasDep
      <3>2. CASE manifest' = [manifest EXCEPT ![unit[p]] = published(man[p], entry)]
        <4>1. manifest'[unit[p]] = published(man[p], entry)
          BY <1>0, <2>1, <3>2 DEF TypeOK, SharedType
        <4> QED BY <2>1, <2>4, <4>1, PublishedHasDep
      <3> QED BY <2>5, <3>1, <3>2
    <2>7. Outstanding(p) = Outstanding(p)' \cup {unit[p]} /\ HitUnits(p)' = HitUnits(p)
      BY <2>2 DEF Outstanding, HitUnits, WorkPcs
    <2>8. \A u \in (job[p] \ HitUnits(p)) \ Outstanding(p) : seen[p] \in Deps(manifest'[u])
      BY <1>0, <1>2, <2>1, <2>2 DEF Filed
    <2> QED BY <2>2, <2>6, <2>7, <2>8 DEF Filed
  <1>11. CASE PostFlush(p)
    <2>1. /\ pc[p] = "post" /\ pc'[p] = "postStats" /\ todo' = todo /\ todo[p] = {}
          /\ Outstanding(p)' = Outstanding(p)
      BY <1>0, <1>11 DEF PostFlush, Outstanding, WorkPcs, TypeOK, ControlType
    <2> QED
      BY <1>11, <2>1, FiledKept DEF PostFlush
  <1>12. CASE LockManifests(p) \/ LockObjects(p) \/ Clean(p)
    <2>1. job' = job
      BY <1>12 DEF LockManifests, LockObjects, Clean
    <2>2. pc[p] \in AllPcs /\ job[p] = {}
      BY <1>0, <1>1, <1>12 DEF LockManifests, LockObjects, Clean, Filed, NoWipe, WipePcs
    <2>3. pc'[p] # "postStats"
      BY <1>0, <1>12 DEF LockManifests, LockObjects, Clean, TypeOK, ControlType
    <2> QED BY <2>1, <2>2, <2>3 DEF Filed
  <1>13. CASE job'[p] = {} /\ pc'[p] = "idle"
    BY <1>13 DEF Filed
  <1>14. CASE pc'[p] \notin {"idle"} \cup AllPcs \cup PostPcs
    BY <1>14 DEF Filed
  <1> QED
    BY <1>0, <1>1, <1>3, <1>4, <1>5, <1>6, <1>7, <1>8, <1>9, <1>10, <1>11, <1>12,
       <1>13, <1>14, Filing

\* The steps of the others leave Filed alone.
LEMMA FiledOther ==
    ASSUME FiledInv, NEW p \in Proc, Moves(p), NEW q \in Proc \ {p}
    PROVE  Filed(q)'
  <1>0. TypeOK /\ Filed(q)
    BY DEF FiledInv, BackedInv, ManifestInv, TypeInv
  <1>1. /\ pc'[q] = pc[q] /\ job'[q] = job[q] /\ seen'[q] = seen[q]
        /\ hits'[q] = hits[q] /\ todo'[q] = todo[q] /\ unit'[q] = unit[q]
    BY <1>0, OthersUnchanged
  <1>2. Outstanding(q)' = Outstanding(q) /\ HitUnits(q)' = HitUnits(q)
    BY <1>1 DEF Outstanding, HitUnits
  <1>3. \A u \in Unit : Deps(manifest[u]) \subseteq Deps(manifest'[u])
    BY DepsGrow DEF FiledInv
  <1>4. job[q] \subseteq Unit
    BY <1>0 DEF TypeOK, ControlType
  <1>5. pc[q] \in PostPcs =>
            \A u \in (job[q] \ HitUnits(q)) \ Outstanding(q) : seen[q] \in Deps(manifest'[u])
    BY <1>0, <1>3, <1>4 DEF Filed
  <1> QED BY <1>0, <1>1, <1>2, <1>5 DEF Filed

\* Every step of a cache that is not full keeps the invariant.
LEMMA FiledStep ==
    ASSUME Undisturbed PROVE FiledInv /\ ~Full /\ [Next]_vars => FiledInv'
  <1> SUFFICES ASSUME FiledInv, ~Full, [Next]_vars PROVE FiledInv'
    OBVIOUS
  <1>0. BackedInv'
    BY BackedStep DEF FiledInv
  <1>1. ASSUME NEW p \in Proc, Moves(p) PROVE \A q \in Proc : Filed(q)'
    BY <1>1, FiledOwn, FiledOther
  <1>2. CASE EditHeader \/ UNCHANGED vars
    <2>1. UNCHANGED <<manifest, pc, job, hits, seen, todo, unit>>
      BY <1>2 DEF EditHeader, vars, shared, local
    <2>2. \A q \in Proc : Outstanding(q)' = Outstanding(q) /\ HitUnits(q)' = HitUnits(q)
      BY <2>1 DEF Outstanding, HitUnits
    <2> SUFFICES ASSUME NEW q \in Proc PROVE Filed(q)'
      BY <1>0 DEF FiledInv
    <2>3. Filed(q)
      BY DEF FiledInv
    <2> QED BY <2>1, <2>2, <2>3 DEF Filed
  <1> QED
    BY <1>0, <1>1, <1>2 DEF Next, Moves, FiledInv

\* When a post-invoke process is over, every unit it was given is in the cache
\* with its objects (BuildsAreCached), also the units whose objects an earlier
\* process had added before it crashed, if the cache is never full (a full
\* cache is cleaned instead), is not cleared, and no rename fails.
THEOREM BuildsGetCached ==
    ASSUME Undisturbed PROVE Spec /\ []~Full => []BuildsAreCached
  <1>1. Init => FiledInv
    <2> SUFFICES ASSUME Init PROVE \A p \in Proc : BackedInv /\ Filed(p)
      BY ConstantsAssumption DEF FiledInv
    <2>1. BackedInv
      BY BackedInit
    <2> QED BY <2>1 DEF Init, Filed, PostPcs
  <1>2. FiledInv /\ ~Full /\ [Next]_vars => FiledInv'
    BY FiledStep
  <1>3. FiledInv => BuildsAreCached
    <2> SUFFICES ASSUME FiledInv, NEW p \in Proc, pc[p] = "postStats",
                        NEW u \in job[p] \ HitUnits(p)
                 PROVE  \E i \in DOMAIN manifest[u] :
                            manifest[u][i].dep = seen[p] /\ Backed(manifest[u][i])
      BY DEF BuildsAreCached, HitUnits
    <2>1. u \in Unit
      BY DEF FiledInv, BackedInv, ManifestInv, TypeInv, TypeOK, ControlType
    <2>2. todo[p] = {}
      BY DEF FiledInv, Filed
    <2> QED BY <2>1, <2>2 DEF FiledInv, Filed, PostPcs, Outstanding, WorkPcs, Deps,
            BackedInv, EntriesAreBacked
  <1> QED
    BY <1>1, <1>2, <1>3, PTL DEF Spec

-----------------------------------------------------------------------------
(* Who owns a unit.  When a source tree is built by one build at a time,   *)
(* and a post-invoke process is waited for, the units of two builds are    *)
(* disjoint, and a process touches the files of its own units only.        *)

Exclusive == ~Async /\ ~EditAnytime

UnitPcs == {"preMatch", "getLock", "getCopy"} \cup WorkPcs

Disjoint == \A p, q \in Proc : p # q => job[p] \cap job[q] = {}

\* What a process works on belongs to its build.
Owns(p) ==
    /\ todo[p] \subseteq job[p]
    /\ pc[p] \in UnitPcs => unit[p] \in job[p]
    /\ pc[p] \in {"idle"} \cup WipePcs => job[p] = {}
    /\ \A h \in hits[p] : h.unit \in job[p]
    /\ \A x \in pending[p] : x[1] \in job[p]

OwnInv == TypeInv /\ Disjoint /\ \A p \in Proc : Owns(p)

\* A process gets a build when it starts one and loses it when it is idle.
LEMMA JobStep ==
    ASSUME TypeOK, NEW p \in Proc, Moves(p)
    PROVE  \/ Build(p)
           \/ job' = job
           \/ job'[p] = {}
  <1> USE DEF TypeOK, ControlType, Idle
  <1>1. ASSUME \/ CompileFails(p) \/ PostInvoke(p) \/ PostStats(p) \/ GetVanished(p)
               \/ FileGone(p) \/ Crash(p)
        PROVE  job' = job \/ job'[p] = {}
    BY <1>1 DEF CompileFails, PostInvoke, PostStats, GetVanished, FileGone, Crash, Dies
  <1>2. ASSUME \/ Command(p) \/ PreRead(p) \/ PreMatch(p)
               \/ Get(p) \/ GetMiss(p) \/ GetLock(p) \/ GetCopy(p) \/ Report(p)
               \/ Compile(p) \/ PostInit(p)
               \/ Collect(p) \/ HashOut(p) \/ HashDep(p) \/ AddDuplicate(p)
               \/ AddLock(p) \/ AddCopy(p) \/ AddReplace(p) \/ AddFails(p)
               \/ PubRead(p) \/ PubWrite(p) \/ PostFlush(p)
               \/ LockManifests(p) \/ LockObjects(p) \/ Clean(p)
               \/ LockStatistics(p) \/ WipeManifests(p) \/ WipeObjects(p) \/ Cleared(p)
        PROVE  job' = job
    BY <1>2 DEF Command, PreRead, PreMatch, Get, GetMiss, GetLock, GetCopy, Report,
       Compile, PostInit, Collect, HashOut, HashDep, AddDuplicate, AddLock, AddCopy,
       AddReplace, AddFails, PubRead, PubWrite, PostFlush, LockManifests, LockObjects,
       Clean, LockStatistics, WipeManifests, WipeObjects, Cleared
  <1> QED BY <1>1, <1>2 DEF Moves, Step

\* Two builds never have a unit in common.
LEMMA DisjointStep ==
    ASSUME ~Async, OwnInv, NEW p \in Proc, Moves(p)
    PROVE  Disjoint'
  <1>0. TypeOK /\ Disjoint
    BY DEF OwnInv, TypeInv
  <1>1. ASSUME NEW q \in Proc \ {p} PROVE job'[q] = job[q] /\ job'[p] \cap job[q] = {}
    <2>1. job'[q] = job[q]
      BY <1>0, OthersUnchanged
    <2>2. CASE Build(p)
      <3>1. PICK w \in (SUBSET Unit) \ {{}} :
                /\ TreeFree(p, w)
                /\ job' = [job EXCEPT ![p] = w]
        BY <2>2 DEF Build
      <3>2. job[q] \cap w = {}
        BY <3>1 DEF TreeFree
      <3> QED BY <1>0, <2>1, <3>1, <3>2 DEF TypeOK, ControlType
    <2>3. CASE job' = job \/ job'[p] = {}
      BY <1>0, <2>1, <2>3 DEF Disjoint
    <2> QED BY <1>0, <2>1, <2>2, <2>3, JobStep
  <1> SUFFICES ASSUME NEW q \in Proc, NEW r \in Proc, q # r
               PROVE  job'[q] \cap job'[r] = {}
    BY DEF Disjoint
  <1>2. CASE q = p
    BY <1>1, <1>2
  <1>3. CASE r = p
    BY <1>1, <1>3
  <1>4. CASE q # p /\ r # p
    BY <1>0, <1>1, <1>4 DEF Disjoint
  <1> QED BY <1>2, <1>3, <1>4

\* A process that has ended owns nothing.
LEMMA EndedOwns ==
    ASSUME TypeOK, NEW p \in Proc, Idle(p), Fresh(p)
    PROVE  /\ pc'[p] = "idle" /\ job'[p] = {} /\ todo'[p] = {} /\ hits'[p] = {}
           /\ seen'[p] = None /\ pending'[p] = {}
  BY DEF Idle, Fresh, Goto, TypeOK, ControlType, DataType

\* A pre-invoke process that dies leaves its whole project to the compiler.
LEMMA DeadOwns ==
    ASSUME TypeOK, NEW p \in Proc, Dies(p)
    PROVE  \/ Idle(p) /\ Fresh(p)
           \/ /\ pc[p] \in PrePcs /\ pc'[p] = "compile" /\ job' = job
              /\ todo'[p] = job[p] /\ hits'[p] = {}
              /\ seen'[p] = None /\ pending'[p] = {}
  BY DEF Dies, Fresh, Goto, TypeOK, ControlType, DataType

\* Its own steps keep what a process owns.
LEMMA OwnsOwn ==
    ASSUME TypeOK, NEW p \in Proc, Owns(p), Moves(p)
    PROVE  Owns(p)'
  <1> USE DEF TypeOK, ControlType, DataType, Owns, UnitPcs, WorkPcs, WipePcs, Goto
  <1>1. CASE Build(p)
    BY <1>1 DEF Build
  <1>2. CASE Command(p)
    BY <1>2 DEF Command
  <1>3. CASE PreRead(p)
    BY <1>3 DEF PreRead
  <1>4. CASE PreMatch(p)
    <2>1. /\ hits'[p] = Found(p) /\ UNCHANGED <<job, pending, unit>>
          /\ \/ pc'[p] = "get" /\ todo'[p] = {h.unit : h \in Found(p)}
             \/ pc'[p] = "preRead" /\ todo' = todo
          /\ unit[p] \in job[p]
      BY <1>4 DEF PreMatch, Found
    <2>2. \A h \in Found(p) : h.unit = unit[p] \/ h \in hits[p]
      BY DEF Found
    <2>3. \A h \in Found(p) : h.unit \in job[p]
      BY <2>1, <2>2
    <2> QED BY <2>1, <2>3
  <1>5. CASE Get(p) \/ GetMiss(p) \/ GetLock(p)
    BY <1>5 DEF Get, GetMiss, GetLock
  <1>6. CASE GetCopy(p)
    <2>1. /\ pending'[p] = pending[p] \cup {<<unit[p], slot[p], key(p)>>}
          /\ pc'[p] \in {"getLock", "get"}
          /\ UNCHANGED <<job, todo, hits, unit>> /\ unit[p] \in job[p]
      BY <1>6 DEF GetCopy
    <2> QED BY <2>1
  <1>7. CASE GetVanished(p) \/ FileGone(p) \/ Crash(p)
    <2>1. Dies(p)
      BY <1>7 DEF GetVanished, FileGone, Crash
    <2> QED BY <2>1, DeadOwns, EndedOwns
  <1>8. CASE Report(p)
    BY <1>8 DEF Report, Fresh
  <1>9. CASE Compile(p)
    BY <1>9 DEF Compile
  <1>10. CASE CompileFails(p) \/ PostStats(p)
    <2>1. Idle(p) /\ Fresh(p)
      BY <1>10 DEF CompileFails, PostStats
    <2> QED BY <2>1, EndedOwns
  <1>11. CASE PostInvoke(p)
    <2>1. CASE Idle(p) /\ Fresh(p)
      BY <2>1, EndedOwns
    <2>2. CASE ~Idle(p)
      BY <1>11, <2>2 DEF PostInvoke, Fresh
    <2> QED BY <1>11, <2>1, <2>2 DEF PostInvoke
  <1>12. CASE PostInit(p) \/ Collect(p) \/ HashOut(p) \/ HashDep(p) \/ AddCopy(p)
    BY <1>12 DEF PostInit, Collect, HashOut, HashDep, AddCopy
  <1>13. CASE AddDuplicate(p) \/ AddLock(p)
    <2>1. /\ pending'[p] = pending[p] \cup {<<unit[p], slot[p], key(p)>>}
          /\ pc'[p] \in {"addLock", "addCopy", "pubRead", "post"}
          /\ UNCHANGED <<job, todo, hits, unit>> /\ unit[p] \in job[p]
      BY <1>13 DEF AddDuplicate, AddLock, WillFlush, AfterAdd
    <2> QED BY <2>1
  <1>14. CASE AddReplace(p) \/ AddFails(p) \/ PubRead(p) \/ PubWrite(p) \/ PostFlush(p)
    BY <1>14 DEF AddReplace, AddFails, PubRead, PubWrite, PostFlush, AfterAdd
  <1>15. CASE LockManifests(p) \/ LockObjects(p) \/ LockStatistics(p)
    BY <1>15 DEF LockManifests, LockObjects, LockStatistics
  <1>16. CASE Clean(p) \/ WipeManifests(p) \/ WipeObjects(p) \/ Cleared(p)
    BY <1>16 DEF Clean, WipeManifests, WipeObjects, Cleared
  <1> QED
    BY <1>1, <1>2, <1>3, <1>4, <1>5, <1>6, <1>7, <1>8, <1>9, <1>10, <1>11, <1>12,
       <1>13, <1>14, <1>15, <1>16 DEF Moves, Step

\* A step touches the files, and the hashes beside them, of its own units only.
LEMMA FilesKept ==
    ASSUME TypeOK, NEW p \in Proc, Owns(p), Moves(p)
    PROVE  /\ hdr' = hdr
           /\ \A u \in Unit \ job[p] : file'[u] = file[u] /\ meta'[u] = meta[u]
  <1> USE DEF TypeOK, SharedType, ControlType, DataType, Owns, UnitPcs, WorkPcs
  <1>1. ASSUME \/ Build(p) \/ Command(p) \/ PreRead(p) \/ PreMatch(p)
               \/ Get(p) \/ GetMiss(p) \/ GetLock(p) \/ FileGone(p)
               \/ PostInvoke(p) \/ PostInit(p)
               \/ Collect(p) \/ HashOut(p) \/ HashDep(p) \/ AddDuplicate(p)
               \/ AddLock(p) \/ AddCopy(p) \/ AddReplace(p) \/ AddFails(p)
               \/ PubRead(p) \/ PubWrite(p) \/ PostStats(p)
               \/ LockManifests(p) \/ LockObjects(p) \/ Clean(p)
               \/ LockStatistics(p) \/ WipeManifests(p) \/ WipeObjects(p) \/ Cleared(p)
        PROVE  UNCHANGED <<hdr, file, meta>>
    BY <1>1 DEF shared, Build, Command, PreRead, PreMatch, Get, GetMiss, GetLock,
       FileGone, PostInvoke, PostInit, Collect, HashOut, HashDep, AddDuplicate,
       AddLock, AddCopy, AddReplace, AddFails, PubRead, PubWrite, PostStats,
       LockManifests, LockObjects, Clean, LockStatistics, WipeManifests, WipeObjects,
       Cleared
  <1>2. CASE GetCopy(p)
    BY <1>2 DEF GetCopy
  <1>3. CASE GetVanished(p) \/ Crash(p)
    BY <1>3 DEF GetVanished, Crash, TargetDeleted
  <1>4. CASE Compile(p)
    BY <1>4 DEF Compile
  <1>5. CASE CompileFails(p)
    BY <1>5 DEF CompileFails
  <1>6. CASE Report(p) \/ PostFlush(p)
    <2>1. meta' = Flushed(p) /\ file' = file /\ hdr' = hdr
      BY <1>6 DEF Report, PostFlush
    <2>2. ASSUME NEW u \in Unit \ job[p] PROVE Flushed(p)[u] = meta[u]
      <3>1. \A i \in Slots, k \in Key : <<u, i, k>> \notin pending[p]
        BY <2>2
      <3>2. Flushed(p)[u] = [i \in Slots |->
                IF \E k \in Key : <<u, i, k>> \in pending[p]
                THEN CHOOSE k \in Key : <<u, i, k>> \in pending[p]
                ELSE meta[u][i]]
        BY DEF Flushed
      <3>3. Flushed(p)[u] = [i \in Slots |-> meta[u][i]]
        BY <3>1, <3>2
      <3> QED BY <3>3
    <2> QED BY <2>1, <2>2
  <1> QED
    BY <1>1, <1>2, <1>3, <1>4, <1>5, <1>6 DEF Moves, Step

\* The steps of the others leave a process what it owns.
LEMMA OwnsOther ==
    ASSUME TypeOK, NEW p \in Proc, Moves(p), NEW q \in Proc \ {p}, Owns(q)
    PROVE  Owns(q)'
  <1>1. /\ pc'[q] = pc[q] /\ job'[q] = job[q] /\ todo'[q] = todo[q]
        /\ unit'[q] = unit[q] /\ hits'[q] = hits[q] /\ pending'[q] = pending[q]
    BY OthersUnchanged
  <1> QED BY <1>1 DEF Owns

\* Every step keeps who owns what.
LEMMA OwnStep ==
    ASSUME ~Async PROVE OwnInv /\ [Next]_vars => OwnInv'
  <1> SUFFICES ASSUME OwnInv, [Next]_vars PROVE OwnInv'
    OBVIOUS
  <1>0. TypeOK /\ TypeInv'
    BY TypeStep DEF OwnInv, TypeInv
  <1>1. ASSUME NEW p \in Proc, Moves(p) PROVE Disjoint' /\ \A q \in Proc : Owns(q)'
    BY <1>0, <1>1, DisjointStep, OwnsOwn, OwnsOther DEF OwnInv
  <1>2. CASE EditHeader \/ UNCHANGED vars
    <2>1. UNCHANGED <<pc, job, todo, unit, hits, pending>>
      BY <1>2 DEF EditHeader, vars, local
    <2> SUFFICES ASSUME NEW q \in Proc PROVE Disjoint' /\ Owns(q)'
      BY <1>0, ConstantsAssumption DEF OwnInv
    <2>2. Disjoint /\ Owns(q)
      BY DEF OwnInv
    <2> QED BY <2>1, <2>2 DEF Disjoint, Owns
  <1> QED BY <1>0, <1>1, <1>2 DEF Next, Moves, OwnInv

-----------------------------------------------------------------------------
(* What is true of the files, of the store and of what processes have read *)
(* while the headers stay as they are during a build.                      *)

UnseenPcs == {"idle", "compile", "postInit"} \cup AllPcs \cup WipePcs

\* A process that has hashed the headers has hashed them as they are.
SeenRight(p) ==
    /\ seen[p] \in {None, hdr}
    /\ pc[p] \in UnseenPcs => seen[p] = None

\* An entry names the files of one compilation of u.
SoundOf(u, entry) ==
    \E s \in Stamp : \A j \in Slots :
        entry.out[j] = <<[unit |-> u, dep |-> entry.dep, stamp |-> s], j>>

\* The files of u are those of one compilation against the headers as they are.
Whole(u) ==
    \E s \in Stamp : \A i \in Slots :
        file[u][i] = <<[unit |-> u, dep |-> hdr, stamp |-> s], i>>

ReadSound(p) ==
    /\ pc[p] \in {"preMatch", "pubWrite"} => \A i \in DOMAIN man[p] : SoundOf(unit[p], man[p][i])
    /\ \A h \in hits[p] : h.dep = hdr /\ SoundOf(h.unit, h)

\* The hash that a process will write beside a file is that of the file.
FlushSound(p) ==
    /\ pc[p] \in {"preRead", "preMatch", "compile"} => pending[p] = {}
    /\ \A x \in pending[p] :
           /\ file[x[1]][x[2]] = x[3]
           /\ pc[p] \in PrePcs => x[1] \notin todo[p]
           /\ pc[p] \in {"getLock", "getCopy"} /\ x[1] = unit[p] => x[2] < slot[p]

\* Retrieval has put the files of every hit in place but those it has yet to
\* retrieve.
Retrieved(p) ==
    /\ pc[p] \in {"getLock", "getCopy"} =>
           /\ \E h \in hits[p] : h.unit = unit[p] /\ h.out = out[p]
           /\ unit[p] \notin todo[p]
           /\ \A i \in Slots : i < slot[p] => file[unit[p]][i] = out[p][i]
    /\ pc[p] \in {"get", "getLock", "getCopy"} =>
           \A h \in hits[p] : \/ h.unit \in todo[p]
                              \/ pc[p] # "get" /\ h.unit = unit[p]
                              \/ Whole(h.unit)

\* The build has made every unit of the project but those left to compile, and
\* no hit is among these.
Built(p) ==
    /\ pc[p] = "compile" => /\ \A u \in job[p] \ todo[p] : Whole(u)
                            /\ \A h \in hits[p] : h.unit \notin todo[p]
    /\ pc[p] \in PostPcs \cup AllPcs => \A u \in job[p] : Whole(u)

\* The hashes that post-invoke works with are those of the files.
HashOf(p) ==
    /\ pc[p] = "hashOut" => \A i \in Slots : i < slot[p] => out[p][i] = file[unit[p]][i]
    /\ pc[p] \in WorkPcs \ {"hashOut"} => \A i \in Slots : out[p][i] = file[unit[p]][i]
    /\ pc[p] = "addReplace" => tmp[p] \in {key(p), None, Husk}

Sound(p) ==
    SeenRight(p) /\ ReadSound(p) /\ FlushSound(p) /\ Retrieved(p) /\ Built(p) /\ HashOf(p)

SoundInv ==
    /\ OwnInv
    /\ StoreIsSound /\ MetaIsSound /\ EntriesAreSound
    /\ \A p \in Proc : Sound(p)

\* The steps of the others leave a process's files alone.
LEMMA SoundOther ==
    ASSUME SoundInv, NEW p \in Proc, Moves(p), NEW q \in Proc \ {p}
    PROVE  Sound(q)'
  <1>0. TypeOK /\ Owns(p) /\ Owns(q) /\ Sound(q)
    BY DEF SoundInv, OwnInv, TypeInv
  <1>1. /\ pc'[q] = pc[q] /\ unit'[q] = unit[q] /\ man'[q] = man[q]
        /\ job'[q] = job[q] /\ todo'[q] = todo[q] /\ hits'[q] = hits[q]
        /\ seen'[q] = seen[q] /\ out'[q] = out[q] /\ slot'[q] = slot[q]
        /\ tmp'[q] \in {tmp[q], None, Husk} /\ pending'[q] = pending[q]
    BY <1>0, OthersUnchanged
  <1>2. hdr' = hdr /\ \A u \in job[q] : file'[u] = file[u]
    <2>1. job[q] \subseteq Unit \ job[p]
      BY <1>0 DEF SoundInv, OwnInv, Disjoint, TypeOK, ControlType
    <2> QED BY <1>0, <2>1, FilesKept
  <1>3. \A u \in job[q] : Whole(u) => Whole(u)'
    BY <1>2 DEF Whole
  <1>4. key(q)' = key(q)
    BY <1>1 DEF key
  <1>5. SeenRight(q)' /\ ReadSound(q)'
    BY <1>0, <1>1, <1>2 DEF Sound, SeenRight, ReadSound, SoundOf
  <1>6. FlushSound(q)'
    BY <1>0, <1>1, <1>2 DEF Sound, FlushSound, Owns
  <1>7. Retrieved(q)'
    BY <1>0, <1>1, <1>2, <1>3 DEF Sound, Retrieved, Owns, UnitPcs
  <1>8. Built(q)'
    BY <1>0, <1>1, <1>3 DEF Sound, Built
  <1>9. HashOf(q)'
    BY <1>0, <1>1, <1>2, <1>4 DEF Sound, HashOf, Owns, UnitPcs, WorkPcs
  <1> QED BY <1>5, <1>6, <1>7, <1>8, <1>9 DEF Sound

\* Its own steps keep what a process has seen of the headers.
LEMMA SeenOwn ==
    ASSUME TypeOK, NEW p \in Proc, Owns(p), SeenRight(p), Moves(p)
    PROVE  SeenRight(p)'
  <1>0. hdr' = hdr
    BY FilesKept
  <1> USE DEF TypeOK, ControlType, DataType, SeenRight, UnseenPcs, Goto, AllPcs, WipePcs
  <1>1. CASE Build(p) \/ Command(p) \/ PreRead(p)
    BY <1>0, <1>1 DEF Build, Command, PreRead
  <1>2. CASE PreMatch(p)
    <2>1. HeaderHash(p) = hdr
      BY DEF HeaderHash
    <2>2. pc'[p] \in {"get", "preRead"} /\ seen'[p] \in {seen[p], HeaderHash(p)}
      BY <1>2 DEF PreMatch
    <2> QED BY <1>0, <2>1, <2>2
  <1>3. CASE Get(p) \/ GetMiss(p) \/ GetLock(p) \/ GetCopy(p)
    BY <1>0, <1>3 DEF Get, GetMiss, GetLock, GetCopy
  <1>4. CASE Compile(p) \/ PostInit(p) \/ Collect(p) \/ HashOut(p) \/ AddCopy(p)
    BY <1>0, <1>4 DEF Compile, PostInit, Collect, HashOut, AddCopy
  <1>5. CASE Report(p) \/ CompileFails(p) \/ PostInvoke(p) \/ PostStats(p)
    <2>1. Fresh(p)
      BY <1>5 DEF Report, CompileFails, PostInvoke, PostStats
    <2> QED BY <1>0, <2>1 DEF Fresh
  <1>6. CASE GetVanished(p) \/ FileGone(p) \/ Crash(p)
    <2>1. Fresh(p)
      BY <1>6 DEF GetVanished, FileGone, Crash, Dies
    <2> QED BY <1>0, <2>1 DEF Fresh
  <1>7. CASE HashDep(p)
    <2>1. HeaderHash(p) = hdr
      BY DEF HeaderHash
    <2>2. pc'[p] = "addLock" /\ seen'[p] = HeaderHash(p)
      BY <1>7 DEF HashDep
    <2> QED BY <1>0, <2>1, <2>2
  <1>8. CASE AddDuplicate(p) \/ AddLock(p) \/ AddReplace(p) \/ AddFails(p)
    BY <1>0, <1>8 DEF AddDuplicate, AddLock, AddReplace, AddFails, AfterAdd
  <1>9. CASE PubRead(p) \/ PubWrite(p) \/ PostFlush(p)
    BY <1>0, <1>9 DEF PubRead, PubWrite, PostFlush
  <1>10. CASE LockManifests(p) \/ LockObjects(p) \/ LockStatistics(p)
    BY <1>0, <1>10 DEF LockManifests, LockObjects, LockStatistics
  <1>11. CASE Clean(p) \/ WipeManifests(p) \/ WipeObjects(p) \/ Cleared(p)
    BY <1>0, <1>11 DEF Clean, WipeManifests, WipeObjects, Cleared
  <1> QED
    BY <1>1, <1>2, <1>3, <1>4, <1>5, <1>6, <1>7, <1>8, <1>9, <1>10, <1>11 DEF Moves, Step

\* manifest_hit finds the entry of the headers as they are.
LEMMA FoundSound ==
    ASSUME TypeOK, NEW p \in Proc, SeenRight(p), ReadSound(p), pc[p] = "preMatch"
    PROVE  \A h \in Found(p) : h.dep = hdr /\ SoundOf(h.unit, h)
  <1>0. HeaderHash(p) = hdr
    BY DEF HeaderHash, SeenRight
  <1>1. CASE hdr \in Deps(man[p])
    <2> DEFINE f == FirstFor(man[p], hdr)
               hit == [unit |-> unit[p], dep |-> man[p][f].dep, out |-> man[p][f].out]
    <2>1. f \in DOMAIN man[p] /\ man[p][f].dep = hdr
      BY <1>1, FirstForExists DEF TypeOK, DataType
    <2>2. SoundOf(unit[p], man[p][f])
      BY <2>1 DEF ReadSound
    <2>3. hit.dep = hdr /\ SoundOf(hit.unit, hit)
      <3> HIDE DEF f
      <3> QED BY <2>1, <2>2 DEF SoundOf
    <2>4. Found(p) = hits[p] \cup {hit}
      BY <1>0, <1>1 DEF Found
    <2> HIDE DEF hit
    <2> QED BY <2>3, <2>4 DEF ReadSound
  <1>2. CASE hdr \notin Deps(man[p])
    BY <1>0, <1>2 DEF Found, ReadSound
  <1> QED BY <1>1, <1>2

\* A process gets its hits from manifest_hit alone.
LEMMA HitsStep ==
    ASSUME TypeOK, NEW p \in Proc, Moves(p)
    PROVE  \/ PreMatch(p) /\ hits'[p] = Found(p)
           \/ hits'[p] \subseteq hits[p]
  <1> USE DEF TypeOK, DataType
  <1>1. CASE PreMatch(p)
    BY <1>1 DEF PreMatch, Found
  <1>2. CASE CompileFails(p) \/ PostInvoke(p) \/ PostStats(p)
    BY <1>2 DEF CompileFails, PostInvoke, PostStats, Idle
  <1>3. CASE GetVanished(p) \/ FileGone(p) \/ Crash(p)
    BY <1>3 DEF GetVanished, FileGone, Crash, Dies, Idle
  <1>4. CASE GetMiss(p)
    BY <1>4 DEF GetMiss
  <1>5. ASSUME \/ Build(p) \/ Command(p) \/ PreRead(p)
               \/ Get(p) \/ GetLock(p) \/ GetCopy(p) \/ Report(p)
               \/ Compile(p) \/ PostInit(p)
               \/ Collect(p) \/ HashOut(p) \/ HashDep(p) \/ AddDuplicate(p)
               \/ AddLock(p) \/ AddCopy(p) \/ AddReplace(p) \/ AddFails(p)
               \/ PubRead(p) \/ PubWrite(p) \/ PostFlush(p)
               \/ LockManifests(p) \/ LockObjects(p) \/ Clean(p)
               \/ LockStatistics(p) \/ WipeManifests(p) \/ WipeObjects(p) \/ Cleared(p)
        PROVE  hits' = hits
    BY <1>5 DEF Build, Command, PreRead, Get, GetLock, GetCopy, Report,
       Compile, PostInit, Collect, HashOut, HashDep, AddDuplicate, AddLock, AddCopy,
       AddReplace, AddFails, PubRead, PubWrite, PostFlush, LockManifests, LockObjects,
       Clean, LockStatistics, WipeManifests, WipeObjects, Cleared
  <1> QED BY <1>1, <1>2, <1>3, <1>4, <1>5 DEF Moves, Step

\* Only manifest_hit's read leads to its search.
LEMMA OnlyPreRead ==
    ASSUME TypeOK, NEW p \in Proc, Moves(p), pc'[p] = "preMatch"
    PROVE  PreRead(p)
  <1> USE DEF TypeOK, ControlType, Goto, Idle
  <1>1. CASE Build(p) \/ Command(p) \/ PreMatch(p) \/ Get(p) \/ GetMiss(p)
    BY <1>1 DEF Build, Command, PreMatch, Get, GetMiss
  <1>2. CASE GetLock(p) \/ GetCopy(p) \/ Report(p) \/ Compile(p) \/ CompileFails(p)
    BY <1>2 DEF GetLock, GetCopy, Report, Compile, CompileFails
  <1>3. CASE PostInvoke(p) \/ PostInit(p) \/ Collect(p) \/ HashOut(p) \/ HashDep(p)
    BY <1>3 DEF PostInvoke, PostInit, Collect, HashOut, HashDep
  <1>4. CASE AddDuplicate(p) \/ AddLock(p) \/ AddCopy(p) \/ AddReplace(p) \/ AddFails(p)
    BY <1>4 DEF AddDuplicate, AddLock, AddCopy, AddReplace, AddFails, AfterAdd
  <1>5. CASE PubRead(p) \/ PubWrite(p) \/ PostFlush(p) \/ PostStats(p)
    BY <1>5 DEF PubRead, PubWrite, PostFlush, PostStats
  <1>6. CASE LockManifests(p) \/ LockObjects(p) \/ Clean(p) \/ LockStatistics(p)
    BY <1>6 DEF LockManifests, LockObjects, Clean, LockStatistics
  <1>7. CASE WipeManifests(p) \/ WipeObjects(p) \/ Cleared(p)
    BY <1>7 DEF WipeManifests, WipeObjects, Cleared
  <1>8. CASE GetVanished(p) \/ FileGone(p) \/ Crash(p)
    BY <1>8 DEF GetVanished, FileGone, Crash, Dies
  <1> QED
    BY <1>1, <1>2, <1>3, <1>4, <1>5, <1>6, <1>7, <1>8 DEF Moves, Step

\* Its own steps keep what a process has read sound.
LEMMA ReadOwn ==
    ASSUME TypeOK, EntriesAreSound, NEW p \in Proc, Owns(p), SeenRight(p), ReadSound(p),
           Moves(p)
    PROVE  ReadSound(p)'
  <1>0. hdr' = hdr
    BY FilesKept
  <1>1. \A h \in hits'[p] : h.dep = hdr /\ SoundOf(h.unit, h)
    <2>1. CASE PreMatch(p) /\ hits'[p] = Found(p)
      BY <2>1, FoundSound DEF PreMatch
    <2>2. CASE hits'[p] \subseteq hits[p]
      BY <2>2 DEF ReadSound
    <2> QED BY <2>1, <2>2, HitsStep
  <1>2. ASSUME pc'[p] \in {"preMatch", "pubWrite"}
        PROVE  \A i \in DOMAIN man'[p] : SoundOf(unit'[p], man'[p][i])
    <2>1. PreRead(p) \/ PubRead(p)
      BY <1>2, OnlyPreRead, OnlyPubRead
    <2>2. man'[p] = manifest[unit'[p]] /\ unit'[p] \in Unit
      BY <2>1 DEF PreRead, PubRead, TypeOK, ControlType, DataType
    <2>3. \A u \in Unit : \A i \in DOMAIN manifest[u] : SoundOf(u, manifest[u][i])
      BY DEF EntriesAreSound, SoundOf
    <2>4. \A i \in DOMAIN manifest[unit'[p]] : SoundOf(unit'[p], manifest[unit'[p]][i])
      BY <2>2, <2>3
    <2> QED BY <2>2, <2>4
  <1> QED BY <1>0, <1>1, <1>2 DEF ReadSound, SoundOf

\* real_get_file leaves the file that the key stands for, and its hash beside it.
LEMMA CopiedFile ==
    ASSUME TypeOK, StoreIsSound, MetaIsSound, NEW p \in Proc, GetCopy(p)
    PROVE  /\ file'[unit[p]][slot[p]] = key(p) /\ meta'[unit[p]][slot[p]] = key(p)
           /\ \A u \in Unit, i \in Slots : u # unit[p] \/ i # slot[p] =>
                 file'[u][i] = file[u][i] /\ meta'[u][i] = meta[u][i]
  <1> USE DEF TypeOK, SharedType, ControlType
  <1>0. key(p) \in Key /\ key(p) # None /\ unit[p] \in Unit /\ slot[p] \in Slots
    BY ConstantsAssumption DEF key, DataType
  <1>1. CASE UpToDate(p)
    BY <1>0, <1>1 DEF GetCopy, UpToDate, MetaIsSound
  <1>2. CASE ~UpToDate(p)
    <2>1. store[key(p)] = key(p)
      BY <1>0, <1>2 DEF GetCopy, HasObject, StoreIsSound
    <2>2. /\ file' = [file EXCEPT ![unit[p]][slot[p]] = key(p)]
          /\ meta' = [meta EXCEPT ![unit[p]][slot[p]] = key(p)]
      BY <1>2, <2>1 DEF GetCopy
    <2> QED BY <1>0, <2>2
  <1> QED BY <1>1, <1>2

\* The hashes a process will write are those of the files after its own steps.
LEMMA FlushOwn ==
    ASSUME TypeOK, StoreIsSound, MetaIsSound, NEW p \in Proc, Owns(p), Sound(p), Moves(p)
    PROVE  FlushSound(p)'
  <1>0. FlushSound(p) /\ HashOf(p) /\ pending[p] \subseteq Unit \X Slots \X Key
    BY DEF Sound, TypeOK, DataType
  <1> USE DEF TypeOK, ControlType, DataType, FlushSound, Goto, PrePcs
  <1>1. ASSUME pending'[p] = {} PROVE FlushSound(p)'
    BY <1>1
  <1>2. CASE Build(p) \/ Command(p)
    <2>1. pending'[p] = pending[p] /\ pc[p] = "idle"
      BY <1>2 DEF Build, Command
    <2> QED BY <1>1, <2>1 DEF Owns
  <1>3. CASE PreRead(p) \/ PreMatch(p)
    <2>1. pending'[p] = pending[p] /\ pc[p] \in {"preRead", "preMatch"}
      BY <1>3 DEF PreRead, PreMatch
    <2> QED BY <1>0, <1>1, <2>1
  <1>4. CASE Get(p)
    <2>1. /\ pc[p] = "get" /\ pc'[p] = "getLock" /\ pending' = pending /\ file' = file
          /\ unit'[p] \in todo[p] /\ todo'[p] \subseteq todo[p]
      BY <1>4 DEF Get, shared
    <2> QED BY <1>0, <2>1
  <1>5. CASE GetMiss(p)
    BY <1>0, <1>5 DEF GetMiss, shared
  <1>6. CASE GetLock(p)
    BY <1>0, <1>6 DEF GetLock, shared
  <1>7. CASE GetCopy(p)
    <2>1. /\ pc[p] = "getCopy" /\ todo' = todo /\ unit' = unit
          /\ pending'[p] = pending[p] \cup {<<unit[p], slot[p], key(p)>>}
          /\ \/ pc'[p] = "getLock" /\ slot'[p] = slot[p] + 1
             \/ pc'[p] = "get"
      BY <1>7 DEF GetCopy
    <2>2. unit[p] \notin todo[p] /\ slot[p] \in Nat
      BY <2>1 DEF Sound, Retrieved, Slots
    <2>3. /\ file'[unit[p]][slot[p]] = key(p)
          /\ \A u \in Unit, i \in Slots : u # unit[p] \/ i # slot[p] => file'[u][i] = file[u][i]
      BY <1>7, CopiedFile
    <2>4. ASSUME NEW x \in pending[p]
          PROVE  /\ file'[x[1]][x[2]] = x[3] /\ x[1] \notin todo[p]
                 /\ x[1] = unit[p] => x[2] < slot[p]
      <3>1. /\ file[x[1]][x[2]] = x[3] /\ x[1] \notin todo[p]
            /\ x[1] = unit[p] => x[2] < slot[p]
        BY <1>0, <2>1
      <3>2. x[1] \in Unit /\ x[2] \in Slots
        BY <1>0
      <3>3. x[1] # unit[p] \/ x[2] # slot[p]
        BY <2>2, <3>1, <3>2 DEF Slots
      <3> QED BY <2>3, <3>1, <3>2, <3>3
    <2>5. \A x \in pending[p] : x[2] \in Nat
      BY <1>0 DEF Slots
    <2>6. ASSUME NEW x \in pending'[p]
          PROVE  /\ file'[x[1]][x[2]] = x[3] /\ x[1] \notin todo'[p]
                 /\ pc'[p] = "getLock" /\ x[1] = unit'[p] => x[2] < slot'[p]
      <3>1. CASE x \in pending[p]
        BY <2>1, <2>2, <2>4, <2>5, <3>1
      <3>2. CASE x = <<unit[p], slot[p], key(p)>>
        BY <2>1, <2>2, <2>3, <3>2
      <3> QED BY <2>1, <3>1, <3>2
    <2> QED BY <2>1, <2>6
  <1>8. CASE GetVanished(p) \/ FileGone(p) \/ Crash(p)
    <2>1. Dies(p)
      BY <1>8 DEF GetVanished, FileGone, Crash
    <2> QED BY <1>1, <2>1, DeadOwns, EndedOwns
  <1>9. CASE Report(p) \/ CompileFails(p) \/ PostInvoke(p) \/ PostStats(p)
    <2>1. Fresh(p)
      BY <1>9 DEF Report, CompileFails, PostInvoke, PostStats
    <2> QED BY <1>1, <2>1 DEF Fresh
  <1>10. CASE Compile(p)
    <2>1. pc[p] = "compile" /\ pending' = pending /\ pc' = pc
      BY <1>10 DEF Compile
    <2>2. pending[p] = {}
      BY <1>0, <2>1
    <2> QED BY <1>1, <2>1, <2>2
  <1>11. CASE AddDuplicate(p) \/ AddLock(p)
    <2>1. /\ pc[p] = "addLock" /\ pc'[p] \in {"addLock", "addCopy", "pubRead", "post"}
          /\ pending'[p] = pending[p] \cup {<<unit[p], slot[p], key(p)>>}
          /\ file' = file
      BY <1>11 DEF AddDuplicate, AddLock, AfterAdd, WillFlush, shared
    <2>2. file[unit[p]][slot[p]] = key(p)
      BY <1>0, <2>1 DEF HashOf, WorkPcs, key
    <2> QED BY <1>0, <2>1, <2>2
  <1>12. CASE PostInit(p) \/ Collect(p) \/ HashOut(p) \/ HashDep(p) \/ AddCopy(p)
    BY <1>0, <1>12 DEF PostInit, Collect, HashOut, HashDep, AddCopy, shared
  <1>13. CASE AddReplace(p) \/ AddFails(p) \/ PubRead(p) \/ PubWrite(p) \/ PostFlush(p)
    BY <1>0, <1>13 DEF AddReplace, AddFails, PubRead, PubWrite, PostFlush, AfterAdd, shared
  <1>14. CASE LockManifests(p) \/ LockObjects(p) \/ LockStatistics(p)
    BY <1>0, <1>14 DEF LockManifests, LockObjects, LockStatistics, shared
  <1>15. CASE Clean(p) \/ WipeManifests(p) \/ WipeObjects(p) \/ Cleared(p)
    BY <1>0, <1>15 DEF Clean, WipeManifests, WipeObjects, Cleared, shared
  <1> QED
    BY <1>2, <1>3, <1>4, <1>5, <1>6, <1>7, <1>8, <1>9, <1>10, <1>11, <1>12,
       <1>13, <1>14, <1>15 DEF Moves, Step

\* Retrieval puts one hit after the other in place.
LEMMA RetrievedOwn ==
    ASSUME TypeOK, StoreIsSound, MetaIsSound, NEW p \in Proc, Owns(p), Sound(p), Moves(p)
    PROVE  Retrieved(p)'
  <1>0. Retrieved(p) /\ hdr' = hdr
    BY FilesKept DEF Sound
  <1> USE DEF TypeOK, ControlType, DataType, Goto
  <1>1. CASE PreMatch(p)
    <2>1. hits'[p] = Found(p)
      BY <1>1 DEF PreMatch, Found
    <2>2. \/ pc'[p] = "preRead"
          \/ pc'[p] = "get" /\ todo'[p] = {h.unit : h \in Found(p)}
      BY <1>1 DEF PreMatch, Found
    <2> QED BY <2>1, <2>2 DEF Retrieved
  <1>2. CASE Get(p)
    <2>1. PICK h \in hits[p] :
              /\ h.unit \in todo[p]
              /\ unit' = [unit EXCEPT ![p] = h.unit]
              /\ todo' = [todo EXCEPT ![p] = @ \ {h.unit}]
              /\ out' = [out EXCEPT ![p] = h.out]
      BY <1>2 DEF Get
    <2>2. /\ pc[p] = "get" /\ pc'[p] = "getLock" /\ slot'[p] = 1
          /\ hits' = hits /\ file' = file
      BY <1>2 DEF Get, shared
    <2>3. \A u : Whole(u)' = Whole(u)
      BY <1>0, <2>2 DEF Whole
    <2>4. \A i \in Slots : ~(i < 1)
      BY DEF Slots
    <2>5. /\ \E g \in hits'[p] : g.unit = unit'[p] /\ g.out = out'[p]
          /\ unit'[p] \notin todo'[p]
      BY <2>1, <2>2
    <2>6. \A g \in hits'[p] : g.unit \in todo'[p] \/ g.unit = unit'[p] \/ Whole(g.unit)'
      BY <1>0, <2>1, <2>2, <2>3 DEF Retrieved
    <2> QED BY <2>2, <2>4, <2>5, <2>6 DEF Retrieved
  <1>3. CASE GetMiss(p)
    <2>1. /\ pc[p] = "getLock" /\ pc'[p] = "get" /\ todo' = todo /\ file' = file
          /\ hits'[p] = {h \in hits[p] : h.unit # unit[p]}
      BY <1>3 DEF GetMiss, shared
    <2>2. \A u : Whole(u)' = Whole(u)
      BY <1>0, <2>1 DEF Whole
    <2> QED BY <1>0, <2>1, <2>2 DEF Retrieved
  <1>4. CASE GetLock(p)
    <2>1. /\ pc[p] = "getLock" /\ pc'[p] = "getCopy"
          /\ UNCHANGED <<file, todo, hits, unit, out, slot>>
      BY <1>4 DEF GetLock, shared
    <2>2. \A u : Whole(u)' = Whole(u)
      BY <1>0, <2>1 DEF Whole
    <2> QED BY <1>0, <2>1, <2>2 DEF Retrieved
  <1>5. CASE GetCopy(p)
    <2>1. /\ pc[p] = "getCopy" /\ UNCHANGED <<todo, unit, hits, out>>
          /\ \/ slot[p] < NSlots /\ pc'[p] = "getLock" /\ slot'[p] = slot[p] + 1
             \/ ~(slot[p] < NSlots) /\ pc'[p] = "get"
      BY <1>5 DEF GetCopy
    <2>2. slot[p] \in Nat /\ slot[p] \in Slots /\ NSlots \in Nat /\ unit[p] \in Unit
      BY ConstantsAssumption DEF Slots
    <2>3. /\ file'[unit[p]][slot[p]] = key(p)
          /\ \A u \in Unit, i \in Slots : u # unit[p] \/ i # slot[p] => file'[u][i] = file[u][i]
      BY <1>5, CopiedFile
    <2>4. ASSUME NEW i \in Slots, i < slot[p] + 1
          PROVE  file'[unit[p]][i] = out[p][i]
      <3>1. i \in Nat
        BY DEF Slots
      <3>2. CASE i = slot[p]
        BY <2>3, <3>2 DEF key
      <3>3. CASE i < slot[p]
        <4>1. i # slot[p]
          BY <2>2, <3>1, <3>3
        <4>2. file[unit[p]][i] = out[p][i]
          BY <1>0, <2>1, <3>3 DEF Retrieved
        <4> QED BY <2>2, <2>3, <4>1, <4>2
      <3> QED BY <2>2, <2>4, <3>1, <3>2, <3>3
    <2>5. \A u \in Unit \ {unit[p]} : Whole(u) => Whole(u)'
      BY <1>0, <2>3 DEF Whole
    <2>6. PICK h \in hits[p] : h.unit = unit[p] /\ h.out = out[p]
      BY <1>0, <2>1 DEF Retrieved
    <2>7. CASE slot[p] < NSlots
      <3>1. pc'[p] = "getLock" /\ slot'[p] = slot[p] + 1
        BY <2>1, <2>7
      <3>2. \A g \in hits'[p] : g.unit \in todo'[p] \/ g.unit = unit'[p] \/ Whole(g.unit)'
        <4>1. \A g \in hits[p] : g.unit \in Unit
          BY DEF Hit
        <4> QED BY <1>0, <2>1, <2>5, <4>1 DEF Retrieved
      <3>3. unit'[p] \notin todo'[p]
        BY <1>0, <2>1 DEF Retrieved
      <3> QED BY <2>1, <2>4, <2>6, <3>1, <3>2, <3>3 DEF Retrieved
    <2>8. CASE ~(slot[p] < NSlots)
      <3>1. pc'[p] = "get"
        BY <2>1, <2>8
      <3>2. \A i \in Slots : file'[unit[p]][i] = out[p][i]
        <4>1. \A i \in Slots : i < slot[p] + 1
          BY <2>2, <2>8 DEF Slots
        <4> QED BY <2>4, <4>1
      <3>3. PICK s \in Stamp : \A j \in Slots :
                h.out[j] = <<[unit |-> h.unit, dep |-> h.dep, stamp |-> s], j>>
        BY DEF Sound, ReadSound, SoundOf
      <3>4. h.dep = hdr
        BY DEF Sound, ReadSound
      <3>5. Whole(unit[p])'
        BY <1>0, <2>1, <2>6, <3>2, <3>3, <3>4 DEF Whole
      <3>6. \A g \in hits'[p] : g.unit \in todo'[p] \/ Whole(g.unit)'
        <4>1. \A g \in hits[p] : g.unit \in Unit
          BY DEF Hit
        <4> QED BY <1>0, <2>1, <2>5, <3>5, <4>1 DEF Retrieved
      <3> QED BY <3>1, <3>6 DEF Retrieved
    <2> QED BY <2>7, <2>8
  <1>6. CASE pc'[p] \notin {"get", "getLock", "getCopy"}
    BY <1>6 DEF Retrieved
  <1>7. ASSUME pc'[p] \in {"get", "getLock", "getCopy"}
        PROVE  PreMatch(p) \/ Get(p) \/ GetMiss(p) \/ GetLock(p) \/ GetCopy(p)
    <2> USE <1>7 DEF Idle
    <2>1. ~(Build(p) \/ Command(p) \/ PreRead(p) \/ Report(p) \/ Compile(p) \/ CompileFails(p))
      BY DEF Build, Command, PreRead, Report, Compile, CompileFails
    <2>2. ~(PostInvoke(p) \/ PostInit(p) \/ Collect(p) \/ HashOut(p) \/ HashDep(p))
      BY DEF PostInvoke, PostInit, Collect, HashOut, HashDep
    <2>3. ~(AddDuplicate(p) \/ AddLock(p) \/ AddCopy(p) \/ AddReplace(p) \/ AddFails(p))
      BY DEF AddDuplicate, AddLock, AddCopy, AddReplace, AddFails, AfterAdd
    <2>4. ~(PubRead(p) \/ PubWrite(p) \/ PostFlush(p) \/ PostStats(p))
      BY DEF PubRead, PubWrite, PostFlush, PostStats
    <2>5. ~(LockManifests(p) \/ LockObjects(p) \/ Clean(p) \/ LockStatistics(p))
      BY DEF LockManifests, LockObjects, Clean, LockStatistics
    <2>6. ~(WipeManifests(p) \/ WipeObjects(p) \/ Cleared(p))
      BY DEF WipeManifests, WipeObjects, Cleared
    <2>7. ~(GetVanished(p) \/ FileGone(p) \/ Crash(p))
      BY DEF GetVanished, FileGone, Crash, Dies
    <2> QED BY <2>1, <2>2, <2>3, <2>4, <2>5, <2>6, <2>7 DEF Moves, Step
  <1> QED
    BY <1>1, <1>2, <1>3, <1>4, <1>5, <1>6, <1>7

\* The build goes on to make its units, and post-invoke leaves them alone.
LEMMA BuiltOwn ==
    ASSUME TypeOK, NEW p \in Proc, Owns(p), Sound(p), Moves(p)
    PROVE  Built(p)'
  <1>0. Built(p) /\ Retrieved(p) /\ hdr' = hdr
    BY FilesKept DEF Sound
  <1>1. ASSUME file' = file PROVE \A u : Whole(u)' = Whole(u)
    BY <1>0, <1>1 DEF Whole
  <1> USE DEF TypeOK, ControlType, Goto, PrePcs, PostPcs, AllPcs, WipePcs
  <1>2. ASSUME job'[p] = {}, hits'[p] = {}
        PROVE  Built(p)'
    BY <1>2 DEF Built
  <1>3. CASE Build(p) \/ PreRead(p) \/ PreMatch(p) \/ Get(p) \/ GetMiss(p)
    <2>1. pc'[p] \in PrePcs
      BY <1>3 DEF Build, PreRead, PreMatch, Get, GetMiss
    <2> QED BY <2>1 DEF Built
  <1>4. CASE GetLock(p) \/ GetCopy(p)
    <2>1. pc'[p] \in PrePcs
      BY <1>4 DEF GetLock, GetCopy
    <2> QED BY <2>1 DEF Built
  <1>5. CASE Command(p)
    <2>1. job' = job /\ hits' = hits /\ job[p] = {}
      BY <1>5 DEF Command, Owns
    <2>2. hits[p] = {}
      BY <2>1 DEF Owns
    <2> QED BY <1>2, <2>1, <2>2
  <1>6. CASE GetVanished(p) \/ FileGone(p) \/ Crash(p)
    <2>1. Dies(p)
      BY <1>6 DEF GetVanished, FileGone, Crash
    <2> QED BY <1>2, <2>1, DeadOwns, EndedOwns DEF Built
  <1>7. CASE Report(p)
    <2>1. /\ pc[p] = "get" /\ todo[p] = {} /\ pc'[p] = "compile"
          /\ todo'[p] = job[p] \ {h.unit : h \in hits[p]}
          /\ job' = job /\ file' = file /\ hits' = hits
      BY <1>7 DEF Report
    <2>2. \A h \in hits[p] : Whole(h.unit)
      BY <1>0, <2>1 DEF Retrieved
    <2> QED BY <1>1, <2>1, <2>2 DEF Built
  <1>8. CASE Compile(p)
    <2>1. PICK u \in todo[p], s \in Stamp :
              /\ file' = [file EXCEPT ![u] =
                             [i \in Slots |-> <<[unit |-> u, dep |-> hdr, stamp |-> s], i>>]]
              /\ todo' = [todo EXCEPT ![p] = @ \ {u}]
      BY <1>8 DEF Compile
    <2>2. /\ pc[p] = "compile" /\ pc' = pc /\ job' = job
          /\ hits' = hits
      BY <1>8 DEF Compile
    <2>3. u \in Unit
      BY <2>1
    <2>4. Whole(u)'
      BY <1>0, <2>1, <2>3 DEF Whole, SharedType
    <2>5. \A v \in Unit \ {u} : Whole(v) => Whole(v)'
      BY <1>0, <2>1 DEF Whole, SharedType
    <2> QED BY <1>0, <2>1, <2>2, <2>4, <2>5 DEF Built
  <1>9. CASE CompileFails(p) \/ PostStats(p)
    <2>1. Idle(p) /\ Fresh(p)
      BY <1>9 DEF CompileFails, PostStats
    <2> QED BY <1>2, <2>1, EndedOwns
  <1>10. CASE PostInvoke(p)
    <2>1. CASE Idle(p) /\ Fresh(p)
      BY <1>2, <2>1, EndedOwns
    <2>2. CASE ~Idle(p)
      <3>1. /\ pc[p] = "compile" /\ todo[p] = {} /\ pc'[p] = "postInit"
            /\ job' = job /\ file' = file
        BY <1>10, <2>2 DEF PostInvoke, shared
      <3> QED BY <1>0, <1>1, <3>1 DEF Built
    <2> QED BY <1>10, <2>1, <2>2 DEF PostInvoke
  <1>11. CASE /\ pc[p] \in PostPcs \cup AllPcs \cup WipePcs /\ pc'[p] # "compile"
              /\ job' = job /\ file' = file
    BY <1>0, <1>1, <1>11 DEF Built, Owns
  <1>12. CASE PostInit(p) \/ Collect(p) \/ HashOut(p) \/ HashDep(p) \/ AddCopy(p)
    BY <1>11, <1>12 DEF PostInit, Collect, HashOut, HashDep, AddCopy, shared
  <1>13. CASE AddDuplicate(p) \/ AddLock(p) \/ AddReplace(p) \/ AddFails(p)
    BY <1>11, <1>13 DEF AddDuplicate, AddLock, AddReplace, AddFails, AfterAdd, shared
  <1>14. CASE PubRead(p) \/ PubWrite(p) \/ PostFlush(p)
    BY <1>11, <1>14 DEF PubRead, PubWrite, PostFlush, shared
  <1>15. CASE LockManifests(p) \/ LockObjects(p) \/ LockStatistics(p)
    BY <1>11, <1>15 DEF LockManifests, LockObjects, LockStatistics, shared
  <1>16. CASE Clean(p) \/ WipeManifests(p) \/ WipeObjects(p) \/ Cleared(p)
    BY <1>11, <1>16 DEF Clean, WipeManifests, WipeObjects, Cleared, shared
  <1> QED
    BY <1>3, <1>4, <1>5, <1>6, <1>7, <1>8, <1>9, <1>10, <1>12, <1>13, <1>14, <1>15,
       <1>16 DEF Moves, Step

\* Post-invoke works with the hashes of the files as they are.
LEMMA HashOwn ==
    ASSUME TypeOK, NEW p \in Proc, Owns(p), Sound(p), Moves(p)
    PROVE  HashOf(p)'
  <1>0. HashOf(p)
    BY DEF Sound
  <1> USE DEF TypeOK, ControlType, DataType, Goto, WorkPcs
  <1>1. CASE Collect(p)
    <2>1. pc'[p] = "hashOut" /\ slot'[p] = 1
      BY <1>1 DEF Collect
    <2>2. \A i \in Slots : ~(i < 1)
      BY DEF Slots
    <2> QED BY <2>1, <2>2 DEF HashOf
  <1>2. CASE HashOut(p)
    <2>1. /\ pc[p] = "hashOut" /\ file' = file /\ unit' = unit
          /\ \/ slot[p] < NSlots /\ pc' = pc /\ slot'[p] = slot[p] + 1
             \/ ~(slot[p] < NSlots) /\ pc'[p] = "hashDep"
      BY <1>2 DEF HashOut, shared
    <2>2. /\ out'[p][slot[p]] = file[unit[p]][slot[p]]
          /\ \A i \in Slots : i # slot[p] => out'[p][i] = out[p][i]
      BY <1>2 DEF HashOut
    <2>3. slot[p] \in Nat /\ slot[p] \in 1..NSlots /\ NSlots \in Nat
      BY ConstantsAssumption DEF Slots
    <2>4. ASSUME NEW i \in Slots, i < slot[p] + 1
          PROVE  out'[p][i] = file'[unit'[p]][i]
      <3>1. i \in Nat
        BY DEF Slots
      <3>2. i = slot[p] \/ (i # slot[p] /\ i < slot[p])
        BY <2>3, <2>4, <3>1
      <3> QED BY <1>0, <2>1, <2>2, <3>2 DEF HashOf
    <2>5. CASE slot[p] < NSlots
      BY <2>1, <2>4, <2>5 DEF HashOf
    <2>6. CASE ~(slot[p] < NSlots)
      <3>1. \A i \in Slots : i < slot[p] + 1
        BY <2>3, <2>6 DEF Slots
      <3> QED BY <2>1, <2>4, <2>6, <3>1 DEF HashOf
    <2> QED BY <2>5, <2>6
  <1>3. CASE HashDep(p)
    BY <1>0, <1>3 DEF HashDep, HashOf, shared
  <1>4. CASE AddDuplicate(p) \/ AddReplace(p) \/ AddFails(p)
    <2>1. /\ pc[p] \in {"addLock", "addReplace"} /\ pc'[p] \in {"addLock", "pubRead", "post"}
          /\ UNCHANGED <<file, unit, out>>
      BY <1>4 DEF AddDuplicate, AddReplace, AddFails, AfterAdd, shared
    <2> QED BY <1>0, <2>1 DEF HashOf
  <1>5. CASE AddLock(p)
    BY <1>0, <1>5 DEF AddLock, HashOf, shared
  <1>6. CASE AddCopy(p)
    BY <1>0, <1>6 DEF AddCopy, HashOf, shared, key
  <1>7. CASE PubRead(p)
    BY <1>0, <1>7 DEF PubRead, HashOf, shared
  <1>8. CASE pc'[p] \notin WorkPcs
    BY <1>8 DEF HashOf
  <1>9. ASSUME pc'[p] = "hashOut" PROVE Collect(p) \/ HashOut(p)
    <2> USE <1>9 DEF Idle
    <2>1. ~(Build(p) \/ Command(p) \/ PreRead(p) \/ PreMatch(p) \/ Get(p) \/ GetMiss(p))
      BY DEF Build, Command, PreRead, PreMatch, Get, GetMiss
    <2>2. ~(GetLock(p) \/ GetCopy(p) \/ Report(p) \/ Compile(p) \/ CompileFails(p))
      BY DEF GetLock, GetCopy, Report, Compile, CompileFails
    <2>3. ~(PostInvoke(p) \/ PostInit(p) \/ HashDep(p))
      BY DEF PostInvoke, PostInit, HashDep
    <2>4. ~(AddDuplicate(p) \/ AddLock(p) \/ AddCopy(p) \/ AddReplace(p) \/ AddFails(p))
      BY DEF AddDuplicate, AddLock, AddCopy, AddReplace, AddFails, AfterAdd
    <2>5. ~(PubRead(p) \/ PubWrite(p) \/ PostFlush(p) \/ PostStats(p))
      BY DEF PubRead, PubWrite, PostFlush, PostStats
    <2>6. ~(LockManifests(p) \/ LockObjects(p) \/ Clean(p) \/ LockStatistics(p))
      BY DEF LockManifests, LockObjects, Clean, LockStatistics
    <2>7. ~(WipeManifests(p) \/ WipeObjects(p) \/ Cleared(p))
      BY DEF WipeManifests, WipeObjects, Cleared
    <2>8. ~(GetVanished(p) \/ FileGone(p) \/ Crash(p))
      BY DEF GetVanished, FileGone, Crash, Dies
    <2> QED BY <2>1, <2>2, <2>3, <2>4, <2>5, <2>6, <2>7, <2>8 DEF Moves, Step
  <1>10. CASE pc'[p] = "hashOut"
    BY <1>1, <1>2, <1>9, <1>10
  <1>11. CASE pc'[p] \in WorkPcs \ {"hashOut"}
    <2>1. \/ HashOut(p) \/ HashDep(p) \/ AddDuplicate(p) \/ AddLock(p)
          \/ AddCopy(p) \/ AddReplace(p) \/ AddFails(p) \/ PubRead(p) \/ GetLock(p)
      BY <1>11, Entering
    <2>2. ~GetLock(p)
      BY <1>11 DEF GetLock
    <2> QED BY <1>2, <1>3, <1>4, <1>5, <1>6, <1>7, <2>1, <2>2
  <1> QED BY <1>8, <1>10, <1>11

\* A file and the hash beside it change together.
LEMMA MetaStep ==
    ASSUME SoundInv, NEW p \in Proc, Moves(p)
    PROVE  MetaIsSound'
  <1>0. TypeOK /\ Owns(p) /\ Sound(p) /\ StoreIsSound /\ MetaIsSound
    BY DEF SoundInv, OwnInv, TypeInv
  <1> USE DEF TypeOK, SharedType, ControlType, DataType
  <1>1. CASE UNCHANGED <<file, meta>>
    BY <1>0, <1>1 DEF MetaIsSound
  <1>2. CASE GetCopy(p)
    <2> SUFFICES ASSUME NEW u \in Unit, NEW i \in Slots
                 PROVE  meta'[u][i] \in {file'[u][i], None}
      BY DEF MetaIsSound
    <2>1. /\ file'[unit[p]][slot[p]] = key(p) /\ meta'[unit[p]][slot[p]] = key(p)
          /\ u # unit[p] \/ i # slot[p] => file'[u][i] = file[u][i] /\ meta'[u][i] = meta[u][i]
      BY <1>0, <1>2, CopiedFile
    <2>2. meta[u][i] \in {file[u][i], None}
      BY <1>0 DEF MetaIsSound
    <2> QED BY <2>1, <2>2
  <1>3. CASE GetVanished(p) \/ Crash(p)
    <2>1. CASE UNCHANGED <<file, meta>>
      BY <1>1, <2>1
    <2>2. CASE TargetDeleted(p)
      BY <1>0, <2>2 DEF TargetDeleted, MetaIsSound
    <2> QED BY <1>3, <2>1, <2>2 DEF GetVanished, Crash
  <1>4. CASE Compile(p)
    BY <1>0, <1>4 DEF Compile, NoOutput, MetaIsSound
  <1>5. CASE CompileFails(p)
    <2>1. CASE UNCHANGED <<file, meta>>
      BY <1>1, <2>1
    <2>2. ASSUME NEW v \in todo[p],
                 file' = [file EXCEPT ![v] = NoOutput],
                 meta' = [meta EXCEPT ![v] = NoOutput]
          PROVE  MetaIsSound'
      BY <1>0, <2>2 DEF NoOutput, MetaIsSound
    <2> QED BY <1>5, <2>1, <2>2 DEF CompileFails
  <1>6. CASE Report(p) \/ PostFlush(p)
    <2>1. meta' = Flushed(p) /\ file' = file
      BY <1>6 DEF Report, PostFlush
    <2> SUFFICES ASSUME NEW u \in Unit, NEW i \in Slots
                 PROVE  Flushed(p)[u][i] \in {file[u][i], None}
      BY <2>1 DEF MetaIsSound
    <2>2. CASE \E k \in Key : <<u, i, k>> \in pending[p]
      <3> DEFINE c == CHOOSE k \in Key : <<u, i, k>> \in pending[p]
      <3>1. <<u, i, c>> \in pending[p]
        BY <2>2
      <3>2. Flushed(p)[u][i] = c
        BY <2>2 DEF Flushed
      <3> HIDE DEF c
      <3> QED BY <1>0, <3>1, <3>2 DEF Sound, FlushSound
    <2>3. CASE ~\E k \in Key : <<u, i, k>> \in pending[p]
      <3>1. Flushed(p)[u][i] = meta[u][i]
        BY <2>3 DEF Flushed
      <3> QED BY <1>0, <3>1 DEF MetaIsSound
    <2> QED BY <2>2, <2>3
  <1>7. ASSUME \/ Build(p) \/ Command(p) \/ PreRead(p) \/ PreMatch(p)
               \/ Get(p) \/ GetMiss(p) \/ GetLock(p) \/ FileGone(p)
               \/ PostInvoke(p) \/ PostInit(p)
               \/ Collect(p) \/ HashOut(p) \/ HashDep(p) \/ AddDuplicate(p)
               \/ AddLock(p) \/ AddCopy(p) \/ AddReplace(p) \/ AddFails(p)
               \/ PubRead(p) \/ PubWrite(p) \/ PostStats(p)
               \/ LockManifests(p) \/ LockObjects(p) \/ Clean(p)
               \/ LockStatistics(p) \/ WipeManifests(p) \/ WipeObjects(p) \/ Cleared(p)
        PROVE  UNCHANGED <<file, meta>>
    BY <1>7 DEF shared, Build, Command, PreRead, PreMatch, Get, GetMiss, GetLock,
       FileGone, PostInvoke, PostInit, Collect, HashOut, HashDep, AddDuplicate,
       AddLock, AddCopy, AddReplace, AddFails, PubRead, PubWrite, PostStats,
       LockManifests, LockObjects, Clean, LockStatistics, WipeManifests, WipeObjects,
       Cleared
  <1> QED
    BY <1>1, <1>2, <1>3, <1>4, <1>5, <1>6, <1>7 DEF Moves, Step

\* What is added to the store has the hash it is stored under.
LEMMA StoreStep ==
    ASSUME SoundInv, NEW p \in Proc, Moves(p)
    PROVE  StoreIsSound'
  <1>0. TypeOK /\ Sound(p) /\ StoreIsSound
    BY DEF SoundInv, OwnInv, TypeInv
  <1>1. CASE AddReplace(p)
    <2>1. tmp[p] \in {key(p), None, Husk} /\ store' = [store EXCEPT ![key(p)] = tmp[p]]
      BY <1>0, <1>1 DEF AddReplace, Sound, HashOf, WorkPcs
    <2> QED BY <1>0, <2>1 DEF StoreIsSound, TypeOK, SharedType
  <1>2. CASE \A k \in Key : store'[k] \in {store[k], None, Husk}
    BY <1>0, <1>2 DEF StoreIsSound
  <1>3. CASE store' = store
    BY <1>0, <1>3 DEF StoreIsSound
  <1> QED BY <1>1, <1>2, <1>3, StoreKept

\* Publishing sound hashes in a sound manifest leaves it sound.
LEMMA PublishedSound ==
    ASSUME NEW m \in Seq(Entry), NEW entry \in Entry, NEW u,
           SoundOf(u, entry), \A i \in DOMAIN m : SoundOf(u, m[i])
    PROVE  \A i \in DOMAIN published(m, entry) : SoundOf(u, published(m, entry)[i])
  <1>1. CASE entry.dep \notin Deps(m)
    <2> DEFINE n == addEntry(m, entry)
    <2>1. /\ DOMAIN n = 1..(Len(m) + 1)
          /\ n[1] = entry
          /\ \A j \in DOMAIN m : n[j + 1] = m[j]
      BY AddEntryProperties
    <2>2. Len(m) \in Nat /\ DOMAIN m = 1..Len(m)
      OBVIOUS
    <2> HIDE DEF n
    <2>3. \A i \in DOMAIN n : i = 1 \/ (i - 1 \in DOMAIN m /\ n[i] = m[i - 1])
      BY <2>1, <2>2
    <2>4. \A i \in DOMAIN n : SoundOf(u, n[i])
      BY <2>1, <2>3
    <2> QED BY <1>1, <2>4 DEF published, n
  <1>2. CASE entry.dep \in Deps(m)
    <2> DEFINE f == FirstFor(m, entry.dep)
    <2>1. published(m, entry) = [m EXCEPT ![f].out = entry.out]
      BY <1>2 DEF published, replaceOutput
    <2>2. f \in DOMAIN m /\ m[f] \in Entry /\ m[f].dep = entry.dep
      BY <1>2, FirstForExists, ElementOfSeq
    <2> HIDE DEF f
    <2> SUFFICES ASSUME NEW i \in DOMAIN m
                 PROVE  SoundOf(u, [m EXCEPT ![f].out = entry.out][i])
      BY <2>1
    <2>3. CASE i = f
      <3>1. /\ [m EXCEPT ![f].out = entry.out][i].out = entry.out
            /\ [m EXCEPT ![f].out = entry.out][i].dep = entry.dep
        BY <2>2, <2>3 DEF Entry
      <3> QED BY <3>1 DEF SoundOf
    <2>4. CASE i # f
      BY <2>4
    <2> QED BY <2>3, <2>4
  <1> QED BY <1>1, <1>2

\* An entry is published with the hashes of one compilation.
LEMMA EntriesStep ==
    ASSUME SoundInv, NEW p \in Proc, Moves(p)
    PROVE  EntriesAreSound'
  <1>0. TypeInv /\ TypeOK /\ Owns(p) /\ Sound(p) /\ EntriesAreSound
    BY DEF SoundInv, OwnInv, TypeInv
  <1> DEFINE AllSound(mm) == \A u \in Unit : \A i \in DOMAIN mm[u] : SoundOf(u, mm[u][i])
  <1>1. AllSound(manifest) /\ (AllSound(manifest') => EntriesAreSound')
    BY <1>0 DEF EntriesAreSound, SoundOf
  <1>2. CASE PubWrite(p)
    <2> DEFINE entry == [dep |-> seen[p], out |-> out[p]]
    <2>1. entry \in Entry /\ man[p] \in Seq(Entry) /\ unit[p] \in Unit /\ seen[p] = hdr
      BY <1>0, <1>2, ConstantsAssumption DEF TypeInv, TypeOK, PubWrite, DataType,
         ControlType, Hashed, HashedPcs, Entry, Sound, SeenRight
    <2>2. unit[p] \in job[p] /\ pc[p] = "pubWrite"
      BY <1>0, <1>2 DEF PubWrite, Owns, UnitPcs, WorkPcs
    <2>3. Whole(unit[p]) /\ \A i \in Slots : out[p][i] = file[unit[p]][i]
      BY <1>0, <2>2 DEF Sound, Built, HashOf, PostPcs, WorkPcs
    <2>4. SoundOf(unit[p], entry)
      BY <2>1, <2>3 DEF SoundOf, Whole
    <2>5. \A i \in DOMAIN man[p] : SoundOf(unit[p], man[p][i])
      BY <1>0, <2>2 DEF Sound, ReadSound
    <2>6. \/ manifest' = manifest
          \/ manifest' = [manifest EXCEPT ![unit[p]] = published(man[p], entry)]
      BY <1>2 DEF PubWrite
    <2> HIDE DEF entry
    <2>7. \A i \in DOMAIN published(man[p], entry) :
              SoundOf(unit[p], published(man[p], entry)[i])
      BY <2>1, <2>4, <2>5, PublishedSound
    <2>8. AllSound(manifest')
      BY <1>0, <1>1, <2>6, <2>7 DEF TypeOK, SharedType
    <2> QED BY <1>1, <2>8
  <1>3. CASE \A u \in Unit : manifest'[u] \in {manifest[u], << >>}
    <2>1. AllSound(manifest')
      BY <1>1, <1>3
    <2> QED BY <1>1, <2>1
  <1>4. CASE manifest' = manifest
    BY <1>1, <1>4
  <1> QED BY <1>0, <1>2, <1>3, <1>4, ManifestKept

\* Every step of exclusive builds keeps all of it.
LEMMA SoundStep ==
    ASSUME Exclusive PROVE SoundInv /\ [Next]_vars => SoundInv'
  <1> SUFFICES ASSUME SoundInv, [Next]_vars PROVE SoundInv'
    OBVIOUS
  <1>0. OwnInv /\ OwnInv' /\ TypeOK
    BY OwnStep DEF Exclusive, SoundInv, OwnInv, TypeInv
  <1>1. ASSUME NEW p \in Proc, Moves(p) PROVE SoundInv'
    <2>1. Sound(p) /\ Owns(p) /\ StoreIsSound /\ MetaIsSound /\ EntriesAreSound
      BY DEF SoundInv, OwnInv
    <2>2. SeenRight(p)' /\ ReadSound(p)'
      BY <1>0, <1>1, <2>1, SeenOwn, ReadOwn DEF Sound
    <2>3. FlushSound(p)' /\ Retrieved(p)'
      BY <1>0, <1>1, <2>1, FlushOwn, RetrievedOwn
    <2>4. Built(p)' /\ HashOf(p)'
      BY <1>0, <1>1, <2>1, BuiltOwn, HashOwn
    <2>5. Sound(p)'
      BY <2>2, <2>3, <2>4 DEF Sound
    <2>6. \A q \in Proc : Sound(q)'
      BY <1>1, <2>5, SoundOther
    <2>7. StoreIsSound' /\ MetaIsSound' /\ EntriesAreSound'
      BY <1>1, StoreStep, MetaStep, EntriesStep
    <2> QED BY <1>0, <2>6, <2>7 DEF SoundInv
  <1>2. CASE EditHeader
    <2>1. \A p \in Proc : pc[p] = "idle"
      BY <1>2 DEF EditHeader, Exclusive
    <2>2. UNCHANGED <<file, meta, manifest, store, local>>
      BY <1>2 DEF EditHeader
    <2>3. StoreIsSound' /\ MetaIsSound' /\ EntriesAreSound'
      BY <2>2 DEF SoundInv, StoreIsSound, MetaIsSound, EntriesAreSound
    <2>4. ASSUME NEW p \in Proc PROVE Sound(p)'
      <3>1. Owns(p) /\ Sound(p) /\ pc[p] = "idle"
        BY <2>1 DEF SoundInv, OwnInv
      <3>2. job[p] = {} /\ seen[p] = None
        BY <3>1 DEF Owns, Sound, SeenRight, UnseenPcs
      <3>3. hits[p] = {} /\ pending[p] = {}
        BY <3>1, <3>2 DEF Owns
      <3>4. pc'[p] = "idle" /\ hits'[p] = {} /\ pending'[p] = {} /\ seen'[p] = None
        BY <2>2, <3>1, <3>2, <3>3 DEF local
      <3>5. SeenRight(p)' /\ ReadSound(p)' /\ FlushSound(p)'
        BY <3>4 DEF SeenRight, ReadSound, FlushSound
      <3>6. Retrieved(p)' /\ Built(p)' /\ HashOf(p)'
        BY <3>4 DEF Retrieved, Built, HashOf, PostPcs, AllPcs, WorkPcs
      <3> QED BY <3>5, <3>6 DEF Sound
    <2> QED BY <1>0, <2>3, <2>4 DEF SoundInv
  <1>3. CASE UNCHANGED vars
    <2>1. UNCHANGED <<hdr, file, meta, manifest, store, local>>
      BY <1>3 DEF vars, shared
    <2>2. StoreIsSound' /\ MetaIsSound' /\ EntriesAreSound'
      BY <2>1 DEF SoundInv, StoreIsSound, MetaIsSound, EntriesAreSound
    <2>3. ASSUME NEW p \in Proc PROVE Sound(p)'
      <3>1. Sound(p)
        BY DEF SoundInv
      <3>2. key(p)' = key(p) /\ \A u : Whole(u)' = Whole(u)
        BY <2>1 DEF key, Whole, local
      <3>3. SeenRight(p)' /\ ReadSound(p)' /\ FlushSound(p)'
        BY <2>1, <3>1 DEF Sound, SeenRight, ReadSound, FlushSound, SoundOf, local
      <3>4. Retrieved(p)' /\ Built(p)' /\ HashOf(p)'
        BY <2>1, <3>1, <3>2 DEF Sound, Retrieved, Built, HashOf, local
      <3> QED BY <3>3, <3>4 DEF Sound
    <2> QED BY <1>0, <2>2, <2>3 DEF SoundInv
  <1> QED BY <1>1, <1>2, <1>3 DEF Next, Moves

\* It holds initially,
LEMMA SoundInit == Init => SoundInv
  <1> SUFFICES ASSUME Init PROVE SoundInv
    OBVIOUS
  <1>1. TypeInv
    BY TypeInit
  <1>2. Disjoint /\ \A p \in Proc : Owns(p)
    BY DEF Init, Disjoint, Owns, UnitPcs, WorkPcs
  <1>3. StoreIsSound /\ MetaIsSound /\ EntriesAreSound
    BY DEF Init, StoreIsSound, MetaIsSound, EntriesAreSound, NoOutput
  <1>4. ASSUME NEW p \in Proc PROVE Sound(p)
    <2>1. pc[p] = "idle" /\ hits[p] = {} /\ pending[p] = {} /\ seen[p] = None
      BY DEF Init
    <2>2. SeenRight(p) /\ ReadSound(p) /\ FlushSound(p)
      BY <2>1 DEF SeenRight, ReadSound, FlushSound
    <2>3. Retrieved(p) /\ Built(p) /\ HashOf(p)
      BY <2>1 DEF Retrieved, Built, HashOf, PostPcs, AllPcs, WorkPcs
    <2> QED BY <2>2, <2>3 DEF Sound
  <1> QED BY <1>1, <1>2, <1>3, <1>4 DEF SoundInv, OwnInv

\* and in every state.
LEMMA SoundInvariant ==
    ASSUME Exclusive PROVE Spec => []SoundInv
  <1>1. SoundInv /\ [Next]_vars => SoundInv'
    BY SoundStep
  <1> QED BY <1>1, SoundInit, PTL DEF Spec

\* What is stored under a hash has that hash (StoreIsSound), and the hash that
\* is kept beside a file, which real_get_file trusts without reading the file,
\* is that of the file (MetaIsSound), whoever crashes, clears the cache or
\* fails to rename, when builds of a source tree exclude each other and the
\* headers stay as they are during a build.
THEOREM HashesAreRight ==
    ASSUME Exclusive PROVE Spec => [](StoreIsSound /\ MetaIsSound)
  <1>1. SoundInv => StoreIsSound /\ MetaIsSound
    BY DEF SoundInv
  <1>2. Spec => []SoundInv
    BY SoundInvariant
  <1> QED BY <1>1, <1>2, PTL

\* Under the same conditions an entry names the files of one compilation of its
\* unit against the header contents it is filed under (EntriesAreSound).
THEOREM EntriesAreRight ==
    ASSUME Exclusive PROVE Spec => []EntriesAreSound
  <1>1. SoundInv => EntriesAreSound
    BY DEF SoundInv
  <1>2. Spec => []SoundInv
    BY SoundInvariant
  <1> QED BY <1>1, <1>2, PTL

\* Under the same conditions a unit reported as a hit has on disk all the files
\* of one compilation of it against the headers as they are (HitsAreSound):
\* retrieval may be interrupted by a crash or by a clear at any point, and
\* never leaves a reported hit with files of two compilations.
THEOREM HitsAreRight ==
    ASSUME Exclusive PROVE Spec => []HitsAreSound
  <1>1. SoundInv => HitsAreSound
    <2> SUFFICES ASSUME SoundInv, NEW p \in Proc, pc[p] = "compile", NEW h \in hits[p]
                 PROVE  Whole(h.unit)
      BY DEF HitsAreSound, Whole
    <2>1. Owns(p) /\ Sound(p)
      BY DEF SoundInv, OwnInv
    <2>2. h.unit \in job[p] \ todo[p]
      BY <2>1 DEF Owns, Sound, Built
    <2> QED BY <2>1, <2>2 DEF Sound, Built
  <1>2. Spec => []SoundInv
    BY SoundInvariant
  <1> QED BY <1>1, <1>2, PTL

-----------------------------------------------------------------------------
(* Misses.  What a unit lacks in the cache only the build that owns it can *)
(* add, so a unit that was looked up in vain is still missing when it is   *)
(* compiled.                                                               *)

\* What p has read of a manifest is what is there, unless it was removed.
Remembered(p) ==
    /\ pc[p] = "preMatch" => manifest[unit[p]] \in {man[p], << >>}
    /\ pc[p] \in PrePcs =>
           \A h \in hits[p] : \A i \in DOMAIN manifest[h.unit] :
               manifest[h.unit][i].dep = hdr => manifest[h.unit][i].out = h.out

\* The units that p has found missing are missing.
Missing(p) ==
    faults = 0 =>
        /\ pc[p] \in {"preRead", "preMatch"} =>
               \A u \in job[p] \ (todo[p] \cup HitUnits(p)) :
                   (pc[p] = "preMatch" /\ u = unit[p]) \/ ~Cached(u)
        /\ pc[p] \in {"get", "getLock", "getCopy"} =>
               \A u \in job[p] \ HitUnits(p) : ~Cached(u)
        /\ pc[p] = "compile" => \A u \in todo[p] : ~Cached(u)

MissInv ==
    /\ SoundInv /\ ManifestInv
    /\ \A p \in Proc : Remembered(p) /\ Missing(p)

\* The manifest of u is only written, and objects of u are only added, by a
\* post-invoke process that owns u.
LEMMA OwnerAdds ==
    ASSUME SoundInv, ManifestInv, NEW p \in Proc, Moves(p),
           NEW u \in Unit, u \notin job[p] \/ pc[p] \notin WorkPcs
    PROVE  /\ hdr' = hdr
           /\ manifest'[u] \in {manifest[u], << >>}
           /\ \A k \in Key : k[1].unit = u /\ ~HasObject(k) => ~HasObject(k)'
  <1>0. TypeInv /\ TypeOK /\ Owns(p) /\ Sound(p) /\ Publishing /\ UniqueDeps
    BY DEF SoundInv, OwnInv, ManifestInv, TypeInv
  <1>1. hdr' = hdr
    BY <1>0, FilesKept
  <1>2. manifest'[u] \in {manifest[u], << >>}
    <2>1. CASE PubWrite(p)
      <3>1. pc[p] = "pubWrite" /\ unit[p] \in job[p]
        BY <1>0, <2>1 DEF PubWrite, Owns, UnitPcs, WorkPcs
      <3>2. u # unit[p]
        BY <3>1 DEF WorkPcs
      <3> QED BY <1>0, <2>1, <3>2, PubWriteManifest
    <2> QED BY <1>0, <2>1, ManifestKept
  <1>3. ASSUME NEW k \in Key, k[1].unit = u, store[k] \in {None, Husk}
        PROVE  store'[k] \in {None, Husk}
    <2>1. CASE AddReplace(p)
      <3>1. pc[p] = "addReplace" /\ unit[p] \in job[p] /\ unit[p] # u
        BY <1>0, <2>1 DEF AddReplace, Owns, UnitPcs, WorkPcs
      <3>2. key(p) = file[unit[p]][slot[p]] /\ slot[p] \in Slots
        BY <1>0, <3>1 DEF key, Sound, HashOf, WorkPcs, TypeOK, ControlType
      <3>3. Whole(unit[p])
        BY <1>0, <3>1 DEF Sound, Built, PostPcs
      <3>4. key(p)[1].unit = unit[p]
        BY <3>2, <3>3 DEF Whole
      <3>5. k # key(p)
        BY <1>3, <3>1, <3>4
      <3> QED BY <1>0, <1>3, <2>1, <3>5 DEF AddReplace, TypeOK, SharedType
    <2>2. CASE store'[k] \in {store[k], None, Husk}
      BY <1>3, <2>2
    <2> QED BY <1>3, <2>1, <2>2, StoreKept
  <1> QED BY <1>1, <1>2, <1>3 DEF HasObject

\* So u does not enter the cache ...
LEMMA StaysMissing ==
    ASSUME SoundInv, ManifestInv, NEW p \in Proc, Moves(p),
           NEW u \in Unit, u \notin job[p] \/ pc[p] \notin WorkPcs, ~Cached(u)
    PROVE  ~Cached(u)'
  <1>0. /\ hdr' = hdr
        /\ manifest'[u] \in {manifest[u], << >>}
        /\ \A k \in Key : k[1].unit = u /\ ~HasObject(k) => ~HasObject(k)'
    BY OwnerAdds
  <1> SUFFICES ASSUME NEW i \in DOMAIN manifest'[u], manifest'[u][i].dep = hdr',
                      \A j \in Slots : store'[manifest'[u][i].out[j]] \notin {None, Husk}
               PROVE  FALSE
    BY DEF Cached, Backed, HasObject
  <1>1. i \in DOMAIN manifest[u] /\ manifest[u][i].dep = hdr /\ manifest'[u] = manifest[u]
    BY <1>0
  <1>2. SoundOf(u, manifest[u][i]) /\ manifest[u][i] \in Entry
    <2>1. manifest[u] \in Seq(Entry)
      BY DEF ManifestInv, TypeInv, TypeOK, SharedType
    <2>2. manifest[u][i] \in Entry
      BY <1>1, <2>1
    <2> QED BY <1>1, <2>2 DEF SoundInv, EntriesAreSound, SoundOf
  <1>3. ASSUME NEW j \in Slots
        PROVE  manifest[u][i].out[j] \in Key /\ manifest[u][i].out[j][1].unit = u
    BY <1>2 DEF SoundOf, Entry
  <1>4. \A j \in Slots : HasObject(manifest[u][i].out[j])
    BY <1>0, <1>1, <1>3 DEF HasObject
  <1> QED BY <1>1, <1>4 DEF Cached, Backed

\* No fault is forgotten.
LEMMA FaultsGrow ==
    ASSUME TypeOK, NEW p \in Proc, Moves(p)
    PROVE  /\ faults' = 0 => faults = 0
           /\ Crash(p) \/ GetVanished(p) => faults' # 0
  <1>0. faults \in Nat
    BY DEF TypeOK, LockType
  <1>1. CASE Crash(p) \/ GetVanished(p)
    BY <1>0, <1>1 DEF Crash, GetVanished
  <1>2. ASSUME AddFails(p) \/ CompileFails(p) PROVE faults' \in {faults, faults + 1}
    <2>1. CASE AddFails(p)
      BY <2>1 DEF AddFails
    <2>2. CASE CompileFails(p)
      BY <2>2 DEF CompileFails
    <2> QED BY <1>2, <2>1, <2>2
  <1>3. ASSUME \/ Build(p) \/ Command(p) \/ PreRead(p) \/ PreMatch(p) \/ Get(p)
               \/ GetMiss(p) \/ GetLock(p) \/ GetCopy(p) \/ FileGone(p) \/ Report(p)
               \/ Compile(p) \/ PostInvoke(p) \/ PostInit(p) \/ Collect(p) \/ HashOut(p)
               \/ HashDep(p) \/ AddDuplicate(p) \/ AddLock(p) \/ AddCopy(p)
               \/ AddReplace(p) \/ PubRead(p) \/ PubWrite(p) \/ PostFlush(p)
               \/ PostStats(p) \/ LockManifests(p) \/ LockObjects(p) \/ Clean(p)
               \/ LockStatistics(p) \/ WipeManifests(p) \/ WipeObjects(p) \/ Cleared(p)
        PROVE  faults' = faults
    BY <1>3 DEF bounds, Build, Command, PreRead, PreMatch, Get, GetMiss, GetLock, GetCopy,
       FileGone, Report, Compile, PostInvoke, PostInit, Collect, HashOut, HashDep,
       AddDuplicate, AddLock, AddCopy, AddReplace, PubRead, PubWrite, PostFlush,
       PostStats, LockManifests, LockObjects, Clean, LockStatistics, WipeManifests,
       WipeObjects, Cleared
  <1>4. CASE ~(Crash(p) \/ GetVanished(p))
    BY <1>0, <1>2, <1>3, <1>4 DEF Moves, Step
  <1> QED BY <1>1, <1>4

\* ... while another process moves.
LEMMA MissingOther ==
    ASSUME ~Async, MissInv, NEW p \in Proc, Moves(p), NEW q \in Proc \ {p}
    PROVE  Remembered(q)' /\ Missing(q)'
  <1>0. /\ SoundInv /\ ManifestInv /\ TypeOK /\ Owns(q) /\ Remembered(q) /\ Missing(q)
        /\ job[p] \cap job[q] = {}
    BY DEF MissInv, SoundInv, OwnInv, Disjoint, TypeInv
  <1>1. /\ pc'[q] = pc[q] /\ unit'[q] = unit[q] /\ man'[q] = man[q]
        /\ job'[q] = job[q] /\ todo'[q] = todo[q] /\ hits'[q] = hits[q]
    BY <1>0, OthersUnchanged
  <1>2. job[q] \subseteq Unit
    BY <1>0 DEF TypeOK, ControlType
  <1>3. \A u \in job[q] : u \in Unit /\ u \notin job[p]
    BY <1>0, <1>2
  <1>4. /\ hdr' = hdr
        /\ \A u \in job[q] : manifest'[u] \in {manifest[u], << >>}
    BY <1>0, <1>3, OwnerAdds, FilesKept DEF SoundInv, OwnInv
  <1>5. \A u \in job[q] : ~Cached(u) => ~Cached(u)'
    BY <1>0, <1>3, StaysMissing
  <1>6. faults' = 0 => faults = 0
    BY <1>0, FaultsGrow
  <1>7. Remembered(q)'
    <2>1. pc[q] = "preMatch" => unit[q] \in job[q]
      BY <1>0 DEF Owns, UnitPcs
    <2>2. \A h \in hits[q] : h.unit \in job[q]
      BY <1>0 DEF Owns
    <2>3. pc'[q] = "preMatch" => manifest'[unit'[q]] \in {man'[q], << >>}
      BY <1>0, <1>1, <1>4, <2>1 DEF Remembered
    <2>4. ASSUME pc'[q] \in PrePcs, NEW h \in hits'[q],
                 NEW i \in DOMAIN manifest'[h.unit], manifest'[h.unit][i].dep = hdr'
          PROVE  manifest'[h.unit][i].out = h.out
      <3>1. h \in hits[q] /\ h.unit \in job[q] /\ pc[q] \in PrePcs
        BY <1>1, <2>2, <2>4
      <3>2. manifest'[h.unit] = manifest[h.unit]
        BY <1>4, <2>4, <3>1
      <3> QED BY <1>0, <1>4, <2>4, <3>1, <3>2 DEF Remembered
    <2> QED BY <2>3, <2>4 DEF Remembered
  <1>8. Missing(q)'
    <2>1. todo[q] \subseteq job[q]
      BY <1>0 DEF Owns
    <2>2. HitUnits(q)' = HitUnits(q)
      BY <1>1 DEF HitUnits
    <2> QED BY <1>0, <1>1, <1>5, <1>6, <2>1, <2>2 DEF Missing
  <1> QED BY <1>7, <1>8

\* A pre-invoke process is one that was started with the build.
LEMMA PreFromPre ==
    ASSUME TypeOK, NEW p \in Proc, Moves(p), pc'[p] \in PrePcs
    PROVE  Build(p) \/ pc[p] \in PrePcs
  <1> USE DEF TypeOK, ControlType, Goto, Idle, PrePcs
  <1>1. CASE Command(p) \/ Compile(p) \/ CompileFails(p) \/ PostInvoke(p) \/ PostInit(p)
    BY <1>1 DEF Command, Compile, CompileFails, PostInvoke, PostInit
  <1>2. CASE Collect(p) \/ HashOut(p) \/ HashDep(p) \/ AddDuplicate(p) \/ AddLock(p)
    BY <1>2 DEF Collect, HashOut, HashDep, AddDuplicate, AddLock, AfterAdd
  <1>3. CASE AddCopy(p) \/ AddReplace(p) \/ AddFails(p) \/ PubRead(p) \/ PubWrite(p)
    BY <1>3 DEF AddCopy, AddReplace, AddFails, AfterAdd, PubRead, PubWrite
  <1>4. CASE PostFlush(p) \/ PostStats(p) \/ FileGone(p) \/ Crash(p)
    BY <1>4 DEF PostFlush, PostStats, FileGone, Crash, Dies
  <1>5. CASE LockManifests(p) \/ LockObjects(p) \/ Clean(p) \/ LockStatistics(p)
    BY <1>5 DEF LockManifests, LockObjects, Clean, LockStatistics
  <1>6. CASE WipeManifests(p) \/ WipeObjects(p) \/ Cleared(p)
    BY <1>6 DEF WipeManifests, WipeObjects, Cleared
  <1>7. CASE PreRead(p) \/ PreMatch(p) \/ Get(p) \/ GetMiss(p) \/ GetLock(p)
             \/ GetCopy(p) \/ GetVanished(p) \/ Report(p)
    BY <1>7 DEF PreRead, PreMatch, Get, GetMiss, GetLock, GetCopy, GetVanished, Report
  <1> QED
    BY <1>1, <1>2, <1>3, <1>4, <1>5, <1>6, <1>7 DEF Moves, Step

\* What a pre-invoke process does
LEMMA FromPre ==
    ASSUME TypeOK, NEW p \in Proc, Moves(p), pc[p] \in PrePcs
    PROVE  \/ PreRead(p) \/ PreMatch(p) \/ Get(p) \/ GetMiss(p) \/ GetLock(p)
           \/ GetCopy(p) \/ GetVanished(p) \/ Report(p) \/ Crash(p)
  <1> USE DEF PrePcs
  <1>1. ~(Command(p) \/ Build(p) \/ Compile(p) \/ CompileFails(p) \/ PostInvoke(p))
    BY DEF Command, Build, Compile, CompileFails, PostInvoke
  <1>2. ~(PostInit(p) \/ Collect(p) \/ HashOut(p) \/ HashDep(p) \/ AddDuplicate(p))
    BY DEF PostInit, Collect, HashOut, HashDep, AddDuplicate
  <1>3. ~(AddLock(p) \/ AddCopy(p) \/ AddReplace(p) \/ AddFails(p) \/ PubRead(p))
    BY DEF AddLock, AddCopy, AddReplace, AddFails, PubRead
  <1>4. ~(PubWrite(p) \/ PostFlush(p) \/ PostStats(p) \/ FileGone(p) \/ Clean(p))
    BY DEF PubWrite, PostFlush, PostStats, FileGone, Clean
  <1>5. ~(LockManifests(p) \/ LockObjects(p) \/ LockStatistics(p))
    BY DEF LockManifests, LockObjects, LockStatistics
  <1>6. ~(WipeManifests(p) \/ WipeObjects(p) \/ Cleared(p))
    BY DEF WipeManifests, WipeObjects, Cleared
  <1> QED
    BY <1>1, <1>2, <1>3, <1>4, <1>5, <1>6 DEF Moves, Step

\* The compiler works from a report, or without one.
LEMMA OnlyReported ==
    ASSUME TypeOK, NEW p \in Proc, Moves(p), pc'[p] = "compile"
    PROVE  Report(p) \/ Compile(p) \/ GetVanished(p) \/ Crash(p)
  <1> USE DEF TypeOK, ControlType, Goto, Idle
  <1>1. CASE Build(p) \/ Command(p) \/ PreRead(p) \/ PreMatch(p) \/ Get(p) \/ GetMiss(p)
    BY <1>1 DEF Build, Command, PreRead, PreMatch, Get, GetMiss
  <1>2. CASE GetLock(p) \/ GetCopy(p) \/ CompileFails(p) \/ PostInvoke(p) \/ PostInit(p)
    BY <1>2 DEF GetLock, GetCopy, CompileFails, PostInvoke, PostInit
  <1>3. CASE Collect(p) \/ HashOut(p) \/ HashDep(p) \/ AddDuplicate(p) \/ AddLock(p)
    BY <1>3 DEF Collect, HashOut, HashDep, AddDuplicate, AddLock, AfterAdd
  <1>4. CASE AddCopy(p) \/ AddReplace(p) \/ AddFails(p) \/ PubRead(p) \/ PubWrite(p)
    BY <1>4 DEF AddCopy, AddReplace, AddFails, AfterAdd, PubRead, PubWrite
  <1>5. CASE PostFlush(p) \/ PostStats(p) \/ FileGone(p)
    BY <1>5 DEF PostFlush, PostStats, FileGone, Dies, PrePcs
  <1>6. CASE LockManifests(p) \/ LockObjects(p) \/ Clean(p) \/ LockStatistics(p)
    BY <1>6 DEF LockManifests, LockObjects, Clean, LockStatistics
  <1>7. CASE WipeManifests(p) \/ WipeObjects(p) \/ Cleared(p)
    BY <1>7 DEF WipeManifests, WipeObjects, Cleared
  <1> QED
    BY <1>1, <1>2, <1>3, <1>4, <1>5, <1>6, <1>7 DEF Moves, Step

\* The manifest that is searched, and the hit that it gives
LEMMA FoundRemembered ==
    ASSUME TypeOK, UniqueDeps, NEW p \in Proc, SeenRight(p), Remembered(p),
           pc[p] = "preMatch"
    PROVE  /\ \A h \in Found(p) : \A i \in DOMAIN manifest[h.unit] :
                  manifest[h.unit][i].dep = hdr => manifest[h.unit][i].out = h.out
           /\ unit[p] \notin {h.unit : h \in Found(p)} => ~Cached(unit[p])
  <1>0. /\ HeaderHash(p) = hdr
        /\ manifest[unit[p]] \in {man[p], << >>}
        /\ man[p] \in Seq(Entry)
        /\ unit[p] \in Unit
    BY DEF HeaderHash, SeenRight, Remembered, TypeOK, ControlType, DataType, SharedType
  <1>1. ASSUME hdr \in Deps(man[p]), NEW i \in DOMAIN manifest[unit[p]],
               manifest[unit[p]][i].dep = hdr
        PROVE  manifest[unit[p]][i] = man[p][FirstFor(man[p], hdr)]
    <2>1. manifest[unit[p]] = man[p]
      BY <1>0, <1>1
    <2>2. /\ FirstFor(man[p], hdr) \in DOMAIN man[p]
          /\ man[p][FirstFor(man[p], hdr)].dep = hdr
      BY <1>0, <1>1, FirstForExists
    <2> QED BY <1>0, <1>1, <2>1, <2>2 DEF UniqueDeps
  <1>2. ASSUME hdr \notin Deps(man[p])
        PROVE  ~Cached(unit[p])
    BY <1>0, <1>2 DEF Cached, Deps
  <1>3. CASE hdr \in Deps(man[p])
    <2> DEFINE h0 == [unit |-> unit[p], dep |-> man[p][FirstFor(man[p], hdr)].dep,
                      out |-> man[p][FirstFor(man[p], hdr)].out]
    <2>1. Found(p) = hits[p] \cup {h0}
      BY <1>0, <1>3 DEF Found
    <2>2. \A i \in DOMAIN manifest[h0.unit] :
              manifest[h0.unit][i].dep = hdr => manifest[h0.unit][i].out = h0.out
      BY <1>1, <1>3
    <2>3. \A h \in hits[p] : \A i \in DOMAIN manifest[h.unit] :
              manifest[h.unit][i].dep = hdr => manifest[h.unit][i].out = h.out
      BY DEF Remembered, PrePcs
    <2>4. h0.unit = unit[p]
      OBVIOUS
    <2> HIDE DEF h0
    <2> QED BY <2>1, <2>2, <2>3, <2>4
  <1>4. CASE hdr \notin Deps(man[p])
    <2>1. Found(p) = hits[p]
      BY <1>0, <1>4 DEF Found
    <2> QED BY <1>2, <1>4, <2>1 DEF Remembered, PrePcs
  <1> QED BY <1>3, <1>4

\* What p has read stays right while p itself moves.
LEMMA RememberedOwn ==
    ASSUME MissInv, NEW p \in Proc, Moves(p)
    PROVE  Remembered(p)'
  <1>0. /\ SoundInv /\ ManifestInv /\ TypeOK /\ UniqueDeps /\ Owns(p) /\ SeenRight(p)
        /\ Remembered(p)
    BY DEF MissInv, SoundInv, OwnInv, ManifestInv, TypeInv, Sound
  <1>1. ASSUME pc'[p] = "preMatch" PROVE manifest'[unit'[p]] = man'[p]
    <2>1. PreRead(p)
      BY <1>0, <1>1, OnlyPreRead
    <2> QED BY <1>0, <2>1 DEF PreRead, TypeOK, ControlType, DataType, shared
  <1>2. ASSUME pc'[p] \in PrePcs, NEW h \in hits'[p], NEW i \in DOMAIN manifest'[h.unit],
               manifest'[h.unit][i].dep = hdr'
        PROVE  manifest'[h.unit][i].out = h.out
    <2>1. CASE PreMatch(p) /\ hits'[p] = Found(p)
      <3>1. manifest' = manifest /\ hdr' = hdr /\ pc[p] = "preMatch"
        BY <2>1 DEF PreMatch, shared
      <3> QED BY <1>0, <1>2, <2>1, <3>1, FoundRemembered
    <2>2. CASE hits'[p] \subseteq hits[p]
      <3>1. CASE Build(p)
        <4>1. hits[p] = {}
          BY <1>0, <3>1 DEF Build, Owns
        <4> QED BY <1>2, <2>2, <4>1
      <3>2. CASE ~Build(p)
        <4>1. pc[p] \in PrePcs
          BY <1>0, <1>2, <3>2, PreFromPre
        <4>2. pc[p] \notin WorkPcs
          BY <4>1 DEF PrePcs, WorkPcs
        <4>3. h \in hits[p] /\ h.unit \in Unit
          BY <1>0, <2>2 DEF TypeOK, DataType, Hit
        <4>4. hdr' = hdr /\ manifest'[h.unit] \in {manifest[h.unit], << >>}
          BY <1>0, <4>2, <4>3, OwnerAdds
        <4> QED BY <1>0, <1>2, <4>1, <4>3, <4>4 DEF Remembered
      <3> QED BY <3>1, <3>2
    <2> QED BY <1>0, <2>1, <2>2, HitsStep
  <1> QED BY <1>1, <1>2 DEF Remembered

\* A hit is given up when one of its objects is missing.
LEMMA MissedStays ==
    ASSUME TypeOK, NEW p \in Proc, Retrieved(p), Remembered(p), GetMiss(p)
    PROVE  ~Cached(unit[p])
  <1>1. /\ pc[p] = "getLock" /\ slot[p] \in Slots /\ store[out[p][slot[p]]] = None
    BY DEF GetMiss, hasEntry, key, TypeOK, ControlType
  <1>2. PICK h \in hits[p] : h.unit = unit[p] /\ h.out = out[p]
    BY <1>1 DEF Retrieved
  <1>3. \A i \in DOMAIN manifest[unit[p]] :
            manifest[unit[p]][i].dep = hdr => manifest[unit[p]][i].out = out[p]
    BY <1>1, <1>2 DEF Remembered, PrePcs
  <1> QED BY <1>1, <1>3 DEF Cached, Backed, HasObject

\* What p has found missing stays so while p itself moves.
LEMMA MissingOwn ==
    ASSUME MissInv, NEW p \in Proc, Moves(p)
    PROVE  Missing(p)'
  <1>0. /\ SoundInv /\ ManifestInv /\ TypeOK /\ UniqueDeps /\ Owns(p) /\ SeenRight(p)
        /\ Retrieved(p) /\ Remembered(p) /\ Missing(p)
    BY DEF MissInv, SoundInv, OwnInv, ManifestInv, TypeInv, Sound
  <1>1. job[p] \subseteq Unit
    BY <1>0 DEF TypeOK, ControlType
  <1>2. faults' = 0 => faults = 0
    BY <1>0, FaultsGrow
  <1>3. ASSUME pc[p] \notin WorkPcs
        PROVE  \A u \in job[p] : ~Cached(u) => ~Cached(u)'
    BY <1>0, <1>1, <1>3, StaysMissing
  <1>4. ASSUME pc[p] \in PrePcs \cup {"compile"}
        PROVE  \A u \in job[p] : ~Cached(u) => ~Cached(u)'
    BY <1>3, <1>4 DEF PrePcs, WorkPcs
  <1> USE DEF TypeOK, ControlType, DataType, Goto, PrePcs
  <1>5. CASE pc'[p] \notin PrePcs \cup {"compile"}
    BY <1>5 DEF Missing
  <1>6. CASE Build(p)
    <2>1. pc'[p] = "preRead" /\ job'[p] = todo'[p]
      BY <1>0, <1>6 DEF Build
    <2> QED BY <2>1 DEF Missing
  <1>7. CASE PreRead(p)
    <2>1. PICK u \in todo[p] : /\ unit'[p] = u
                               /\ todo'[p] = todo[p] \ {u}
      BY <1>0, <1>7 DEF PreRead
    <2>2. /\ pc[p] = "preRead" /\ pc'[p] = "preMatch" /\ job' = job
          /\ HitUnits(p)' = HitUnits(p)
      BY <1>0, <1>7 DEF PreRead, HitUnits
    <2> QED BY <1>0, <1>2, <1>4, <2>1, <2>2 DEF Missing
  <1>8. CASE PreMatch(p)
    <2>1. /\ pc[p] = "preMatch" /\ job' = job /\ hits'[p] = Found(p)
          /\ \/ pc'[p] = "get" /\ todo[p] = {}
             \/ pc'[p] = "preRead" /\ todo' = todo
      BY <1>0, <1>8 DEF PreMatch, Found
    <2>2. HitUnits(p) \subseteq HitUnits(p)' /\ HitUnits(p)' = {h.unit : h \in Found(p)}
      BY <2>1 DEF HitUnits, Found
    <2>3. unit[p] \notin HitUnits(p)' => ~Cached(unit[p])
      BY <1>0, <2>1, <2>2, FoundRemembered
    <2>4. faults = 0 => \A u \in job[p] \ (todo[p] \cup HitUnits(p)') : ~Cached(u)
      BY <1>0, <2>1, <2>2, <2>3 DEF Missing
    <2> QED BY <1>2, <1>4, <2>1, <2>4 DEF Missing
  <1>9. CASE Get(p) \/ GetLock(p) \/ GetCopy(p)
    <2>1. /\ pc[p] \in {"get", "getLock", "getCopy"}
          /\ pc'[p] \in {"get", "getLock", "getCopy"} /\ job' = job
          /\ HitUnits(p)' = HitUnits(p)
      BY <1>0, <1>9 DEF Get, GetLock, GetCopy, HitUnits
    <2> QED BY <1>0, <1>2, <1>4, <2>1 DEF Missing
  <1>10. CASE GetMiss(p)
    <2>1. /\ pc[p] = "getLock" /\ pc'[p] = "get" /\ job' = job
          /\ hits'[p] = {h \in hits[p] : h.unit # unit[p]}
      BY <1>0, <1>10 DEF GetMiss
    <2>2. HitUnits(p) \ {unit[p]} \subseteq HitUnits(p)'
      BY <2>1 DEF HitUnits
    <2>3. ~Cached(unit[p])
      BY <1>0, <1>10, MissedStays
    <2> QED BY <1>0, <1>2, <1>4, <2>1, <2>2, <2>3 DEF Missing
  <1>11. CASE Report(p)
    <2>1. /\ pc[p] = "get" /\ pc'[p] = "compile" /\ job' = job
          /\ todo'[p] = job[p] \ HitUnits(p)
      BY <1>0, <1>11 DEF Report, HitUnits
    <2> QED BY <1>0, <1>2, <1>4, <2>1 DEF Missing
  <1>12. CASE Compile(p)
    <2>1. pc[p] = "compile" /\ pc' = pc /\ todo'[p] \subseteq todo[p]
      BY <1>0, <1>12 DEF Compile
    <2> QED BY <1>0, <1>2, <1>4, <2>1 DEF Missing, Owns
  <1>13. CASE GetVanished(p) \/ Crash(p)
    <2>1. faults' # 0
      BY <1>0, <1>13, FaultsGrow
    <2> QED BY <2>1 DEF Missing
  <1>14. CASE pc'[p] \in PrePcs
    <2>1. Build(p) \/ pc[p] \in PrePcs
      BY <1>0, <1>14, PreFromPre
    <2>2. CASE pc[p] \in PrePcs
      <3>1. \/ PreRead(p) \/ PreMatch(p) \/ Get(p) \/ GetMiss(p) \/ GetLock(p)
            \/ GetCopy(p) \/ GetVanished(p) \/ Report(p) \/ Crash(p)
        BY <1>0, <2>2, FromPre
      <3> QED BY <3>1, <1>7, <1>8, <1>9, <1>10, <1>11, <1>13
    <2> QED BY <1>6, <2>1, <2>2
  <1>15. CASE pc'[p] = "compile"
    <2>1. Report(p) \/ Compile(p) \/ GetVanished(p) \/ Crash(p)
      BY <1>0, <1>15, OnlyReported
    <2> QED BY <1>11, <1>12, <1>13, <2>1
  <1> QED BY <1>5, <1>14, <1>15

\* Every step of the system keeps the misses real.
LEMMA MissStep ==
    ASSUME Exclusive PROVE MissInv /\ [Next]_vars => MissInv'
  <1> SUFFICES ASSUME MissInv, [Next]_vars PROVE MissInv'
    OBVIOUS
  <1>0. SoundInv' /\ ManifestInv' /\ TypeOK
    BY SoundStep, ManifestStep DEF MissInv, ManifestInv, TypeInv
  <1>1. ASSUME NEW p \in Proc, Moves(p)
        PROVE  MissInv'
    <2>1. \A q \in Proc : Remembered(q)' /\ Missing(q)'
      BY <1>1, MissingOther, RememberedOwn, MissingOwn DEF Exclusive
    <2> QED BY <1>0, <2>1 DEF MissInv
  <1>2. CASE EditHeader
    <2>1. \A p \in Proc : pc'[p] = "idle"
      BY <1>2 DEF EditHeader, Exclusive, local
    <2> QED BY <1>0, <2>1 DEF MissInv, Remembered, Missing, PrePcs
  <1>3. CASE UNCHANGED vars
    <2>1. UNCHANGED <<pc, unit, man, job, todo, hits, manifest, store, hdr, faults>>
      BY <1>3 DEF vars, local, shared, bounds
    <2>2. ASSUME NEW p \in Proc PROVE Remembered(p)' /\ Missing(p)'
      <3>1. Remembered(p) /\ Missing(p)
        BY DEF MissInv
      <3>2. \A u : Cached(u)' <=> Cached(u)
        BY <2>1 DEF Cached, Backed, HasObject
      <3>3. HitUnits(p)' = HitUnits(p)
        BY <2>1 DEF HitUnits
      <3> QED BY <2>1, <3>1, <3>2, <3>3 DEF Remembered, Missing
    <2> QED BY <1>0, <2>2 DEF MissInv
  <1> QED BY <1>1, <1>2, <1>3 DEF Next, Moves

\* While the headers stay as they are and post-invoke is waited for, a build
\* compiles only what the cache does not have, unless a process died on the way
\* (MissesAreReal): whatever other builds add, remove or are looking for.
THEOREM MissesAreGenuine ==
    ASSUME Exclusive PROVE Spec => []MissesAreReal
  <1>1. Init => MissInv
    <2> SUFFICES ASSUME Init PROVE \A p \in Proc : MissInv
      BY ConstantsAssumption DEF MissInv
    <2>1. \A p \in Proc : pc[p] = "idle"
      BY DEF Init
    <2>2. UniqueDeps /\ Publishing
      BY DEF Init, UniqueDeps, Publishing
    <2> QED BY <2>1, <2>2, SoundInit, TypeInit
            DEF MissInv, ManifestInv, Remembered, Missing, PrePcs
  <1>2. MissInv /\ [Next]_vars => MissInv'
    BY MissStep
  <1>3. MissInv => MissesAreReal
    BY DEF MissInv, Missing, MissesAreReal
  <1> QED BY <1>1, <1>2, <1>3, PTL DEF Spec

-----------------------------------------------------------------------------
(* The statistics.  An object is added once, and the process that added it *)
(* counts it when it ends; it ends before that only by a fault, because    *)
(* the files that it stores are there if no compilation has deleted them.  *)

\* The steps in which a process has added objects that it has yet to count
CountPcs == WorkPcs \cup {"post", "postStats"}

Complete(u) == \A i \in Slots : file[u][i] # None

Counting(p) ==
    /\ pc[p] \notin CountPcs => cnt[p] = 0
    /\ pc[p] = "addReplace" => tmp[p] # None

\* What p has compiled and has yet to store is there.
Kept(p) ==
    /\ pc[p] = "compile" => \A u \in job[p] \ (HitUnits(p) \cup todo[p]) : Complete(u)
    /\ pc[p] \in {"idle"} \cup PostPcs \cup AllPcs =>
           \A u \in Outstanding(p) : Complete(u)

Counted ==
    /\ IsFiniteSet(Stored) /\ IsFiniteSet(Uncounted)
    /\ ObjectsAreCounted

CountInv ==
    /\ TypeInv /\ NoWipe /\ Counted
    /\ \A p \in Proc : Counting(p)
    /\ faults = 0 => \A p \in Proc : Kept(p)

\* What a step does to the counters
LEMMA CountersStep ==
    ASSUME NEW p \in Proc, Moves(p), pc[p] \notin WipePcs
    PROVE  \/ AddReplace(p)
           \/ PostStats(p)
           \/ UNCHANGED <<cnt, cacheEntries>>
           \/ /\ Fresh(p) /\ cacheEntries' = cacheEntries
              /\ pc[p] \notin CountPcs \/ FileGone(p) \/ Crash(p)
  <1>1. ASSUME \/ Build(p) \/ Command(p) \/ PreRead(p) \/ PreMatch(p) \/ Get(p)
               \/ GetMiss(p) \/ GetLock(p) \/ GetCopy(p)
               \/ Compile(p) \/ PostInit(p) \/ Collect(p) \/ HashOut(p)
               \/ HashDep(p) \/ AddDuplicate(p) \/ AddLock(p) \/ AddCopy(p)
               \/ AddFails(p) \/ PubRead(p) \/ PubWrite(p) \/ PostFlush(p)
               \/ LockManifests(p) \/ LockObjects(p) \/ Clean(p)
        PROVE  UNCHANGED <<cnt, cacheEntries>>
    BY <1>1 DEF shared, Build, Command, PreRead, PreMatch, Get, GetMiss, GetLock, GetCopy,
       Compile, PostInit, Collect, HashOut, HashDep, AddDuplicate, AddLock, AddCopy,
       AddFails, PubRead, PubWrite, PostFlush, LockManifests, LockObjects, Clean
  <1>2. CASE Report(p) \/ PostInvoke(p) \/ CompileFails(p) \/ GetVanished(p)
    BY <1>2 DEF Report, PostInvoke, CompileFails, GetVanished, Dies, shared, CountPcs,
       WorkPcs
  <1>3. CASE FileGone(p) \/ Crash(p)
    BY <1>3 DEF FileGone, Crash, Dies, shared
  <1>4. CASE LockStatistics(p) \/ WipeManifests(p) \/ WipeObjects(p) \/ Cleared(p)
    BY <1>4 DEF LockStatistics, WipeManifests, WipeObjects, Cleared, WipePcs
  <1> QED
    BY <1>1, <1>2, <1>3, <1>4 DEF Moves, Step

\* The pairs of one process
LEMMA PairsOf ==
    ASSUME NEW p, NEW n \in Nat
    PROVE  /\ IsFiniteSet({p} \X (1..n))
           /\ Cardinality({p} \X (1..n)) = n
  <1>1. IsFiniteSet(1..n) /\ Cardinality(1..n) = n
    BY FS_Interval
  <1>2. IsFiniteSet({p}) /\ Cardinality({p}) = 1
    BY FS_Singleton
  <1>3. /\ IsFiniteSet({p} \X (1..n))
        /\ Cardinality({p} \X (1..n)) = Cardinality({p}) * Cardinality(1..n)
    BY <1>1, <1>2, FS_Product
  <1> QED BY <1>1, <1>2, <1>3

\* One addition more
LEMMA UncountedGrows ==
    ASSUME cnt \in [Proc -> Nat], NEW p \in Proc, IsFiniteSet(Uncounted),
           cnt' = [cnt EXCEPT ![p] = @ + 1]
    PROVE  /\ IsFiniteSet(Uncounted')
           /\ Cardinality(Uncounted') = Cardinality(Uncounted) + 1
  <1> DEFINE x == <<p, cnt[p] + 1>>
  <1>1. x \notin Uncounted
    BY DEF Uncounted
  <1>2. Uncounted' = Uncounted \cup {x}
    <2>1. \A q \in Proc \ {p} : cnt'[q] = cnt[q]
      OBVIOUS
    <2>2. 1..cnt'[p] = (1..cnt[p]) \cup {cnt[p] + 1}
      OBVIOUS
    <2>3. ASSUME NEW y PROVE y \in Uncounted' <=> y \in Uncounted \cup {x}
      <3>1. y \in Uncounted' <=> \E q \in Proc : y \in {q} \X (1..cnt'[q])
        BY DEF Uncounted
      <3>2. y \in Uncounted <=> \E q \in Proc : y \in {q} \X (1..cnt[q])
        BY DEF Uncounted
      <3>3. y \in {p} \X (1..cnt'[p]) <=> y \in {p} \X (1..cnt[p]) \/ y = x
        BY <2>2
      <3> QED BY <2>1, <3>1, <3>2, <3>3
    <2> QED BY <2>3
  <1> QED BY <1>1, <1>2, FS_AddElement

\* A process is over, with what it has counted.
LEMMA UncountedEnds ==
    ASSUME cnt \in [Proc -> Nat], NEW p \in Proc, IsFiniteSet(Uncounted),
           cnt' = [cnt EXCEPT ![p] = 0]
    PROVE  /\ IsFiniteSet(Uncounted')
           /\ Cardinality(Uncounted') = Cardinality(Uncounted) - cnt[p]
  <1> DEFINE D == {p} \X (1..cnt[p])
  <1>1. Uncounted' = Uncounted \ D
    <2>1. \A q \in Proc \ {p} : cnt'[q] = cnt[q]
      OBVIOUS
    <2>2. 1..cnt'[p] = {}
      OBVIOUS
    <2>3. ASSUME NEW y PROVE y \in Uncounted' <=> y \in Uncounted \ D
      <3>1. y \in Uncounted' <=> \E q \in Proc : y \in {q} \X (1..cnt'[q])
        BY DEF Uncounted
      <3>2. y \in Uncounted <=> \E q \in Proc : y \in {q} \X (1..cnt[q])
        BY DEF Uncounted
      <3>3. \A q \in Proc : y \in {q} \X (1..cnt[q]) /\ y \in D => q = p
        OBVIOUS
      <3>4. ~ (y \in {p} \X (1..cnt'[p]))
        BY <2>2
      <3> QED BY <2>1, <3>1, <3>2, <3>3, <3>4
    <2> QED BY <2>3
  <1>2. Uncounted \cap D = D
    BY DEF Uncounted
  <1>3. Cardinality(D) = cnt[p]
    BY PairsOf
  <1> HIDE DEF D
  <1>4. /\ IsFiniteSet(Uncounted \ D)
        /\ Cardinality(Uncounted \ D) = Cardinality(Uncounted) - Cardinality(Uncounted \cap D)
    BY FS_Difference
  <1> QED BY <1>1, <1>2, <1>3, <1>4

\* One object more
LEMMA StoredGrows ==
    ASSUME TypeOK, NEW p \in Proc, AddReplace(p), tmp[p] # None, IsFiniteSet(Stored)
    PROVE  /\ IsFiniteSet(Stored')
           /\ Cardinality(Stored') = Cardinality(Stored) + 1
  <1>1. key(p) \in Key
    BY DEF TypeOK, ControlType, DataType, key
  <1>2. store[key(p)] = None /\ store' = [store EXCEPT ![key(p)] = tmp[p]]
    BY DEF AddReplace, hasEntry
  <1>3. Stored' = Stored \cup {key(p)} /\ key(p) \notin Stored
    BY <1>1, <1>2 DEF Stored, hasEntry, TypeOK, SharedType
  <1> QED BY <1>3, FS_AddElement

\* No file goes without a fault.
LEMMA CompleteKept ==
    ASSUME TypeOK, NEW p \in Proc, Moves(p), faults' = 0, NEW u \in Unit, Complete(u)
    PROVE  Complete(u)'
  <1> USE DEF TypeOK, SharedType, ControlType, DataType, Complete
  <1>0. ~Crash(p) /\ ~GetVanished(p)
    BY FaultsGrow
  <1>1. ASSUME \/ Build(p) \/ Command(p) \/ PreRead(p) \/ PreMatch(p)
               \/ Get(p) \/ GetMiss(p) \/ GetLock(p) \/ FileGone(p) \/ Report(p)
               \/ PostInvoke(p) \/ PostInit(p) \/ PostFlush(p)
               \/ Collect(p) \/ HashOut(p) \/ HashDep(p) \/ AddDuplicate(p)
               \/ AddLock(p) \/ AddCopy(p) \/ AddReplace(p) \/ AddFails(p)
               \/ PubRead(p) \/ PubWrite(p) \/ PostStats(p)
               \/ LockManifests(p) \/ LockObjects(p) \/ Clean(p)
               \/ LockStatistics(p) \/ WipeManifests(p) \/ WipeObjects(p) \/ Cleared(p)
        PROVE  file' = file
    BY <1>1 DEF shared, Build, Command, PreRead, PreMatch, Get, GetMiss, GetLock,
       FileGone, Report, PostInvoke, PostInit, PostFlush, Collect, HashOut, HashDep,
       AddDuplicate, AddLock, AddCopy, AddReplace, AddFails, PubRead, PubWrite,
       PostStats, LockManifests, LockObjects, Clean, LockStatistics, WipeManifests,
       WipeObjects, Cleared
  <1>2. CASE GetCopy(p)
    <2>1. CASE file' = file
      BY <2>1
    <2>2. CASE /\ store[key(p)] # None
               /\ file' = [file EXCEPT ![unit[p]][slot[p]] = store[key(p)]]
      BY <2>2
    <2> QED BY <1>2, <2>1, <2>2 DEF GetCopy, HasObject
  <1>3. CASE Compile(p)
    <2>1. PICK w \in todo[p], s \in Stamp :
            /\ file' = [file EXCEPT ![w] =
                       [i \in Slots |-> <<[unit |-> w, dep |-> hdr, stamp |-> s], i>>]]
            /\ todo' = [todo EXCEPT ![p] = @ \ {w}]
      BY ONLY <1>3 DEF Compile
    <2>2. \A i \in Slots : <<[unit |-> w, dep |-> hdr, stamp |-> s], i>> \in Key
      BY DEF Key, Artifact
    <2> QED BY <2>1, <2>2, ConstantsAssumption
  <1>4. CASE CompileFails(p)
    <2>1. faults' # faults + 1
      BY DEF LockType
    <2> QED BY <1>4, <2>1 DEF CompileFails
  <1> QED
    BY <1>0, <1>1, <1>2, <1>3, <1>4 DEF Moves, Step

\* What the steps of p make of Counting
LEMMA CountingOwn ==
    ASSUME TypeOK, NoWipe, NEW p \in Proc, Counting(p), Moves(p)
    PROVE  Counting(p)'
  <1> USE DEF TypeOK, ControlType, DataType, Goto, Idle, Counting, CountPcs, WorkPcs
  <1>1. CASE Build(p) \/ Command(p) \/ PreRead(p) \/ PreMatch(p) \/ Get(p) \/ GetMiss(p)
    BY <1>1 DEF Build, Command, PreRead, PreMatch, Get, GetMiss
  <1>2. CASE GetLock(p) \/ GetCopy(p) \/ Report(p) \/ Compile(p) \/ CompileFails(p)
    BY <1>2 DEF GetLock, GetCopy, Report, Compile, CompileFails, Fresh
  <1>3. CASE PostInvoke(p) \/ PostInit(p) \/ Collect(p) \/ HashOut(p) \/ HashDep(p)
    BY <1>3 DEF PostInvoke, PostInit, Collect, HashOut, HashDep, Fresh
  <1>4. CASE AddDuplicate(p) \/ AddLock(p) \/ AddReplace(p) \/ AddFails(p)
    BY <1>4 DEF AddDuplicate, AddLock, AddReplace, AddFails, AfterAdd
  <1>5. CASE AddCopy(p)
    BY <1>5 DEF AddCopy
  <1>6. CASE PubRead(p) \/ PubWrite(p) \/ PostFlush(p) \/ PostStats(p)
    BY <1>6 DEF PubRead, PubWrite, PostFlush, PostStats, Fresh
  <1>7. CASE LockManifests(p) \/ LockObjects(p) \/ Clean(p) \/ LockStatistics(p)
    BY <1>7 DEF LockManifests, LockObjects, Clean, LockStatistics
  <1>8. CASE WipeManifests(p) \/ WipeObjects(p) \/ Cleared(p)
    BY <1>8 DEF WipeManifests, WipeObjects, Cleared, NoWipe, WipePcs
  <1>9. CASE GetVanished(p) \/ FileGone(p) \/ Crash(p)
    BY <1>9 DEF GetVanished, FileGone, Crash, Dies, Fresh
  <1> QED
    BY <1>1, <1>2, <1>3, <1>4, <1>5, <1>6, <1>7, <1>8, <1>9 DEF Moves, Step

\* What the steps of p make of what it has yet to store
LEMMA KeptOwn ==
    ASSUME TypeOK, NoWipe, NEW p \in Proc, Kept(p), Moves(p), faults' = 0
    PROVE  Kept(p)'
  <1> USE DEF TypeOK, ControlType, DataType, Goto, Idle, PostPcs, AllPcs, WorkPcs
  <1>0. \A u \in Unit : Complete(u) => Complete(u)'
    BY CompleteKept
  <1>1. Outstanding(p) \subseteq Unit /\ job[p] \subseteq Unit
    BY DEF Outstanding
  <1>2. ASSUME pc[p] \in {"idle"} \cup PostPcs \cup AllPcs, pc'[p] # "compile",
               Outstanding(p)' \subseteq Outstanding(p)
        PROVE  Kept(p)'
    BY <1>0, <1>1, <1>2 DEF Kept
  <1>3. ASSUME pc'[p] \notin {"idle", "compile"} \cup PostPcs \cup AllPcs
        PROVE  Kept(p)'
    BY <1>3 DEF Kept
  <1>4. ASSUME pc'[p] = "idle", todo'[p] = {} PROVE Kept(p)'
    BY <1>4 DEF Kept, Outstanding
  <1>5. CASE \/ Build(p) \/ PreRead(p) \/ PreMatch(p) \/ Get(p) \/ GetMiss(p)
             \/ GetLock(p) \/ GetCopy(p)
    BY <1>3, <1>5 DEF Build, PreRead, PreMatch, Get, GetMiss, GetLock, GetCopy
  <1>6. CASE Command(p) \/ LockManifests(p) \/ LockObjects(p) \/ Clean(p)
    <2>1. /\ pc[p] \in {"idle"} \cup AllPcs /\ todo'[p] = todo[p]
          /\ pc'[p] \in {"idle", "post"} \cup AllPcs \cup {"clearMan", "clearObj", "clearStat"}
      BY <1>6 DEF Command, LockManifests, LockObjects, Clean, NoWipe, WipePcs
    <2> QED BY <1>2, <2>1 DEF Outstanding
  <1>7. CASE Report(p)
    <2>1. pc'[p] = "compile" /\ HitUnits(p)' = HitUnits(p) /\ job' = job
          /\ todo'[p] = job[p] \ HitUnits(p)
      BY <1>7 DEF Report, HitUnits
    <2> QED BY <2>1 DEF Kept
  <1>8. CASE Compile(p)
    <2>1. PICK w \in todo[p], s \in Stamp :
            /\ file' = [file EXCEPT ![w] =
                       [i \in Slots |-> <<[unit |-> w, dep |-> hdr, stamp |-> s], i>>]]
            /\ todo' = [todo EXCEPT ![p] = @ \ {w}]
      BY <1>8 DEF Compile
    <2>2. \A i \in Slots : <<[unit |-> w, dep |-> hdr, stamp |-> s], i>> \in Key
      BY DEF Key, Artifact, SharedType
    <2>3. Complete(w)'
      BY <2>1, <2>2, ConstantsAssumption DEF Complete, SharedType
    <2>4. /\ pc'[p] = "compile" /\ pc[p] = "compile" /\ job' = job
          /\ HitUnits(p)' = HitUnits(p)
      BY <1>8 DEF Compile, HitUnits
    <2> QED BY <1>0, <1>1, <2>1, <2>3, <2>4 DEF Kept
  <1>9. CASE CompileFails(p) \/ PostStats(p) \/ FileGone(p)
    <2>1. pc'[p] = "idle" /\ todo'[p] = {}
      BY <1>9 DEF CompileFails, PostStats, FileGone, Dies, PrePcs
    <2> QED BY <1>4, <2>1
  <1>10. CASE PostInvoke(p)
    <2>1. CASE pc'[p] = "idle" /\ todo'[p] = {}
      BY <1>4, <2>1
    <2>2. CASE pc'[p] = "postInit" /\ todo'[p] = job[p] \ HitUnits(p)
      <3>1. \A u \in job[p] \ HitUnits(p) : Complete(u)
        BY <1>10 DEF PostInvoke, Kept
      <3> QED BY <1>0, <1>1, <2>2, <3>1 DEF Kept, Outstanding
    <2> QED BY <1>10, <2>1, <2>2 DEF PostInvoke, HitUnits
  <1>11. CASE \/ PostInit(p) \/ Collect(p) \/ HashOut(p) \/ HashDep(p)
    BY <1>2, <1>11 DEF PostInit, Collect, HashOut, HashDep, Outstanding
  <1>12. CASE \/ AddDuplicate(p) \/ AddLock(p) \/ AddCopy(p) \/ AddReplace(p)
             \/ AddFails(p)
    BY <1>2, <1>12 DEF AddDuplicate, AddLock, AddCopy, AddReplace, AddFails, AfterAdd,
       Outstanding
  <1>13. CASE PubRead(p) \/ PubWrite(p) \/ PostFlush(p)
    BY <1>2, <1>13 DEF PubRead, PubWrite, PostFlush, Outstanding
  <1>14. CASE LockStatistics(p) \/ WipeManifests(p) \/ WipeObjects(p) \/ Cleared(p)
    BY <1>14 DEF LockStatistics, WipeManifests, WipeObjects, Cleared, NoWipe, WipePcs
  <1>15. ~Crash(p) /\ ~GetVanished(p)
    BY FaultsGrow
  <1> QED
    BY <1>5, <1>6, <1>7, <1>8, <1>9, <1>10, <1>11, <1>12, <1>13, <1>14, <1>15
       DEF Moves, Step

\* Every step keeps the counts.
LEMMA CountedStep ==
    ASSUME CountInv, NEW p \in Proc, Moves(p)
    PROVE  Counted'
  <1>0. /\ TypeOK /\ pc[p] \notin WipePcs /\ Counting(p)
        /\ cnt \in [Proc -> Nat] /\ cacheEntries \in Nat /\ faults \in Nat
    BY DEF CountInv, TypeInv, NoWipe, TypeOK, SharedType, LockType, DataType, ControlType
  <1>1. IsFiniteSet(Stored) /\ IsFiniteSet(Uncounted)
    BY DEF CountInv, Counted
  <1>2. Cardinality(Stored) \in Nat /\ Cardinality(Uncounted) \in Nat
    BY <1>1, FS_CardinalityType
  <1>3. /\ cacheEntries + Cardinality(Uncounted) <= Cardinality(Stored)
        /\ faults = 0 => cacheEntries + Cardinality(Uncounted) = Cardinality(Stored)
    BY DEF CountInv, Counted, ObjectsAreCounted
  <1>4. faults' = 0 => faults = 0
    BY <1>0, FaultsGrow
  <1>5. AddReplace(p) \/ Stored' = Stored
    <2>1. AddReplace(p) \/ store' = store
      BY <1>0, StoreKept DEF WipePcs
    <2> QED BY <2>1 DEF Stored, hasEntry
  <1>6. CASE AddReplace(p)
    <2>1. /\ cnt' = [cnt EXCEPT ![p] = @ + 1] /\ cacheEntries' = cacheEntries
          /\ tmp[p] # None /\ faults' = faults
      BY <1>0, <1>6 DEF AddReplace, Counting, bounds
    <2>2. IsFiniteSet(Stored') /\ Cardinality(Stored') = Cardinality(Stored) + 1
      BY <1>0, <1>1, <1>6, <2>1, StoredGrows
    <2>3. IsFiniteSet(Uncounted') /\ Cardinality(Uncounted') = Cardinality(Uncounted) + 1
      BY <1>0, <1>1, <2>1, UncountedGrows
    <2> QED BY <1>0, <1>2, <1>3, <2>1, <2>2, <2>3 DEF Counted, ObjectsAreCounted
  <1>7. CASE UNCHANGED <<cnt, cacheEntries>> /\ ~AddReplace(p)
    <2>1. Uncounted' = Uncounted
      BY <1>7 DEF Uncounted
    <2> QED BY <1>1, <1>3, <1>4, <1>5, <1>7, <2>1 DEF Counted, ObjectsAreCounted
  <1>8. ASSUME Fresh(p), ~AddReplace(p),
               cacheEntries' \in {cacheEntries, cacheEntries + cnt[p]},
               faults' = 0 => cacheEntries' = cacheEntries + cnt[p]
        PROVE  Counted'
    <2>1. cnt' = [cnt EXCEPT ![p] = 0] /\ cnt[p] \in Nat
      BY <1>0, <1>8 DEF Fresh
    <2>2. /\ IsFiniteSet(Uncounted')
          /\ Cardinality(Uncounted') = Cardinality(Uncounted) - cnt[p]
      BY <1>0, <1>1, <2>1, UncountedEnds
    <2>3. cacheEntries' + Cardinality(Uncounted') <= Cardinality(Stored)
      BY <1>0, <1>2, <1>3, <1>8, <2>1, <2>2
    <2>4. faults' = 0 => cacheEntries' + Cardinality(Uncounted') = Cardinality(Stored)
      BY <1>0, <1>2, <1>3, <1>4, <1>8, <2>1, <2>2
    <2> QED BY <1>1, <1>5, <1>8, <2>2, <2>3, <2>4 DEF Counted, ObjectsAreCounted
  <1>9. CASE PostStats(p)
    <2>1. ~AddReplace(p)
      BY <1>9 DEF AddReplace, PostStats
    <2> QED BY <1>8, <1>9, <2>1 DEF PostStats
  <1>10. CASE /\ Fresh(p) /\ cacheEntries' = cacheEntries /\ ~AddReplace(p)
              /\ pc[p] \notin CountPcs \/ FileGone(p) \/ Crash(p)
    <2>1. CASE pc[p] \notin CountPcs
      BY <1>0, <1>8, <1>10, <2>1 DEF Counting
    <2>2. ASSUME FileGone(p), faults' = 0 PROVE FALSE
      <3>1. pc[p] \in {"hashOut", "addCopy"} /\ file[unit[p]][slot[p]] = None
        BY <2>2 DEF FileGone
      <3>2. Kept(p) /\ slot[p] \in Slots
        BY <1>0, <1>4, <2>2 DEF CountInv, TypeOK, ControlType
      <3> QED BY <3>1, <3>2 DEF Kept, Outstanding, Complete, WorkPcs, PostPcs
    <2>3. ASSUME Crash(p), faults' = 0 PROVE FALSE
      BY <1>0, <2>3, FaultsGrow
    <2> QED BY <1>8, <1>10, <2>1, <2>2, <2>3
  <1> QED
    BY <1>0, <1>6, <1>7, <1>9, <1>10, CountersStep

\* Every step keeps the invariant.
LEMMA CountStep ==
    ASSUME "clear" \notin Commands PROVE CountInv /\ [Next]_vars => CountInv'
  <1> SUFFICES ASSUME CountInv, [Next]_vars PROVE CountInv'
    OBVIOUS
  <1>0. TypeInv /\ TypeOK /\ NoWipe
    BY DEF CountInv, TypeInv
  <1>1. TypeInv'
    BY <1>0, TypeStep
  <1>2. CASE EditHeader \/ UNCHANGED vars
    <2>1. UNCHANGED <<file, store, cacheEntries, faults, pc, job, todo, hits, unit, cnt, tmp>>
      BY <1>2 DEF EditHeader, vars, shared, local, locks, bounds
    <2>2. Counted'
      BY <2>1 DEF CountInv, Counted, ObjectsAreCounted, Stored, hasEntry, Uncounted
    <2>3. NoWipe' /\ \A q \in Proc : Counting(q)'
      BY <2>1 DEF CountInv, NoWipe, Counting
    <2>4. \A q \in Proc : Kept(q) => Kept(q)'
      BY <2>1 DEF Kept, Outstanding, HitUnits, Complete
    <2> QED BY <1>1, <2>1, <2>2, <2>3, <2>4 DEF CountInv
  <1>3. ASSUME NEW p \in Proc, Moves(p) PROVE CountInv'
    <2>1. Counted'
      BY <1>3, CountedStep
    <2>2. \A q \in Proc \ {p} :
              /\ pc'[q] = pc[q] /\ job'[q] = job[q] /\ hits'[q] = hits[q]
              /\ todo'[q] = todo[q] /\ unit'[q] = unit[q] /\ tmp'[q] = tmp[q]
      BY <1>0, <1>3, OthersUnchanged DEF NoWipe, WipePcs
    <2>6. \A q \in Proc \ {p} : cnt'[q] = cnt[q]
      <3>1. pc[p] \notin WipePcs /\ cnt \in [Proc -> Nat]
        BY <1>0 DEF NoWipe, TypeOK, DataType, ControlType
      <3>2. AddReplace(p) \/ Fresh(p) \/ cnt' = cnt
        BY <1>3, <3>1, CountersStep DEF PostStats
      <3> QED BY <3>1, <3>2 DEF AddReplace, Fresh
    <2>3. NoWipe'
      BY <1>0, <1>3, <2>2, NoWipeStep DEF NoWipe
    <2>4. \A q \in Proc : Counting(q)'
      <3>1. Counting(p)'
        BY <1>0, <1>3, CountingOwn DEF CountInv
      <3> QED BY <2>2, <2>6, <3>1 DEF CountInv, Counting
    <2>5. ASSUME faults' = 0, NEW q \in Proc PROVE Kept(q)'
      <3>1. Kept(p) /\ Kept(q)
        BY <1>0, <1>3, <2>5, FaultsGrow DEF CountInv
      <3>2. CASE q = p
        BY <1>0, <1>3, <2>5, <3>1, <3>2, KeptOwn
      <3>3. CASE q # p
        <4>1. \A u \in Unit : Complete(u) => Complete(u)'
          BY <1>0, <1>3, <2>5, CompleteKept
        <4>2. Outstanding(q)' = Outstanding(q) /\ HitUnits(q)' = HitUnits(q)
          BY <2>2, <3>3 DEF Outstanding, HitUnits
        <4>3. Outstanding(q) \subseteq Unit /\ job[q] \subseteq Unit
          BY <1>0 DEF TypeOK, ControlType, Outstanding
        <4> QED BY <2>2, <3>1, <3>3, <4>1, <4>2, <4>3 DEF Kept
      <3> QED BY <3>2, <3>3
    <2> QED BY <1>1, <2>1, <2>3, <2>4, <2>5 DEF CountInv
  <1> QED BY <1>2, <1>3 DEF Next, Moves

\* CacheEntries and the counters of the processes at work never count an object
\* twice and, as long as there was no fault, count every object (add_object,
\* updateStats), if the cache is not cleared.
THEOREM CountsAreRight ==
    ASSUME "clear" \notin Commands PROVE Spec => []ObjectsAreCounted
  <1>1. Init => CountInv
    <2> SUFFICES ASSUME Init PROVE CountInv
      OBVIOUS
    <2>1. Stored = {} /\ Uncounted = {}
      BY DEF Init, Stored, hasEntry, Uncounted
    <2>2. Counted
      BY <2>1, FS_EmptySet DEF Init, Counted, ObjectsAreCounted
    <2>3. \A p \in Proc : Counting(p) /\ Kept(p) /\ pc[p] \notin WipePcs
      BY DEF Init, Counting, Kept, Outstanding, WorkPcs, WipePcs
    <2> QED BY <2>2, <2>3, TypeInit DEF CountInv, NoWipe
  <1>2. CountInv /\ [Next]_vars => CountInv'
    BY CountStep
  <1>3. CountInv => ObjectsAreCounted
    BY DEF CountInv, Counted
  <1> QED
    BY <1>1, <1>2, <1>3, PTL DEF Spec
=============================================================================
