----------------------------- MODULE LocalCache -----------------------------
(***************************************************************************)
(* The cache directory of one machine (CacheFileStrategy) and the          *)
(* aclcache.py processes that share it.                                    *)
(*                                                                         *)
(* A member of Proc is the chain of processes that serves one MSBuild      *)
(* project build: the pre-invoke process that looks the sources up, the    *)
(* compiler run on the misses, and the post-invoke process that stores     *)
(* what was compiled.  A member of Proc can also be a --clear or a --clean *)
(* command.  All of them work on the same source tree, on the same cache   *)
(* directory and under the same named mutexes, one for each directory that *)
(* groups manifests, one for each directory that groups objects, and one   *)
(* for the statistics.                                                     *)
(*                                                                         *)
(* Files are represented by what was compiled into them, and a hash of a   *)
(* file by the file's content: two contents have the same hash only if     *)
(* they are equal.                                                         *)
(*                                                                         *)
(* The projects have no precompiled headers (PchProject has them), objects *)
(* are copied and not hard-linked, and ACLCACHE_MODE has the flag 2, with  *)
(* which a file's hash is kept in its alternate data stream.               *)
(***************************************************************************)
EXTENDS Naturals, FiniteSets, Sequences

CONSTANTS
    Proc,        \* project builds and administration commands
    Unit,        \* translation units, each with its own manifest hash
    Version,     \* contents of the headers the units depend on
    Stamp,       \* what tells two compilations of the same inputs apart
    NSlots,      \* number of files a compilation writes
    Section,     \* directories below manifests\ and below objects\
    OldSections, \* those that other units have made before
    ManSection,  \* the section of a unit's manifest
    ObjSection,  \* the section of an object
    None,        \* no version, no content, no owner
    Husk,        \* an entry's directory from which the object has been removed
    Async,       \* is the post-invoke process left running in the background?
    EditAnytime, \* may headers change while a process is at work?
    MaxSize,     \* the configured maximum cache size, in objects
    MaxRuns,     \* bound: builds and commands started
    Commands,    \* the administration commands that are used
    FaultKinds,  \* the faults that happen
    MaxFaults    \* bound: number of faults

Slots    == 1..NSlots
Artifact == [unit : Unit, dep : Version, stamp : Stamp]
Key      == Artifact \X Slots
Entry    == [dep : Version, out : [Slots -> Key]]

ASSUME ConstantsAssumption ==
    /\ NSlots \in Nat \ {0}
    /\ Commands \subseteq {"clear", "clean"}
    /\ FaultKinds \subseteq {"crash", "rename", "delete"}
    /\ MaxSize \in Nat /\ MaxRuns \in Nat /\ MaxFaults \in Nat
    /\ Async \in BOOLEAN /\ EditAnytime \in BOOLEAN
    /\ Proc # {} /\ Unit # {} /\ Version # {} /\ Stamp # {}
    /\ None \notin Proc \cup Version \cup Key
    /\ Husk \notin Key \cup {None}

ASSUME DirectoryAssumption == Section \subseteq Nat /\ OldSections \subseteq Section

ASSUME SectionAssumption ==
    /\ ManSection \in [Unit -> Section]
    /\ ObjSection \in [Key -> Section]

VARIABLES
    hdr,          \* what the headers contain now
    file,         \* what each output file of each unit contains
    meta,         \* the hash in the output file's alternate data stream
    manifest,     \* the manifests on disk
    store,        \* the entry directories on disk, each with its object or a Husk
    manDirs,      \* sections that exist below manifests\
    objDirs,      \* sections that exist below objects\
    cacheEntries, \* CacheEntries in stats.txt
    manLock,      \* owner of each manifest section's mutex
    objLock,      \* owner of each object section's mutex
    statLock,     \* owner of the statistics' mutex
    runs,         \* number of builds and commands started
    faults        \* number of faults so far

shared == <<hdr, file, meta, manifest, store, manDirs, objDirs, cacheEntries>>
locks  == <<manLock, objLock, statLock>>
bounds == <<runs, faults>>

VARIABLES
    pc,      \* where the process is
    job,     \* the units of the project it builds
    todo,    \* units left in the loop it is in
    hits,    \* units found in the cache, with the entry that matched
    seen,    \* the header hash this process has memoised
    unit,    \* the unit it is working on
    man,     \* the manifest it has read
    out,     \* the hashes of the output files it is working on
    slot,    \* the output file it is working on
    ok,      \* has an object of this unit been added?
    tmp,     \* content of the temporary directory it has filled, or a Husk
    pending, \* the hash metadata it will write when it is done
    cnt,     \* objects added that stats.txt does not count yet
    want     \* sections of the snapshot whose mutex it has yet to take

local == <<pc, job, todo, hits, seen, unit, man, out, slot, ok, tmp, pending,
           cnt, want>>
vars  == <<shared, locks, bounds, local>>

-----------------------------------------------------------------------------
PrePcs  == {"preRead", "preMatch", "get", "getLock", "getCopy"}
PostPcs == {"postInit", "post", "hashOut", "hashDep", "addLock", "addCopy",
            "addReplace", "pubRead", "pubWrite", "postStats"}
AllPcs  == {"cleanMan", "cleanObj", "cleanStat"}
WipePcs == {"clearMan", "clearObj", "clearStat", "wipeMan", "wipeObj", "wiped"}
Pcs     == {"idle", "compile"} \cup PrePcs \cup PostPcs \cup AllPcs \cup WipePcs

Hit == [unit : Unit, dep : Version, out : [Slots -> Key]]

(***************************************************************************)
(* Manifests are lists of entries, the most recent first; no file is the   *)
(* empty list (a manifest is only ever written with an entry in it).       *)
(***************************************************************************)
\* Mutant: only the newest entry is looked at
DepsOfNewest(m) == IF m = << >> THEN {} ELSE {m[1].dep}
Deps(m) == {m[i].dep : i \in DOMAIN m}

\* Mutant: the default index of touchEntry
FirstForAny(m, dep) == 1
\* next(x for x in manifest.entries() if ...): the first entry for dep
FirstFor(m, dep) ==
    CHOOSE i \in DOMAIN m : /\ m[i].dep = dep
                            /\ \A j \in DOMAIN m : m[j].dep = dep => i <= j

addEntry(m, entry) == <<entry>> \o m

replaceOutput(m, entry) == [m EXCEPT ![FirstFor(m, entry.dep)].out = entry.out]

\* ensure_output: the entry is there already, nothing is written
identical(m, entry) ==
    entry.dep \in Deps(m) /\ m[FirstFor(m, entry.dep)].out = entry.out

\* Mutant: an entry is always added
publishedTwice(m, entry) == addEntry(m, entry)

\* ensure_output: the manifest that is written when entry is published in m
published(m, entry) ==
    IF entry.dep \notin Deps(m) THEN addEntry(m, entry)
    ELSE replaceOutput(m, entry)

-----------------------------------------------------------------------------
Key0  == CHOOSE k \in Key : TRUE   \* values of local variables not in use
Unit0 == CHOOSE u \in Unit : TRUE
NoOut == [i \in Slots |-> Key0]
NoOutput == [i \in Slots |-> None] \* no output file is there

Init ==
    /\ hdr \in Version
    /\ file = [u \in Unit |-> NoOutput]
    /\ meta = [u \in Unit |-> NoOutput]
    /\ manifest = [u \in Unit |-> << >>]
    /\ store = [k \in Key |-> None]
    /\ manDirs = OldSections /\ objDirs = OldSections
    /\ cacheEntries = 0
    /\ manLock = [s \in Section |-> None]
    /\ objLock = [s \in Section |-> None]
    /\ statLock = None
    /\ runs = 0 /\ faults = 0
    /\ pc = [p \in Proc |-> "idle"]
    /\ job = [p \in Proc |-> {}]
    /\ todo = [p \in Proc |-> {}]
    /\ hits = [p \in Proc |-> {}]
    /\ seen = [p \in Proc |-> None]
    /\ unit = [p \in Proc |-> Unit0]
    /\ man = [p \in Proc |-> << >>]
    /\ out = [p \in Proc |-> NoOut]
    /\ slot = [p \in Proc |-> 1]
    /\ ok = [p \in Proc |-> FALSE]
    /\ tmp = [p \in Proc |-> None]
    /\ pending = [p \in Proc |-> {}]
    /\ cnt = [p \in Proc |-> 0]
    /\ want = [p \in Proc |-> {}]

-----------------------------------------------------------------------------
(* Auxiliary operators of the actions.                                     *)

Goto(p, where) == pc' = [pc EXCEPT ![p] = where]

key(p) == out[p][slot[p]]

ManSec(p) == ManSection[unit[p]]
ObjSec(p) == ObjSection[key(p)]

\* What is left of a lock table when p's process has ended
Without(table, p) == [s \in DOMAIN table |-> IF table[s] = p THEN None ELSE table[s]]

\* cachedGetFileHash: a process hashes a file once and trusts that hash later
HeaderHash(p) == IF seen[p] = None THEN hdr ELSE seen[p]

\* Mutant: files and hashes are paired up by unit only
FlushedByUnit(p) ==
    [u \in Unit |-> [i \in Slots |->
        IF \E k \in Key, j \in Slots : <<u, j, k>> \in pending[p]
        THEN CHOOSE k \in Key : \E j \in Slots : <<u, j, k>> \in pending[p]
        ELSE meta[u][i]]]
\* add_pending_buffer2: the metadata after p has written what it has pending
Flushed(p) ==
    [u \in Unit |-> [i \in Slots |->
        IF \E k \in Key : <<u, i, k>> \in pending[p]
        THEN CHOOSE k \in Key : <<u, i, k>> \in pending[p]
        ELSE meta[u][i]]]

\* p's process ends, or has not begun: its variables are gone
Fresh(p) ==
    /\ seen' = [seen EXCEPT ![p] = None]
    /\ unit' = [unit EXCEPT ![p] = Unit0]
    /\ man' = [man EXCEPT ![p] = << >>]
    /\ out' = [out EXCEPT ![p] = NoOut]
    /\ slot' = [slot EXCEPT ![p] = 1]
    /\ ok' = [ok EXCEPT ![p] = FALSE]
    /\ tmp' = [tmp EXCEPT ![p] = None]
    /\ pending' = [pending EXCEPT ![p] = {}]
    /\ cnt' = [cnt EXCEPT ![p] = 0]
    /\ want' = [want EXCEPT ![p] = {}]

\* The build is over
Idle(p) ==
    /\ Goto(p, "idle")
    /\ job' = [job EXCEPT ![p] = {}]
    /\ hits' = [hits EXCEPT ![p] = {}]
    /\ todo' = [todo EXCEPT ![p] = {}]

\* A source tree is built by one build at a time; an asynchronous post-invoke
\* process is not waited for.
TreeFree(p, w) ==
    \A q \in Proc \ {p} : \/ job[q] \cap w = {}
                          \/ Async /\ pc[q] \in PostPcs \cup AllPcs

-----------------------------------------------------------------------------
(* Pre-invoke: look every unit of the project up, then retrieve the hits.  *)

Build(p) ==
    /\ pc[p] = "idle" /\ runs < MaxRuns
    /\ \E w \in (SUBSET Unit) \ {{}} :
        /\ TreeFree(p, w)
        /\ job' = [job EXCEPT ![p] = w]
        /\ todo' = [todo EXCEPT ![p] = w]
    /\ Goto(p, "preRead")
    /\ runs' = runs + 1
    /\ UNCHANGED <<shared, locks, faults, hits, seen, unit, man, out, slot, ok, tmp,
                   pending, cnt, want>>

\* manifest_hit: the manifest is read under its lock ...
PreRead(p) ==
    /\ pc[p] = "preRead"
    /\ \E u \in todo[p] :
        /\ manLock[ManSection[u]] = None
        /\ unit' = [unit EXCEPT ![p] = u]
        /\ todo' = [todo EXCEPT ![p] = @ \ {u}]
        /\ man' = [man EXCEPT ![p] = manifest[u]]
    /\ Goto(p, "preMatch")
    /\ UNCHANGED <<shared, locks, bounds, job, hits, seen, out, slot, ok, tmp,
                   pending, cnt, want>>

\* ... and searched for an entry that matches the headers after it is released
PreMatch(p) ==
    /\ pc[p] = "preMatch"
    /\ LET m     == man[p]
           found == HeaderHash(p) \in Deps(m)
           entry == m[FirstFor(m, HeaderHash(p))]
           hits1 == IF found
                    THEN hits[p] \cup {[unit |-> unit[p], dep |-> entry.dep, out |-> entry.out]}
                    ELSE hits[p]
       IN  /\ hits' = [hits EXCEPT ![p] = hits1]
           /\ seen' = [seen EXCEPT ![p] = IF m = << >> THEN @ ELSE HeaderHash(p)]
           /\ IF todo[p] = {}
              THEN /\ Goto(p, "get")
                   /\ todo' = [todo EXCEPT ![p] = {h.unit : h \in hits1}]
              ELSE /\ Goto(p, "preRead")
                   /\ UNCHANGED todo
    /\ UNCHANGED <<shared, locks, bounds, job, unit, man, out, slot, ok, tmp,
                   pending, cnt, want>>

\* retrieve_hit: the next hit, in no particular order
Get(p) ==
    /\ pc[p] = "get"
    /\ \E h \in hits[p] :
        /\ h.unit \in todo[p]
        /\ unit' = [unit EXCEPT ![p] = h.unit]
        /\ todo' = [todo EXCEPT ![p] = @ \ {h.unit}]
        /\ out' = [out EXCEPT ![p] = h.out]
    /\ slot' = [slot EXCEPT ![p] = 1]
    /\ Goto(p, "getLock")
    /\ UNCHANGED <<shared, locks, bounds, job, hits, seen, man, ok, tmp, pending,
                   cnt, want>>

\* hasEntry looks for the entry's directory only
hasEntry(k) == store[k] # None
HasObject(k) == store[k] \notin {None, Husk}

\* get_object, the object is missing: the unit is a miss after all
GetMiss(p) ==
    /\ pc[p] = "getLock"
    /\ objLock[ObjSec(p)] = None
    /\ ~hasEntry(key(p))
    /\ hits' = [hits EXCEPT ![p] = {h \in @ : h.unit # unit[p]}]
    /\ Goto(p, "get")
    /\ UNCHANGED <<shared, locks, bounds, job, todo, seen, unit, man, out, slot, ok,
                   tmp, pending, cnt, want>>

\* get_object, the object is there
GetLock(p) ==
    /\ pc[p] = "getLock"
    /\ objLock[ObjSec(p)] = None
    /\ hasEntry(key(p))
    /\ objLock' = [objLock EXCEPT ![ObjSec(p)] = p]
    /\ Goto(p, "getCopy")
    /\ UNCHANGED <<shared, manLock, statLock, bounds, job, todo, hits, seen, unit,
                   man, out, slot, ok, tmp, pending, cnt, want>>

\* Mutant: any file that exists is up to date
UpToDateIfThere(p) == file[unit[p]][slot[p]] # None
\* real_get_file: a file whose metadata already is the key is left alone
UpToDate(p) == meta[unit[p]][slot[p]] = key(p) /\ file[unit[p]][slot[p]] # None

GetCopy(p) ==
    /\ pc[p] = "getCopy"
    /\ UpToDate(p) \/ HasObject(key(p))
    /\ IF UpToDate(p) THEN UNCHANGED <<file, meta>>
       ELSE /\ file' = [file EXCEPT ![unit[p]][slot[p]] = store[key(p)]]
            /\ meta' = [meta EXCEPT ![unit[p]][slot[p]] = key(p)]
    /\ pending' = [pending EXCEPT ![p] = @ \cup {<<unit[p], slot[p], key(p)>>}]
    /\ objLock' = [objLock EXCEPT ![ObjSec(p)] = None]
    /\ IF slot[p] < NSlots
       THEN Goto(p, "getLock") /\ slot' = [slot EXCEPT ![p] = @ + 1]
       ELSE Goto(p, "get") /\ UNCHANGED slot
    /\ UNCHANGED <<hdr, manifest, store, manDirs, objDirs, cacheEntries, manLock,
                   statLock, bounds, job, todo, hits, seen, unit, man, out, ok, tmp,
                   cnt, want>>

\* processPreInvoke: flush the metadata, print the hits, update the statistics
Report(p) ==
    /\ pc[p] = "get" /\ todo[p] = {}
    /\ statLock = None
    /\ meta' = Flushed(p)
    /\ todo' = [todo EXCEPT ![p] = job[p] \ {h.unit : h \in hits[p]}]
    /\ Goto(p, "compile")
    /\ Fresh(p)
    /\ UNCHANGED <<hdr, file, manifest, store, manDirs, objDirs, cacheEntries, locks,
                   bounds, job, hits>>

-----------------------------------------------------------------------------
(* The build: CL.Execute compiles what was not reported as a hit.          *)

\* cl.exe replaces the output files, and with them their data streams
Compile(p) ==
    /\ pc[p] = "compile"
    /\ \E u \in todo[p], s \in Stamp :
        /\ file' = [file EXCEPT ![u] =
                       [i \in Slots |-> <<[unit |-> u, dep |-> hdr, stamp |-> s], i>>]]
        /\ meta' = [meta EXCEPT ![u] = NoOutput]
        /\ todo' = [todo EXCEPT ![p] = @ \ {u}]
    /\ UNCHANGED <<hdr, manifest, store, manDirs, objDirs, cacheEntries, locks, bounds,
                   pc, job, hits, seen, unit, man, out, slot, ok, tmp, pending, cnt,
                   want>>

\* A failed compilation stores nothing (CompileSuccess is false); cl.exe may
\* have deleted the output files of the unit, also those that a post-invoke
\* process of an earlier build has yet to read
CompileFails(p) ==
    /\ pc[p] = "compile" /\ todo[p] # {}
    /\ Idle(p)
    /\ Fresh(p)
    /\ \/ UNCHANGED <<file, meta, faults>>
       \/ /\ "delete" \in FaultKinds /\ faults < MaxFaults /\ faults' = faults + 1
          /\ \E u \in todo[p] : /\ file' = [file EXCEPT ![u] = NoOutput]
                                /\ meta' = [meta EXCEPT ![u] = NoOutput]
    /\ UNCHANGED <<hdr, manifest, store, manDirs, objDirs, cacheEntries, locks, runs>>

\* PostInvokeClcache: a post-invoke process is started if anything was compiled
PostInvoke(p) ==
    /\ pc[p] = "compile" /\ todo[p] = {}
    /\ LET compiled == job[p] \ {h.unit : h \in hits[p]}
       IN  IF compiled = {} THEN Idle(p)
           ELSE /\ Goto(p, "postInit")
                /\ todo' = [todo EXCEPT ![p] = compiled]
                /\ UNCHANGED <<job, hits>>
    /\ Fresh(p)
    /\ UNCHANGED <<shared, locks, bounds>>

-----------------------------------------------------------------------------
(* Post-invoke: store what was compiled.                                   *)

\* processPostInvoke: a full cache is cleaned and nothing is stored
PostInit(p) ==
    /\ pc[p] = "postInit"
    /\ statLock = None
    /\ IF cacheEntries >= MaxSize
       THEN /\ Goto(p, "cleanMan")
            /\ want' = [want EXCEPT ![p] = manDirs]
            /\ todo' = [todo EXCEPT ![p] = {}]
       ELSE Goto(p, "post") /\ UNCHANGED <<want, todo>>
    /\ UNCHANGED <<shared, locks, bounds, job, hits, seen, unit, man, out, slot, ok,
                   tmp, pending, cnt>>

\* the next unit of the list
Collect(p) ==
    /\ pc[p] = "post"
    /\ \E u \in todo[p] :
        /\ unit' = [unit EXCEPT ![p] = u]
        /\ todo' = [todo EXCEPT ![p] = @ \ {u}]
    /\ slot' = [slot EXCEPT ![p] = 1]
    /\ Goto(p, "hashOut")
    /\ UNCHANGED <<shared, locks, bounds, job, hits, seen, man, out, ok, tmp, pending,
                   cnt, want>>

\* manifest_entry: hash the output files, one after the other, ...
HashOut(p) ==
    /\ pc[p] = "hashOut"
    /\ file[unit[p]][slot[p]] # None
    /\ out' = [out EXCEPT ![p][slot[p]] = file[unit[p]][slot[p]]]
    /\ IF slot[p] < NSlots
       THEN slot' = [slot EXCEPT ![p] = @ + 1] /\ UNCHANGED pc
       ELSE slot' = [slot EXCEPT ![p] = 1] /\ Goto(p, "hashDep")
    /\ UNCHANGED <<shared, locks, bounds, job, todo, hits, seen, unit, man, ok, tmp,
                   pending, cnt, want>>

\* ... then the headers
HashDep(p) ==
    /\ pc[p] = "hashDep"
    /\ seen' = [seen EXCEPT ![p] = HeaderHash(p)]
    /\ ok' = [ok EXCEPT ![p] = FALSE]
    /\ Goto(p, "addLock")
    /\ UNCHANGED <<shared, locks, bounds, job, todo, hits, unit, man, out, slot, tmp,
                   pending, cnt, want>>

\* Mutant: the entry is published as soon as one object is there
AfterFirstAdd(p, added) ==
    /\ ok' = [ok EXCEPT ![p] = @ \/ added]
    /\ Goto(p, IF ok[p] \/ added THEN "pubRead" ELSE "post")
    /\ UNCHANGED slot
\* ensure_output: what follows add_object.  The loop is left when nothing has
\* been added so far; a later failure does not end it.
AfterAdd(p, added) ==
    /\ ok' = [ok EXCEPT ![p] = @ \/ added]
    /\ IF ~ok[p] /\ ~added THEN Goto(p, "post") /\ UNCHANGED slot
       ELSE IF slot[p] < NSlots
            THEN Goto(p, "addLock") /\ slot' = [slot EXCEPT ![p] = @ + 1]
            ELSE Goto(p, "pubRead") /\ UNCHANGED slot

WillFlush(p) ==
    pending' = [pending EXCEPT ![p] = @ \cup {<<unit[p], slot[p], key(p)>>}]

\* Mutant: a duplicate is counted
AddDuplicateCounted(p) ==
    /\ pc[p] = "addLock"
    /\ objLock[ObjSec(p)] = None
    /\ hasEntry(key(p))
    /\ cnt' = [cnt EXCEPT ![p] = @ + 1]
    /\ WillFlush(p)
    /\ AfterAdd(p, TRUE)
    /\ UNCHANGED <<shared, locks, bounds, job, todo, hits, seen, unit, man, out, tmp, want>>

\* Mutant: a duplicate is not a success
AddDuplicateRefused(p) ==
    /\ pc[p] = "addLock"
    /\ objLock[ObjSec(p)] = None
    /\ hasEntry(key(p))
    /\ WillFlush(p)
    /\ AfterAdd(p, FALSE)
    /\ UNCHANGED <<shared, locks, bounds, job, todo, hits, seen, unit, man, out, tmp,
                   cnt, want>>

\* add_object: the object is there already
AddDuplicate(p) ==
    /\ pc[p] = "addLock"
    /\ objLock[ObjSec(p)] = None
    /\ hasEntry(key(p))
    /\ WillFlush(p)
    /\ AfterAdd(p, TRUE)
    /\ UNCHANGED <<shared, locks, bounds, job, todo, hits, seen, unit, man, out, tmp,
                   cnt, want>>

\* add_object: it is not
AddLock(p) ==
    /\ pc[p] = "addLock"
    /\ objLock[ObjSec(p)] = None
    /\ ~hasEntry(key(p))
    /\ WillFlush(p)
    /\ objLock' = [objLock EXCEPT ![ObjSec(p)] = p]
    /\ Goto(p, "addCopy")
    /\ UNCHANGED <<shared, manLock, statLock, bounds, job, todo, hits, seen, unit, man,
                   out, slot, ok, tmp, cnt, want>>

\* Mutant: the first output is copied under every key
AddCopyFirst(p) ==
    /\ pc[p] = "addCopy"
    /\ file[unit[p]][1] # None
    /\ tmp' = [tmp EXCEPT ![p] = file[unit[p]][1]]
    /\ objDirs' = objDirs \cup {ObjSec(p)}
    /\ Goto(p, "addReplace")
    /\ UNCHANGED <<hdr, file, meta, manifest, store, manDirs, cacheEntries, locks,
                   bounds, job, todo, hits, seen, unit, man, out, slot, ok, pending,
                   cnt, want>>

\* setEntry2: copy the file to a temporary directory of this process ...
AddCopy(p) ==
    /\ pc[p] = "addCopy"
    /\ file[unit[p]][slot[p]] # None
    /\ tmp' = [tmp EXCEPT ![p] = file[unit[p]][slot[p]]]
    /\ objDirs' = objDirs \cup {ObjSec(p)}
    /\ Goto(p, "addReplace")
    /\ UNCHANGED <<hdr, file, meta, manifest, store, manDirs, cacheEntries, locks,
                   bounds, job, todo, hits, seen, unit, man, out, slot, ok, pending,
                   cnt, want>>

\* ... and rename the directory, if it is still there, to the key, which must
\* not exist
AddReplace(p) ==
    /\ pc[p] = "addReplace"
    /\ ~hasEntry(key(p)) /\ tmp[p] # None
    /\ store' = [store EXCEPT ![key(p)] = tmp[p]]
    /\ cnt' = [cnt EXCEPT ![p] = @ + 1]
    /\ objLock' = [objLock EXCEPT ![ObjSec(p)] = None]
    /\ AfterAdd(p, TRUE)
    /\ UNCHANGED <<hdr, file, meta, manifest, manDirs, objDirs, cacheEntries, manLock,
                   statLock, bounds, job, todo, hits, seen, unit, man, out, tmp,
                   pending, want>>

\* The rename fails: the target exists, the temporary directory is gone, or
\* another program has the file open
AddFails(p) ==
    /\ pc[p] = "addReplace"
    /\ \/ (hasEntry(key(p)) \/ tmp[p] = None) /\ UNCHANGED faults
       \/ "rename" \in FaultKinds /\ faults < MaxFaults /\ faults' = faults + 1
    /\ objLock' = [objLock EXCEPT ![ObjSec(p)] = None]
    /\ AfterAdd(p, FALSE)
    /\ UNCHANGED <<shared, manLock, statLock, runs, job, todo, hits, seen, unit, man,
                   out, tmp, pending, cnt, want>>

\* Mutant: the manifest is read without its lock
PubReadUnlocked(p) ==
    /\ pc[p] = "pubRead"
    /\ man' = [man EXCEPT ![p] = manifest[unit[p]]]
    /\ Goto(p, "pubWrite")
    /\ UNCHANGED <<shared, locks, bounds, job, todo, hits, seen, unit, out, slot, ok,
                   tmp, pending, cnt, want>>

\* ensure_output: read the manifest under its lock, which is kept ...
PubRead(p) ==
    /\ pc[p] = "pubRead"
    /\ manLock[ManSec(p)] = None
    /\ manLock' = [manLock EXCEPT ![ManSec(p)] = p]
    /\ man' = [man EXCEPT ![p] = manifest[unit[p]]]
    /\ Goto(p, "pubWrite")
    /\ UNCHANGED <<shared, objLock, statLock, bounds, job, todo, hits, seen, unit, out,
                   slot, ok, tmp, pending, cnt, want>>

\* ... until the manifest is replaced by one that has the new entry
PubWrite(p) ==
    /\ pc[p] = "pubWrite"
    /\ LET entry == [dep |-> seen[p], out |-> out[p]]
       IN  IF identical(man[p], entry)
           THEN UNCHANGED <<manifest, manDirs>>
           ELSE /\ manifest' = [manifest EXCEPT ![unit[p]] = published(man[p], entry)]
                /\ manDirs' = manDirs \cup {ManSec(p)}
    /\ manLock' = [manLock EXCEPT ![ManSec(p)] = None]
    /\ Goto(p, "post")
    /\ UNCHANGED <<hdr, file, meta, store, objDirs, cacheEntries, objLock, statLock,
                   bounds, job, todo, hits, seen, unit, man, out, slot, ok, tmp,
                   pending, cnt, want>>

\* add_pending_buffer2: write the hashes beside the files
PostFlush(p) ==
    /\ pc[p] = "post" /\ todo[p] = {}
    /\ meta' = Flushed(p)
    /\ Goto(p, "postStats")
    /\ UNCHANGED <<hdr, file, manifest, store, manDirs, objDirs, cacheEntries, locks,
                   bounds, job, todo, hits, seen, unit, man, out, slot, ok, tmp,
                   pending, cnt, want>>

\* updateStats: load stats.txt, add what this process counted, save it
PostStats(p) ==
    /\ pc[p] = "postStats"
    /\ statLock = None
    /\ cacheEntries' = cacheEntries + cnt[p]
    /\ Idle(p)
    /\ Fresh(p)
    /\ UNCHANGED <<hdr, file, meta, manifest, store, manDirs, objDirs, locks, bounds>>

-----------------------------------------------------------------------------
(* Commands that take every lock: --clear, --clean, and the clean-up of a  *)
(* post-invoke process that found the cache full.                          *)

Command(p) ==
    /\ pc[p] = "idle" /\ runs < MaxRuns
    /\ \/ "clear" \in Commands /\ Goto(p, "clearMan")
       \/ "clean" \in Commands /\ Goto(p, "cleanMan")
    /\ want' = [want EXCEPT ![p] = manDirs]
    /\ runs' = runs + 1
    /\ UNCHANGED <<shared, locks, faults, job, todo, hits, seen, unit, man, out, slot,
                   ok, tmp, pending, cnt>>

\* Mutant: in any order
FirstOfAny(sections) == sections

\* Sections are taken as childDirectories lists them: in the order of their names
First(sections) == {s \in sections : \A t \in sections : s <= t}

\* allSectionsLocked(manifestRepository)
LockManifests(p) ==
    /\ pc[p] \in {"clearMan", "cleanMan"}
    /\ IF want[p] = {}
       THEN /\ Goto(p, IF pc[p] = "clearMan" THEN "clearObj" ELSE "cleanObj")
            /\ want' = [want EXCEPT ![p] = objDirs]
            /\ UNCHANGED manLock
       ELSE \E s \in First(want[p]) :
            /\ manLock[s] = None
            /\ manLock' = [manLock EXCEPT ![s] = p]
            /\ want' = [want EXCEPT ![p] = @ \ {s}]
            /\ UNCHANGED pc
    /\ UNCHANGED <<shared, objLock, statLock, bounds, job, todo, hits, seen, unit, man,
                   out, slot, ok, tmp, pending, cnt>>

\* allSectionsLocked(compilerArtifactsRepository)
LockObjects(p) ==
    /\ pc[p] \in {"clearObj", "cleanObj"}
    /\ IF want[p] = {}
       THEN /\ Goto(p, IF pc[p] = "clearObj" THEN "clearStat" ELSE "cleanStat")
            /\ UNCHANGED <<want, objLock>>
       ELSE \E s \in First(want[p]) :
            /\ objLock[s] = None
            /\ objLock' = [objLock EXCEPT ![s] = p]
            /\ want' = [want EXCEPT ![p] = @ \ {s}]
            /\ UNCHANGED pc
    /\ UNCHANGED <<shared, manLock, statLock, bounds, job, todo, hits, seen, unit, man,
                   out, slot, ok, tmp, pending, cnt>>

ReleaseAll(p) ==
    /\ manLock' = Without(manLock, p)
    /\ objLock' = Without(objLock, p)
    /\ statLock' = IF statLock = p THEN None ELSE statLock

\* cleanCache: counts the clean-up, frees nothing
Clean(p) ==
    /\ pc[p] = "cleanStat"
    /\ statLock = None
    /\ ReleaseAll(p)
    /\ Goto(p, IF job[p] = {} THEN "idle" ELSE "post")
    /\ UNCHANGED <<shared, bounds, job, todo, hits, seen, unit, man, out, slot, ok,
                   tmp, pending, cnt, want>>

LockStatistics(p) ==
    /\ pc[p] = "clearStat"
    /\ statLock = None
    /\ statLock' = p
    /\ Goto(p, "wipeMan")
    /\ UNCHANGED <<shared, manLock, objLock, bounds, job, todo, hits, seen, unit, man,
                   out, slot, ok, tmp, pending, cnt, want>>

\* CacheFileStrategy.clear: rmtree(manifests), then rmtree(objects), each going
\* on when a file cannot be removed, which only happens to a file of a section
\* that was created after the snapshot and that another process is using
Survivors(p, table) == {s \in Section : table[s] \notin {p, None}}

WipeManifests(p) ==
    /\ pc[p] = "wipeMan"
    /\ \E kept \in SUBSET {u \in Unit : ManSection[u] \in Survivors(p, manLock)} :
        manifest' = [u \in Unit |-> IF u \in kept THEN manifest[u] ELSE << >>]
    /\ manDirs' = manDirs \cap Survivors(p, manLock)
    /\ Goto(p, "wipeObj")
    /\ UNCHANGED <<hdr, file, meta, store, objDirs, cacheEntries, locks, bounds, job,
                   todo, hits, seen, unit, man, out, slot, ok, tmp, pending, cnt, want>>

\* rmtree may empty or remove the temporary directory of a process that holds
\* such a section's mutex
TmpWiped(p) ==
    \E ts \in [Proc -> {None, Husk}], qs \in SUBSET {q \in Proc :
            pc[q] = "addReplace" /\ ObjSec(q) \in Survivors(p, objLock)} :
        tmp' = [q \in Proc |-> IF q \in qs THEN ts[q] ELSE tmp[q]]

WipeObjects(p) ==
    /\ pc[p] = "wipeObj"
    /\ \E kept \in SUBSET {k \in Key : /\ hasEntry(k)
                                       /\ ObjSection[k] \in Survivors(p, objLock)} :
        store' = [k \in Key |-> IF k \in kept THEN store[k] ELSE None]
    /\ objDirs' = objDirs \cap Survivors(p, objLock)
    /\ TmpWiped(p)
    /\ Goto(p, "wiped")
    /\ UNCHANGED <<hdr, file, meta, manifest, manDirs, cacheEntries, locks, bounds, job,
                   todo, hits, seen, unit, man, out, slot, ok, pending, cnt, want>>

\* clearCache: save the emptied statistics and release every lock
Cleared(p) ==
    /\ pc[p] = "wiped"
    /\ cacheEntries' = 0
    /\ ReleaseAll(p)
    /\ Goto(p, "idle")
    /\ UNCHANGED <<hdr, file, meta, manifest, store, manDirs, objDirs, bounds, job,
                   todo, hits, seen, unit, man, out, slot, ok, tmp, pending, cnt, want>>

-----------------------------------------------------------------------------
(* Faults and the environment.                                             *)

\* p's process ends: by an exception (a lock that timed out, a file that is
\* gone) or from outside.  Windows hands its mutexes to the next waiter, which
\* accepts WAIT_ABANDONED.  The build goes on without the answer of a
\* pre-invoke process, and ends without the work of a post-invoke process.
Dies(p) ==
    /\ ReleaseAll(p)
    /\ IF pc[p] \in PrePcs
       THEN /\ Goto(p, "compile")
            /\ hits' = [hits EXCEPT ![p] = {}]
            /\ todo' = [todo EXCEPT ![p] = job[p]]
            /\ UNCHANGED job
       ELSE Idle(p)
    /\ Fresh(p)

\* DeleteFileW has removed the target of a retrieval, and its data stream
TargetDeleted(p) ==
    /\ pc[p] = "getCopy" /\ ~UpToDate(p)
    /\ file' = [file EXCEPT ![unit[p]][slot[p]] = None]
    /\ meta' = [meta EXCEPT ![unit[p]][slot[p]] = None]

\* --clear was in the middle of the first rmtree: some manifests are left
ManifestsHalfWiped(p) ==
    /\ pc[p] = "wipeMan"
    /\ \E kept \in SUBSET Unit :
        manifest' = [u \in Unit |-> IF u \in kept THEN manifest[u] ELSE << >>]

\* ... of the second: some objects are left, and perhaps a directory whose
\* object was the last thing removed
ObjectsHalfWiped(p) ==
    /\ pc[p] = "wipeObj"
    /\ \E left \in SUBSET {k \in Key : hasEntry(k)} :
        \E husks \in {{}} \cup {{k} : k \in left} :
            store' = [k \in Key |-> IF k \in husks THEN Husk
                                    ELSE IF k \in left THEN store[k] ELSE None]

Crash(p) ==
    /\ "crash" \in FaultKinds
    /\ pc[p] \notin {"idle", "compile"}
    /\ faults < MaxFaults /\ faults' = faults + 1
    /\ Dies(p)
    /\ TargetDeleted(p) \/ UNCHANGED <<file, meta>>
    /\ ManifestsHalfWiped(p) \/ UNCHANGED manifest
    /\ ObjectsHalfWiped(p) \/ UNCHANGED store
    /\ UNCHANGED <<hdr, manDirs, objDirs, cacheEntries, runs>>

\* getEntry2: the entry went while p held its lock (see WipeObjects), or it is a
\* directory without an object.  It is a fault too, one that happens whatever
\* FaultKinds says.
GetVanished(p) ==
    /\ pc[p] = "getCopy"
    /\ ~HasObject(key(p))
    /\ Dies(p)
    /\ TargetDeleted(p)
    /\ faults' = faults + 1
    /\ UNCHANGED <<hdr, manifest, store, manDirs, objDirs, cacheEntries, runs>>

\* getObjectFileHash, copyOrLink: the compiled file is no longer there
FileGone(p) ==
    /\ pc[p] \in {"hashOut", "addCopy"}
    /\ file[unit[p]][slot[p]] = None
    /\ Dies(p)
    /\ UNCHANGED <<shared, bounds>>

EditHeader ==
    /\ EditAnytime \/ \A p \in Proc : pc[p] = "idle"
    /\ \E v \in Version : v # hdr /\ hdr' = v
    /\ UNCHANGED <<file, meta, manifest, store, manDirs, objDirs, cacheEntries, locks,
                   bounds, local>>

Step(p) ==
    \/ PreRead(p) \/ PreMatch(p) \/ Get(p) \/ GetMiss(p) \/ GetLock(p) \/ GetCopy(p)
    \/ GetVanished(p) \/ FileGone(p) \/ Report(p) \/ Compile(p) \/ PostInvoke(p)
    \/ PostInit(p) \/ Collect(p) \/ HashOut(p) \/ HashDep(p)
    \/ AddDuplicate(p) \/ AddLock(p) \/ AddCopy(p) \/ AddReplace(p) \/ AddFails(p)
    \/ PubRead(p) \/ PubWrite(p) \/ PostFlush(p) \/ PostStats(p)
    \/ LockManifests(p) \/ LockObjects(p) \/ Clean(p) \/ LockStatistics(p)
    \/ WipeManifests(p) \/ WipeObjects(p) \/ Cleared(p)

Next ==
    \/ \E p \in Proc : Build(p) \/ Command(p) \/ Step(p) \/ CompileFails(p) \/ Crash(p)
    \/ EditHeader

Spec == Init /\ [][Next]_vars

\* The operating system runs every process that is not blocked
FairSpec == Spec /\ \A p \in Proc : WF_vars(Step(p))

-----------------------------------------------------------------------------
SharedType ==
    /\ hdr \in Version
    /\ file \in [Unit -> [Slots -> Key \cup {None}]]
    /\ meta \in [Unit -> [Slots -> Key \cup {None}]]
    /\ manifest \in [Unit -> Seq(Entry)]
    /\ store \in [Key -> Key \cup {None, Husk}]
    /\ manDirs \subseteq Section /\ objDirs \subseteq Section
    /\ cacheEntries \in Nat

LockType ==
    /\ manLock \in [Section -> Proc \cup {None}]
    /\ objLock \in [Section -> Proc \cup {None}]
    /\ statLock \in Proc \cup {None}
    /\ runs \in Nat /\ faults \in Nat

\* Where a process is, and what it has left to do
ControlType ==
    /\ pc \in [Proc -> Pcs]
    /\ job \in [Proc -> SUBSET Unit] /\ todo \in [Proc -> SUBSET Unit]
    /\ unit \in [Proc -> Unit]
    /\ slot \in [Proc -> Slots]
    /\ ok \in [Proc -> BOOLEAN]
    /\ want \in [Proc -> SUBSET Section]

\* What it has read
DataType ==
    /\ hits \in [Proc -> SUBSET Hit]
    /\ seen \in [Proc -> Version \cup {None}]
    /\ man \in [Proc -> Seq(Entry)]
    /\ out \in [Proc -> [Slots -> Key]]
    /\ tmp \in [Proc -> Key \cup {None, Husk}]
    /\ pending \in [Proc -> SUBSET (Unit \X Slots \X Key)]
    /\ cnt \in [Proc -> Nat]

\* Every variable has its type: in particular an entry that is published has
\* its header hash and all its object hashes, so no process uses a variable
\* before the handler that sets it.
TypeOK == SharedType /\ LockType /\ ControlType /\ DataType

(***************************************************************************)
(* Properties that hold whatever is interleaved.                           *)
(***************************************************************************)

\* A manifest never has two entries for the same header contents, whatever the
\* interleaving of post-invoke processes: ensure_output looks the entry up and
\* writes the manifest under one manifest lock.
UniqueDeps ==
    \A u \in Unit : \A i, j \in DOMAIN manifest[u] :
        manifest[u][i].dep = manifest[u][j].dep => i = j

\* An entry of a manifest is only ever lost to --clear: no post-invoke process
\* writes back a manifest that misses what another one has added.
EntriesSurvive ==
    [][ \/ \E p \in Proc : pc[p] = "wipeMan"
        \/ \A u \in Unit : Deps(manifest[u]) \subseteq Deps(manifest[u])' ]_vars

\* An entry of a manifest names objects that are in the store, at every moment
\* of every interleaving and after a crash at any point (ensure_output adds the
\* objects first), as long as no rename fails and nobody clears the cache.
Backed(entry) == \A i \in Slots : HasObject(entry.out[i])

EntriesAreBacked ==
    \A u \in Unit : \A i \in DOMAIN manifest[u] : Backed(manifest[u][i])

\* The cache has an entry for u and the headers as they are, with its objects
Cached(u) == \E i \in DOMAIN manifest[u] : manifest[u][i].dep = hdr /\ Backed(manifest[u][i])

\* When a post-invoke process is over, every unit it was given is in the cache,
\* with the headers it has hashed, also the units whose objects an earlier
\* process had stored before it crashed: the next build with these headers
\* compiles nothing (test.bat builds twice and expects no miss).
BuildsAreCached ==
    \A p \in Proc : pc[p] = "postStats" =>
        \A u \in job[p] \ {h.unit : h \in hits[p]} :
            \E i \in DOMAIN manifest[u] :
                manifest[u][i].dep = seen[p] /\ Backed(manifest[u][i])

Stored == {k \in Key : hasEntry(k)}

\* The additions that stats.txt does not count yet, one pair for each
Uncounted == UNION {{p} \X (1..cnt[p]) : p \in Proc}

\* CacheEntries never counts an object twice, and misses none that a live
\* process will not add: the duplicates of a race are not counted, and only a
\* crash between add_object and updateStats loses a count.
ObjectsAreCounted ==
    LET counted == cacheEntries + Cardinality(Uncounted)
    IN  /\ counted <= Cardinality(Stored)
        /\ faults = 0 => counted = Cardinality(Stored)

(***************************************************************************)
(* Properties of builds that do not overlap a post-invoke process of their *)
(* own tree, and of headers that stay as they are during a build.          *)
(***************************************************************************)

\* What is stored under a hash has that hash.
StoreIsSound == \A k \in Key : store[k] \in {k, None, Husk}

\* The hash in a file's data stream, which real_get_file and get_from_local
\* trust without reading the file, is that of the file.
MetaIsSound ==
    \A u \in Unit, i \in Slots : meta[u][i] \in {file[u][i], None}

\* An entry names the files of one compilation of its unit against the header
\* contents it is filed under.
EntriesAreSound ==
    \A u \in Unit : \A i \in DOMAIN manifest[u] : \E s \in Stamp : \A j \in Slots :
        manifest[u][i].out[j]
            = <<[unit |-> u, dep |-> manifest[u][i].dep, stamp |-> s], j>>

\* A unit reported as a hit has on disk all the files of one compilation of
\* that unit against the headers as they are now, even when the cache is being
\* cleared, another process has crashed or an object is missing.
HitsAreSound ==
    \A p \in Proc : pc[p] = "compile" =>
        \A h \in hits[p] : \E s \in Stamp : \A i \in Slots :
            file[h.unit][i] = <<[unit |-> h.unit, dep |-> hdr, stamp |-> s], i>>

\* A build compiles a unit only if the cache does not have it.
MissesAreReal ==
    \A p \in Proc : pc[p] = "compile" /\ faults = 0 =>
        \A u \in todo[p] : ~Cached(u)

\* real_get_file: assert rkey == key, the file that is copied from the cache for
\* a key hashes to it.  The code evaluates the assertion with ACLCACHE_FILEDEBUG
\* only, and not for a file that it leaves alone because it is up to date.
RetrievedIsKey ==
    [][ \A p \in Proc :
            pc[p] = "getCopy" /\ ~UpToDate(p) /\ pc'[p] \in {"get", "getLock"} =>
                file'[unit[p]][slot[p]] = key(p) ]_vars

\* Every build and every command comes to its end: no two processes wait for
\* each other's mutexes, also when one of them takes all of them.
EveryRunEnds == \A p \in Proc : pc[p] # "idle" ~> pc[p] = "idle"
=============================================================================
