------------------------------ MODULE DirectMode ------------------------------
(***************************************************************************)
(* The compiler wrapper: every job compiles one source through the cache,  *)
(* and the jobs of a command, and those of other commands, run at once.    *)
(*                                                                         *)
(* In direct mode the manifest of a source is searched for an entry whose  *)
(* headers have the contents they have now.  Otherwise (ACLCACHE_NODIRECT) *)
(* the preprocessor is run and its output is the key.  A miss compiles     *)
(* without holding a mutex, and takes them again to store the object and,  *)
(* in direct mode, the entry.                                              *)
(*                                                                         *)
(* A content is its own hash, and so is a list of contents.  Each job has  *)
(* its object file to itself.  A source whose text is changed is another   *)
(* source.  Headers change between the commands: a job that is at work     *)
(* reads each of them several times and expects to see the same content.   *)
(***************************************************************************)
EXTENDS Naturals, Sequences, SequencesExt

CONSTANTS
    Job,       \* the jobs that can run at once
    Source,
    Header,
    Version,   \* contents of a header
    None,      \* a missing header, no key, no object
    Uses,      \* headers that a source needs, given the contents of all
    MaxRuns,   \* bound: number of jobs started
    MaxEdits,  \* bound: number of times that headers change
    MaxFaults  \* bound: compilations that fail, jobs that end early, files lost

Contents == [Header -> Version \cup {None}]

Compiles(s, c) == \A h \in Uses[s][c] : c[h] # None

\* The headers that the compiler opens for s, and their contents
Includes(s, c) == [h \in {x \in Uses[s][c] : c[x] # None} |-> c[h]]

Known == UNION {[H -> Version] : H \in SUBSET Header}

\* computeKeyDirect, computeKeyNodirect: the source and the contents of its
\* headers determine what the preprocessor writes.  computeKeyDirect hashes the
\* list of the contents without the names: which headers they are is taken to
\* follow from the list, as it does when each header has contents of its own
Key   == [direct : BOOLEAN, source : Source, includes : Known]
Entry == [includes : Known, objectHash : Key]

ASSUME DirectAssumption ==
    /\ Uses \in [Source -> [Contents -> SUBSET Header]]
    \* what the needed headers contain decides which they are
    /\ \A s \in Source, c, d \in Contents :
          (\A h \in Uses[s][c] : d[h] = c[h]) => Uses[s][d] = Uses[s][c]
    /\ None \notin Version \cup Known \cup Key \cup Source \cup Job
    /\ MaxRuns \in Nat /\ MaxEdits \in Nat /\ MaxFaults \in Nat

VARIABLES
    content,  \* of the headers, None for those that are missing
    manifest, \* of each source: its entries
    store,    \* of each key: the headers its object was compiled with, or None
    mlock,    \* of the manifest of each source: the job that holds its mutex
    olock,    \* of each key: the job that holds the mutex of its object
    pc,       \* where each job is
    source,   \* its source
    direct,   \* is it in direct mode?
    cachekey, \* the key it has computed or found
    hit,      \* manifestHit
    object,   \* its object file: the headers it was compiled with
    fresh,    \* the headers that it should have been compiled with (auxiliary)
    runs, edits, faults \* counters of the bounds

cache  == <<manifest, store>>
locks  == <<mlock, olock>>
local  == <<source, direct, cachekey, hit, object, fresh>>
counts == <<runs, edits, faults>>
vars   == <<content, cache, locks, pc, local, counts>>

Init ==
    /\ content \in Contents
    /\ manifest = [s \in Source |-> << >>]
    /\ store = [k \in Key |-> None]
    /\ mlock = [s \in Source |-> None] /\ olock = [k \in Key |-> None]
    /\ pc = [j \in Job |-> "idle"]
    /\ source = [j \in Job |-> None] /\ direct = [j \in Job |-> TRUE]
    /\ cachekey = [j \in Job |-> None] /\ hit = [j \in Job |-> FALSE]
    /\ object = [j \in Job |-> None] /\ fresh = [j \in Job |-> None]
    /\ runs = 0 /\ edits = 0 /\ faults = 0

GoTo(j, p) == pc' = [pc EXCEPT ![j] = p]

Take(lock, x, j) == lock[x] = None /\ lock' = [lock EXCEPT ![x] = j]
Leave(lock, j)   == lock' = [x \in DOMAIN lock |-> IF lock[x] = j THEN None ELSE lock[x]]

Now(j) == Includes(source[j], content)
KeyOf(j) == [direct |-> direct[j], source |-> source[j], includes |-> Now(j)]

-----------------------------------------------------------------------------
(* processSingleSource                                                     *)

Start(j) ==
    /\ pc[j] = "idle" /\ runs < MaxRuns /\ runs' = runs + 1
    /\ \E s \in Source, d \in BOOLEAN :
        /\ source' = [source EXCEPT ![j] = s]
        /\ direct' = [direct EXCEPT ![j] = d]
        /\ GoTo(j, IF d THEN "lookup" ELSE "preprocess")
    /\ cachekey' = [cachekey EXCEPT ![j] = None]
    /\ hit' = [hit EXCEPT ![j] = FALSE]
    /\ object' = [object EXCEPT ![j] = None] /\ fresh' = [fresh EXCEPT ![j] = None]
    /\ UNCHANGED <<content, cache, locks, edits, faults>>

\* Mutant: only the headers that are still there are compared
MatchesIfThere(e) ==
    \A h \in DOMAIN e.includes : content[h] # None => content[h] = e.includes[h]
\* The headers that the entry names are there and have the contents it names
Matches(e) ==
    \A h \in DOMAIN e.includes : content[h] # None /\ content[h] = e.includes[h]

\* Manifest.touchEntry moves the first entry of that object, if i is not the first
Touched(m, i) == <<m[i]>> \o RemoveAt(m, i)

\* processDirect: search the manifest, and keep its mutex when an entry matches.
\* All that match have the same key, so the first one stands for them.
Lookup(j) ==
    /\ pc[j] = "lookup" /\ mlock[source[j]] = None
    /\ LET m     == manifest[source[j]]
           found == {i \in DOMAIN m : Matches(m[i])}
       IN  IF found = {}
           THEN GoTo(j, "compile") /\ UNCHANGED <<manifest, mlock, cachekey, hit>>
           ELSE \E i \in found :
                  /\ \A x \in found : i <= x
                  /\ manifest' = [manifest EXCEPT ![source[j]] = Touched(m, i)]
                  /\ cachekey' = [cachekey EXCEPT ![j] = m[i].objectHash]
                  /\ hit' = [hit EXCEPT ![j] = TRUE]
                  /\ Take(mlock, source[j], j) /\ GoTo(j, "find")
    /\ UNCHANGED <<content, store, olock, source, direct, object, fresh, counts>>

\* computeKeyNodirect
Preprocess(j) ==
    /\ pc[j] = "preprocess" /\ Compiles(source[j], content)
    /\ cachekey' = [cachekey EXCEPT ![j] = KeyOf(j)]
    /\ GoTo(j, "find")
    /\ UNCHANGED <<content, cache, locks, source, direct, hit, object, fresh, counts>>

\* CompilerFailedException: the job ends
PreprocessFails(j) ==
    /\ pc[j] = "preprocess" /\ ~Compiles(source[j], content)
    /\ GoTo(j, "idle")
    /\ UNCHANGED <<content, cache, locks, local, counts>>

\* hasEntry, with the mutex of the objects: nothing to retrieve ...
NotFound(j) ==
    /\ pc[j] = "find" /\ olock[cachekey[j]] = None
    /\ store[cachekey[j]] = None
    /\ Leave(mlock, j) /\ GoTo(j, "compile")
    /\ UNCHANGED <<content, cache, olock, local, counts>>

\* ... or an object, and the mutex is kept
Found(j) ==
    /\ pc[j] = "find" /\ Take(olock, cachekey[j], j)
    /\ store[cachekey[j]] # None
    /\ GoTo(j, "hit")
    /\ UNCHANGED <<content, cache, mlock, local, counts>>

\* processCacheHit: the object file is replaced
ProcessCacheHit(j) ==
    /\ pc[j] = "hit"
    /\ object' = [object EXCEPT ![j] = store[cachekey[j]]]
    /\ fresh' = [fresh EXCEPT ![j] = Now(j)]
    /\ Leave(mlock, j) /\ Leave(olock, j) /\ GoTo(j, "idle")
    /\ UNCHANGED <<content, cache, source, direct, cachekey, hit, counts>>

\* invokeRealCompiler
Compile(j) ==
    /\ pc[j] = "compile" /\ Compiles(source[j], content)
    /\ object' = [object EXCEPT ![j] = Now(j)]
    /\ fresh' = [fresh EXCEPT ![j] = Now(j)]
    /\ GoTo(j, "compiled")
    /\ UNCHANGED <<content, cache, locks, source, direct, cachekey, hit, counts>>

Fails == faults < MaxFaults /\ faults' = faults + 1

\* It does not compile, and leaves no object file
CompileFails(j) ==
    /\ pc[j] = "compile"
    /\ IF Compiles(source[j], content) THEN Fails ELSE UNCHANGED faults
    /\ GoTo(j, "compiled")
    /\ UNCHANGED <<content, cache, locks, local, runs, edits>>

\* processDirect takes the mutex of the manifest again; createManifestEntry hashes
\* the headers that the compiler has named, unless an entry has matched before
CreateEntry(j) ==
    /\ pc[j] = "compiled"
    /\ IF direct[j] THEN Take(mlock, source[j], j) ELSE UNCHANGED mlock
    /\ cachekey' = [cachekey EXCEPT ![j] = IF direct[j] /\ ~hit[j] THEN KeyOf(j) ELSE @]
    /\ GoTo(j, "ensure")
    /\ UNCHANGED <<content, cache, olock, source, direct, hit, object, fresh, counts>>

\* ensureArtifactsExist: the object is there, or there is nothing to store
Exists(j) ==
    /\ pc[j] = "ensure" /\ olock[cachekey[j]] = None
    /\ store[cachekey[j]] # None \/ object[j] = None
    /\ Leave(mlock, j) /\ GoTo(j, "idle")
    /\ UNCHANGED <<content, cache, olock, local, counts>>

\* Mutant: the object is stored although there is one
AddAlways(j) ==
    /\ pc[j] = "ensure" /\ Take(olock, cachekey[j], j)
    /\ object[j] # None
    /\ store' = [store EXCEPT ![cachekey[j]] = object[j]]
    /\ GoTo(j, "added")
    /\ UNCHANGED <<content, manifest, mlock, local, counts>>

\* ensureArtifactsExist: addObjectToCache
AddObject(j) ==
    /\ pc[j] = "ensure" /\ Take(olock, cachekey[j], j)
    /\ store[cachekey[j]] = None /\ object[j] # None
    /\ store' = [store EXCEPT ![cachekey[j]] = object[j]]
    /\ GoTo(j, "added")
    /\ UNCHANGED <<content, manifest, mlock, local, counts>>

\* addManifest, which processDirect passes on a manifest miss
AddedEntries(j) ==
    IF direct[j] /\ ~hit[j]
    THEN <<[includes |-> cachekey[j].includes, objectHash |-> cachekey[j]]>>
    ELSE << >>

AddManifest(j) ==
    /\ pc[j] = "added"
    /\ manifest' = [manifest EXCEPT ![source[j]] = AddedEntries(j) \o @]
    /\ Leave(mlock, j) /\ Leave(olock, j) /\ GoTo(j, "idle")
    /\ UNCHANGED <<content, store, local, counts>>

-----------------------------------------------------------------------------
(* What goes on around the jobs.                                           *)

\* A job ends early, and its mutexes are abandoned
Crash(j) ==
    /\ pc[j] # "idle" /\ Fails
    /\ object' = [object EXCEPT ![j] = None] /\ fresh' = [fresh EXCEPT ![j] = None]
    /\ Leave(mlock, j) /\ Leave(olock, j) /\ GoTo(j, "idle")
    /\ UNCHANGED <<content, cache, source, direct, cachekey, hit, runs, edits>>

\* clear, with all mutexes.  Files that cannot be removed stay (ignore_errors).
Clear ==
    /\ Fails
    /\ \A s \in Source : mlock[s] = None
    /\ \A k \in Key : olock[k] = None
    /\ \E S \in SUBSET Source :
        manifest' = [s \in Source |-> IF s \in S THEN << >> ELSE manifest[s]]
    /\ \E K \in SUBSET {k \in Key : store[k] # None} :
        store' = [k \in Key |-> IF k \in K THEN None ELSE store[k]]
    /\ UNCHANGED <<content, locks, pc, local, runs, edits>>

\* The developer changes, adds or removes headers
Edit ==
    /\ edits < MaxEdits /\ edits' = edits + 1
    /\ \A j \in Job : pc[j] = "idle"
    /\ content' \in Contents \ {content}
    /\ UNCHANGED <<cache, locks, pc, local, runs, faults>>

Next ==
    \/ \E j \in Job :
        \/ Start(j) \/ Lookup(j) \/ Preprocess(j) \/ PreprocessFails(j)
        \/ NotFound(j) \/ Found(j)
        \/ ProcessCacheHit(j) \/ Compile(j) \/ CompileFails(j) \/ CreateEntry(j)
        \/ Exists(j) \/ AddObject(j) \/ AddManifest(j) \/ Crash(j)
    \/ Clear \/ Edit

Spec == Init /\ [][Next]_vars

-----------------------------------------------------------------------------
TypeOK ==
    /\ content \in Contents
    /\ manifest \in [Source -> Seq(Entry)]
    /\ store \in [Key -> Known \cup {None}]
    /\ mlock \in [Source -> Job \cup {None}] /\ olock \in [Key -> Job \cup {None}]
    /\ pc \in [Job -> {"idle", "lookup", "preprocess", "find", "hit", "compile", "compiled",
                       "ensure", "added"}]
    /\ source \in [Job -> Source \cup {None}] /\ direct \in [Job -> BOOLEAN]
    /\ cachekey \in [Job -> Key \cup {None}] /\ hit \in [Job -> BOOLEAN]
    /\ object \in [Job -> Known \cup {None}] /\ fresh \in [Job -> Known \cup {None}]
    /\ runs \in 0..MaxRuns /\ edits \in 0..MaxEdits /\ faults \in 0..MaxFaults

\* The object that a job leaves, retrieved or compiled, is that of the headers as
\* they are, also when a header that an entry names has changed or gone, when it
\* is back with an earlier content, and when objects or manifests have been lost.
ResultsAreRight ==
    \A j \in Job : pc[j] = "idle" => object[j] = fresh[j]

\* What a job has compiled is a hit for the next one, unless a header changes: as
\* long as nothing fails and nothing is lost, the manifest has one entry that
\* matches, in whatever order the jobs have found nothing, and its object is there.
ResultsAreCached ==
    faults = 0 =>
        \A j \in Job : pc[j] = "idle" /\ object[j] # None /\ object[j] = Now(j) =>
            IF direct[j]
            THEN \E i \in DOMAIN manifest[source[j]] :
                    /\ store[manifest[source[j]][i].objectHash] = Now(j)
                    /\ \A x \in DOMAIN manifest[source[j]] :
                          Matches(manifest[source[j]][x]) <=> x = i
            ELSE store[KeyOf(j)] = Now(j)
=============================================================================
