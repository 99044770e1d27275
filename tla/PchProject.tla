----------------------------- MODULE PchProject -----------------------------
(***************************************************************************)
(* An MSBuild project whose sources share precompiled headers, built again *)
(* and again while the developer edits headers, objects disappear from the *)
(* cache and processes die.                                                *)
(*                                                                         *)
(* A source that creates a precompiled header (GenPch) writes the .pch file *)
(* that the sources that use it (UsePch) are compiled with.  The cache     *)
(* stores object files but no .pch file, and a user's manifest hash stands *)
(* for the headers it sees through the .pch: it is made from the hash of   *)
(* the creator's manifest and the hash of the creator's dependencies.  So  *)
(* the pre-invoke process must have the two compiled together.             *)
(*                                                                         *)
(* A .pch file can also come from another project, which is built first    *)
(* (GenerateSharedPCH).  The cache takes no object from that project; its  *)
(* post-invoke process writes the hash of the creator into the data stream *)
(* of the .pch file, where the processes of the users read it.             *)
(*                                                                         *)
(* LocalCache models what happens when processes interleave; here there is *)
(* one process at a time, and the sources depend on each other.            *)
(***************************************************************************)
EXTENDS Naturals, FiniteSets

CONSTANTS
    Unit,      \* the sources of the project, and those of Shared
    Shared,    \* the sources of other projects that create a .pch for this one
    Pch,       \* the source that creates the .pch a source uses, or None
    Version,   \* contents of a source's own headers
    None,      \* no .pch, no entry, no object
    MaxBuilds, \* bound: number of builds
    MaxEdits,  \* bound: number of edits
    MaxLost    \* bound: number of objects that leave the cache, and of hashes
               \* of a shared .pch that are not written

\* What an object was compiled from: the source's own headers, and the headers
\* in the .pch
Object == [own : Version, pch : Version \cup {None}]

\* parent_hash, dependency_hash and output of a CompilerEntry
Entry == [parent : Version \cup {None}, dep : Version, out : Object]

ASSUME PchAssumption ==
    /\ Pch \in [Unit -> Unit \cup {None}] /\ None \notin Unit \cup Version \cup Entry
    /\ \A u \in Unit : Pch[u] # None => Pch[Pch[u]] = None
    /\ Shared \subseteq Unit /\ \A g \in Shared : Pch[g] = None
    /\ MaxBuilds \in Nat /\ MaxEdits \in Nat /\ MaxLost \in Nat

Own == Unit \ Shared

isUsePch(u) == Pch[u] # None
\* pch_stub: u uses the .pch of another project
isStub(u)   == Pch[u] \in Shared
Users(g)    == {u \in Unit : Pch[u] = g}
isGenPch(u) == Users(u) # {}

VARIABLES
    headers,  \* what each source's own headers contain
    obj,      \* the object files on disk
    pchFile,  \* the .pch files on disk
    metadata, \* the dependency hash in the data stream of a .pch file
    manifest, \* the entries of each source's manifests
    store,    \* the objects in the cache, those of each source
    phase,    \* what the build is doing
    todo,     \* the sources left in the loop it is in
    miss,     \* the sources that the pre-invoke process counts as misses, or the
              \* creator of a shared .pch whose hash is not written yet
    entry,    \* the entry of each source that a process has in memory
    builds, edits, lost \* counters of the bounds

bounds == <<builds, edits, lost>>
vars == <<headers, obj, pchFile, metadata, manifest, store, phase, todo, miss, entry,
          bounds>>

Init ==
    /\ headers \in [Unit -> Version]
    /\ obj = [u \in Unit |-> None]
    /\ pchFile = [u \in Unit |-> None]
    /\ metadata = [u \in Unit |-> None]
    /\ manifest = [u \in Unit |-> {}]
    /\ store = [u \in Unit |-> {}]
    /\ phase = "idle"
    /\ todo = {} /\ miss = {}
    /\ entry = [u \in Unit |-> None]
    /\ builds = 0 /\ edits = 0 /\ lost = 0

-----------------------------------------------------------------------------
(* The projects that create a shared .pch.                                 *)

Build ==
    /\ phase = "idle" /\ builds < MaxBuilds
    /\ phase' = "shared"
    /\ todo' = Shared /\ miss' = {}
    /\ entry' = [u \in Unit |-> None]
    /\ builds' = builds + 1
    /\ UNCHANGED <<headers, obj, pchFile, metadata, manifest, store, edits, lost>>

\* MSBuild takes the creator for up to date, and no process is started ...
SharedUpToDate(g) ==
    /\ phase = "shared" /\ g \in todo /\ miss = {}
    /\ pchFile[g] = headers[g]
    /\ todo' = todo \ {g}
    /\ UNCHANGED <<headers, obj, pchFile, metadata, manifest, store, phase, miss, entry,
                   bounds>>

\* ... or it is compiled without being looked up.  cl.exe replaces the .pch
\* file, and its data stream with it.
CompileShared(g) ==
    /\ phase = "shared" /\ g \in todo /\ miss = {}
    /\ pchFile[g] # headers[g]
    /\ obj' = [obj EXCEPT ![g] = [own |-> headers[g], pch |-> None]]
    /\ pchFile' = [pchFile EXCEPT ![g] = headers[g]]
    /\ metadata' = [metadata EXCEPT ![g] = None]
    /\ todo' = todo \ {g} /\ miss' = {g}
    /\ UNCHANGED <<headers, manifest, store, phase, entry, bounds>>

\* pch_metadata, in a post-invoke process that is waited for
WriteMetadata(g) ==
    /\ phase = "shared" /\ g \in miss
    /\ metadata' = [metadata EXCEPT ![g] = headers[g]]
    /\ miss' = miss \ {g}
    /\ UNCHANGED <<headers, obj, pchFile, manifest, store, phase, todo, entry, bounds>>

\* The post-invoke process dies, and the build goes on
MetadataLost(g) ==
    /\ phase = "shared" /\ g \in miss
    /\ lost < MaxLost /\ lost' = lost + 1
    /\ miss' = miss \ {g}
    /\ UNCHANGED <<headers, obj, pchFile, metadata, manifest, store, phase, todo, entry,
                   builds, edits>>

-----------------------------------------------------------------------------
(* Pre-invoke.                                                             *)

\* Mutant: creators among the items of the process are not looked for
AllReadable == \A u \in Own : isUsePch(u) => metadata[Pch[u]] # None
\* CompilerItem.__post_init__: the hash of a shared .pch can be read
Readable == \A u \in Own : isStub(u) => metadata[Pch[u]] # None

\* parse_input; when it raises, the process answers nothing and every source
\* is compiled
PreInvoke ==
    /\ phase = "shared" /\ todo = {} /\ miss = {}
    /\ phase' = IF Readable THEN "lookup" ELSE "compile"
    /\ miss' = IF Readable THEN {} ELSE Own
    /\ todo' = Own
    /\ UNCHANGED <<headers, obj, pchFile, metadata, manifest, store, entry, bounds>>

\* parse_input: creators come first, then users, then the others
First(s) ==
    LET gens  == {u \in s : isGenPch(u)}
        users == {u \in s : isUsePch(u)}
    IN  IF gens # {} THEN gens ELSE IF users # {} THEN users ELSE s

\* Mutant: the users of a creator that misses may still hit
CreatorOnly(u) == IF isUsePch(u) THEN {Pch[u]} \ Shared ELSE {}
\* Mutant: a creator may hit when one of its users misses
UsersOnly(u) == Users(u)
\* missing_update: the sources that miss because u does
Related(u) ==
    IF isGenPch(u) THEN Users(u) ELSE IF isUsePch(u) THEN {Pch[u]} \ Shared ELSE {}

\* Mutant: the headers in the .pch are not part of a user's manifest hash
NoParent(u) == None
\* manifest_hash: the dependency hash of the parent's entry, or of its stub
ParentHash(u) ==
    IF isStub(u) THEN metadata[Pch[u]]
    ELSE IF isUsePch(u) /\ entry[Pch[u]] # None THEN entry[Pch[u]].dep
    ELSE None

\* manifest_hit: the entry of u's manifest that matches its headers, or none
Matches(u) == {e \in manifest[u] : e.parent = ParentHash(u) /\ e.dep = headers[u]}

Lookup(u) ==
    /\ phase = "lookup" /\ u \in First(todo)
    /\ todo' = todo \ {u}
    /\ \/ /\ u \in miss
          /\ UNCHANGED <<miss, entry>>
       \/ /\ u \notin miss
          /\ \E e \in Matches(u) : entry' = [entry EXCEPT ![u] = e]
          /\ UNCHANGED miss
       \/ /\ u \notin miss /\ Matches(u) = {}
          /\ miss' = miss \cup {u} \cup Related(u)
          /\ UNCHANGED entry
    /\ UNCHANGED <<headers, obj, pchFile, metadata, manifest, store, phase, bounds>>

\* processPreInvoke: hits = set(content) - miss
LookedUp ==
    /\ phase = "lookup" /\ todo = {}
    /\ todo' = Own \ miss
    /\ phase' = "retrieve"
    /\ UNCHANGED <<headers, obj, pchFile, metadata, manifest, store, miss, entry, bounds>>

\* retrieve_hit: copy the object from the cache, or count u as a miss after all
Retrieve(u) ==
    /\ phase = "retrieve" /\ u \in todo
    /\ todo' = todo \ {u}
    /\ \/ /\ entry[u].out \in store[u]
          /\ obj' = [obj EXCEPT ![u] = entry[u].out]
          /\ UNCHANGED miss
       \/ /\ entry[u].out \notin store[u]
          /\ miss' = miss \cup {u} \cup Related(u)
          /\ UNCHANGED obj
    /\ UNCHANGED <<headers, pchFile, metadata, manifest, store, phase, entry, bounds>>

\* the hits are reported, the misses are compiled
Report ==
    /\ phase = "retrieve" /\ todo = {}
    /\ todo' = miss
    /\ phase' = IF miss = {} THEN "built" ELSE "compile"
    /\ UNCHANGED <<headers, obj, pchFile, metadata, manifest, store, miss, entry, bounds>>

-----------------------------------------------------------------------------
(* The compiler: creators are compiled before their users.                 *)

Compile(u) ==
    /\ phase = "compile" /\ u \in First(todo)
    /\ todo' = todo \ {u}
    /\ obj' = [obj EXCEPT ![u] =
                 [own |-> headers[u],
                  pch |-> IF isUsePch(u) THEN pchFile[Pch[u]] ELSE None]]
    /\ pchFile' = IF isGenPch(u) THEN [pchFile EXCEPT ![u] = headers[u]] ELSE pchFile
    /\ UNCHANGED <<headers, metadata, manifest, store, phase, miss, entry, bounds>>

\* A failed compilation ends the build and stores nothing
CompileFails ==
    /\ phase = "compile" \/ (phase = "shared" /\ miss = {})
    /\ todo # {}
    /\ phase' = "idle"
    /\ todo' = {} /\ miss' = {}
    /\ UNCHANGED <<headers, obj, pchFile, metadata, manifest, store, entry, bounds>>

-----------------------------------------------------------------------------
(* Post-invoke.                                                            *)

\* CompilerItem.__post_init__: the parent is one of the items given to the same
\* process, or its hash is in the metadata of the .pch file, where only a
\* project that shares its .pch with others writes it.  Otherwise the process
\* ends with an exception before it has collected anything.
parentGiven(u) == isUsePch(u) => Pch[u] \in miss \/ metadata[Pch[u]] # None

\* The post-invoke process is given what was compiled
PostInvoke ==
    /\ phase = "compile" /\ todo = {}
    /\ phase' = IF \A u \in miss : parentGiven(u) THEN "collect" ELSE "built"
    /\ todo' = miss
    /\ entry' = [u \in Unit |-> None]
    /\ UNCHANGED <<headers, obj, pchFile, metadata, manifest, store, miss, bounds>>

\* manifest_entry
NewEntry(u) == [parent |-> ParentHash(u), dep |-> headers[u], out |-> obj[u]]

\* ensure_output: one entry for each parent and dependency hash
Published(u, e) ==
    {f \in manifest[u] : f.parent # e.parent \/ f.dep # e.dep} \cup {e}

Collect(u) ==
    /\ phase = "collect" /\ u \in First(todo)
    /\ todo' = todo \ {u}
    /\ entry' = [entry EXCEPT ![u] = NewEntry(u)]
    /\ store' = [store EXCEPT ![u] = @ \cup {obj[u]}]
    /\ manifest' = [manifest EXCEPT ![u] = Published(u, NewEntry(u))]
    /\ UNCHANGED <<headers, obj, pchFile, metadata, phase, miss, bounds>>

\* The post-invoke process has nothing left
Collected ==
    /\ phase = "collect" /\ todo = {}
    /\ phase' = "built"
    /\ UNCHANGED <<headers, obj, pchFile, metadata, manifest, store, todo, miss, entry,
                   bounds>>

Done ==
    /\ phase = "built"
    /\ phase' = "idle"
    /\ todo' = {} /\ miss' = {}
    /\ UNCHANGED <<headers, obj, pchFile, metadata, manifest, store, entry, bounds>>

-----------------------------------------------------------------------------
(* The environment.                                                        *)

Edit ==
    /\ phase = "idle" /\ edits < MaxEdits /\ edits' = edits + 1
    /\ \E u \in Unit, v \in Version : v # headers[u] /\ headers' = [headers EXCEPT ![u] = v]
    /\ UNCHANGED <<obj, pchFile, metadata, manifest, store, phase, todo, miss, entry,
                   builds, lost>>

\* Somebody clears the cache or removes an object from it, at any time
Lose ==
    /\ lost < MaxLost /\ lost' = lost + 1
    /\ \E u \in Unit : \E o \in store[u] : store' = [store EXCEPT ![u] = @ \ {o}]
    /\ UNCHANGED <<headers, obj, pchFile, metadata, manifest, phase, todo, miss, entry,
                   builds, edits>>

Next ==
    \/ Build \/ PreInvoke \/ LookedUp \/ Report \/ CompileFails \/ PostInvoke \/ Collected \/ Done
    \/ \E g \in Shared : \/ SharedUpToDate(g) \/ CompileShared(g)
                         \/ WriteMetadata(g) \/ MetadataLost(g)
    \/ \E u \in Own : Lookup(u) \/ Retrieve(u) \/ Compile(u) \/ Collect(u)
    \/ Edit \/ Lose

Spec == Init /\ [][Next]_vars

-----------------------------------------------------------------------------
TypeOK ==
    /\ headers \in [Unit -> Version]
    /\ obj \in [Unit -> Object \cup {None}]
    /\ pchFile \in [Unit -> Version \cup {None}]
    /\ metadata \in [Unit -> Version \cup {None}]
    /\ manifest \in [Unit -> SUBSET Entry]
    /\ store \in [Unit -> SUBSET Object]
    /\ phase \in {"idle", "shared", "lookup", "retrieve", "compile", "collect", "built"}
    /\ todo \subseteq Unit /\ miss \subseteq Unit
    /\ entry \in [Unit -> Entry \cup {None}]
    /\ builds \in 0..MaxBuilds /\ edits \in 0..MaxEdits /\ lost \in 0..MaxLost

\* A source that uses a .pch file is compiled only in a build that compiles the
\* file, whatever missed first and whatever the cache lost between the lookup
\* and the retrieval; the post-invoke process needs it as well, to have the
\* parent of every item it is given.
PchTogether ==
    phase \in {"compile", "collect"} =>
        \A u \in miss : isUsePch(u) => Pch[u] \in miss \cup Shared

\* manifest_hash reads the entry of the parent, which must be one: no user is
\* looked up whose creator was not found.
ParentIsFound ==
    phase = "lookup" =>
        \A u \in First(todo) \ miss : isUsePch(u) =>
            IF isStub(u) THEN metadata[Pch[u]] # None ELSE entry[Pch[u]] # None

\* When a build is over, every object on disk, compiled or retrieved, is what
\* the headers are now, also those that its source sees only through a .pch,
\* which may be another project's and have lost its hash.
Rebuilt(u) ==
    obj[u] = [own |-> headers[u], pch |-> IF isUsePch(u) THEN headers[Pch[u]] ELSE None]

AllRebuilt == phase = "built" => \A u \in Unit : Rebuilt(u)

\* The entry that would have been a hit for u
Available(u) ==
    /\ isStub(u) => metadata[Pch[u]] # None
    /\ \E e \in manifest[u] :
        /\ e.parent = (IF isUsePch(u) THEN headers[Pch[u]] ELSE None)
        /\ e.dep = headers[u]
        /\ e.out \in store[u]

\* Nothing is compiled when the cache has an entry and the object for every
\* source of the project, and the hash of a shared .pch is known.
NoNeedlessBuild ==
    phase = "compile" => \E u \in Own : ~Available(u)

\* When a build is over, the cache has everything that the next one needs, but
\* for what was lost meanwhile.
AllCached == phase = "built" /\ lost = 0 => \A u \in Own : Available(u)
=============================================================================
