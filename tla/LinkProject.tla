----------------------------- MODULE LinkProject -----------------------------
(***************************************************************************)
(* The linker cache: a project is compiled through the cache and then      *)
(* linked through it, again and again.                                     *)
(*                                                                         *)
(* The key of a linked file is made from the hashes of the objects, and    *)
(* these are read from the data streams of the object files and believed.  *)
(* The post-invoke process of the compiler writes the streams while the    *)
(* pre-link process may already read them.  With ACLCACHE_SKIPGET objects  *)
(* that are in the cache are not retrieved: the stream gets their hash, a  *)
(* file of size 0 gets the stream, and only a link that is no hit          *)
(* retrieves them.                                                         *)
(*                                                                         *)
(* A content is its own hash.  Compiling and linking are functions of what *)
(* is read.  A build begins when the processes of the last one have ended. *)
(***************************************************************************)
EXTENDS Naturals

CONSTANTS
    Unit,       \* the sources, each with one object file
    Version,    \* contents of a source or of the library
    None,       \* no file, no stream, no entry
    Empty,      \* a file of size 0
    Torn,       \* the stream is there and has no contents yet
    OldObjects, \* may a build with ACLCACHE_SKIPGET find objects of earlier builds?
    MaxBuilds,  \* bound: number of builds
    MaxFaults   \* bound: processes that end early, losses from the cache

Linked == [objs : [Unit -> Version], lib : Version]

ASSUME LinkAssumption ==
    /\ {None, Empty, Torn} \cap Version = {}
    /\ None \notin Linked
    /\ None # Empty /\ None # Torn /\ Empty # Torn
    /\ OldObjects \in BOOLEAN
    /\ MaxBuilds \in Nat /\ MaxFaults \in Nat

VARIABLES
    skipGet, \* is ACLCACHE_SKIPGET set?

    \* the tree
    src, lib,     \* contents of the sources, of a library that link.exe finds itself
    obj, meta,    \* object files and their data streams
    exe, exeMeta, \* the linked file and its data stream

    \* the cache
    known, \* pairs of a unit and a version that the compiler's manifests have
    store, \* pairs of a unit and a version whose object is stored
    links, \* entries of the linker's manifests
    exes,  \* linked files that are stored

    \* the build
    pc,       \* where it is
    todo,     \* units still to be dealt with
    hits,     \* units found in the cache
    hashes,   \* inputs_hashes of the process at hand
    pending,  \* pending_objs of the pre-link process
    entry,    \* the output of the entry that the pre-link process found
    built,    \* has the last build succeeded?

    \* the post-invoke process of the compiler
    collect, flush, \* units to be stored, units whose stream is to be written

    torn, hurt, \* auxiliary: what has happened since the build began
    builds, faults \* counters of the bounds

tree   == <<src, lib, obj, meta, exe, exeMeta>>
cache  == <<known, store, links, exes>>
build  == <<pc, todo, hits, hashes, pending, entry, built>>
behind == <<collect, flush>>
aux    == <<torn, hurt>>
counts == <<builds, faults>>
vars   == <<skipGet, tree, cache, build, behind, aux, counts>>

Hash   == Version \cup {Torn}
Entry  == [inputs : [Unit -> Hash], lib : Version, output : Linked]

Init ==
    /\ skipGet \in BOOLEAN
    /\ src \in [Unit -> Version] /\ lib \in Version
    /\ obj = [u \in Unit |-> None] /\ meta = [u \in Unit |-> None]
    /\ exe = None /\ exeMeta = None
    /\ known = {} /\ store = {} /\ links = {} /\ exes = {}
    /\ pc = "idle" /\ todo = {} /\ hits = {}
    /\ hashes = [u \in Unit |-> Torn]
    /\ pending = {} /\ entry = None /\ built = FALSE
    /\ collect = {} /\ flush = {}
    /\ torn = FALSE /\ hurt = FALSE
    /\ builds = 0 /\ faults = 0

-----------------------------------------------------------------------------
(* The compiler's cache, as the linker sees it.                            *)

\* The developer has changed what she likes; a rebuild removes what was built
Begin ==
    /\ pc = "idle" /\ collect = {} /\ flush = {} /\ builds < MaxBuilds
    /\ builds' = builds + 1
    /\ src' \in [Unit -> Version] /\ lib' \in Version
    /\ IF skipGet /\ ~OldObjects
       THEN /\ obj' = [u \in Unit |-> None] /\ meta' = [u \in Unit |-> None]
            /\ exe' = None /\ exeMeta' = None
       ELSE UNCHANGED <<obj, meta, exe, exeMeta>>
    /\ pc' = "precompile" /\ todo' = Unit /\ hits' = {}
    /\ hashes' = [u \in Unit |-> Torn] /\ pending' = {} /\ entry' = None
    /\ built' = FALSE /\ torn' = FALSE /\ hurt' = FALSE
    /\ UNCHANGED <<skipGet, cache, behind, faults>>

\* real_get_file: a file with contents and the right stream is left alone
Kept(u, v) == meta[u] = v /\ obj[u] \notin {None, Empty}

\* get_object puts the object v of u in place, real_get_file its hash
Put(u, v) ==
    /\ obj' = IF Kept(u, v) THEN obj ELSE [obj EXCEPT ![u] = v]
    /\ meta' = [meta EXCEPT ![u] = v]

\* get_object with skip, then the flush: the stream is written, which creates
\* the file if there is none
PutHash(u) ==
    /\ obj' = IF obj[u] = None THEN [obj EXCEPT ![u] = Empty] ELSE obj
    /\ meta' = [meta EXCEPT ![u] = src[u]]

\* manifest_hit, retrieve_hit
PreInvoke(u) ==
    /\ pc = "precompile" /\ u \in todo
    /\ todo' = todo \ {u}
    /\ IF <<u, src[u]>> \in known \cap store
       THEN /\ hits' = hits \cup {u}
            /\ IF skipGet THEN PutHash(u) ELSE Put(u, src[u])
       ELSE UNCHANGED <<hits, obj, meta>>
    /\ UNCHANGED <<skipGet, src, lib, exe, exeMeta, cache, pc, hashes, pending, entry, built,
                   behind, aux, counts>>

Misses == Unit \ hits

\* What cl.exe writes for the units of w, without a stream
Compiled(w) ==
    /\ obj' = [u \in Unit |-> IF u \in w THEN src[u] ELSE obj[u]]
    /\ meta' = [u \in Unit |-> IF u \in w THEN None ELSE meta[u]]

\* CL.Execute, then Link.Execute starts the post-invoke process and the pre-link
\* process
Compile ==
    /\ pc = "precompile" /\ todo = {}
    /\ Compiled(Misses)
    /\ collect' = Misses /\ flush' = Misses
    /\ pc' = "prelink" /\ todo' = Unit
    /\ UNCHANGED <<skipGet, src, lib, exe, exeMeta, cache, hits, hashes, pending, entry, built,
                   aux, counts>>

\* A source does not compile: nothing is collected, and the project is not linked
CompileFails ==
    /\ pc = "precompile" /\ todo = {}
    /\ \E w \in SUBSET Misses : w # Misses /\ Compiled(w)
    /\ pc' = "idle"
    /\ UNCHANGED <<skipGet, src, lib, exe, exeMeta, cache, todo, hits, hashes, pending, entry,
                   built, behind, aux, counts>>

\* ensure_output
Collect(u) ==
    /\ u \in collect /\ collect' = collect \ {u}
    /\ store' = store \cup {<<u, obj[u]>>} /\ known' = known \cup {<<u, obj[u]>>}
    /\ UNCHANGED <<skipGet, tree, links, exes, build, flush, aux, counts>>

\* write_hash_metadata: the stream is created ...
FlushOpen(u) ==
    /\ collect = {} /\ u \in flush
    /\ \A w \in flush : meta[w] # Torn
    /\ meta' = [meta EXCEPT ![u] = Torn]
    /\ UNCHANGED <<skipGet, src, lib, obj, exe, exeMeta, cache, build, behind, aux, counts>>

\* ... and written
FlushWrite(u) ==
    /\ u \in flush /\ meta[u] = Torn
    /\ meta' = [meta EXCEPT ![u] = obj[u]]
    /\ flush' = flush \ {u}
    /\ UNCHANGED <<skipGet, src, lib, obj, exe, exeMeta, cache, build, collect, aux, counts>>

-----------------------------------------------------------------------------
(* The pre-link process.                                                   *)

\* get_from_local: the stream is believed; without one the file is hashed
HashOf(u) == IF meta[u] = None THEN obj[u] ELSE meta[u]

\* generate_dependency_hash: an input after another, in the pre-link process or
\* the post-link process
HashInput(u) ==
    /\ pc \in {"prelink", "postlink"} /\ u \in todo
    /\ todo' = todo \ {u}
    /\ hashes' = [hashes EXCEPT ![u] = HashOf(u)]
    /\ pending' = IF obj[u] = Empty THEN pending \cup {u} ELSE pending
    /\ torn' = (torn \/ HashOf(u) = Torn)
    /\ UNCHANGED <<skipGet, tree, cache, pc, hits, entry, built, behind, hurt, counts>>

\* Mutant: the libraries that the linker found itself are not compared
MatchesInputs(e) == e.inputs = hashes
\* The entry is in the manifest of these inputs, and match_local
Matches(e) == e.inputs = hashes /\ e.lib = lib

\* manifest_hit
PreLink ==
    /\ pc = "prelink" /\ todo = {}
    /\ LET found == {e \in links : Matches(e)}
       IN  \/ /\ found = {}
              /\ entry' = None /\ pc' = "pendings"
           \/ /\ \E e \in found : entry' = e.output
              /\ pc' = "retrieve"
    /\ UNCHANGED <<skipGet, tree, cache, todo, hits, hashes, pending, built, behind, aux,
                   counts>>

\* real_get_file leaves the linked file alone
ExeKept == exeMeta = entry /\ exe # None

\* retrieve_hit, add_pending_buffer2: a hit, and the Link task is done
Retrieve ==
    /\ pc = "retrieve" /\ entry \in exes
    /\ exe' = IF ExeKept THEN exe ELSE entry
    /\ exeMeta' = entry
    /\ pc' = "idle" /\ built' = TRUE
    /\ UNCHANGED <<skipGet, src, lib, obj, meta, cache, todo, hits, hashes, pending, entry,
                   behind, aux, counts>>

\* Mutant: when an output cannot be retrieved the inputs are not either
NoRetrieval ==
    /\ pc = "retrieve" /\ entry \notin exes
    /\ pc' = "link"
    /\ UNCHANGED <<skipGet, tree, cache, todo, hits, hashes, pending, entry, built, behind, aux,
                   counts>>
RetrieveFails ==
    /\ pc = "retrieve" /\ entry \notin exes
    /\ pc' = "pendings"
    /\ UNCHANGED <<skipGet, tree, cache, todo, hits, hashes, pending, entry, built, behind, aux,
                   counts>>

\* retrieve_pendings: the next object that is a file of size 0
GetPending(u) ==
    /\ pc = "pendings" /\ u \in pending /\ <<u, hashes[u]>> \in store
    /\ Put(u, hashes[u])
    /\ pending' = pending \ {u}
    /\ UNCHANGED <<skipGet, src, lib, exe, exeMeta, cache, pc, todo, hits, hashes, entry, built,
                   behind, aux, counts>>

\* It is no longer in the cache: the others are not retrieved, and the answer is
\* the same
PendingFails ==
    /\ pc = "pendings" /\ \E u \in pending : <<u, hashes[u]>> \notin store
    /\ pc' = "link"
    /\ UNCHANGED <<skipGet, tree, cache, todo, hits, hashes, pending, entry, built, behind, aux,
                   counts>>

PreLinked ==
    /\ pc = "pendings" /\ pending = {}
    /\ pc' = "link"
    /\ UNCHANGED <<skipGet, tree, cache, todo, hits, hashes, pending, entry, built, behind, aux,
                   counts>>

-----------------------------------------------------------------------------
(* link.exe and the post-link process.                                     *)

\* base.Execute, PatchAssembly, PostInvokeLinkerCache
Link ==
    /\ pc = "link" /\ \A u \in Unit : obj[u] \in Version
    /\ exe' = [objs |-> obj, lib |-> lib] /\ exeMeta' = None
    /\ pc' = "postlink" /\ todo' = Unit /\ pending' = {}
    /\ UNCHANGED <<skipGet, src, lib, obj, meta, cache, hits, hashes, entry, built, behind,
                   aux, counts>>

\* link.exe does not take a file of size 0
LinkFails ==
    /\ pc = "link" /\ \E u \in Unit : obj[u] \notin Version
    /\ pc' = "idle"
    /\ UNCHANGED <<skipGet, tree, cache, todo, hits, hashes, pending, entry, built, behind, aux,
                   counts>>

\* ensure_output: add_object
AddOutput ==
    /\ pc = "postlink" /\ todo = {}
    /\ exes' = exes \cup {exe}
    /\ pc' = "publish"
    /\ UNCHANGED <<skipGet, tree, known, store, links, todo, hits, hashes, pending, entry, built,
                   behind, aux, counts>>

\* Mutant: the entry is looked for without its libraries, and its output replaced
PublishedOver ==
    IF \E e \in links : e.inputs = hashes
    THEN {IF e.inputs = hashes THEN [e EXCEPT !.output = exe] ELSE e : e \in links}
    ELSE links \cup {[inputs |-> hashes, lib |-> lib, output |-> exe]}
\* addEntry, or found.output = entry.output
Published ==
    {e \in links : ~Matches(e)} \cup {[inputs |-> hashes, lib |-> lib, output |-> exe]}

\* ensure_output: the manifest; add_pending_buffer2
PostLink ==
    /\ pc = "publish"
    /\ links' = Published
    /\ exeMeta' = exe
    /\ pc' = "idle" /\ built' = TRUE
    /\ UNCHANGED <<skipGet, src, lib, obj, meta, exe, known, store, exes, todo, hits, hashes,
                   pending, entry, behind, aux, counts>>

-----------------------------------------------------------------------------
(* What goes wrong.                                                        *)

Fails == faults < MaxFaults /\ faults' = faults + 1 /\ hurt' = TRUE

\* The pre-invoke process ends early: all units are misses
PreInvokeCrash ==
    /\ pc = "precompile" /\ Fails
    /\ todo' = {} /\ hits' = {}
    /\ UNCHANGED <<skipGet, tree, cache, pc, hashes, pending, entry, built, behind, torn,
                   builds>>

\* So does the post-invoke process
PostInvokeCrash ==
    /\ flush # {} /\ Fails
    /\ collect' = {} /\ flush' = {}
    /\ UNCHANGED <<skipGet, tree, cache, build, torn, builds>>

\* The pre-link process, maybe after it has deleted the linked file: no hit
PreLinkCrash ==
    /\ pc \in {"prelink", "retrieve", "pendings"} /\ Fails
    /\ \/ pc = "retrieve" /\ exe' = None /\ exeMeta' = None
       \/ UNCHANGED <<exe, exeMeta>>
    /\ pc' = "link" /\ todo' = {}
    /\ UNCHANGED <<skipGet, src, lib, obj, meta, cache, hits, hashes, pending, entry, built,
                   behind, torn, builds>>

\* The post-link process: the build has succeeded and is not stored
PostLinkCrash ==
    /\ pc \in {"postlink", "publish"} /\ Fails
    /\ pc' = "idle" /\ todo' = {} /\ built' = TRUE
    /\ UNCHANGED <<skipGet, tree, cache, hits, hashes, pending, entry, behind, torn, builds>>

\* Another process clears the cache, an object or an entry is lost
Lose ==
    /\ Fails
    /\ \/ \E x \in store : store' = store \ {x} /\ UNCHANGED <<known, links, exes>>
       \/ \E x \in exes : exes' = exes \ {x} /\ UNCHANGED <<known, store, links>>
       \/ known' = {} /\ store' = {} /\ links' = {} /\ exes' = {}
    /\ UNCHANGED <<skipGet, tree, build, behind, torn, builds>>

Next ==
    \/ Begin \/ Compile \/ CompileFails
    \/ \E u \in Unit :
        \/ PreInvoke(u) \/ Collect(u) \/ FlushOpen(u) \/ FlushWrite(u)
        \/ HashInput(u) \/ GetPending(u)
    \/ PreLink \/ Retrieve \/ RetrieveFails \/ PendingFails \/ PreLinked
    \/ Link \/ LinkFails \/ AddOutput \/ PostLink
    \/ PreInvokeCrash \/ PostInvokeCrash \/ PreLinkCrash \/ PostLinkCrash \/ Lose

Spec == Init /\ [][Next]_vars

-----------------------------------------------------------------------------
TypeOK ==
    /\ skipGet \in BOOLEAN
    /\ src \in [Unit -> Version] /\ lib \in Version
    /\ obj \in [Unit -> Version \cup {None, Empty}] /\ meta \in [Unit -> Hash \cup {None}]
    /\ exe \in Linked \cup {None} /\ exeMeta \in Linked \cup {None}
    /\ known \in SUBSET (Unit \X Version) /\ store \in SUBSET (Unit \X Version)
    /\ links \in SUBSET Entry /\ exes \in SUBSET Linked
    /\ pc \in {"idle", "precompile", "prelink", "retrieve", "pendings", "link", "postlink",
               "publish"}
    /\ todo \in SUBSET Unit /\ hits \in SUBSET Unit
    /\ hashes \in [Unit -> Hash] /\ pending \in SUBSET Unit
    /\ entry \in Linked \cup {None} /\ built \in BOOLEAN
    /\ collect \in SUBSET Unit /\ flush \in SUBSET Unit
    /\ torn \in BOOLEAN /\ hurt \in BOOLEAN
    /\ builds \in 0..MaxBuilds /\ faults \in 0..MaxFaults

\* What linking the project as it is now gives
Current == [objs |-> src, lib |-> lib]

Finished == pc = "idle" /\ built

\* A build that succeeds leaves what compiling and linking everything would give,
\* whether the linked file was linked, retrieved or left alone and whether the
\* objects were compiled, retrieved or not even there - unless a stream was
\* read between its creation and its writing.
LinkedIsCurrent == Finished /\ ~torn => exe = Current

\* An entry without the hash of an unwritten stream tells which objects and which
\* libraries its output was linked from.
EntriesAreSound ==
    \A e \in links :
        (\A u \in Unit : e.inputs[u] # Torn) =>
            e.output = [objs |-> e.inputs, lib |-> e.lib]

\* A finished build is a hit the next time, if nothing was lost, no process ended
\* early and no unwritten stream was read.
LinkIsCached ==
    Finished /\ ~torn /\ ~hurt =>
        exe \in exes /\ \E e \in links : e.inputs = src /\ e.lib = lib /\ e.output = exe

\* link.exe finds the objects that the pre-invoke process did not retrieve: it
\* meets a file of size 0 only if in this build a process has ended early or
\* something was lost from the cache.
LinksSucceed ==
    pc = "link" /\ ~hurt => \A u \in Unit : obj[u] \in Version

\* README: with ACLCACHE_SKIPGET "only a dummy .obj file will be generated".  The
\* object file of a hit is such a file, or it is the object.  It does not hold
\* with OldObjects: an object file of another version stays where it is.
DummyIsGenerated ==
    pc = "prelink" => \A u \in hits : obj[u] \in {Empty, src[u]}
=============================================================================
