---------------------------- MODULE MemcacheStore ----------------------------
(***************************************************************************)
(* The cache kept in memcached, shared by machines that build the same     *)
(* project.                                                                *)
(*                                                                         *)
(* There are no locks: the processes of two machines read and write the    *)
(* same manifest as they please.  The server forgets what it likes when it *)
(* likes.  A file that is too long for one item is stored in slices, each  *)
(* under its own hash, and a descriptor that names them; machines may have *)
(* different slice sizes.  A file is a sequence of blocks, its hash is the *)
(* file itself, and each machine builds in a clean tree, with one build at *)
(* a time.  Compression, which uses other keys, is left out.               *)
(***************************************************************************)
EXTENDS Naturals, Sequences, SequencesExt

CONSTANTS
    Machine,
    Unit,           \* the sources, each with one object file
    Header,         \* states of the headers
    Object,         \* the object files that compiling a unit may give
    DefaultChunk,   \* FILE_CHUNK_SIZE, in blocks
    ConfiguredChunk, \* ACLCACHE_CHUNK_SIZE of each machine
    None,           \* no file, no entry
    MaxBuilds,      \* bound: number of builds
    MaxFaults,      \* bound: calls that fail, processes that end
    MaxLost         \* bound: number of times the server forgets something

File == UNION {Object[u][h] : u \in Unit, h \in Header}

\* Cache.__init__: FILE_CHUNK_SIZE is only ever raised
ChunkSize(m) ==
    IF ConfiguredChunk[m] > DefaultChunk THEN ConfiguredChunk[m] ELSE DefaultChunk

\* store_file: the slices of a file
Slices(c, n) ==
    [i \in 1..((Len(c) + n - 1) \div n) |->
        SubSeq(c, (i - 1) * n + 1, IF i * n < Len(c) THEN i * n ELSE Len(c))]

Stored == File \cup UNION {Range(Slices(c, ChunkSize(m))) : c \in File, m \in Machine}

\* big_file_descriptor
Descriptors == {[hashes |-> Slices(c, ChunkSize(m)), size |-> Len(c)] : c \in File, m \in Machine}

Entry == [dependency : Header, output : File]

ASSUME StoreAssumption ==
    /\ Unit # {}
    /\ \A c \in File : c \in Seq(Range(c)) /\ Len(c) > 0
    /\ DefaultChunk \in Nat \ {0} /\ ConfiguredChunk \in [Machine -> Nat]
    /\ None \notin Stored
    /\ MaxBuilds \in Nat /\ MaxFaults \in Nat /\ MaxLost \in Nat

VARIABLES
    item,     \* the server: what is stored under a hash
    desc,     \* the server: the descriptors, under the hash with 'z' appended
    manifest, \* the server: the entries of each unit
    pipelined, \* is there one server?  Then slices are sent before an answer is read

    hdr,    \* each machine's headers
    file,   \* each machine's object files
    pc,     \* where its process is
    mode,   \* is hasEntry asked to get a file or to add one?
    todo,   \* units still to be dealt with
    unit,   \* the unit at hand
    entry,  \* the hash of the object that the lookup found for each unit
    hits,   \* units retrieved
    localCacheKeys, \* the answers of the server to "exist"
    localCache,     \* the files fetched, or None for those not found
    slices, \* the descriptor at hand, without the slices dealt with
    copy,   \* the manifest at hand
    bad,    \* has a slice been refused?
    builds, faults, lost \* counters of the bounds

server  == <<item, desc, manifest, pipelined>>
caches  == <<localCacheKeys, localCache>>
counts  == <<builds, faults, lost>>
vars    == <<server, hdr, file, pc, mode, todo, unit, entry, hits, caches, slices, copy, bad,
             counts>>

NoSlices == [hashes |-> <<>>, size |-> 0]

Init ==
    /\ item = <<>> /\ desc = <<>>
    /\ manifest = [u \in Unit |-> {}]
    /\ pipelined \in BOOLEAN
    /\ hdr \in [Machine -> Header]
    /\ file = [m \in Machine |-> [u \in Unit |-> None]]
    /\ pc = [m \in Machine |-> "idle"] /\ mode = [m \in Machine |-> "get"]
    /\ todo = [m \in Machine |-> {}] /\ unit = [m \in Machine |-> CHOOSE u \in Unit : TRUE]
    /\ entry = [m \in Machine |-> [u \in Unit |-> None]]
    /\ hits = [m \in Machine |-> {}]
    /\ localCacheKeys = [m \in Machine |-> <<>>] /\ localCache = [m \in Machine |-> <<>>]
    /\ slices = [m \in Machine |-> NoSlices]
    /\ copy = [m \in Machine |-> {}] /\ bad = [m \in Machine |-> FALSE]
    /\ builds = 0 /\ faults = 0 /\ lost = 0

\* A call fails: the server does not answer, or refuses
Fails == faults < MaxFaults /\ faults' = faults + 1

\* That happens because of c, or because a call fails
OrFails(c) == (c /\ UNCHANGED faults) \/ Fails

\* f with v under k
Put(f, k, v) == [x \in DOMAIN f \cup {k} |-> IF x = k THEN v ELSE f[x]]

\* The hash that is asked for
key(m) == IF mode[m] = "get" THEN entry[m][unit[m]] ELSE file[m][unit[m]]

At(m, p) == pc[m] = p
GoTo(m, p) == pc' = [pc EXCEPT ![m] = p]

-----------------------------------------------------------------------------
(* The pre-invoke process looks up all units.                              *)

Begin(m) ==
    /\ At(m, "idle") /\ builds < MaxBuilds
    /\ builds' = builds + 1
    /\ \E h \in Header : hdr' = [hdr EXCEPT ![m] = h]
    /\ file' = [file EXCEPT ![m] = [u \in Unit |-> None]]
    /\ entry' = [entry EXCEPT ![m] = [u \in Unit |-> None]]
    /\ hits' = [hits EXCEPT ![m] = {}]
    /\ todo' = [todo EXCEPT ![m] = Unit]
    /\ mode' = [mode EXCEPT ![m] = "get"]
    /\ localCacheKeys' = [localCacheKeys EXCEPT ![m] = <<>>]
    /\ localCache' = [localCache EXCEPT ![m] = <<>>]
    /\ GoTo(m, "lookup")
    /\ UNCHANGED <<server, unit, slices, copy, bad, faults, lost>>

\* manifest_hit
Lookup(m, u) ==
    /\ At(m, "lookup") /\ u \in todo[m]
    /\ todo' = [todo EXCEPT ![m] = @ \ {u}]
    /\ LET found == {e \in manifest[u] : e.dependency = hdr[m]}
       IN  \/ /\ found = {}
              /\ UNCHANGED <<entry, faults>>
           \/ /\ \E e \in found : entry' = [entry EXCEPT ![m][u] = e.output]
              /\ UNCHANGED faults
           \/ Fails /\ UNCHANGED entry
    /\ UNCHANGED <<server, hdr, file, pc, mode, unit, hits, caches, slices, copy, bad,
                   builds, lost>>

LookedUp(m) ==
    /\ At(m, "lookup") /\ todo[m] = {}
    /\ todo' = [todo EXCEPT ![m] = {u \in Unit : entry[m][u] # None}]
    /\ GoTo(m, "get")
    /\ UNCHANGED <<server, hdr, file, mode, unit, entry, hits, caches, slices, copy,
                   bad, counts>>

\* retrieve_hit
Get(m, u) ==
    /\ At(m, "get") /\ u \in todo[m]
    /\ todo' = [todo EXCEPT ![m] = @ \ {u}]
    /\ unit' = [unit EXCEPT ![m] = u]
    /\ GoTo(m, "has")
    /\ UNCHANGED <<server, hdr, file, mode, entry, hits, caches, slices, copy, bad,
                   counts>>

-----------------------------------------------------------------------------
(* hasEntry: is the key on the server, as an item or as a descriptor all of *)
(* whose slices are there?                                                 *)

Known(m) ==
    \/ key(m) \in DOMAIN localCacheKeys[m]
    \/ key(m) \in DOMAIN localCache[m] /\ localCache[m][key(m)] # None

\* Where the process goes on when the answer is r
AfterHas(m, r) ==
    IF mode[m] = "get"
    THEN IF r THEN "fetch" ELSE "get"
    ELSE IF r THEN "publish" ELSE "store"

HasKnown(m) ==
    /\ At(m, "has") /\ Known(m)
    /\ GoTo(m, AfterHas(m, IF key(m) \in DOMAIN localCacheKeys[m]
                        THEN localCacheKeys[m][key(m)] ELSE TRUE))
    /\ UNCHANGED <<server, hdr, file, mode, todo, unit, entry, hits, caches, slices,
                   copy, bad, counts>>

Answer(m, r) ==
    /\ localCacheKeys' = [localCacheKeys EXCEPT ![m] = Put(@, key(m), r)]
    /\ GoTo(m, AfterHas(m, r))
    /\ UNCHANGED slices

\* exist: the item itself
HasItem(m) ==
    /\ At(m, "has") /\ ~Known(m)
    /\ \/ key(m) \in DOMAIN item /\ Answer(m, TRUE) /\ UNCHANGED faults
       \/ /\ OrFails(key(m) \notin DOMAIN item)
          /\ GoTo(m, "hasbig")
          /\ UNCHANGED <<localCacheKeys, slices>>
    /\ UNCHANGED <<server, hdr, file, mode, todo, unit, entry, hits, localCache, copy,
                   bad, builds, lost>>

\* exist: the descriptor
HasDescriptor(m) ==
    /\ At(m, "hasbig")
    /\ \/ /\ key(m) \in DOMAIN desc
          /\ slices' = [slices EXCEPT ![m] = desc[key(m)]]
          /\ GoTo(m, "hasslices")
          /\ UNCHANGED <<localCacheKeys, faults>>
       \/ /\ OrFails(key(m) \notin DOMAIN desc)
          /\ Answer(m, FALSE)
    /\ UNCHANGED <<server, hdr, file, mode, todo, unit, entry, hits, localCache, copy,
                   bad, builds, lost>>

\* exist_multi: one slice after another
HasSlice(m) ==
    /\ At(m, "hasslices")
    /\ LET left == slices[m].hashes
       IN  \/ left = <<>> /\ Answer(m, TRUE) /\ UNCHANGED faults
           \/ /\ left # <<>> /\ Head(left) \in DOMAIN item
              /\ slices' = [slices EXCEPT ![m].hashes = Tail(left)]
              /\ UNCHANGED <<pc, localCacheKeys, faults>>
           \/ /\ left # <<>>
              /\ OrFails(Head(left) \notin DOMAIN item)
              /\ Answer(m, FALSE)
    /\ UNCHANGED <<server, hdr, file, mode, todo, unit, entry, hits, localCache, copy,
                   bad, builds, lost>>

-----------------------------------------------------------------------------
(* real_get_file and getEntry2: the object is deleted, then fetched.       *)

\* The file is v, or cannot be had
Keep(m, v) ==
    /\ localCache' = [localCache EXCEPT ![m] = Put(@, key(m), v)]
    /\ file' = [file EXCEPT ![m][unit[m]] = v]
    /\ hits' = IF v = None THEN hits ELSE [hits EXCEPT ![m] = @ \cup {unit[m]}]
    /\ GoTo(m, "get")
    /\ UNCHANGED slices

\* fetch_file: the item itself
Fetch(m) ==
    /\ At(m, "fetch")
    /\ \/ /\ key(m) \in DOMAIN localCache[m]
          /\ Keep(m, localCache[m][key(m)])
          /\ UNCHANGED faults
       \/ /\ key(m) \notin DOMAIN localCache[m] /\ key(m) \in DOMAIN item
          /\ Keep(m, item[key(m)])
          /\ UNCHANGED faults
       \/ /\ key(m) \notin DOMAIN localCache[m]
          /\ OrFails(key(m) \notin DOMAIN item)
          /\ GoTo(m, "fetchbig")
          /\ UNCHANGED <<localCache, file, hits, slices>>
    /\ UNCHANGED <<server, hdr, mode, todo, unit, entry, localCacheKeys, copy, bad,
                   builds, lost>>

\* fetch_file: the descriptor
FetchDescriptor(m) ==
    /\ At(m, "fetchbig")
    /\ \/ /\ key(m) \in DOMAIN desc
          /\ slices' = [slices EXCEPT ![m] = desc[key(m)]]
          /\ GoTo(m, "fetchslices")
          /\ UNCHANGED <<localCache, file, hits, faults>>
       \/ /\ OrFails(key(m) \notin DOMAIN desc)
          /\ Keep(m, None)
    /\ UNCHANGED <<server, hdr, mode, todo, unit, entry, localCacheKeys, copy, bad,
                   builds, lost>>

\* Mutant: the slices that the server has are joined, and their length is not
\* compared
JoinPresent(d) ==
    LET got == SelectSeq(d.hashes, LAMBDA k : k \in DOMAIN item)
    IN  FlattenSeq([i \in DOMAIN got |-> item[got[i]]])
\* The slices joined, if the server has them all
Join(d) ==
    LET joined == FlattenSeq([i \in DOMAIN d.hashes |-> item[d.hashes[i]]])
    IN  IF Range(d.hashes) \subseteq DOMAIN item /\ Len(joined) = d.size
        THEN joined ELSE None

\* fetch_file: all slices with one request
FetchSlices(m) ==
    /\ At(m, "fetchslices")
    /\ \/ Keep(m, Join(slices[m])) /\ UNCHANGED faults
       \/ Keep(m, None) /\ Fails
    /\ UNCHANGED <<server, hdr, mode, todo, unit, entry, localCacheKeys, copy, bad,
                   builds, lost>>

-----------------------------------------------------------------------------
(* The compiler, then the post-invoke process.                             *)

Compile(m) ==
    /\ At(m, "get") /\ todo[m] = {}
    /\ \E made \in [Unit \ hits[m] -> File] :
        /\ \A u \in Unit \ hits[m] : made[u] \in Object[u][hdr[m]]
        /\ file' = [file EXCEPT ![m] =
                        [u \in Unit |-> IF u \in hits[m] THEN @[u] ELSE made[u]]]
    /\ todo' = [todo EXCEPT ![m] = Unit \ hits[m]]
    /\ mode' = [mode EXCEPT ![m] = "add"]
    /\ localCacheKeys' = [localCacheKeys EXCEPT ![m] = <<>>]
    /\ localCache' = [localCache EXCEPT ![m] = <<>>]
    /\ GoTo(m, "collect")
    /\ UNCHANGED <<server, hdr, unit, entry, hits, slices, copy, bad, counts>>

\* ensure_output, add_object
Collect(m, u) ==
    /\ At(m, "collect") /\ u \in todo[m]
    /\ todo' = [todo EXCEPT ![m] = @ \ {u}]
    /\ unit' = [unit EXCEPT ![m] = u]
    /\ GoTo(m, "has")
    /\ UNCHANGED <<server, hdr, file, mode, entry, hits, caches, slices, copy, bad,
                   counts>>

Collected(m) ==
    /\ At(m, "collect") /\ todo[m] = {}
    /\ GoTo(m, "idle")
    /\ UNCHANGED <<server, hdr, file, mode, todo, unit, entry, hits, caches, slices,
                   copy, bad, counts>>

\* setEntry2: the file is stored
Success(m) ==
    /\ localCacheKeys' = [localCacheKeys EXCEPT ![m] = Put(@, key(m), TRUE)]
    /\ GoTo(m, "publish")

\* store_file: a short file is one item
StoreWhole(m) ==
    /\ At(m, "store") /\ Len(file[m][unit[m]]) < ChunkSize(m)
    /\ \/ /\ item' = Put(item, key(m), file[m][unit[m]])
          /\ Success(m) /\ UNCHANGED faults
       \/ Fails /\ GoTo(m, "collect") /\ UNCHANGED <<item, localCacheKeys>>
    /\ UNCHANGED <<desc, manifest, pipelined, hdr, file, mode, todo, unit, entry, hits,
                   localCache, slices, copy, bad, builds, lost>>

\* Mutant: the last slice is left out when it is not a whole one
WholeSlices(m) ==
    LET c == file[m][unit[m]]
    IN  [hashes |-> SubSeq(Slices(c, ChunkSize(m)), 1, Len(c) \div ChunkSize(m)),
         size |-> Len(c)]
\* add_chunk
Descriptor(m) ==
    LET c == file[m][unit[m]] IN [hashes |-> Slices(c, ChunkSize(m)), size |-> Len(c)]

\* Mutant: the descriptor is stored before the slices
StoreBigFirst(m) ==
    /\ At(m, "store") /\ Len(file[m][unit[m]]) >= ChunkSize(m)
    /\ slices' = [slices EXCEPT ![m] = Descriptor(m)]
    /\ desc' = Put(desc, key(m), Descriptor(m))
    /\ bad' = [bad EXCEPT ![m] = FALSE]
    /\ GoTo(m, "slices")
    /\ UNCHANGED <<item, manifest, pipelined, hdr, file, mode, todo, unit, entry, hits,
                   caches, copy, counts>>
StoreBig(m) ==
    /\ At(m, "store") /\ Len(file[m][unit[m]]) >= ChunkSize(m)
    /\ slices' = [slices EXCEPT ![m] = Descriptor(m)]
    /\ bad' = [bad EXCEPT ![m] = FALSE]
    /\ GoTo(m, "slices")
    /\ UNCHANGED <<server, hdr, file, mode, todo, unit, entry, hits, caches, copy,
                   counts>>

\* store_multi: the slices.  When one is refused, the client of several servers
\* stops; the client of one server has sent the others already.
StoreSlice(m) ==
    /\ At(m, "slices") /\ slices[m].hashes # <<>>
    /\ \/ /\ item' = Put(item, Head(slices[m].hashes), Head(slices[m].hashes))
          /\ slices' = [slices EXCEPT ![m].hashes = Tail(@)]
          /\ UNCHANGED <<pc, bad, faults>>
       \/ /\ OrFails(bad[m])
          /\ IF pipelined
             THEN /\ bad' = [bad EXCEPT ![m] = TRUE]
                  /\ slices' = [slices EXCEPT ![m].hashes = Tail(@)]
                  /\ UNCHANGED pc
             ELSE GoTo(m, "collect") /\ UNCHANGED <<bad, slices>>
          /\ UNCHANGED item
    /\ UNCHANGED <<desc, manifest, pipelined, hdr, file, mode, todo, unit, entry, hits,
                   caches, copy, builds, lost>>

\* store_multi: the descriptor comes last
StoreDescriptor(m) ==
    /\ At(m, "slices") /\ slices[m].hashes = <<>>
    /\ \/ /\ desc' = Put(desc, key(m), Descriptor(m))
          /\ IF bad[m] THEN GoTo(m, "collect") /\ UNCHANGED localCacheKeys ELSE Success(m)
          /\ UNCHANGED faults
       \/ /\ OrFails(bad[m])
          /\ GoTo(m, "collect")
          /\ UNCHANGED <<desc, localCacheKeys>>
    /\ UNCHANGED <<item, manifest, pipelined, hdr, file, mode, todo, unit, entry, hits,
                   localCache, slices, copy, bad, builds, lost>>

\* ensure_output: getManifest.  A manifest that cannot be read is taken for none.
PubRead(m) ==
    /\ At(m, "publish")
    /\ \/ copy' = [copy EXCEPT ![m] = manifest[unit[m]]] /\ UNCHANGED faults
       \/ copy' = [copy EXCEPT ![m] = {}] /\ Fails
    /\ GoTo(m, "write")
    /\ UNCHANGED <<server, hdr, file, mode, todo, unit, entry, hits, caches, slices,
                   bad, builds, lost>>

\* Mutant: an entry is added although there is one for these headers
Appended(m) ==
    copy[m] \cup {[dependency |-> hdr[m], output |-> file[m][unit[m]]]}
\* addEntry, or found.output = entry.output
Published(m) ==
    {e \in copy[m] : e.dependency # hdr[m]}
        \cup {[dependency |-> hdr[m], output |-> file[m][unit[m]]]}

\* ensure_output: setManifest, unless nothing has changed
PubWrite(m) ==
    /\ At(m, "write")
    /\ \/ /\ Published(m) # copy[m]
          /\ manifest' = [manifest EXCEPT ![unit[m]] = Published(m)]
          /\ UNCHANGED faults
       \/ Published(m) # copy[m] /\ Fails /\ UNCHANGED manifest
       \/ Published(m) = copy[m] /\ UNCHANGED <<manifest, faults>>
    /\ GoTo(m, "collect")
    /\ UNCHANGED <<item, desc, pipelined, hdr, file, mode, todo, unit, entry, hits,
                   caches, slices, copy, bad, builds, lost>>

-----------------------------------------------------------------------------
(* What goes wrong.                                                        *)

Forget(f, k) == [x \in DOMAIN f \ {k} |-> f[x]]

\* The server drops an item
Evict ==
    /\ lost < MaxLost /\ lost' = lost + 1
    /\ \/ \E k \in DOMAIN item : item' = Forget(item, k) /\ UNCHANGED <<desc, manifest>>
       \/ \E k \in DOMAIN desc : desc' = Forget(desc, k) /\ UNCHANGED <<item, manifest>>
       \/ \E u \in Unit :
            /\ manifest[u] # {}
            /\ manifest' = [manifest EXCEPT ![u] = {}] /\ UNCHANGED <<item, desc>>
    /\ UNCHANGED <<pipelined, hdr, file, pc, mode, todo, unit, entry, hits, caches,
                   slices, copy, bad, builds, faults>>

\* clear: flush_all
Clear ==
    /\ lost < MaxLost /\ lost' = lost + 1
    /\ item' = <<>> /\ desc' = <<>> /\ manifest' = [u \in Unit |-> {}]
    /\ UNCHANGED <<pipelined, hdr, file, pc, mode, todo, unit, entry, hits, caches,
                   slices, copy, bad, builds, faults>>

\* A pre-invoke process ends early: it reports nothing, and everything is compiled
PreCrash(m) ==
    /\ mode[m] = "get" /\ ~At(m, "idle") /\ Fails
    /\ hits' = [hits EXCEPT ![m] = {}]
    /\ todo' = [todo EXCEPT ![m] = {}]
    /\ GoTo(m, "get")
    /\ UNCHANGED <<server, hdr, file, mode, unit, entry, caches, slices, copy, bad,
                   builds, lost>>

\* A post-invoke process ends early: the rest is not stored
PostCrash(m) ==
    /\ mode[m] = "add" /\ ~At(m, "idle") /\ Fails
    /\ GoTo(m, "idle")
    /\ UNCHANGED <<server, hdr, file, mode, todo, unit, entry, hits, caches, slices,
                   copy, bad, builds, lost>>

Next ==
    \/ \E m \in Machine :
        \/ Begin(m) \/ LookedUp(m)
        \/ \E u \in Unit : Lookup(m, u) \/ Get(m, u) \/ Collect(m, u)
        \/ HasKnown(m) \/ HasItem(m) \/ HasDescriptor(m) \/ HasSlice(m)
        \/ Fetch(m) \/ FetchDescriptor(m) \/ FetchSlices(m)
        \/ Compile(m) \/ Collected(m)
        \/ StoreWhole(m) \/ StoreBig(m) \/ StoreSlice(m) \/ StoreDescriptor(m)
        \/ PubRead(m) \/ PubWrite(m)
        \/ PreCrash(m) \/ PostCrash(m)
    \/ Evict \/ Clear

Spec == Init /\ [][Next]_vars

-----------------------------------------------------------------------------
TypeOK ==
    /\ DOMAIN item \subseteq Stored /\ Range(item) \subseteq Stored
    /\ DOMAIN desc \subseteq File /\ Range(desc) \subseteq Descriptors
    /\ manifest \in [Unit -> SUBSET Entry]
    /\ pipelined \in BOOLEAN
    /\ hdr \in [Machine -> Header]
    /\ file \in [Machine -> [Unit -> File \cup {None}]]
    /\ pc \in [Machine -> {"idle", "lookup", "get", "has", "hasbig", "hasslices", "fetch",
                           "fetchbig", "fetchslices", "collect", "store", "slices",
                           "publish", "write"}]
    /\ mode \in [Machine -> {"get", "add"}]
    /\ todo \in [Machine -> SUBSET Unit] /\ unit \in [Machine -> Unit]
    /\ entry \in [Machine -> [Unit -> File \cup {None}]]
    /\ hits \in [Machine -> SUBSET Unit]
    /\ \A m \in Machine :
        /\ DOMAIN localCacheKeys[m] \subseteq File
        /\ Range(localCacheKeys[m]) \subseteq BOOLEAN
        /\ DOMAIN localCache[m] \subseteq File
        /\ Range(localCache[m]) \subseteq File \cup {None}
        /\ Range(slices[m].hashes) \subseteq Stored /\ slices[m].size \in Nat
    /\ copy \in [Machine -> SUBSET Entry]
    /\ bad \in [Machine -> BOOLEAN]
    /\ builds \in 0..MaxBuilds /\ faults \in 0..MaxFaults /\ lost \in 0..MaxLost

\* Can a machine fetch the object that has the hash k?
Retrievable(k) == k \in DOMAIN item \/ (k \in DOMAIN desc /\ Join(desc[k]) = k)

\* A hit that is reported is an object that compiling the unit with the headers
\* of this machine could have given, whatever is forgotten or fails during the
\* retrieval, and whatever machine stored the object, with its own slice size.
HitsAreSound ==
    \A m \in Machine : \A u \in hits[m] : file[m][u] \in Object[u][hdr[m]]

\* An entry names an object that can be fetched as long as the server forgets
\* nothing: also when a process ended between two slices or two machines with
\* different slice sizes stored the object at once.  It is so for the client of
\* several servers only: that of one server stores a descriptor although a slice
\* was refused, and may so replace the descriptor of another machine.
EntriesAreBacked ==
    lost = 0 /\ ~pipelined =>
        \A u \in Unit : \A e \in manifest[u] : Retrievable(e.output)

\* A manifest has one entry for each state of the headers, although two machines
\* may publish at the same time.
UniqueDeps ==
    \A u \in Unit : \A e, f \in manifest[u] : e.dependency = f.dependency => e = f

\* Has no other machine built anything?
Alone(m) ==
    \A n \in Machine \ {m} : At(n, "idle") /\ file[n] = [u \in Unit |-> None]

\* What a machine that builds alone has built is a hit the next time, whole files
\* and sliced ones.
BuildIsCached ==
    \A m \in Machine :
        /\ At(m, "idle") /\ builds > 0 /\ Alone(m)
        /\ faults = 0 /\ lost = 0
        => \A u \in Unit : \E e \in manifest[u] :
                e.dependency = hdr[m] /\ e.output = file[m][u] /\ Retrievable(e.output)
=============================================================================
