# A verification of aclcache

aclcache stores what cl.exe, link.exe and lib.exe produce and brings it back
when the same inputs are built again. It is a Python program (`src/clcache`)
that an MSBuild extension in C# (`src/extension`) starts before and after the
compiler tasks of every project. Several projects are built at once, so many
such processes use one cache directory, one statistics file and one hash server
at the same time; some of them run in the background while the next build has
already begun. The specifications here say what must hold of the cache then.

Every definition is a translation of the source; `PROJECT.json` ("map") names
the lines each one stands for. Line numbers in this file are of
`src/clcache/__main__.py` unless another file is named.

## 1. The system

### Components, their state and their operations

| component | state | operations | module |
| --- | --- | --- | --- |
| Local cache directory (`CacheFileStrategy`, `ManifestRepository`, `CompilerArtifactsRepository`, `CacheLock`) | manifests, objects, their section directories, one named mutex for each section, `stats.txt` | read and publish a manifest, add and get an object, clear, clean | `LocalCache` |
| Pre-invoke and post-invoke processes (`processPreInvoke`, `processPostInvoke`) | the items of a project, hits and misses, memoised file hashes, metadata to be flushed | look up, retrieve, collect, store, flush, count | `LocalCache` (interleaving), `PchProject` (items that depend on each other) |
| MSBuild extension (`mstask.cs`) | the table of projects, flags of each project, hits that the tasks skip | start the processes, skip hits, tell what was compiled | the part that orders the processes is in `LocalCache` and `PchProject`; the flags are in `BuildWorkflow` |
| Hash server (`server/__main__.py`) and its clients | hashes in memory, watched directories, open connections | answer a request, drop a hash on a notification, exit | `HashServer` |
| Memcached storage (`storage.py`, `memcached.py`) | keys on a server that may forget them, a local cache in front of it | the operations of the local directory, without locks | `MemcacheStore` |
| Memcached clients (`memcached.py`, `pymemcache/client`) | connections, what is under way on them, servers that fail or are dead | get, set, append, touch; connect, close, time-out, retry | `MemcacheClient`, which implements `KeyValueCalls` |
| Statistics and configuration (`PersistentJSONDict`, `Statistics`, `Configuration`) | `stats.txt`, `config.txt`, the mutex of the statistics | load, change, save | `Settings`; `LocalCache` has the number of objects |
| Linker and librarian cache (`LinkerItem`, the Link and LIB tasks) | manifests and linked files in the same directory, the hashes in the data streams of the objects, objects that were not retrieved | look up by the hashes of the objects, retrieve objects late, store | `LinkProject` |
| Direct mode (`processDirect`, `processNoDirect`) | as for the local cache | compile through the cache, without MSBuild | `DirectMode` |
| Command-line analysis (`CommandLineTokenizer`, `CommandLineAnalyzer`, `processCompileRequest`, `scheduleJobs`) | the words still to be looked at, the jobs of a command | scan, expand, analyse, cut into jobs, collect their results | `CommandLine` |
| `pehash`, `pepatch`, `TimerTask`, loader, `override.targets`, vendored libraries | | | left out (section 7) |

### How they interact

A build of a project is a chain. `PreInvokeClcache` (mstask.cs) starts a
*pre-invoke* process with the sources of the project. It reads each source's
manifest under that manifest's mutex, looks for an entry whose header hash is
that of the headers now, copies the objects of the hits into place under the
objects' mutexes, and prints the hits. `CL.Execute` compiles the others. Then
`PostInvokeClcache` starts a *post-invoke* process with the sources that were
compiled; it hashes what the compiler wrote, adds the objects to the store, then
publishes an entry in each source's manifest, writes the hashes into the files'
alternate data streams, and adds its counters to `stats.txt`. By default
MSBuild does not wait for this process. If `ACLCACHE_SERVER` is set, the hashes
of headers are asked of the hash server through a named pipe.

Everything between processes goes through the file system and named mutexes: no
process tells another anything, except through the hash server.

### What is hard about it

* *Interleaving*: processes of several projects, and of two builds of the same
  project when the first one's post-invoke process is still at work.
* *Locks*: one mutex for each section; `--clear` and `--clean` take all those
  that exist at one moment; a mutex of a dead process is passed on.
* *Partial failure*: an object that cannot be renamed into place, that has gone
  between lookup and retrieval, a process that ends anywhere.
* *Trusted values*: the hash in a data stream, a memoised header hash, the hash
  server's memory and the list of what is watched are used without being
  verified against the files.
* *Connections that outlive a call*: answers of a memcached server are matched to
  requests by their order alone, and calls end by time-outs in the middle of it.
* *Dependence between items*: a `.pch` file is not stored, so a source that uses
  one can only be compiled in the same build as the source that creates it, or after the
  project that shares it has written its hash.

What makes each component correct:

* local cache: what is stored under a hash has that hash; an entry names
  objects that exist and belong together; publishing never loses an entry;
  counters are right; nobody waits for ever;
* pre- and post-invoke: a reported hit puts on disk what compiling would have;
  nothing is compiled that the cache has; a finished build is a hit next time;
* precompiled headers: users and creators miss together;
* hash server: no answer is older than the notifications under way; every
  request ends;
* memcached storage: a forgotten key or chunk is a miss, never a wrong file;
* memcached clients: what a call returns was said of its own keys after it began;
  a key always belongs to the same server; a server that failed is used again;
* statistics and configuration: no count is lost or made twice, a setting keeps
  the value it was given last;
* command line: the jobs of a command compile each source once, with all its
  options and no others; the exit code is 0 only if all of them succeeded;
* linker cache: what is linked or retrieved is what linking the sources gives,
  also when objects are only there by their hashes;
* direct mode: the object a job leaves is that of the headers as they are.

## 2. Modules and plan

Done, in this order:

1. `LocalCache`, with `MCLocalCache` (instances) and `LocalCacheProofs`.
2. `PchProject`, with `MCPchProject` and `PchProjectProofs`.
3. `HashServer`, with `MCHashServer` and `HashServerProofs`.
4. `BuildWorkflow`, with `MCBuildWorkflow` and `BuildWorkflowProofs`.
5. `MemcacheStore`, with `MCMemcacheStore`.
6. `LinkProject`, with `MCLinkProject` and `LinkProjectProofs`.
7. `DirectMode`, with `MCDirectMode`.
8. `Settings`, with `MCSettings` and `SettingsProofs`.
9. `KeyValueCalls`, what a client of memcached promises, and `MemcacheClient`,
   which implements it, with `MCMemcacheClient`.
10. `CommandLine`, with `MCCommandLine`.

`MemcacheProofs` is about `MemcacheStore` and `MemcacheClient`, and `WrapperProofs` about
`DirectMode` and `CommandLine`. Such a module extends both components, and so the second of
each pair has names of its own for what every specification has: `ClientInit`, `ClientNext`, `ClientSpec`,
`LineInit`, `LineNext`, `LineSpec`.

Each module is a component whose neighbours are one step each. `LocalCache` has
the interleaving of many processes with one kind of item; `PchProject` takes
one process at a time and has the items that depend on each other;
`BuildWorkflow` takes each process for one step and has what the extension and
MSBuild know. `MemcacheStore` has the same pre-invoke and post-invoke processes
as `LocalCache`, over another storage. `LinkProject` puts the linker's processes
behind the compiler's, which keep only what the linker reads of them: objects,
data streams and what is stored. `DirectMode` is the wrapper that can be used
instead of the extension; it shares the directory layout with the others and
nothing else.

`MemcacheStore` takes a call of the client for one step, which either succeeds
or fails; `MemcacheClient` is what such a call consists of. `Settings` has the two
files that every process of the others loads and saves on its way. `CommandLine` ends
where `DirectMode` begins: with the job of one source.

What was planned is done. Every safety property that a passing run checks is also a theorem
(section 5); liveness is left to TLC (section 6).

## 3. How the modules correspond to the code

### LocalCache

`Proc` are chains of processes, or commands. A chain that dies in its
pre-invoke part still compiles, as MSBuild does when it has no answer; one that
dies in its post-invoke part leaves the build finished and unstored. The actions
and the code they stand for:

| actions | code |
| --- | --- |
| `Build`, `PreRead`, `PreMatch` | `processPreInvoke`, `manifest_hit`: the manifest is copied under its lock and searched outside it |
| `Get`, `GetLock`, `GetMiss`, `GetCopy`, `GetVanished`, `Report` | `retrieve_hit`, `get_object`, `real_get_file`, `getEntry2`, the flush and the answer |
| `Compile`, `CompileFails`, `PostInvoke` | `CL.Execute`, `PostInvokeClcache`; cl.exe is external |
| `PostInit`, `Collect`, `HashOut`, `HashDep` | `processPostInvoke`, `manifest_entry`: outputs are hashed before headers |
| `AddDuplicate`, `AddLock`, `AddCopy`, `AddReplace`, `AddFails` | `ensure_output`'s loop, `add_object`, `setEntry2`: copy aside, then rename |
| `PubRead`, `PubWrite` | `ensure_output`: read, change and replace the manifest in one critical section |
| `PostFlush`, `PostStats` | `add_pending_buffer2`, `updateStats` |
| `Command`, `LockManifests`, `LockObjects`, `Clean` | `--clear`, `--clean`, `lock`, `allSectionsLocked`, `cleanCache` |
| `LockStatistics`, `WipeManifests`, `WipeObjects`, `Cleared` | `clearCache`, `clear`: `rmtree` of the manifests, then of the objects |
| `Crash` with `ManifestsHalfWiped`, `ObjectsHalfWiped`, and `FileGone` | a process ended from outside or by an exception, also in the middle of an `rmtree`; the mutexes it held go on to the next waiter |
| `EditHeader` | the developer |

Two things are each one step although the code makes several: reading a
manifest file, and replacing one (`atomic_write` renames a temporary file). The
hash of a file is its content, so two different contents never share a hash. A
file that is written is present as a whole: the model has no half-written
object file. What an `rmtree` that is cut short leaves is `Husk`: an entry's directory from which the object
is gone, which `hasEntry` takes for an entry and `getEntry2` cannot copy from. With `Async = FALSE` a build of a tree waits for the post-invoke
process of the previous one (`ACLCACHE_SYNC` has flag 1); with `Async = TRUE` it does not.
Sections stand for the two-letter directories of manifests and objects.

### PchProject

One build at a time, with sources that depend on each other. `Lookup`,
`Retrieve`, `Compile` and `Collect` treat one source each, in the order the code
has (`First`: creators, users, others). `miss` is what `missing_update` builds
up. `PostInvoke` ends without collecting anything when a user has been given
without its creator, as `CompilerItem.__post_init__` raises then. Assumed of
MSBuild: everything reported as a miss is compiled, creators before users.

A `.pch` file may come from another project, which MSBuild builds first
(`GenerateSharedPCH`). The sources in `Shared` are the creators of such projects:

| actions | code |
| --- | --- |
| `SharedUpToDate`, `CompileShared` | MSBuild's own check; `PreInvokeClcache` (`mstask.cs`) starts no process for such a project, so its source is always compiled |
| `WriteMetadata`, `MetadataLost` | `pch_metadata` in a post-invoke process that is waited for, whose exit code nobody looks at |
| `isStub`, `Readable`, `PreInvoke` | `pch_stub`, `read_hash_metadata` and `parse_input`: when the hash of one `.pch` cannot be read, the pre-invoke process raises, answers nothing, and all sources are misses |

Assumed of cl.exe and NTFS: writing the `.pch` file again removes the data streams of the old one.

### HashServer

The event loop handles one request or notification at a time, so `serving`
stays set from `Accept` to `Answer` or `NoFile`; files may change between any two of its
steps. `ComputeHash` and `StoreHash` are separate because the file is read
first and its directory watched afterwards, and a file may change in between, as at
any other moment. Two variables are auxiliary: `missed` has the files whose hash the server keeps although
they have changed and nothing will drop it, because they changed in that gap (`Unwatched`) or because their name
has an upper-case letter (`MixedCase`); `late` has the files whose latest
change an answer may miss. Notifications of watched directories are not lost
but may be delayed for ever; the end of the pipe reads as the empty answer. The only exception that
a request raises is the one for a missing file.

### BuildWorkflow

One project, built again and again; headers change between builds.

| actions | code (`mstask.cs`) |
| --- | --- |
| `BeginCompile`, `Retrieve`, `Miss`, `RetrieveFails`, `LookedUp` | `BeginCompile`, `CachePreprocess`, `PreInvokeClcache`; the process it starts is three actions for each source |
| `Execute`, `ExecuteFails`, `Compile` | `CL.Execute`, `PostProcess`; cl.exe, the tracker and the up-to-date check of MSBuild are external |
| `Abort` | a task that is none of ours fails, or the user stops the build |
| `Link`, `NoLink`, `Complete`, `PostInvokeClcache`, `Collects` | `Link.Execute`, `LIB.Execute`, `OnStateChanged`, `PostInvokeClcache` |
| `Remove` | `_projects.Remove` |
| `Edit`, `Lose` | the developer; `--clear` or a lost object |

`obj[s]` is not the bytes of an object file but the contents of the headers it was
compiled with, and `tlog[s]` the headers that the tracker last saw the compiler
read for `s`. `newer` stands for the time stamps that MSBuild compares. `Tracked`
says whether MSBuild leaves out sources that it takes for up to date: with
`TrackFileAccess` and minimal rebuild it does. `misjudged` is auxiliary: the sources
that it has ever left out by the tlog of another object than the one in place, that is, after a hit. `UsesAssumption` is about C++: a
compiler that reads the same contents in the headers it opens opens the same headers.

### MemcacheStore

Each machine runs one build at a time in a clean tree, and there are no
mutexes (`CacheMemcacheStrategy.lock` and its like are empty).

| actions | code (`storage.py`, `memcached.py`) |
| --- | --- |
| `Begin`, `Lookup`, `LookedUp`, `Get` | `manifest_hit`, `retrieve_hit` over `getManifest` |
| `HasKnown`, `HasItem`, `HasDescriptor`, `HasSlice` | `hasEntry`, `exist`, `exist_multi`, with the answers remembered in `localCacheKeys` |
| `Fetch`, `FetchDescriptor`, `FetchSlices`, `Join` | `getEntry2`, `fetch_file`: the item, or the descriptor and all its slices |
| `Compile`, `Collect`, `Collected` | the compiler, `processPostInvoke` |
| `StoreWhole`, `StoreBig`, `StoreSlice`, `StoreDescriptor` | `setEntry2`, `store_file`, `store_multi` |
| `PubRead`, `PubWrite` | `ensure_output` over `getManifest`, `setManifest`: two steps that nothing keeps together |
| `Evict`, `Clear` | memcached drops what it likes; `flush_all` |
| `PreCrash`, `PostCrash` | a process ends early |

A file is a sequence of blocks, and the hash of a file or slice is the file or
slice itself. `pipelined` (which `Init` chooses) tells the client for one server, which sends all
slices before it reads an answer, from the client for several, which stops at the
first refusal. A refused item leaves what the server had under that
key; when memcached drops the old item instead, that is an `Evict` before it.

### LinkProject

One project, compiled and then linked, again and again. A build begins when the
background processes of the last one have ended; within a build the post-invoke
process of the compiler runs while the pre-link process reads.

| actions | code |
| --- | --- |
| `Begin` | the developer edits and builds; `skipGet` is ACLCACHE_SKIPGET |
| `PreInvoke` with `Kept`, `Put`, `PutHash` | `retrieve_hit`, `get_object`, `real_get_file`, the flush: with ACLCACHE_SKIPGET only the data stream is written |
| `Compile`, `CompileFails` | `CL.Execute` (mstask.cs); cl.exe is external |
| `Collect`, `FlushOpen`, `FlushWrite` | `ensure_output`; `write_hash_metadata`, which truncates the stream and then writes it |
| `HashInput` | `generate_dependency_hash`, `get_from_local`: an object file of size 0 is put aside in `pending` |
| `PreLink`, `Retrieve`, `RetrieveFails` | `processPreLink`: `manifest_hit` with `match_local`, `retrieve_hit` |
| `GetPending`, `PendingFails`, `PreLinked` | `retrieve_pendings`, whose result nobody looks at |
| `Link`, `LinkFails` | `Link.Execute`, `LIB.Execute`; link.exe is external |
| `AddOutput`, `PostLink` | `processPostLink`: `add_object`, then the manifest and the stream of the linked file |
| `PreInvokeCrash`, `PostInvokeCrash`, `PreLinkCrash`, `PostLinkCrash`, `Lose` | a process ends early; `--clear`, a lost object |

`lib` is a library that the linker finds itself, which is not an input of the
project and is compared by `match_local`. The manifest of a set of inputs is
the set of the entries with those `inputs`. `torn` is auxiliary: this build has read a stream
between its creation and its writing, where the hash is the empty string.

### DirectMode

| actions | code |
| --- | --- |
| `Start` | `processSingleSource`, with ACLCACHE_NODIRECT or without |
| `Lookup`, `Found`, `NotFound` | `processDirect`'s loop under the manifest's mutex, `hasEntry` under the object's |
| `Preprocess`, `PreprocessFails` | `computeKeyNodirect` |
| `ProcessCacheHit` | `processCacheHit` |
| `Compile`, `CompileFails` | `invokeRealCompiler`, with no mutex held; cl.exe is external |
| `CreateEntry` | `createManifestEntry`: the headers are hashed after the compilation |
| `Exists`, `AddObject`, `AddManifest` | `ensureArtifactsExist`, `addObjectToCache`, `addManifest` |
| `Crash`, `Clear`, `Edit` | a job ends early and leaves its mutexes; `clear` with `ignore_errors`; the developer |

An object is the contents of the headers it was compiled with. `Uses` gives the
headers that a source needs, including those that are missing, without which it does
not compile; that contents determine it (`DirectAssumption`) is the repository's
known limitation that a new header in front of an old one on the
include path is not noticed. `Key` has the names of the headers, while `computeKeyDirect` hashes the list of
their contents alone (331): that two sets of headers of one source never have the same contents in the same order is
assumed. Headers change only while no job is at work: the code
hashes them after the compiler has read them, and has no guard
against a change in between.

### Settings

A command is a sequence of sections; a section is one `with` statement over one
of the two files, under the mutex of the statistics, under the lock of the cache, or under none. A section
of the statistics may have one of the configuration inside (`reads`): it loads the configuration after the
statistics, and saves it before them if a setting was missing (`Within`).

| definitions | code |
| --- | --- |
| `Open` | `Cache.__init__`: every process loads the configuration and saves it if a setting is missing |
| `Count`, `Store`, `Fill`, `PreInvoke`, `PostInvoke`, `PostClean` | `processPreInvoke`, `processPostInvoke` and their like for the linker: the second looks up the size limit without a lock (2598), and calls `cleanCache` when the cache is too large |
| `HitJob`, `MissJob` | `processCacheHit`, `ensureArtifactsExist` with `addObjectToCache`, which reads the size limit inside |
| `CleanCache`, `Clean`, `Clear`, `Reset`, `PrintStats`, `Set` | `cleanCache`, `clearCache`, `resetStatistics`, `printStatistics` with the mutex and `printStatistics2` without, the setters in `_main` |
| `Start`, `Acquire`, `AcquireTimesOut`, `Leave` | `CacheLock`, `Statistics.__enter__`, `__exit__` |
| `Load` | `PersistentJSONDict.__init__`; a file that is being replaced cannot be opened, which counts as no file |
| `Replace`, `ReplaceFails` | `save`, `_save`, `atomic_write`; `save` tries again for ever, with the mutex in its hands |
| `Crash` | a process ends; its mutex goes on to the next |

`runs` and `size` are the two kinds of counters: those that `--reset` clears
and those that it keeps. `expected`, `forgotten` and `wanted` are auxiliary: what the sections
that have saved add up to by the repository's README (`Promised`), the runs among them that a clear has thrown
away against it, and the last value given to each setting. `loose` is
the set of files that somebody has saved without the mutex.

### KeyValueCalls and MemcacheClient

`KeyValueCalls` is the abstract specification. A call is a set of requests; each of
them takes effect at most once, at any time after the call began, also when the call is long over; a call
that succeeds returns what each of its own requests found when it took effect; one
that fails returns nothing; keys may be forgotten at any time. `MemcacheStore` relies on this.

`MemcacheClient` is the client for one server (`Client`) and for several (`HashClient`).

| actions | code (`memcached.py`, `pymemcache/client`) |
| --- | --- |
| `Call`, `Return` | `fetch`, `exist_multi`, `store`, `store_multi` and what `retry` makes of an exception |
| `RetryDead` | `_get_client`, `_retry_dead` |
| `Skip`, `GiveUp` | `_safely_run_func` with a server that has failed; `remove_server` |
| `ConnectFails`, `Send`, `SendFails` | `_connect`, `sendall` in `_fetch_cmd`, `_store_cmd`, `_misc_cmd`, with the empty line that `_store_cmd` adds after 1024 bytes |
| `Read`, `ReadFails`, `ReadTimesOut` | `_readline`, `_raise_errors`, `VALID_STORE_RESULTS`, `close` |
| `Serve`, `ServeLate`, `ForgetKey`, `Restart`, `Disconnect` | the servers and the network |
| `RetryTimeout`, `DeadTimeout` | the clock: `retry_timeout`, `dead_timeout` |

`toServer` and `toClient` are what is under way on a connection, in order; when
the client closes it, the stores already sent may still be found by the server (`late`).
What is left in the client's buffer when a call ends is thrown away with it, as
much as had arrived (`Read`). `NodeName` is the name under which
`remove_server` looks for a server: the hasher of this program has the host alone, so
it raises, after the server has been put among the dead; the node stays and keys never move.
`ClientAssumption` says that a pair of host and port is not the name of a host. `RetryAttempts` is 99999 in the program, and 1 in the run, so that it is reached.

The refinement (`Promise`) maps `data` to what the server that a key belongs to has
under it, `asked` to the requests not yet sent, on the way, or late, and
`answer` to what the client has read together with the answers that are on their way to it. Calls
that differ in nothing are told apart by `copy`, which is auxiliary.

### CommandLine

| actions | code |
| --- | --- |
| `Character` with `Parse`, `ParseBackslash` | `CommandLineTokenizer`: one step for each turn of its loop |
| `Prepend`, `Extend` | `extendCommandLineFromEnvironment` |
| `Keep`, `ReadFile`, `Include`, `ExpandFails` | `expandCommandLine`, `read_file` |
| `PassOn` with `Parsed`, `Sources`, `Exceptions` | `CommandLineAnalyzer.analyze` raises: the compiler gets the arguments as they are |
| `Schedule` with `FilterSourceFiles`, `JobCount` | `scheduleJobs`, `filterSourceFiles`, `jobCount` |
| `JobStarts`, `JobEnds`, `JobBreaks` | the executor and `processSingleSource` |
| `Collect`, `CollectFails`, `CollectEnds`, `Shutdown` | the loop over `as_completed`, the end of the executor, `cleanCache` |

A word is a sequence of atoms: the names of options are one atom each, as in the
table of the analyzer, so that its prefix search is a look at the second
atom. `Written` and `Text` are the other direction of the tokenizer: what somebody
writes who wants these words, by the rules of the C run-time library; they are the reference that
`TokensAreRight` compares with. `Seen` is what the compiler of a job reads: in direct mode the environment is not
handed on (2909), so the compiler reads CL and _CL_ once more. `Only` is a filter in closed form
(`FlattenSeq`), so that it can be reasoned about without a recursion.

## 4. The runs

The type invariants are proved (section 5) where a module has proofs, and no run spends a property on
them.

| run | what it asks | instance |
| --- | --- | --- |
| `sync` | are objects, metadata, entries and hits what their hashes say, and are misses real, with clears, cleans, a crash or a failed rename | two processes, two units, two headers, two outputs each, three builds or commands, one fault: 2.5 million states |
| `durable` | do manifests keep one entry for each header and lose none, have entries their objects, are objects counted once, is a finished build a hit, does every process end, with background processes, headers that change at any time, cleans over two sections, and a crash or a failed compilation that deletes its outputs | two processes, one unit with two outputs, two different results of one compilation, two runs: 328 thousand states |
| `pch` | do creators and users miss together; are finished builds right and cached | a creator, two users, a plain source, a user of the `.pch` of another project, three builds, two edits, one lost object or hash of a shared `.pch`: 4.3 million states |
| `watch` | are answers as current as the notifications, and does every request end | two clients, two headers in two directories, which may be missing, one with an upper-case letter, three requests, two edits at any moment, one restart: 446 thousand states |
| `workflow` | is the post-invoke process started once, are entries and objects right and finished builds cached, with and without a Link task, with several CL tasks, a tracker that leaves sources out, tasks that fail and lost entries | two sources, two headers, two CL tasks, five builds, four edits, one lost entry: 495 thousand states |
| `shared` | is a hit always a right object, have manifests one entry for each header state, do entries name objects that can be fetched, is a finished build a hit | two machines with slice sizes 2 and 3, either client, two units, objects of one to three blocks, one eviction, one crash or refusal: 4.6 million states |
| `link` | is what is linked, left alone or retrieved right, are entries sound, is a finished build a hit, does the linker find its objects | two sources, three builds, one crash or loss at any point, with and without ACLCACHE_SKIPGET: 4 million states |
| `direct` | is the object a job leaves right, and is it a hit for the next job, with one matching entry | two jobs at a time of one source, two headers of which one is only needed with the first content of the other, four jobs, two edits, one crash or clear: 500 thousand states |
| `settings` | is no setting lost, and no count but by a clear, with a local cache or memcached, time-outs, a failed save or a crash | two processes, two settings with two values, files that lack either to begin with, three commands, one fault: 2.9 million states |
| `failover` | is what a call returns true of its own keys, whatever an earlier call left behind (refinement); is a server that failed used again | one server, two on two hosts, two on one host; two keys, one value, calls of two keys, `RetryAttempts = 1`, one of each request under way at a time: 120 thousand states |
| `cmdline` | do the words come out as written, do jobs compile what the command says, is the exit code theirs | every text of up to two words of up to three atoms, quoted or not; every list of up to four words after `/c`, with options of each kind; variables and response file; one, two or three jobs: 71 thousand states |
| `overlap` | violation | see findings |

*Bounds.* Two processes are enough for every race on one mutex, on one manifest
and on one object, and for a command against a build; with three runs each of them can come after
or during the others, so a build can find what a finished build left, and a
clear can come between. Two outputs are needed for a failure after a success in
`ensure_output`'s loop; two sections for `allSectionsLocked` to hold one mutex and wait for another
and for a section that is created after the snapshot. One section suffices where only the critical section matters
(`overlap`). `durable` has the sections there to begin with (`OldSections`), so that two cleans take both. Two headers' contents tell an old hash from a new one;
two stamps tell two results of the same compilation apart, and `sync` needs none because without
overlap a key is only recomputed when it is gone. One fault can hit any
step of any process. `MaxSize = 100` is never reached: a full cache stores nothing and
has no property (section 4). In `pch` three builds let an entry of the first be looked up in the third
after an edit has been undone, and a build come after one that lost the hash of a shared `.pch`. In `watch` the server restarts once with requests
outstanding. Deadlock is not checked: the builds and edits are bounded, and the
system stops when they are used up; `durable`, `watch` and `failover` show that it
does not stop before.

*Fairness.* `LocalCache!FairSpec` has weak fairness of each process: the
operating system runs a process that is not waiting for a mutex, and a waiter
is enabled again when the mutex is free. It does not assume that a particular waiter gets the
mutex; that it does in the end follows from the number of runs being bounded.
The time-out of a mutex (10 s by default) is taken for a crash, not relied on.
`HashServer!FairSpec` has weak fairness of the event loop as a whole (no
request is preferred) and of each client's own steps. Nothing is assumed of
edits, requests, stops or faults. `MemcacheClient!ClientFairSpec` has weak fairness of the client as a
whole, of the clock, and of each server's answers: a server that is up deals with what
it is sent, if only with an error and after the client has given up. Nothing makes it answer in
time: `ReadTimesOut` can always come first, and `ServersRecover` only speaks of servers to which calls do
not run into trouble any more.

In `BuildWorkflow` two sources in two CL tasks let one be a hit while the
other is not, and a failure come after a success; the second header is only
used when the first says so, so that what a source uses can change; with five builds
a hit can follow an edit that was undone and the tracker can judge by the tlog from before it. In
`MemcacheStore` the objects of two and three blocks share slices, and one object is a slice
of another, so that a slice of one machine can be a file of the other; slice
size 2 leaves a short last slice and an exact one; two machines are enough for any
pair of unsynchronised reads and writes of a manifest.

In `link` two objects let one be retrieved and the other compiled, and three
builds let a third find what the first left after the second has changed it; with
two contents an edit can be undone. In `direct` two jobs are all that one
mutex can tell apart, and four let two of them find what the first two left; the
second header can be missing, come back, and not be needed at all.

In `settings` three commands let two of them lose each other's save and a third see it.
In `failover` two keys on two hosts are asked for in one call, so that one server can fail
while the other answers; two servers on one host are the case in which the
client knows only the last; the state space is finite without a bound on time, calls or faults.
In `cmdline` three atoms are a run of two backslashes before a mark, or a mark between two atoms; three
sources with `/MP2` leave a job in the queue while another fails.

### Findings

* `overlap`: with the default asynchronous post-invoke process, a build that
  begins before the previous one is stored can compile over a file between
  its being hashed and its being copied. The object is then stored under the
  hash of other contents, and a later build that finds the entry copies it: the trace ends with a copy
  after which `real_get_file`'s own assertion `rkey == key` (2207) would fail. The code evaluates that assertion with
  ACLCACHE_FILEDEBUG only (2205); without it the build goes on with the wrong file. A file whose data stream has the hash
  already is not copied (2197-2199), and `RetrievedIsKey` does not speak of it.

### What the properties depend on

What follows are conditions that the code needs and does not ensure, and what else was seen
while the modules were written. Most are
constants of a module: the runs have the value that the properties need, and with
the other one TLC finds them violated.

* `Async`, `EditAnytime` (`LocalCache`): the properties of `sync` need builds of a tree
  that do not overlap, and headers that stay as they are while a build runs.
* `DisableWatching` (`HashServer`): `start_server` passes `--disable_watching`
  (1924); such a server answers the first hash it computed until it
  exits, which `test.bat` takes care of by restarting it.
* `missed` (`HashServer`): a header that changes between being hashed and its directory being watched is
  not noticed (server/__main__.py:33); notifications carry the name as it is on disk while the dictionary has
  lower-case names (server/__main__.py:54), so a header with an upper-case letter keeps its old hash. The `watch` run has both; the
  properties say that there is no third way. An invariant `missed = {}` fails in it.
* `misjudged` (`BuildWorkflow`): a hit does not run the compiler, so the tlog of its
  source stays as it was. If MSBuild takes such a source for up to date after a change of a
  header that the old tlog does not name, the old object is stored with the
  headers of the old tlog. The `workflow` run has the tracker (`Tracked`), and the properties except such sources only.
* `Husk` (`LocalCache`): after a `--clear` that was cut short, `add_object` takes a directory without an object for the
  object it wants to add (`AddDuplicate`), and publishes an entry that is looked up in vain until the next clear
  (`GetVanished`). `BuildsAreCached` and `EntriesAreBacked` are checked without clears for this reason too.
* `forgotten` (`Settings`): README.md:79 of the repository says that `--clear` will "keep the cache statistics (hits,
  misses, etc.)". `clearCache` empties the statistics file (`clear_stat`, 1071, called at 1835), so the counts are
  gone. `CountsAreExact` follows the README and counts apart what a clear throws away; with the conjunct
  `stats.runs = expected.runs` instead TLC refutes it by one clear. (The README also writes `-c` for `--clear`; in the
  program `-c` is `--clean`, and `--clear` is `-C`, 1948.)
* `OldObjects` (`LinkProject`): with ACLCACHE_SKIPGET a hit does not touch an object file that is
  there, of whatever version, and writes the hash of the right one into its stream, although
  README.md:202 says that only a dummy file is generated. The linker then
  links the old object. `LinkProject!DummyIsGenerated` states it, and `link.cfg` with `OldObjects = TRUE` shows it.
* A hash server that exits before answering makes the client record an entry
  without headers, which matches ever after: the end of the pipe reads as the empty answer.
  `HashServer!HeadersAreRecorded` states it, and `watch.cfg` with that invariant shows it.
* `First` (`LocalCache`): the sections are locked in the order in which the directory is listed.
  NTFS lists it by name. On a file system that lists it in no particular order two cleans
  can wait for each other, until the time-out of one of them: the mutant `FirstOfAny` is that.
* A post-invoke process that finds the cache full stores nothing and calls `cleanCache`, whose work is
  commented out (1829): a full cache stays full until somebody clears it.
* `loose` (`Settings`): printing the statistics (1763) saves them without the mutex, and so a count
  saved in between is lost; a process that starts while the configuration is being replaced
  can write back a file of defaults; with memcached the setters have no lock at all (`CacheDummyLock`). The
  properties of `Settings` speak of the files that nobody has saved in such a way.
* `ACLCACHE_MEMCACHED` makes a process use memcached although no setting says so (`Load`).
* `Ambiguous` (`CommandLine`): a parameter that is written apart from its option and spelled like a
  source is taken out with the source; one that begins with `/Tc`, `/Tp` or `/MP` too. Sources in
  CL or _CL_ are compiled by each job again, because the compiler reads the variables too (`Separate`).
  For the same reason the arguments must not end in an option that awaits its parameter (`Ready`): with `/D` at
  their end and `y` in _CL_ the program takes `y` for the parameter; the compiler of a job, whose
  command ends in a source, takes it for another source. A word of a variable that begins with `@` must not follow such
  an option either: `expandCommandLine` opens the file, whatever stands before it (1409).
  TLC refutes `JobsAreRight` without any one of these conditions.
* A word that is empty at the end of a text is lost; elsewhere it makes `expandCommandLine` raise (1409). `/MP0`
  makes the executor raise (2880), an option without its parameter at the end of the command line makes the
  analyzer raise (1543).
* When a header has gone (`IncludeNotFoundException`) the compiler runs once more and its result is returned in
  a pair, which `scheduleJobs` cannot take apart (2888, 2912): the program raises (`JobBreaks`).
* `torn` (`LinkProject`): two builds that read an unwritten stream get the same
  key for different objects, and the second retrieves what the first linked.
* A slice size that is set below the default of the client (`DefaultChunk` of
  `MemcacheStore`) is ignored, which changes no property but the sizes.
* When a post-invoke process dies before `pch_metadata` has written the hash of a shared
  `.pch`, nobody writes it until the `.pch` is compiled again: every build of the projects that use it
  compiles all their sources and stores none of them (`PchProject!MetadataLost`). `AllRebuilt` holds nevertheless.
* A job of the direct mode that ends between storing the object and writing the entry
  (`AddObject`, `AddManifest`) leaves an object that no later job adds an entry for,
  because `ensureArtifactsExist` calls `addManifest` only when the object was missing:
  the source is compiled every time until the cache is cleared.

## 5. What is proved

All proofs are for every value of the constants, under the assumptions named in
each module (nothing is assumed to be finite).

* `LocalCacheProofs`. `Typed`: `Spec => []TypeOK`. `OneEntryPerHeader`:
  `Spec => []UniqueDeps`. `NoEntryIsLost`: `Spec => EntriesSurvive`. They hold
  with crashes, clears, background processes and headers that change at
  any time. `UniqueDeps` is not inductive: `PubWrite` replaces the manifest by
  one made from the copy the process read, so the invariant `ManifestInv` adds
  `Publishing`, that a process about to write holds the manifest's mutex and that its copy is
  the manifest. That is kept because every other writer needs the same
  mutex, and because `--clear` wipes only manifests whose section it holds or in which
  nobody is at work. `TypeInv` adds to `TypeOK` that a process past
  `HashDep` has a header hash (`Hashed`), without which a published entry would
  not be typed.

  `EntriesKeepObjects` (`EntriesAreBacked`) and `BuildsGetCached` (`BuildsAreCached`) hold with background
  processes and headers that change at any time. They assume `Undisturbed`: nobody uses `--clear`, which takes
  objects away on purpose, and no program holds an object's directory open while it is renamed: `ensure_output` goes on after
  such a failure when another object of the entry was added, and publishes the entry without it. `BackedInv`
  says that whoever adds an object holds the mutex under which it has seen that there was none
  (`Held`), and that a process about to publish has all its objects stored up to the one it is
  at (`Adding`). That no directory is without its object (`NoHusk`) holds there because only a clear leaves one. `FiledInv` adds what a post-invoke process has done: the units that it was given are still to do or published
  (`Filed`). A full cache stores nothing by design, so the theorem is about behaviours that never have one (`[]~Full`).

  `HashesAreRight` (`StoreIsSound`, `MetaIsSound`), `EntriesAreRight` (`EntriesAreSound`),
  `HitsAreRight` (`HitsAreSound`) and `MissesAreGenuine` (`MissesAreReal`) hold with crashes, failed
  renames, failed compilations, cleans and clears. They assume `Exclusive`: post-invoke processes are
  waited for and headers change between builds only. Both are needed (section 4; `overlap` is the counterexample).
  The argument has two parts. `OwnInv`: the builds at work have no unit in
  common, and a process touches the files of its own units only. `SoundInv`: each process by itself keeps
  its hashes those of its files, from the file that was compiled or retrieved to the copy that is
  renamed (`HashOf`, `FlushSound`), and what it has built is as compiling would give it (`Retrieved`, `Built`). `MissInv` adds that only the
  owner of a unit can add what it lacks, so that what was looked up in vain is missing until
  it is compiled.

  `CountsAreRight` (`ObjectsAreCounted`) holds without clears. `CountInv` says that the objects in the store
  are finitely many, and that a process that ends early has either nothing to count or a
  fault behind it: the files it hashes are there (`Kept`), so only a fault makes it raise.
* `PchProjectProofs`. The five safety properties of the `pch` run, for any
  project, own and shared `.pch` files, any number of builds, edits and losses. The invariant `PchInv` says, phase by phase, what
  `miss`, `entry` and the object files have to do with each other: for example that
  `miss` is closed under `Related` (`Together`), that an entry tells what its
  object was compiled from (`EntriesTell`), and that in the compile phase
  the sources already compiled and the hits are as `Rebuilt` says (`CompileInv`). `SharedInv`
  is about the `.pch` files of other projects: a hash in the data stream is that of
  the file, and only a process that died (`lost > 0`) leaves a file without one. It is needed
  for `AllCached`: a post-invoke process that raises for want of a hash stores nothing.
* `HashServerProofs`. `Typed`, and `StaleHashes` (`StaleIsPending`): a stale hash
  has its notification pending, or its file is in `missed`, for files that the server is allowed to
  watch (`Observed`: it watches at all, and the directory is not one of those of the compiler, which are left out on
  purpose). Files change at any moment and names may have upper-case letters. The invariant `ServerInv` adds that a directory with a cached hash
  is watched (`Watching`) and that a hash just computed is current, has its notification
  pending, or is missed (`HashedIsPending`). `AlwaysCurrent` (`AnswersAreCurrent`) carries this over to the
  clients, whatever they have asked for, in whatever order requests are
  served and headers change. `AnswerInv` says of each hash that has been computed for an answer, and of each answer on its way,
  that it is current or that its file is `late` (`Current`).
* `BuildWorkflowProofs`. `Typed`, `StartedAtMostOnce`, `RecordedRight`
  (`HeadersAreRecorded`), `BuiltRight` (`ObjectsAreCurrent`) and
  `FinishedIsCached` (`BuildIsCached`), for any sources, headers, CL tasks and
  any number of builds and edits, with the tracker or without. `WorkflowInv` says that an entry's headers
  determine what its source uses (`EntriesTell`), that every output to be
  collected tells what it was compiled with (`OutputsAreFresh`), that a hit is what compiling would
  give (`HitsAreRight`) and which sources are done in which phase, each but for the sources in `misjudged`; the
  assumption `UsesAssumption` turns "the headers of the entry are as they were"
  into "compiling would read the same headers". `CacheInv` adds that what has
  been compiled is either still to be collected or in the cache.
* `MemcacheProofs`, of `MemcacheStore`. `OneEntryPerHeader`: `Spec => []UniqueDeps`, for any
  number of machines, though nothing keeps their writes apart: the invariant
  says that every copy in the hands of a process has unique headers too, however old it is.

  `HitsAreRight` (`HitsAreSound`), for any machines, files, slice sizes, evictions, refusals and
  crashes: an item that is not a descriptor is the file whose hash its key is, a descriptor is the list
  of the slices of that file (`ServerInv`), and what a process has fetched so far is the beginning of it (`MachineInv`). That
  slices joined are the file again would be an induction over sequences. It is
  proved without one: the i-th block of what has been joined is given in closed form, and a shortest
  list of slices for which that fails is shown not to exist.

  `EntriesKeepObjects` (`EntriesAreBacked`): `BackedInv` says that what a process takes to be on the server, from
  an answer or from its memory of earlier ones, is there, as long as nothing was forgotten and no slice was
  refused while others were already sent (`Reliable`). `BuildsGetCached`
  (`BuildIsCached`): `LoneInv` says of a machine that no other has begun a build beside,
  which of its units are published, found, or still to do (`Progress`).

* `MemcacheProofs`, of `MemcacheClient`. `PromiseIsKept`: `ClientSpec => KeepsPromise`, the refinement
  of `KeyValueCalls`, for any servers, keys, calls, time-outs and faults. `ClientInv` says that
  the nodes never change, though servers are declared dead (`NodesInv`); that the keys of a request
  have one server (`Proper`); that a connection carries answers and requests in the
  order in which the client expects them, and nothing else than those but an error for
  an empty line (`Carries`, `WireAt`); and that a store that comes late is not sent, not
  on the way and not expected any more. `Carries` is what could go wrong in the code:
  one answer too many or too few on a connection that stays open, and every later call reads the
  answer to another. Each action then maps to a request that takes effect (`Serve`, `ServeLate`), to
  requests and what was stored being lost (`SendFails`, `ReadFails`, `ReadTimesOut`, `Disconnect`, `Restart`,
  `ForgetKey`), to a call that begins or returns, or to nothing.

* `LinkProjectProofs`. `Typed`, and, for builds with ACLCACHE_SKIPGET that find no
  objects of earlier ones (`~OldObjects`), `LinkedRight` (`LinkedIsCurrent`),
  `EntriesRight` (`EntriesAreSound`), `FinishedIsCached` (`LinkIsCached`) and
  `ObjectsAreFound` (`LinksSucceed`), for any objects, any number of builds, crashes and
  losses. The argument goes along a build: a stream with a hash names the object that is
  there or that a file of size 0 stands for (`TreeInv`), so what the pre-link and
  post-link processes read is the hash of the right object or nothing
  (`HashInv`), so what they look up, retrieve and publish belongs to these
  objects (`ExeInv`), and an object that was not retrieved is still in the cache
  unless something was lost (`CacheInv`). `ShapeInv` is the part that types need and
  that holds with `OldObjects` too. `~OldObjects` is needed (section 4).
* `WrapperProofs`, of `DirectMode`. `Typed` and `AlwaysRight` (`ResultsAreRight`), for any number of jobs,
  sources, headers, crashes and clears. The invariant says that an object was compiled from the headers
  in its key (`StoreSound`), that the entries of a manifest tell all the
  headers that their object needs (`ManifestsSound`), that the key a job has is that of
  the headers as they are, and that a job that is about to retrieve an object holds the mutex that
  keeps it there (`JobInv`). `MatchIsCurrent` is where
  `DirectAssumption` is needed: when all the headers of an entry are as they were, compiling would read
  the same ones. `AlwaysCached` (`ResultsAreCached`): `CachedInv` says that while nothing fails the entries of a manifest and the stored
  objects of its source are the same, each once, but for the object of a job
  that holds the manifest's mutex until it has added the entry.

* `WrapperProofs`, of `CommandLine`. `ExitCodeTells` (`ExitCodeIsRight`), for any requests and any number of jobs and
  workers. `LineInv` says that every result collected so far was 0 while the loop goes on
  (`CollectedAreFine`), and that when it has ended either all were collected or one failed (`LoopHasEnded`), which
  the jobs that end afterwards cannot change.

  `TokensRight` (`TokensAreRight`), for any words over any atoms, written with quotation marks or without.
  The tokenizer is proved right against the text that somebody writes, and not against another tokenizer.
  `TextIsLaid` says that such a text has a `Layout`: a place where each
  word begins and ends, and in each word a place for each of its atoms, where it stands alone, behind a
  backslash, or doubled (`AtomsAt`). `Text` is a `FlattenSeq`, that is a recursive
  function behind a `CHOOSE`; that it is laid out so is shown with a least
  number of words for which it would not be (`LeastElement`). `ScanInv` then says
  where in the layout the scan is: between two words (`Between`), inside one with exactly its
  first atoms in the token (`Within`), or just behind one (`Behind`). What makes it inductive is
  `RunInWord`: `ParseBackslash` takes a whole run of backslashes at a time, so inside a word the scan stands
  only where a run of the text is a run of the word, with the mark behind it if one follows.

  `JobsRight` (`JobsAreRight`), for any requests: any options, sources, variables and response files,
  under the conditions that the property itself names (section 4). The loop of the analyzer is a fold; `FoldTurns` gives its
  intermediate results as a function of the number of words, so that every statement
  about it is an induction over a number. `TurnIs` says in terms of sets what one word does. The heart is
  `BesideTurn`, a simulation: the analysis of the words that the filter leaves runs beside that of the whole
  command line, with the same options but for `/Tc`, `/Tp` and `/MP`, and awaits a parameter
  when the whole does, unless that is a source (`Beside`); `~Ambiguous` is what keeps the
  filter from taking a parameter. `CommandIs` adds the option and the source at the end of a job's
  command, and `BetweenIs` the words of CL and _CL_ around it. Two invariants say that these are the words the jobs
  have: `WordsInv`, that the words of CL are the beginning of the command line and those of _CL_ its
  end, through the expansion of response files; and `CommandsInv`, that a job keeps the
  command that `scheduleJobs` gave it, whatever the workers do.

* `SettingsProofs`. `SettingsType`, `SettingsCounts` (`CountsAreExact`) and `SettingsKept`
  (`SettingsAreKept`), for any number of processes, settings, time-outs, crashes and failed saves. A
  dictionary is saved long after it was loaded, and a section of the statistics may load and save the
  configuration in between, so neither property is inductive; the
  invariant adds `SavesAreCurrent`: while a file is only saved with the mutex, a process that has loaded it and has
  yet to save it (`Counts`, `Configures`) holds the mutex, and what it is about to save is what its section makes of the
  file as it is now.

The proofs have changed the models in a few places. A post-invoke process keeps its hits (`PostInvoke`) until it
ends, and an object that has gone when it is retrieved counts as a fault (`GetVanished`), or the
invariants could not say which units were given to it and why one is compiled again. `StoreAssumption` says that files are
sequences of blocks. `Uncounted` is a set where a sum was, so that its
cardinality can be reasoned about. `Only` is a closed form where a recursive filter was. `Ready`, and the condition on
`@` in `Separate`, are there because a proof of `JobsAreRight` without them failed, and for good reason. In `(SUBSET S) \ T` and `(UNION S) \ T` the parentheses
are there because the prover and the parser read the expression without them differently.

## 6. What is only model-checked

* Liveness (`EveryRunEnds`, `RequestsEnd`, `ServersRecover`): the proof system does not reason about ENABLED.
* What the `overlap` run shows: it is a counterexample, which a proof does not give.
* That the assumptions of the theorems can be met: the runs evaluate every `ASSUME` on their instances.

## 7. What is not modelled

* `ManifestRepository.clean` and `CompilerArtifactsRepository.clean`: no command reaches
  them (the call in `cleanCache` is commented out).
* Hard links instead of copies, and the modes without `ACLCACHE_MODE` flag 2.
* The hash server's `file_buffer`, which no client of this version reads, and its counting commands.
* `pehash.py`, `pepatch.py`: stand-alone tools over the bytes of a PE file, with no state.
* `TimerTask.cs`, `loader.cs`, `override.targets`: timing, assembly loading, declarative configuration.
* The vendored libraries under `src/clcache/lib`, but for `atomicwrites` (a step of `Settings`) and the clients of
  `pymemcache`. They are three quarters of the lines of the repository (`pefile.py` and
  `zstandard/cffi.py` alone half): parsers of file formats and bindings that the cache hands bytes to, without
  state of its own; `pefile` is only used by the stand-alone tools.
* The names of object files, nested response files, and what `cmd_normalize` does with paths.
* `PROJECT.json` lists the rest with the reason for each.
