---------------------------- MODULE BuildWorkflow ----------------------------
(***************************************************************************)
(* The MSBuild extension: what its CL and Link tasks do for one project,   *)
(* built again and again while the developer edits headers.                *)
(*                                                                         *)
(* The extension learns the headers that a source uses from the tracker of *)
(* MSBuild: the tlog that the tracker writes when it sees the compiler     *)
(* run.  MSBuild also uses the tlog, and the time stamps of files, to tell *)
(* which sources need not be compiled.  A hit puts an object file in place *)
(* without running the compiler, so its tlog stays as it was.              *)
(*                                                                         *)
(* The processes that the extension starts are one step here (LocalCache   *)
(* and PchProject model what they do).                                     *)
(***************************************************************************)
EXTENDS Naturals, FiniteSets, Sequences

CONSTANTS
    Source,    \* the sources of the project
    Header,    \* the headers they may use
    Version,   \* contents of a header
    Uses,      \* the headers a source uses, given the contents of all headers
    Batches,   \* the sources of each CL task of the build, in order
    Tracked,   \* does MSBuild leave out sources that are up to date?
    None,      \* no object file
    MaxBuilds, \* bound: number of builds
    MaxEdits,  \* bound: number of edits
    MaxLost    \* bound: entries lost, and processes that fail

Contents == [Header -> Version]

\* What is known of some headers: those an object was compiled with, those an
\* entry depends on
Known == UNION {[hs -> Version] : hs \in SUBSET Header}

Entry == [src : Source, dependency : Known, output : Known]

ASSUME WorkflowAssumption ==
    /\ Uses \in [Source -> [Contents -> SUBSET Header]]
    /\ Batches \in Seq(SUBSET Source)
    /\ \A s \in Source : \E b \in 1..Len(Batches) : s \in Batches[b]
    /\ Tracked \in BOOLEAN
    /\ None \notin Known
    /\ MaxBuilds \in Nat /\ MaxEdits \in Nat /\ MaxLost \in Nat

\* What a source uses follows from the contents of the headers it uses: the
\* compiler reads no header without a reason in those it has read
ASSUME UsesAssumption ==
    \A s \in Source : \A c, d \in Contents :
        (\A h \in Uses[s][c] : d[h] = c[h]) => Uses[s][d] = Uses[s][c]

VARIABLES
    content, \* what each header contains
    obj,     \* the object files, each what it was compiled with
    newer,   \* of each source: the headers modified since its object was written
    traced,  \* the sources that have a tlog
    tlog,    \* of each of them: the headers the tracker saw it use
    entries, \* the cache
    misjudged, \* the sources that MSBuild has ever left out by the tlog of
               \* another object than the one in place (no variable of the code)

    phase,          \* what the build is doing
    batch,          \* the CL task it is at
    todo,           \* sources the pre-invoke process has yet to look up
    ArtifactsHits,  \* the hits that it has reported
    Output,         \* the sources with an output to collect
    State,          \* the flags of BuildState
    CompileSuccess, \* has no CL task failed?
    started,        \* number of post-invoke processes started
    builds, edits, lost \* counters of the bounds

files   == <<content, obj, newer, traced, tlog, misjudged>>
project == <<phase, batch, todo, ArtifactsHits, Output, State, CompileSuccess, started>>
bounds  == <<builds, edits, lost>>
vars    == <<files, entries, project, bounds>>

\* The contents of some of the headers as they are now
Now(hs) == [h \in hs |-> content[h]]

\* What compiling s now gives
Compiled(s) == Now(Uses[s][content])

Init ==
    /\ content \in Contents
    /\ obj = [s \in Source |-> None]
    /\ newer = [s \in Source |-> {}]
    /\ traced = {} /\ tlog = [s \in Source |-> {}]
    /\ entries = {} /\ misjudged = {}
    /\ phase = "idle" /\ batch = 1 /\ todo = {}
    /\ ArtifactsHits = {} /\ Output = {}
    /\ State = {} /\ CompileSuccess = TRUE /\ started = 0
    /\ builds = 0 /\ edits = 0 /\ lost = 0

-----------------------------------------------------------------------------
(* The first CL task: BeginCompile, CachePreprocess, PreInvokeClcache.     *)

BeginCompile ==
    /\ phase = "idle" /\ builds < MaxBuilds
    /\ builds' = builds + 1
    /\ phase' = "lookup" /\ batch' = 1 /\ todo' = Source
    /\ ArtifactsHits' = {} /\ Output' = {}
    /\ State' = {"ClCachePreInvoked"} /\ CompileSuccess' = TRUE /\ started' = 0
    /\ UNCHANGED <<files, entries, edits, lost>>

\* Mutant: one header that is as it was is enough
AnyMatches(s) ==
    {e \in entries : e.src = s /\ \E h \in DOMAIN e.dependency : e.dependency[h] = content[h]}
\* match_local
Matches(s) == {e \in entries : e.src = s /\ e.dependency = Now(DOMAIN e.dependency)}

\* The object is retrieved.  It is written now, unless it is there already.  It
\* is not a hit when another source that misses makes s miss as well, or the
\* process ends with an error.
Retrieve(s) ==
    /\ phase = "lookup" /\ s \in todo
    /\ \E e \in Matches(s), reported \in BOOLEAN :
        /\ obj' = [obj EXCEPT ![s] = e.output]
        /\ newer' = IF obj[s] = e.output THEN newer ELSE [newer EXCEPT ![s] = {}]
        /\ ArtifactsHits' = IF reported THEN ArtifactsHits \cup {s} ELSE ArtifactsHits
        /\ ~reported => lost < MaxLost
        /\ lost' = IF reported THEN lost ELSE lost + 1
    /\ todo' = todo \ {s}
    /\ UNCHANGED <<content, traced, tlog, misjudged, entries, phase, batch, Output, State,
                   CompileSuccess, started, builds, edits>>

Miss(s) ==
    /\ phase = "lookup" /\ s \in todo /\ Matches(s) = {}
    /\ todo' = todo \ {s}
    /\ UNCHANGED <<files, entries, phase, batch, ArtifactsHits, Output, State,
                   CompileSuccess, started, bounds>>

\* The object that an entry names is not there, or no process answers; the
\* object file may have been deleted to make place for it
RetrieveFails(s) ==
    /\ phase = "lookup" /\ s \in todo /\ Matches(s) # {}
    /\ lost < MaxLost /\ lost' = lost + 1
    /\ obj' \in {obj, [obj EXCEPT ![s] = None]}
    /\ todo' = todo \ {s}
    /\ UNCHANGED <<content, newer, traced, tlog, misjudged, entries, phase, batch,
                   ArtifactsHits, Output, State, CompileSuccess, started, builds, edits>>

LookedUp ==
    /\ phase = "lookup" /\ todo = {}
    /\ phase' = "cl"
    /\ UNCHANGED <<files, entries, batch, todo, ArtifactsHits, Output, State,
                   CompileSuccess, started, bounds>>

-----------------------------------------------------------------------------
(* The CL tasks: CL.Execute and PostProcess.                               *)

\* The sources left when the hits are taken out
newsource == Batches[batch] \ ArtifactsHits

\* MSBuild: the object file is newer than every header the tracker has seen
UpToDate(s) ==
    Tracked /\ obj[s] # None /\ s \in traced /\ tlog[s] \cap newer[s] = {}

OutOfDate == {s \in newsource : ~UpToDate(s)}

\* The sources left out although their tlog is that of an object before a hit
Misjudged == {s \in newsource \ OutOfDate : tlog[s] # DOMAIN obj[s]}

\* cl.exe and the tracker: the sources in done are compiled
Compile(done) ==
    /\ obj' = [s \in Source |-> IF s \in done THEN Compiled(s) ELSE obj[s]]
    /\ newer' = [s \in Source |-> IF s \in done THEN {} ELSE newer[s]]
    /\ traced' = (traced \ OutOfDate) \cup done
    /\ tlog' = [s \in Source |-> IF s \in done THEN Uses[s][content] ELSE tlog[s]]
    /\ misjudged' = misjudged \cup Misjudged

\* The task succeeds.  Every source it was given has an output to collect, with
\* the headers in its tlog, also one that MSBuild did not compile.
Execute ==
    /\ phase = "cl" /\ batch <= Len(Batches)
    /\ Compile(OutOfDate)
    /\ Output' = Output \cup newsource
    /\ State' = IF newsource = {} THEN State ELSE State \cup {"CompileFinished"}
    /\ batch' = batch + 1
    /\ UNCHANGED <<content, entries, phase, todo, ArtifactsHits, CompileSuccess, started,
                   bounds>>

\* Mutant: a failure is not remembered
ExecuteFailsUnnoticed ==
    /\ phase = "cl" /\ batch <= Len(Batches)
    /\ \E done \in SUBSET OutOfDate : done # OutOfDate /\ Compile(done)
    /\ Output' = Output \cup newsource
    /\ phase' = "built"
    /\ UNCHANGED <<content, entries, batch, todo, ArtifactsHits, State, CompileSuccess,
                   started, bounds>>

\* The task fails: some sources have not been compiled, and the build stops
ExecuteFails ==
    /\ phase = "cl" /\ batch <= Len(Batches)
    /\ \E done \in SUBSET OutOfDate : done # OutOfDate /\ Compile(done)
    /\ CompileSuccess' = FALSE
    /\ phase' = "built"
    /\ UNCHANGED <<content, entries, batch, todo, ArtifactsHits, Output, State, started,
                   bounds>>

\* Another task of the build fails, or the user stops it
Abort ==
    /\ phase = "cl"
    /\ phase' = "built"
    /\ UNCHANGED <<files, entries, batch, todo, ArtifactsHits, Output, State,
                   CompileSuccess, started, bounds>>

-----------------------------------------------------------------------------
(* PostInvokeClcache, called by Link.Execute, by LIB.Execute and when the  *)
(* project is complete.                                                    *)

\* Mutant: ClCachePostInvoked is not looked at
CollectsAgain ==
    {"ClCachePreInvoked", "CompileFinished"} \subseteq State /\ CompileSuccess
Collects ==
    /\ {"ClCachePreInvoked", "CompileFinished"} \subseteq State
    /\ "ClCachePostInvoked" \notin State /\ CompileSuccess

\* manifest_entry: the headers in the tlog, with their contents as they are
NewEntry(s) == [src |-> s, dependency |-> Now(tlog[s]), output |-> obj[s]]

\* ensure_output: one entry for each source and header contents
Published(ss) ==
    LET new == {NewEntry(s) : s \in ss}
    IN  new \cup {e \in entries : \A n \in new : e.src # n.src \/ e.dependency # n.dependency}

PostInvokeClcache ==
    IF Collects
    THEN /\ State' = State \cup {"ClCachePostInvoked"}
         /\ started' = started + 1
         /\ \E ss \in SUBSET Output :      \* the process may end before it is done
                /\ ss # Output => lost < MaxLost
                /\ lost' = IF ss # Output THEN lost + 1 ELSE lost
                /\ entries' = Published(ss)
    ELSE UNCHANGED <<State, started, lost, entries>>

\* Link.Execute, LIB.Execute
Link ==
    /\ phase = "cl" /\ batch > Len(Batches)
    /\ PostInvokeClcache
    /\ phase' = "built"
    /\ UNCHANGED <<files, batch, todo, ArtifactsHits, Output, CompileSuccess, builds, edits>>

\* The targets that are built have no Link or LIB task
NoLink ==
    /\ phase = "cl" /\ batch > Len(Batches)
    /\ phase' = "built"
    /\ UNCHANGED <<files, entries, batch, todo, ArtifactsHits, Output, State,
                   CompileSuccess, started, bounds>>

\* Mutant: only the Link task starts the post-invoke process
CompleteSilently ==
    /\ phase = "built"
    /\ phase' = "complete"
    /\ UNCHANGED <<files, entries, batch, todo, ArtifactsHits, Output, State,
                   CompileSuccess, started, bounds>>

\* OnStateChanged: the project is complete
Complete ==
    /\ phase = "built"
    /\ PostInvokeClcache
    /\ phase' = "complete"
    /\ UNCHANGED <<files, batch, todo, ArtifactsHits, Output, CompileSuccess, builds, edits>>

\* _projects.Remove: the next build of the project has a new ProjectInfo
Remove ==
    /\ phase = "complete"
    /\ phase' = "idle" /\ batch' = 1 /\ todo' = {}
    /\ ArtifactsHits' = {} /\ Output' = {}
    /\ State' = {} /\ CompileSuccess' = TRUE /\ started' = 0
    /\ UNCHANGED <<files, entries, bounds>>

-----------------------------------------------------------------------------
(* The environment.                                                        *)

Edit ==
    /\ phase = "idle" /\ edits < MaxEdits /\ edits' = edits + 1
    /\ \E h \in Header, v \in Version :
        /\ v # content[h]
        /\ content' = [content EXCEPT ![h] = v]
        /\ newer' = [s \in Source |-> newer[s] \cup {h}]
    /\ UNCHANGED <<obj, traced, tlog, misjudged, entries, project, builds, lost>>

\* An entry leaves the cache
Lose ==
    /\ phase = "idle" /\ lost < MaxLost /\ lost' = lost + 1
    /\ \E e \in entries : entries' = entries \ {e}
    /\ UNCHANGED <<files, project, builds, edits>>

Next ==
    \/ BeginCompile \/ LookedUp
    \/ \E s \in Source : Retrieve(s) \/ Miss(s) \/ RetrieveFails(s)
    \/ Execute \/ ExecuteFails \/ Abort \/ Link \/ NoLink \/ Complete \/ Remove
    \/ Edit \/ Lose

Spec == Init /\ [][Next]_vars

-----------------------------------------------------------------------------
TypeOK ==
    /\ content \in Contents
    /\ obj \in [Source -> Known \cup {None}]
    /\ newer \in [Source -> SUBSET Header]
    /\ traced \subseteq Source /\ tlog \in [Source -> SUBSET Header]
    /\ entries \subseteq Entry /\ misjudged \subseteq Source
    /\ phase \in {"idle", "lookup", "cl", "built", "complete"}
    /\ batch \in 1..(Len(Batches) + 1)
    /\ todo \subseteq Source /\ ArtifactsHits \subseteq Source /\ Output \subseteq Source
    /\ State \subseteq {"ClCachePreInvoked", "CompileFinished", "ClCachePostInvoked"}
    /\ CompileSuccess \in BOOLEAN
    /\ started \in Nat
    /\ builds \in 0..MaxBuilds /\ edits \in 0..MaxEdits /\ lost \in 0..MaxLost

\* The post-invoke process of a project is started once at most, although two
\* tasks and the end of the project ask for it: a second one would hash and
\* store files that the first is working on.
StartedOnce == started <= 1

\* The headers that the compiler used for an object are recorded in its entry,
\* with the contents it saw, whichever sources of the build were hits or were
\* left out as up to date.  Only a source that MSBuild has left out by the tlog
\* of another object than the one in place may have an entry that does not tell
\* what its object depends on.
HeadersAreRecorded == \A e \in entries : e.src \in misjudged \/ e.dependency = e.output

\* All CL tasks of the build have succeeded
Succeeded == phase = "complete" /\ CompileSuccess /\ batch > Len(Batches)

\* A build that succeeds leaves every object as compiling its source would,
\* whatever MSBuild has left out, with the same exception.
ObjectsAreCurrent == Succeeded => \A s \in Source \ misjudged : obj[s] = Compiled(s)

\* A build that succeeds leaves in the cache what it has compiled, in whatever
\* task, and whether or not there is a Link task, with the same exception.
BuildIsCached ==
    Succeeded /\ lost = 0 =>
        \A s \in Source \ misjudged : \E e \in Matches(s) : e.output = Compiled(s)
=============================================================================
