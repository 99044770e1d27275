------------------------- MODULE BuildWorkflowProofs -------------------------
(***************************************************************************)
(* What the extension makes of a project, for any sources, headers and CL  *)
(* tasks and any number of builds, whether MSBuild compiles every source   *)
(* that is left after the hits or leaves out those it takes to be up to    *)
(* date.                                                                   *)
(***************************************************************************)
EXTENDS BuildWorkflow, TLAPS

\* What compiling s gives when the headers contain c
Seen(s, c) == [h \in Uses[s][c] |-> c[h]]

\* There is an object for every output
OutputExists ==
    /\ \A s \in Output : obj[s] \in Known
    /\ phase \in {"idle", "lookup"} => Output = {}

TypeInv == TypeOK /\ OutputExists

-----------------------------------------------------------------------------
(* Types.                                                                  *)

\* The contents of some headers are known things.
LEMMA KnownMap ==
    ASSUME NEW c \in Contents, NEW hs \in SUBSET Header
    PROVE  [h \in hs |-> c[h]] \in Known
<1>1. [h \in hs |-> c[h]] \in [hs -> Version]
  BY DEF Contents
<1> QED
  BY <1>1 DEF Known

\* The contents of some headers, all of whose names are headers.
LEMMA KnownDomain ==
    ASSUME NEW k \in Known
    PROVE  DOMAIN k \in SUBSET Header
BY DEF Known

\* Compiling a source gives a known thing.
LEMMA CompiledType ==
    ASSUME content \in Contents, NEW s \in Source
    PROVE  Uses[s][content] \in SUBSET Header /\ Compiled(s) \in Known
<1>1. Uses[s][content] \in SUBSET Header
  BY WorkflowAssumption
<1> QED
  BY <1>1, KnownMap DEF Compiled, Now

\* The initial state is typed.
LEMMA InitType == Init => TypeOK
<1> SUFFICES ASSUME Init PROVE TypeOK
  OBVIOUS
<1>1. [s \in Source |-> None] \in [Source -> Known \cup {None}]
  OBVIOUS
<1>2. [s \in Source |-> {}] \in [Source -> SUBSET Header]
  OBVIOUS
<1>3. 1 \in 1..(Len(Batches) + 1) /\ 0 \in 0..MaxBuilds /\ 0 \in 0..MaxEdits /\ 0 \in 0..MaxLost
  BY WorkflowAssumption
<1> QED
  BY <1>1, <1>2, <1>3 DEF Init, TypeOK

\* cl.exe and the tracker keep the types.
LEMMA CompileType ==
    ASSUME TypeOK, newsource \in SUBSET Source, NEW done \in SUBSET Source, Compile(done)
    PROVE  /\ obj' \in [Source -> Known \cup {None}]
           /\ newer' \in [Source -> SUBSET Header]
           /\ traced' \subseteq Source /\ misjudged' \subseteq Source
           /\ tlog' \in [Source -> SUBSET Header]
<1>1. \A s \in Source : Uses[s][content] \in SUBSET Header /\ Compiled(s) \in Known
  BY CompiledType DEF TypeOK
<1>2. obj' \in [Source -> Known \cup {None}]
  BY <1>1 DEF Compile, TypeOK
<1>3. newer' \in [Source -> SUBSET Header]
  BY DEF Compile, TypeOK
<1>4. tlog' \in [Source -> SUBSET Header]
  BY <1>1 DEF Compile, TypeOK
<1>5. traced' \subseteq Source /\ misjudged' \subseteq Source
  BY DEF Compile, Misjudged, TypeOK
<1> QED
  BY <1>2, <1>3, <1>4, <1>5

\* The sources of a CL task are sources.
LEMMA BatchType ==
    ASSUME TypeOK, batch <= Len(Batches)
    PROVE  /\ batch \in 1..Len(Batches) /\ batch + 1 \in 1..(Len(Batches) + 1)
           /\ newsource \in SUBSET Source /\ OutOfDate \in SUBSET newsource
<1>1. Len(Batches) \in Nat /\ Batches \in [1..Len(Batches) -> SUBSET Source]
  BY WorkflowAssumption
<1>2. batch \in 1..Len(Batches) /\ batch + 1 \in 1..(Len(Batches) + 1)
  BY <1>1 DEF TypeOK
<1> QED
  BY <1>1, <1>2 DEF newsource, OutOfDate

\* What is published is typed.
LEMMA PublishedType ==
    ASSUME TypeOK, NEW ss \in SUBSET Output, \A s \in ss : obj[s] \in Known
    PROVE  Published(ss) \subseteq Entry
<1>1. \A s \in ss : NewEntry(s) \in Entry
  <2> SUFFICES ASSUME NEW s \in ss PROVE NewEntry(s) \in Entry
    OBVIOUS
  <2>1. s \in Source /\ tlog[s] \in SUBSET Header /\ content \in Contents
    BY DEF TypeOK
  <2> QED
    BY <2>1, KnownMap DEF NewEntry, Entry, Now
<1> QED
  BY <1>1 DEF Published, TypeOK

\* PostInvokeClcache keeps the types.
LEMMA PostInvokeType ==
    ASSUME TypeInv, PostInvokeClcache
    PROVE  /\ State' \subseteq {"ClCachePreInvoked", "CompileFinished", "ClCachePostInvoked"}
           /\ started' \in Nat /\ lost' \in 0..MaxLost
           /\ entries' \subseteq Entry
<1>1. CASE ~Collects
  BY <1>1 DEF PostInvokeClcache, TypeInv, TypeOK
<1>2. CASE Collects
  <2>1. PICK ss \in SUBSET Output :
            /\ ss # Output => lost < MaxLost
            /\ lost' = IF ss # Output THEN lost + 1 ELSE lost
            /\ entries' = Published(ss)
    BY <1>2 DEF PostInvokeClcache
  <2>2. entries' \subseteq Entry
    BY <2>1, PublishedType DEF TypeInv, OutputExists
  <2>3. lost' \in 0..MaxLost
    BY <2>1, WorkflowAssumption DEF TypeInv, TypeOK
  <2>4. State' = State \cup {"ClCachePostInvoked"} /\ started' = started + 1
    BY <1>2 DEF PostInvokeClcache
  <2>5. /\ State' \subseteq {"ClCachePreInvoked", "CompileFinished", "ClCachePostInvoked"}
        /\ started' \in Nat
    BY <2>4 DEF TypeInv, TypeOK
  <2> QED
    BY <2>2, <2>3, <2>5
<1> QED
  BY <1>1, <1>2

\* The start and the end of the pre-invoke process keep the types.
LEMMA BeginType ==
    ASSUME TypeInv, BeginCompile \/ LookedUp
    PROVE  TypeInv'
<1>1. CASE BeginCompile
  <2>1. /\ builds' \in 0..MaxBuilds /\ batch' \in 1..(Len(Batches) + 1)
        /\ edits' \in 0..MaxEdits /\ lost' \in 0..MaxLost
    BY <1>1, WorkflowAssumption DEF BeginCompile, TypeInv, TypeOK
  <2>2. /\ todo' \subseteq Source /\ ArtifactsHits' \subseteq Source
        /\ Output' = {} /\ phase' = "lookup" /\ started' \in Nat
        /\ CompileSuccess' \in BOOLEAN
        /\ State' \subseteq {"ClCachePreInvoked", "CompileFinished", "ClCachePostInvoked"}
    BY <1>1 DEF BeginCompile
  <2>3. UNCHANGED <<files, entries>>
    BY <1>1 DEF BeginCompile
  <2>4. TypeOK'
    BY <2>1, <2>2, <2>3 DEF files, TypeInv, TypeOK
  <2> QED
    BY <2>2, <2>4 DEF TypeInv, OutputExists
<1>2. CASE LookedUp
  BY <1>2 DEF LookedUp, files, bounds, TypeInv, TypeOK, OutputExists
<1> QED
  BY <1>1, <1>2

\* Looking up a source keeps the types.
LEMMA LookupType ==
    ASSUME TypeInv, NEW s \in Source, Retrieve(s) \/ Miss(s) \/ RetrieveFails(s)
    PROVE  TypeInv'
<1>1. CASE Retrieve(s)
  <2>1. PICK e \in Matches(s), reported \in BOOLEAN :
            /\ obj' = [obj EXCEPT ![s] = e.output]
            /\ newer' = IF obj[s] = e.output THEN newer ELSE [newer EXCEPT ![s] = {}]
            /\ ArtifactsHits' = IF reported THEN ArtifactsHits \cup {s} ELSE ArtifactsHits
            /\ ~reported => lost < MaxLost
            /\ lost' = IF reported THEN lost ELSE lost + 1
    BY <1>1 DEF Retrieve
  <2>2. e.output \in Known
    BY DEF Matches, Entry, TypeInv, TypeOK
  <2>3. lost' \in 0..MaxLost
    BY <2>1, WorkflowAssumption DEF TypeInv, TypeOK
  <2>4. /\ obj' \in [Source -> Known \cup {None}]
        /\ newer' \in [Source -> SUBSET Header]
        /\ ArtifactsHits' \subseteq Source
    BY <2>1, <2>2 DEF TypeInv, TypeOK
  <2>5. TypeOK'
    BY <1>1, <2>3, <2>4 DEF Retrieve, TypeInv, TypeOK
  <2> QED
    BY <1>1, <2>5 DEF Retrieve, TypeInv, OutputExists
<1>2. CASE Miss(s)
  BY <1>2 DEF Miss, files, bounds, TypeInv, TypeOK, OutputExists
<1>3. CASE RetrieveFails(s)
  <2>1. lost' \in 0..MaxLost
    BY <1>3, WorkflowAssumption DEF RetrieveFails, TypeInv, TypeOK
  <2>2. obj' \in [Source -> Known \cup {None}]
    BY <1>3 DEF RetrieveFails, TypeInv, TypeOK
  <2> QED
    BY <1>3, <2>1, <2>2 DEF RetrieveFails, TypeInv, TypeOK, OutputExists
<1> QED
  BY <1>1, <1>2, <1>3

\* A CL task keeps the types: whatever is not compiled has an object already.
LEMMA TaskType ==
    ASSUME TypeInv, Execute \/ ExecuteFails \/ Abort
    PROVE  TypeInv'
<1>1. CASE Execute
  <2>1. /\ batch + 1 \in 1..(Len(Batches) + 1)
        /\ newsource \in SUBSET Source /\ OutOfDate \in SUBSET newsource
    BY <1>1, BatchType DEF Execute, TypeInv
  <2>2. /\ obj' \in [Source -> Known \cup {None}]
        /\ newer' \in [Source -> SUBSET Header]
        /\ traced' \subseteq Source /\ misjudged' \subseteq Source
        /\ tlog' \in [Source -> SUBSET Header]
    BY <1>1, <2>1, CompileType DEF Execute, TypeInv
  <2>3. State' \subseteq {"ClCachePreInvoked", "CompileFinished", "ClCachePostInvoked"}
    BY <1>1 DEF Execute, TypeInv, TypeOK
  <2>4. TypeOK'
    BY <1>1, <2>1, <2>2, <2>3 DEF Execute, bounds, TypeInv, TypeOK
  <2>5. ASSUME NEW s \in Output' PROVE obj'[s] \in Known
    <3>1. s \in Source
      BY <2>4, <2>5 DEF TypeOK
    <3>2. CASE s \in OutOfDate
      BY <1>1, <3>1, <3>2, CompiledType DEF Execute, Compile, TypeInv, TypeOK
    <3>3. CASE s \in newsource \ OutOfDate
      BY <1>1, <3>1, <3>3 DEF Execute, Compile, OutOfDate, UpToDate, TypeInv, TypeOK
    <3>4. CASE s \in Output /\ s \notin newsource
      BY <1>1, <2>1, <3>1, <3>4 DEF Execute, Compile, TypeInv, OutputExists
    <3> QED
      BY <1>1, <2>5, <3>2, <3>3, <3>4 DEF Execute
  <2> QED
    BY <1>1, <2>4, <2>5 DEF Execute, TypeInv, OutputExists
<1>2. CASE ExecuteFails
  <2>1. PICK done \in SUBSET OutOfDate : Compile(done)
    BY <1>2 DEF ExecuteFails
  <2>2. newsource \in SUBSET Source /\ OutOfDate \in SUBSET newsource
    BY <1>2, BatchType DEF ExecuteFails, TypeInv
  <2>3. /\ obj' \in [Source -> Known \cup {None}]
        /\ newer' \in [Source -> SUBSET Header]
        /\ traced' \subseteq Source /\ misjudged' \subseteq Source
        /\ tlog' \in [Source -> SUBSET Header]
    BY <2>1, <2>2, CompileType DEF TypeInv
  <2>4. TypeOK'
    BY <1>2, <2>3 DEF ExecuteFails, bounds, TypeInv, TypeOK
  <2>5. ASSUME NEW s \in Output PROVE obj'[s] \in Known
    BY <2>1, <2>5, CompiledType DEF Compile, TypeInv, TypeOK, OutputExists
  <2> QED
    BY <1>2, <2>4, <2>5 DEF ExecuteFails, TypeInv, OutputExists
<1>3. CASE Abort
  BY <1>3 DEF Abort, files, bounds, TypeInv, TypeOK, OutputExists
<1> QED
  BY <1>1, <1>2, <1>3

\* The end of a build keeps the types.
LEMMA EndType ==
    ASSUME TypeInv, Link \/ NoLink \/ Complete \/ Remove
    PROVE  TypeInv'
<1>1. CASE Link
  BY <1>1, PostInvokeType DEF Link, files, TypeInv, TypeOK, OutputExists
<1>2. CASE NoLink
  BY <1>2 DEF NoLink, files, bounds, TypeInv, TypeOK, OutputExists
<1>3. CASE Complete
  BY <1>3, PostInvokeType DEF Complete, files, TypeInv, TypeOK, OutputExists
<1>4. CASE Remove
  <2>1. 1 \in 1..(Len(Batches) + 1)
    BY WorkflowAssumption
  <2> QED
    BY <1>4, <2>1 DEF Remove, files, bounds, TypeInv, TypeOK, OutputExists
<1> QED
  BY <1>1, <1>2, <1>3, <1>4

\* Edits and lost entries keep the types.
LEMMA EnvironmentType ==
    ASSUME TypeInv, Edit \/ Lose
    PROVE  TypeInv'
<1>1. CASE Edit
  <2>1. /\ content' \in Contents /\ newer' \in [Source -> SUBSET Header]
        /\ edits' \in 0..MaxEdits
    BY <1>1, WorkflowAssumption DEF Edit, Contents, TypeInv, TypeOK
  <2> QED
    BY <1>1, <2>1 DEF Edit, project, TypeInv, TypeOK, OutputExists
<1>2. CASE Lose
  <2>1. entries' \subseteq Entry /\ lost' \in 0..MaxLost
    BY <1>2, WorkflowAssumption DEF Lose, TypeInv, TypeOK
  <2> QED
    BY <1>2, <2>1 DEF Lose, files, project, TypeInv, TypeOK, OutputExists
<1> QED
  BY <1>1, <1>2

\* Every step keeps the types.
LEMMA TypeStep == TypeInv /\ [Next]_vars => TypeInv'
<1> SUFFICES ASSUME TypeInv, [Next]_vars PROVE TypeInv'
  OBVIOUS
<1>1. CASE \E s \in Source : Retrieve(s) \/ Miss(s) \/ RetrieveFails(s)
  BY <1>1, LookupType
<1>2. CASE BeginCompile \/ LookedUp
  BY <1>2, BeginType
<1>3. CASE Execute \/ ExecuteFails \/ Abort
  BY <1>3, TaskType
<1>4. CASE Link \/ NoLink \/ Complete \/ Remove
  BY <1>4, EndType
<1>5. CASE Edit \/ Lose
  BY <1>5, EnvironmentType
<1>6. CASE UNCHANGED vars
  BY <1>6 DEF vars, files, project, bounds, TypeInv, TypeOK, OutputExists
<1> QED
  BY <1>1, <1>2, <1>3, <1>4, <1>5, <1>6 DEF Next

\* Every variable keeps its type: an entry always has an object, whichever of a
\* build's sources were compiled, left out or not found.
THEOREM Typed == Spec => []TypeOK
<1>1. Init => TypeInv
  BY InitType DEF TypeInv, OutputExists, Init
<1>2. TypeInv => TypeOK
  BY DEF TypeInv
<1> QED
  BY <1>1, <1>2, TypeStep, PTL DEF Spec

-----------------------------------------------------------------------------
(* One post-invoke process.                                                *)

\* The flag says whether the process has been started
FlagTells ==
    started = IF "ClCachePostInvoked" \in State THEN 1 ELSE 0

LEMMA FlagStep == TypeInv /\ FlagTells /\ [Next]_vars => FlagTells'
<1> SUFFICES ASSUME TypeInv, FlagTells, [Next]_vars PROVE FlagTells'
  OBVIOUS
<1>1. CASE PostInvokeClcache
  <2>1. CASE Collects
    BY <1>1, <2>1 DEF PostInvokeClcache, Collects, FlagTells
  <2>2. CASE ~Collects
    BY <1>1, <2>2 DEF PostInvokeClcache, FlagTells
  <2> QED
    BY <2>1, <2>2
<1>2. CASE Link \/ Complete
  BY <1>1, <1>2 DEF Link, Complete
<1>3. CASE BeginCompile \/ Remove
  BY <1>3 DEF BeginCompile, Remove, FlagTells
<1>4. CASE Execute
  BY <1>4 DEF Execute, FlagTells
<1>5. CASE UNCHANGED <<State, started>>
  BY <1>5 DEF FlagTells
<1>6. ASSUME NEW s \in Source, Retrieve(s) \/ Miss(s) \/ RetrieveFails(s)
      PROVE  UNCHANGED <<State, started>>
  BY <1>6 DEF Retrieve, Miss, RetrieveFails
<1>7. ASSUME LookedUp \/ ExecuteFails \/ Abort \/ NoLink \/ Edit \/ Lose
      PROVE  UNCHANGED <<State, started>>
  BY <1>7 DEF LookedUp, ExecuteFails, Abort, NoLink, Edit, Lose, project
<1>8. ASSUME UNCHANGED vars PROVE UNCHANGED <<State, started>>
  BY <1>8 DEF vars, project
<1> QED
  BY <1>2, <1>3, <1>4, <1>5, <1>6, <1>7, <1>8 DEF Next

\* The post-invoke process of a project is started once at most, however the
\* Link and LIB tasks and the end of the project ask for it.
THEOREM StartedAtMostOnce == Spec => []StartedOnce
<1>1. Init => TypeInv /\ FlagTells
  BY InitType DEF TypeInv, OutputExists, FlagTells, Init
<1>2. TypeInv /\ FlagTells => StartedOnce
  BY DEF FlagTells, StartedOnce
<1> QED
  BY <1>1, <1>2, TypeStep, FlagStep, PTL DEF Spec

-----------------------------------------------------------------------------
(* The right objects.  Headers change between builds only, so what is      *)
(* right is the same in all steps of one.                                  *)

\* k is what compiling s gives with some contents of the headers
Whole(s, k) == \E c \in Contents : k = Seen(s, c)

\* An entry's object was compiled from the headers that the entry names, and
\* these are all the headers that the source used
EntriesTell ==
    \A e \in entries :
        e.src \notin misjudged => e.output = e.dependency /\ Whole(e.src, e.dependency)

\* An object was compiled, and the headers it was compiled from that are not
\* newer are as they were
ObjectsTell ==
    \A s \in Source \ misjudged :
        obj[s] # None =>
            /\ Whole(s, obj[s])
            /\ \A h \in DOMAIN obj[s] \ newer[s] : obj[s][h] = content[h]

\* What waits to be collected is what compiling would give
OutputsAreFresh ==
    \A s \in Output \ misjudged : tlog[s] = Uses[s][content] /\ obj[s] = Compiled(s)

\* The hits and the sources of the CL tasks that have succeeded are right
HitsAreRight == \A s \in ArtifactsHits \ misjudged : obj[s] = Compiled(s)
DoneIsRight ==
    \A b \in 1..Len(Batches) :
        b < batch => \A s \in Batches[b] \ misjudged : obj[s] = Compiled(s)

\* What the phases say of the other variables
Phases ==
    /\ phase \in {"idle", "lookup"} => batch = 1 /\ Output = {}
    /\ phase = "idle" => ArtifactsHits = {}
    /\ ArtifactsHits \cap todo = {}

WorkflowInv ==
    TypeInv /\ EntriesTell /\ ObjectsTell /\ OutputsAreFresh /\ HitsAreRight /\ DoneIsRight
    /\ Phases

\* Headers as they were give the same object.
LEMMA SameHeaders ==
    ASSUME TypeOK, NEW s \in Source, NEW k, Whole(s, k), \A h \in DOMAIN k : k[h] = content[h]
    PROVE  k = Compiled(s) /\ DOMAIN k = Uses[s][content]
<1>1. PICK c \in Contents : k = Seen(s, c)
  BY DEF Whole
<1>2. DOMAIN k = Uses[s][c] /\ \A h \in Uses[s][c] : k[h] = c[h]
  BY <1>1 DEF Seen
<1>3. \A h \in Uses[s][c] : content[h] = c[h]
  BY <1>2
<1>4. Uses[s][content] = Uses[s][c]
  BY <1>3, UsesAssumption DEF TypeOK
<1> QED
  BY <1>1, <1>2, <1>3, <1>4 DEF Compiled, Now, Seen

\* What compiling s gives now is what compiling s gives.
LEMMA CompiledWhole ==
    ASSUME TypeOK, NEW s \in Source
    PROVE  /\ Whole(s, Compiled(s))
           /\ \A h \in DOMAIN Compiled(s) : Compiled(s)[h] = content[h]
BY DEF Whole, Compiled, Now, Seen, TypeOK

\* A source that MSBuild leaves out by the tlog of its object is up to date.
LEMMA LeftOutIsRight ==
    ASSUME TypeOK, ObjectsTell, NEW s \in Source \ misjudged, UpToDate(s),
           tlog[s] = DOMAIN obj[s]
    PROVE  obj[s] = Compiled(s) /\ tlog[s] = Uses[s][content]
<1>1. obj[s] # None /\ tlog[s] \cap newer[s] = {}
  BY DEF UpToDate
<1>2. Whole(s, obj[s]) /\ \A h \in DOMAIN obj[s] : obj[s][h] = content[h]
  BY <1>1 DEF ObjectsTell
<1> QED
  BY <1>2, SameHeaders

\* An entry that matches has the object that compiling would give: the headers
\* it names are as they were, so the source uses the same headers now.
LEMMA MatchIsRight ==
    ASSUME TypeOK, EntriesTell, NEW s \in Source \ misjudged, NEW e \in Matches(s)
    PROVE  e.output = Compiled(s)
<1>1. e \in entries /\ e.src = s /\ e.dependency = Now(DOMAIN e.dependency)
  BY DEF Matches
<1>2. \A h \in DOMAIN e.dependency : e.dependency[h] = content[h]
  BY <1>1 DEF Now
<1>3. e.output = e.dependency /\ Whole(s, e.dependency)
  BY <1>1 DEF EntriesTell
<1> QED
  BY <1>2, <1>3, SameHeaders

\* Compiling makes objects right and spoils none.
LEMMA CompileIsRight ==
    ASSUME TypeOK, NEW done \in SUBSET Source, Compile(done), UNCHANGED content
    PROVE  /\ \A s \in done : obj'[s] = Compiled(s)' /\ tlog'[s] = Uses[s][content']
           /\ \A s \in done : newer'[s] = {}
           /\ \A s \in Source \ done : /\ obj'[s] = obj[s] /\ tlog'[s] = tlog[s]
                                       /\ newer'[s] = newer[s]
           /\ \A s \in Source : Compiled(s)' = Compiled(s)
           /\ misjudged' = misjudged \cup Misjudged
<1>1. \A s \in Source : Compiled(s)' = Compiled(s)
  BY DEF Compiled, Now
<1> QED
  BY <1>1 DEF Compile

\* PostInvokeClcache publishes entries that tell what their objects are made of.
LEMMA PublishTells ==
    ASSUME WorkflowInv, NEW ss \in SUBSET Output
    PROVE  \A e \in Published(ss) :
               e.src \notin misjudged => e.output = e.dependency /\ Whole(e.src, e.dependency)
<1>1. content \in Contents
  BY DEF WorkflowInv, TypeInv, TypeOK
<1>2. \A e \in Published(ss) : e \in entries \/ \E s \in ss : e = NewEntry(s)
  BY DEF Published
<1> QED
  <2> SUFFICES ASSUME NEW e \in Published(ss), e.src \notin misjudged
               PROVE  e.output = e.dependency /\ Whole(e.src, e.dependency)
    OBVIOUS
  <2>1. CASE e \in entries
    BY <2>1 DEF WorkflowInv, EntriesTell
  <2>2. CASE \E s \in ss : e = NewEntry(s)
    <3>1. PICK s \in ss : e = NewEntry(s)
      BY <2>2
    <3>2. NewEntry(s).src = s
      BY DEF NewEntry
    <3>3. s \notin misjudged
      BY <3>1, <3>2
    <3>4. NewEntry(s).dependency = Seen(s, content) /\ NewEntry(s).output = Seen(s, content)
      BY <3>3 DEF NewEntry, Seen, Compiled, Now, WorkflowInv, OutputsAreFresh
    <3> QED
      BY <1>1, <3>1, <3>2, <3>4 DEF Whole
  <2> QED
    BY <1>2, <2>1, <2>2

\* Looking up a source.
LEMMA LookupKeeps ==
    ASSUME WorkflowInv, TypeInv', NEW s \in Source,
           Retrieve(s) \/ Miss(s) \/ RetrieveFails(s)
    PROVE  WorkflowInv'
<1>1. /\ phase = "lookup" /\ s \in todo /\ todo' = todo \ {s}
      /\ UNCHANGED <<content, tlog, misjudged, entries, phase, batch, Output>>
  BY DEF Retrieve, Miss, RetrieveFails, files, bounds
<1>2. Output' = {} /\ batch' = 1
  BY <1>1 DEF WorkflowInv, Phases
<1>3. \A t \in Source : Compiled(t)' = Compiled(t)
  BY <1>1 DEF Compiled, Now
<1>4. EntriesTell' /\ OutputsAreFresh' /\ DoneIsRight'
  BY <1>1, <1>2 DEF WorkflowInv, EntriesTell, OutputsAreFresh, DoneIsRight
<1>5. HitsAreRight' /\ ObjectsTell' /\ ArtifactsHits' \cap todo' = {}
  <2>1. CASE Retrieve(s)
    <3>1. PICK e \in Matches(s) :
            /\ obj' = [obj EXCEPT ![s] = e.output]
            /\ newer' = newer \/ newer' = [newer EXCEPT ![s] = {}]
            /\ ArtifactsHits' \subseteq ArtifactsHits \cup {s}
      BY <2>1 DEF Retrieve
    <3>2. s \notin misjudged => e.output = Compiled(s)
      BY MatchIsRight DEF WorkflowInv, TypeInv
    <3>3. \A t \in Source \ {s} : obj'[t] = obj[t] /\ newer'[t] = newer[t]
      BY <3>1 DEF WorkflowInv, TypeInv, TypeOK
    <3>4. s \notin misjudged => obj'[s] = Compiled(s)
      BY <3>1, <3>2 DEF WorkflowInv, TypeInv, TypeOK
    <3>5. HitsAreRight' /\ ArtifactsHits' \cap todo' = {}
      BY <1>1, <1>3, <3>1, <3>3, <3>4
          DEF WorkflowInv, TypeInv, TypeOK, HitsAreRight, Phases
    <3>6. ObjectsTell'
      <4>1. ASSUME NEW t \in Source \ misjudged, t # s, obj'[t] # None
            PROVE  /\ Whole(t, obj'[t])
                   /\ \A h \in DOMAIN obj'[t] \ newer'[t] : obj'[t][h] = content[h]
        BY <3>3, <4>1 DEF WorkflowInv, ObjectsTell
      <4>2. s \notin misjudged => /\ Whole(s, obj'[s])
                                 /\ \A h \in DOMAIN obj'[s] : obj'[s][h] = content[h]
        BY <3>4, CompiledWhole DEF WorkflowInv, TypeInv
      <4> QED
        BY <1>1, <4>1, <4>2 DEF ObjectsTell, Whole
    <3> QED
      BY <3>5, <3>6
  <2>2. CASE Miss(s)
    <3>1. UNCHANGED <<content, obj, newer, misjudged, ArtifactsHits>>
      BY <2>2 DEF Miss, files
    <3>2. ObjectsTell'
      BY <3>1 DEF WorkflowInv, ObjectsTell, Whole
    <3> QED
      BY <1>1, <1>3, <3>1, <3>2 DEF WorkflowInv, TypeInv, TypeOK, HitsAreRight, Phases
  <2>3. CASE RetrieveFails(s)
    <3>1. /\ \A t \in Source \ {s} : obj'[t] = obj[t]
          /\ obj'[s] \in {obj[s], None} /\ newer' = newer
      BY <2>3 DEF RetrieveFails, WorkflowInv, TypeInv, TypeOK
    <3>2. ObjectsTell'
      BY <1>1, <3>1 DEF WorkflowInv, ObjectsTell, Whole
    <3>3. ArtifactsHits' = ArtifactsHits /\ s \notin ArtifactsHits /\ ArtifactsHits \subseteq Source
      BY <1>1, <2>3 DEF RetrieveFails, WorkflowInv, TypeInv, TypeOK, Phases
    <3> QED
      BY <1>1, <1>3, <3>1, <3>2, <3>3 DEF WorkflowInv, HitsAreRight, Phases
  <2> QED
    BY <2>1, <2>2, <2>3
<1> QED
  BY <1>1, <1>2, <1>4, <1>5 DEF WorkflowInv, Phases

\* A CL task.  A source that is not compiled is up to date, or is misjudged now.
LEMMA TaskKeeps ==
    ASSUME WorkflowInv, TypeInv', Execute \/ ExecuteFails
    PROVE  WorkflowInv'
<1>1. /\ phase = "cl" /\ batch <= Len(Batches) /\ phase' \in {"cl", "built"}
      /\ UNCHANGED <<content, entries, todo, ArtifactsHits>>
  BY DEF Execute, ExecuteFails, bounds
<1>2. /\ batch \in 1..Len(Batches)
      /\ newsource \in SUBSET Source /\ OutOfDate \in SUBSET newsource
  BY <1>1, BatchType DEF WorkflowInv, TypeInv
<1>3. PICK done \in SUBSET OutOfDate :
        /\ Compile(done)
        /\ \/ /\ done = OutOfDate /\ batch' = batch + 1
              /\ Output' = Output \cup newsource
           \/ batch' = batch /\ Output' = Output
  BY <1>2 DEF Execute, ExecuteFails
<1>4. /\ \A s \in done : /\ obj'[s] = Compiled(s)' /\ tlog'[s] = Uses[s][content']
                       /\ newer'[s] = {}
      /\ \A s \in Source \ done : /\ obj'[s] = obj[s] /\ tlog'[s] = tlog[s]
                                  /\ newer'[s] = newer[s]
      /\ \A s \in Source : Compiled(s)' = Compiled(s)
      /\ misjudged' = misjudged \cup Misjudged
  BY <1>1, <1>2, <1>3, CompileIsRight DEF WorkflowInv, TypeInv
<1>5. EntriesTell' /\ Phases'
  BY <1>1, <1>4 DEF WorkflowInv, EntriesTell, Phases, Whole
<1>6. \A s \in newsource \ OutOfDate :
        s \notin misjudged' => obj[s] = Compiled(s) /\ tlog[s] = Uses[s][content]
  <2> SUFFICES ASSUME NEW s \in newsource \ OutOfDate, s \notin misjudged'
               PROVE  obj[s] = Compiled(s) /\ tlog[s] = Uses[s][content]
    OBVIOUS
  <2>1. UpToDate(s) /\ tlog[s] = DOMAIN obj[s] /\ s \notin misjudged
    BY <1>4 DEF OutOfDate, Misjudged
  <2> QED
    BY <1>2, <2>1, LeftOutIsRight DEF WorkflowInv, TypeInv
<1>7. OutputsAreFresh'
  <2> SUFFICES ASSUME NEW s \in Output', s \notin misjudged'
               PROVE  tlog'[s] = Uses[s][content] /\ obj'[s] = Compiled(s)
    BY <1>1, <1>4 DEF OutputsAreFresh, TypeInv, TypeOK
  <2>1. s \in Source /\ s \notin misjudged
    BY <1>4 DEF TypeInv, TypeOK
  <2>2. CASE s \in done
    BY <1>1, <1>4, <2>1, <2>2
  <2>3. CASE s \in Output /\ s \notin done
    BY <1>4, <2>1, <2>3 DEF WorkflowInv, OutputsAreFresh
  <2>4. CASE s \in newsource \ OutOfDate
    BY <1>3, <1>4, <1>6, <2>1, <2>4
  <2> QED
    BY <1>3, <2>2, <2>3, <2>4
<1>8. HitsAreRight'
  <2> SUFFICES ASSUME NEW s \in ArtifactsHits, s \notin misjudged'
               PROVE  obj'[s] = Compiled(s)
    BY <1>1, <1>4 DEF HitsAreRight, WorkflowInv, TypeInv, TypeOK
  <2>1. s \in Source
    BY DEF WorkflowInv, TypeInv, TypeOK
  <2> QED
    BY <1>4, <2>1 DEF WorkflowInv, HitsAreRight
<1>9. ObjectsTell'
  <2> SUFFICES ASSUME NEW s \in Source \ misjudged', obj'[s] # None
               PROVE  /\ Whole(s, obj'[s])
                      /\ \A h \in DOMAIN obj'[s] \ newer'[s] : obj'[s][h] = content[h]
    BY <1>1 DEF ObjectsTell, Whole
  <2>1. s \notin misjudged
    BY <1>4
  <2>2. CASE s \in done
    BY <1>4, <2>2, CompiledWhole DEF WorkflowInv, TypeInv
  <2>3. CASE s \notin done
    BY <1>4, <2>1, <2>3 DEF WorkflowInv, ObjectsTell
  <2> QED
    BY <2>2, <2>3
<1>10. DoneIsRight'
  <2> SUFFICES ASSUME NEW b \in 1..Len(Batches), b < batch', NEW s \in Batches[b],
                      s \notin misjudged'
               PROVE  obj'[s] = Compiled(s)'
    BY DEF DoneIsRight
  <2>1. s \in Source /\ s \notin misjudged
    BY <1>4, WorkflowAssumption
  <2>2. CASE b < batch
    BY <1>4, <2>1, <2>2 DEF WorkflowInv, DoneIsRight
  <2>3. CASE b = batch /\ done = OutOfDate
    <3>1. CASE s \in ArtifactsHits
      BY <1>1, <1>4, <1>8, <2>1, <3>1 DEF HitsAreRight
    <3>2. CASE s \in newsource
      BY <1>4, <1>6, <2>1, <2>3, <3>2
    <3> QED
      BY <2>3, <3>1, <3>2 DEF newsource
  <2> QED
    BY <1>2, <1>3, <2>2, <2>3
<1> QED
  BY <1>5, <1>7, <1>8, <1>9, <1>10 DEF WorkflowInv

\* The other steps of a build change no object.
LEMMA OtherKeeps ==
    ASSUME WorkflowInv, TypeInv',
           BeginCompile \/ LookedUp \/ Abort \/ Link \/ NoLink \/ Complete \/ Remove
    PROVE  WorkflowInv'
<1>1. UNCHANGED files
  BY DEF BeginCompile, LookedUp, Abort, Link, NoLink, Complete, Remove
<1>2. \A s \in Source : Compiled(s)' = Compiled(s)
  BY <1>1 DEF Compiled, Now, files
<1>3. ObjectsTell'
  BY <1>1 DEF files, WorkflowInv, ObjectsTell, Whole
<1>4. CASE BeginCompile \/ Remove
  <2>1. Output' = {} /\ ArtifactsHits' = {} /\ batch' = 1 /\ entries' = entries
    BY <1>4 DEF BeginCompile, Remove
  <2> QED
    BY <1>1, <1>3, <2>1
        DEF files, WorkflowInv, EntriesTell, OutputsAreFresh, HitsAreRight, DoneIsRight, Phases
<1>5. CASE LookedUp \/ Abort \/ NoLink \/ Link \/ Complete
  <2>1. /\ phase' \in {"cl", "built", "complete"}
        /\ UNCHANGED <<batch, todo, ArtifactsHits, Output>>
    BY <1>5 DEF LookedUp, Abort, NoLink, Link, Complete
  <2>2. EntriesTell'
    <3>1. CASE entries' = entries
      BY <1>1, <3>1 DEF files, WorkflowInv, EntriesTell
    <3>2. CASE \E ss \in SUBSET Output : entries' = Published(ss)
      BY <1>1, <3>2, PublishTells DEF files, EntriesTell
    <3> QED
      BY <1>5, <3>1, <3>2 DEF LookedUp, Abort, NoLink, Link, Complete, PostInvokeClcache
  <2>3. OutputsAreFresh' /\ HitsAreRight'
    BY <1>1, <1>2, <2>1 DEF files, WorkflowInv, TypeInv, TypeOK, OutputsAreFresh, HitsAreRight
  <2>4. DoneIsRight'
    <3>1. \A b \in 1..Len(Batches) : Batches[b] \subseteq Source
      BY WorkflowAssumption
    <3> QED
      BY <1>1, <1>2, <2>1, <3>1 DEF files, WorkflowInv, DoneIsRight
  <2> QED
    BY <1>3, <2>1, <2>2, <2>3, <2>4 DEF WorkflowInv, Phases
<1> QED
  BY <1>4, <1>5

\* Between builds nothing is at hand.
LEMMA EnvironmentKeeps ==
    ASSUME WorkflowInv, TypeInv', Edit \/ Lose
    PROVE  WorkflowInv'
<1>1. phase = "idle" /\ UNCHANGED <<project, misjudged>> /\ entries' \subseteq entries
  BY DEF Edit, Lose, files
<1>2. EntriesTell'
  BY <1>1 DEF WorkflowInv, EntriesTell
<1>3. ObjectsTell'
  <2>1. CASE Edit
    <3>1. PICK h \in Header, v \in Version :
            /\ content' = [content EXCEPT ![h] = v]
            /\ newer' = [s \in Source |-> newer[s] \cup {h}]
      BY <2>1 DEF Edit
    <3>2. /\ UNCHANGED <<obj, misjudged>>
          /\ \A s \in Source : newer'[s] = newer[s] \cup {h}
          /\ \A g : g # h => content'[g] = content[g]
      BY <2>1, <3>1 DEF Edit, WorkflowInv, TypeInv, TypeOK, Contents
    <3> QED
      BY <3>2 DEF WorkflowInv, ObjectsTell, Whole
  <2>2. CASE Lose
    BY <2>2 DEF Lose, files, WorkflowInv, ObjectsTell, Whole
  <2> QED
    BY <2>1, <2>2
<1>4. Output' = {} /\ ArtifactsHits' = {} /\ batch' = 1
  BY <1>1 DEF project, WorkflowInv, Phases
<1> QED
  BY <1>2, <1>4, <1>3 DEF WorkflowInv, OutputsAreFresh, HitsAreRight, DoneIsRight, Phases

LEMMA WorkflowStep == WorkflowInv /\ [Next]_vars => WorkflowInv'
<1> SUFFICES ASSUME WorkflowInv, [Next]_vars PROVE WorkflowInv'
  OBVIOUS
<1>1. TypeInv'
  BY TypeStep DEF WorkflowInv
<1>2. CASE UNCHANGED vars
  <2>1. \A s \in Source : Compiled(s)' = Compiled(s)
    BY <1>2 DEF vars, files, Compiled, Now
  <2>2. \A b \in 1..Len(Batches) : Batches[b] \subseteq Source
    BY WorkflowAssumption
  <2> QED
    BY <1>1, <1>2, <2>1, <2>2
        DEF vars, files, project, WorkflowInv, TypeInv, TypeOK, EntriesTell, ObjectsTell,
            Whole, OutputsAreFresh, HitsAreRight, DoneIsRight, Phases
<1> QED
  BY <1>1, <1>2, LookupKeeps, TaskKeeps, OtherKeeps, EnvironmentKeeps DEF Next

LEMMA InitWorkflow == Init => WorkflowInv
<1>1. Init => TypeInv
  BY InitType DEF TypeInv, OutputExists, Init
<1> QED
  BY <1>1 DEF Init, WorkflowInv, EntriesTell, ObjectsTell, OutputsAreFresh, HitsAreRight,
              DoneIsRight, Phases

\* An entry names the headers that its object was compiled from, with the contents
\* they had, whether or not MSBuild leaves out sources that it takes to be up to
\* date; but for a source that it has left out by the tlog of another object.
THEOREM RecordedRight == Spec => []HeadersAreRecorded
<1>1. WorkflowInv => HeadersAreRecorded
  BY DEF WorkflowInv, EntriesTell, HeadersAreRecorded
<1>2. WorkflowInv /\ [Next]_vars => WorkflowInv'
  BY WorkflowStep
<1> QED
  BY <1>1, <1>2, InitWorkflow, PTL DEF Spec

\* A build that succeeds leaves the objects that compiling everything would have
\* given, with the same exception.
THEOREM BuiltRight == Spec => []ObjectsAreCurrent
<1>1. WorkflowInv => ObjectsAreCurrent
  <2> SUFFICES ASSUME WorkflowInv, Succeeded, NEW s \in Source \ misjudged
               PROVE  obj[s] = Compiled(s)
    BY DEF ObjectsAreCurrent
  <2>1. PICK b \in 1..Len(Batches) : s \in Batches[b]
    BY WorkflowAssumption
  <2>2. b < batch
    BY <2>1, WorkflowAssumption DEF Succeeded, WorkflowInv, TypeInv, TypeOK
  <2> QED
    BY <2>1, <2>2 DEF WorkflowInv, DoneIsRight
<1>2. WorkflowInv /\ [Next]_vars => WorkflowInv'
  BY WorkflowStep
<1> QED
  BY <1>1, <1>2, InitWorkflow, PTL DEF Spec

-----------------------------------------------------------------------------
(* A finished build is in the cache.                                       *)

InCache(s) == \E e \in Matches(s) : e.output = Compiled(s)

\* The sources of the CL tasks that have succeeded are hits or to be collected
Covered ==
    \A b \in 1..Len(Batches) : b < batch => Batches[b] \subseteq ArtifactsHits \cup Output

\* The hits are in the cache, and what has been collected
Kept ==
    lost = 0 =>
        /\ \A s \in ArtifactsHits \ misjudged : InCache(s)
        /\ "ClCachePostInvoked" \in State => \A s \in Output \ misjudged : InCache(s)

\* What the phases say of the flags
Flags ==
    /\ Output # {} => "CompileFinished" \in State
    /\ phase # "idle" => "ClCachePreInvoked" \in State
    /\ "ClCachePostInvoked" \in State => phase \in {"built", "complete"}
    /\ phase = "complete" /\ CompileSuccess /\ Output # {} => "ClCachePostInvoked" \in State

CacheInv == WorkflowInv /\ Covered /\ Kept /\ Flags

\* While the headers and the entries stay, so does what is in the cache.
LEMMA StaysInCache ==
    ASSUME UNCHANGED <<content, entries>>, NEW s \in Source, InCache(s)
    PROVE  InCache(s)'
<1>1. Compiled(s)' = Compiled(s) /\ \A hs : Now(hs)' = Now(hs)
  BY DEF Compiled, Now
<1>2. Matches(s)' = Matches(s)
  BY <1>1 DEF Matches
<1> QED
  BY <1>1, <1>2 DEF InCache

\* Publishing puts the outputs in the cache and leaves there what is in it.
LEMMA PublishKeeps ==
    ASSUME WorkflowInv, NEW ss \in SUBSET Output, entries' = Published(ss), UNCHANGED content,
           NEW s \in Source \ misjudged, s \in ss \/ InCache(s)
    PROVE  InCache(s)'
<1>1. Compiled(s)' = Compiled(s) /\ \A hs : Now(hs)' = Now(hs)
  BY DEF Compiled, Now
<1>2. \A e \in Published(ss) : e.src = s /\ e.dependency = Compiled(s) => InCache(s)'
  <2> SUFFICES ASSUME NEW e \in Published(ss), e.src = s, e.dependency = Compiled(s)
               PROVE  InCache(s)'
    OBVIOUS
  <2>1. e.output = Compiled(s)
    BY PublishTells
  <2>2. DOMAIN e.dependency = Uses[s][content]
    BY DEF Compiled, Now
  <2>3. e \in Matches(s)'
    BY <1>1, <2>2 DEF Matches, Compiled
  <2> QED
    BY <1>1, <2>1, <2>3 DEF InCache
<1>3. CASE s \in ss
  <2>1. NewEntry(s) \in Published(ss) /\ NewEntry(s).src = s
    BY <1>3 DEF Published, NewEntry
  <2>2. NewEntry(s).dependency = Compiled(s)
    BY <1>3 DEF NewEntry, Compiled, WorkflowInv, OutputsAreFresh
  <2> QED
    BY <1>2, <2>1, <2>2
<1>4. CASE InCache(s)
  <2>1. PICK e \in Matches(s) : e.output = Compiled(s)
    BY <1>4 DEF InCache
  <2>2. e \in entries /\ e.src = s /\ e.dependency = Compiled(s)
    BY <2>1 DEF Matches, WorkflowInv, EntriesTell
  <2>3. PICK f \in Published(ss) : f.src = e.src /\ f.dependency = e.dependency
    BY <2>2 DEF Published
  <2> QED
    BY <1>2, <2>2, <2>3
<1> QED
  BY <1>3, <1>4

\* Looking up a source: a hit is in the cache.
LEMMA LookupCaches ==
    ASSUME CacheInv, WorkflowInv', NEW s \in Source,
           Retrieve(s) \/ Miss(s) \/ RetrieveFails(s)
    PROVE  CacheInv'
<1>1. /\ phase = "lookup"
      /\ UNCHANGED <<content, misjudged, entries, phase, batch, Output, State, CompileSuccess>>
  BY DEF Retrieve, Miss, RetrieveFails, files, bounds
<1>2. Covered' /\ Flags'
  BY <1>1 DEF CacheInv, WorkflowInv, Phases, Covered, Flags
<1>3. \A t \in Source : InCache(t) => InCache(t)'
  BY <1>1, StaysInCache
<1>4. Output = {} /\ lost \in Nat /\ ArtifactsHits \subseteq Source
  BY <1>1 DEF CacheInv, WorkflowInv, TypeInv, TypeOK, Phases
<1>5. Kept'
  <2>1. CASE Retrieve(s)
    <3>1. s \notin misjudged => InCache(s)
      BY <2>1, MatchIsRight DEF Retrieve, InCache, CacheInv, WorkflowInv, TypeInv
    <3>2. ArtifactsHits' \subseteq ArtifactsHits \cup {s} /\ (lost' = 0 => lost = 0)
      BY <1>4, <2>1 DEF Retrieve
    <3> QED
      BY <1>1, <1>3, <1>4, <3>1, <3>2 DEF CacheInv, Kept
  <2>2. CASE Miss(s) \/ RetrieveFails(s)
    <3>1. ArtifactsHits' = ArtifactsHits /\ (lost' = 0 => lost = 0)
      BY <1>4, <2>2 DEF Miss, RetrieveFails, bounds
    <3> QED
      BY <1>1, <1>3, <1>4, <3>1 DEF CacheInv, Kept
  <2> QED
    BY <2>1, <2>2
<1> QED
  BY <1>2, <1>5 DEF CacheInv

\* A CL task has outputs for all that are not hits.
LEMMA TaskCaches ==
    ASSUME CacheInv, WorkflowInv', Execute \/ ExecuteFails
    PROVE  CacheInv'
<1>1. /\ phase = "cl" /\ batch <= Len(Batches)
      /\ UNCHANGED <<content, entries, ArtifactsHits, lost>>
      /\ misjudged \subseteq misjudged'
  BY DEF Execute, ExecuteFails, Compile, bounds
<1>2. \A t \in Source : InCache(t) => InCache(t)'
  BY <1>1, StaysInCache
<1>3. "ClCachePostInvoked" \notin State'
  BY <1>1 DEF Execute, ExecuteFails, CacheInv, Flags
<1>4. Kept'
  BY <1>1, <1>2, <1>3 DEF CacheInv, WorkflowInv, TypeInv, TypeOK, Kept
<1>5. batch \in 1..Len(Batches)
  BY <1>1, BatchType DEF CacheInv, WorkflowInv, TypeInv
<1>6. CASE Execute
  <2>1. Covered'
    BY <1>1, <1>5, <1>6 DEF Execute, newsource, CacheInv, Covered
  <2>2. Flags'
    BY <1>3, <1>6 DEF Execute, CacheInv, Flags
  <2> QED
    BY <1>4, <2>1, <2>2 DEF CacheInv
<1>7. CASE ExecuteFails
  BY <1>1, <1>4, <1>7 DEF ExecuteFails, CacheInv, Covered, Flags
<1> QED
  BY <1>6, <1>7

\* The post-invoke process collects all outputs, unless it is cut short.
LEMMA CollectCaches ==
    ASSUME CacheInv, WorkflowInv', Link \/ Complete
    PROVE  CacheInv'
<1>1. /\ phase \in {"cl", "built"} /\ phase' \in {"built", "complete"}
      /\ PostInvokeClcache
      /\ phase' = "complete" => Complete
      /\ UNCHANGED <<content, misjudged, batch, ArtifactsHits, Output, CompileSuccess>>
  BY DEF Link, Complete, files
<1>2. Covered'
  BY <1>1 DEF CacheInv, Covered
<1>3. lost \in Nat /\ ArtifactsHits \subseteq Source /\ Output \subseteq Source
  BY DEF CacheInv, WorkflowInv, TypeInv, TypeOK
<1>4. CASE ~Collects
  <2>1. UNCHANGED <<State, lost, entries>>
    BY <1>1, <1>4 DEF PostInvokeClcache
  <2>2. \A t \in Source : InCache(t) => InCache(t)'
    BY <1>1, <2>1, StaysInCache
  <2>3. Kept'
    BY <1>1, <1>3, <2>1, <2>2 DEF CacheInv, Kept
  <2>4. Output # {} /\ CompileSuccess => "ClCachePostInvoked" \in State
    BY <1>1, <1>4 DEF Collects, CacheInv, Flags
  <2>5. Flags'
    BY <1>1, <2>1, <2>4 DEF CacheInv, Flags
  <2> QED
    BY <1>2, <2>3, <2>5 DEF CacheInv
<1>5. CASE Collects
  <2>1. PICK ss \in SUBSET Output :
            /\ State' = State \cup {"ClCachePostInvoked"}
            /\ lost' = IF ss # Output THEN lost + 1 ELSE lost
            /\ entries' = Published(ss)
    BY <1>1, <1>5 DEF PostInvokeClcache
  <2>2. \A t \in Source \ misjudged : t \in ss \/ InCache(t) => InCache(t)'
    BY <1>1, <2>1, PublishKeeps DEF CacheInv
  <2>3. lost' = 0 => lost = 0 /\ ss = Output
    BY <1>3, <2>1
  <2>4. Kept'
    BY <1>1, <1>3, <2>2, <2>3 DEF CacheInv, Kept
  <2>5. Flags'
    BY <1>1, <2>1 DEF CacheInv, Flags
  <2> QED
    BY <1>2, <2>4, <2>5 DEF CacheInv
<1> QED
  BY <1>4, <1>5

\* The other steps.
LEMMA OtherCaches ==
    ASSUME CacheInv, WorkflowInv',
           BeginCompile \/ LookedUp \/ Abort \/ NoLink \/ Remove \/ Edit \/ Lose
    PROVE  CacheInv'
<1>1. CASE LookedUp \/ Abort \/ NoLink
  <2>1. /\ UNCHANGED <<content, misjudged, entries, batch, ArtifactsHits, Output, State,
                        CompileSuccess, lost>>
        /\ phase # "idle" /\ phase' \in {"cl", "built"}
        /\ phase' = "cl" => phase = "lookup"
    BY <1>1 DEF LookedUp, Abort, NoLink, files, bounds
  <2>2. \A t \in Source : InCache(t) => InCache(t)'
    BY <2>1, StaysInCache
  <2>3. Kept'
    BY <2>1, <2>2 DEF CacheInv, WorkflowInv, TypeInv, TypeOK, Kept
  <2>4. Covered' /\ Flags'
    BY <2>1 DEF CacheInv, Covered, Flags
  <2> QED
    BY <2>3, <2>4 DEF CacheInv
<1>2. CASE BeginCompile \/ Remove \/ Edit \/ Lose
  <2>1. /\ Output' = {} /\ ArtifactsHits' = {} /\ batch' = 1
        /\ phase' # "idle" => "ClCachePreInvoked" \in State'
        /\ "ClCachePostInvoked" \notin State'
        /\ phase' # "complete"
    BY <1>2 DEF BeginCompile, Remove, Edit, Lose, project, CacheInv, WorkflowInv, Phases, Flags
  <2> QED
    BY <2>1 DEF CacheInv, Covered, Kept, Flags
<1> QED
  BY <1>1, <1>2

LEMMA CacheStep == CacheInv /\ [Next]_vars => CacheInv'
<1> SUFFICES ASSUME CacheInv, [Next]_vars PROVE CacheInv'
  OBVIOUS
<1>1. WorkflowInv'
  BY WorkflowStep DEF CacheInv
<1>2. CASE UNCHANGED vars
  <2>1. \A t \in Source : InCache(t) => InCache(t)'
    BY <1>2, StaysInCache DEF vars, files
  <2>2. Kept'
    BY <1>2, <2>1 DEF vars, files, project, bounds, CacheInv, WorkflowInv, TypeInv, TypeOK, Kept
  <2> QED
    BY <1>1, <1>2, <2>2 DEF vars, project, CacheInv, Covered, Flags
<1> QED
  BY <1>1, <1>2, LookupCaches, TaskCaches, CollectCaches, OtherCaches DEF Next

\* A build that succeeds leaves its objects in the cache, in whatever CL task, with
\* or without a Link task, and whatever MSBuild has left out, with the same
\* exception.
THEOREM FinishedIsCached == Spec => []BuildIsCached
<1>1. Init => CacheInv
  BY InitWorkflow DEF Init, CacheInv, Covered, Kept, Flags
<1>2. CacheInv /\ [Next]_vars => CacheInv'
  BY CacheStep
<1>3. CacheInv => BuildIsCached
  <2> SUFFICES ASSUME CacheInv, Succeeded, lost = 0, NEW s \in Source \ misjudged
               PROVE  InCache(s)
    BY DEF BuildIsCached, InCache
  <2>1. PICK b \in 1..Len(Batches) : s \in Batches[b]
    BY WorkflowAssumption
  <2>2. s \in ArtifactsHits \cup Output
    BY <2>1, WorkflowAssumption
        DEF Succeeded, CacheInv, WorkflowInv, TypeInv, TypeOK, Covered
  <2>3. s \in Output => "ClCachePostInvoked" \in State
    BY DEF Succeeded, CacheInv, Flags
  <2> QED
    BY <2>2, <2>3 DEF CacheInv, Kept
<1> QED
  BY <1>1, <1>2, <1>3, PTL DEF Spec
=============================================================================
