---------------------------- MODULE WrapperProofs ----------------------------
(***************************************************************************)
(* The compiler wrapper.  Of DirectMode: type correctness, that a job      *)
(* leaves the object of the headers as they are, and that this object is   *)
(* then in the cache.  Of CommandLine: that the exit code tells how the    *)
(* jobs of a command line ended; that a command file that was written word *)
(* by word is read back as those words; and that the command of each job   *)
(* asks for the options of the whole command line and for its own source.  *)
(***************************************************************************)
EXTENDS DirectMode, CommandLine, FiniteSetTheorems, SequenceTheorems,
        WellFoundedInduction, TLAPS

LEMMA TypesAreKnown ==
    ASSUME NEW s \in Source, NEW c \in Contents
    PROVE  Includes(s, c) \in Known
<1> DEFINE H == {x \in Uses[s][c] : c[x] # None}
<1>1. H \in SUBSET Header
  BY DirectAssumption
<1>2. Includes(s, c) \in [H -> Version]
  BY <1>1 DEF Includes, Contents
<1> QED
  BY <1>1, <1>2 DEF Known

\* A manifest is a sequence again when an entry has been moved to its front
LEMMA TouchedIsSeq ==
    ASSUME NEW S, NEW m \in Seq(S), NEW i \in DOMAIN m
    PROVE  Touched(m, i) \in Seq(S)
<1>1. i \in 1..Len(m) /\ Len(m) \in Nat
  OBVIOUS
<1>2. SubSeq(m, 1, i - 1) \in Seq(S)
  BY <1>1
<1>3. SubSeq(m, i + 1, Len(m)) \in Seq(S)
  BY <1>1
<1>4. RemoveAt(m, i) \in Seq(S)
  BY <1>2, <1>3 DEF RemoveAt
<1>5. <<m[i]>> \in Seq(S)
  BY <1>1
<1> QED
  BY <1>4, <1>5 DEF Touched

LEMMA SeqOfSubset ==
    ASSUME NEW S, NEW T, S \subseteq T, NEW m \in Seq(S)
    PROVE  m \in Seq(T)
OBVIOUS
-----------------------------------------------------------------------------
\* The entries that the manifest of s may have: each tells the headers that its
\* object needs, and they were all there
SoundEntry(s) ==
    {e \in Entry :
        /\ e.objectHash = [direct |-> TRUE, source |-> s, includes |-> e.includes]
        /\ \E c \in Contents : Compiles(s, c) /\ e.includes = Includes(s, c)}

ManifestsSound == \A s \in Source : manifest[s] \in Seq(SoundEntry(s))

\* An object was compiled from the headers that its key names
StoreSound == \A k \in Key : store[k] \in {None, k.includes}

\* The key that a job has is that of the headers as they are
HasKey(j) == cachekey[j] = KeyOf(j)

JobInv(j) ==
    /\ object[j] = fresh[j]
    /\ pc[j] # "idle" => source[j] \in Source
    /\ pc[j] = "lookup" => direct[j] /\ ~hit[j]
    /\ pc[j] \in {"lookup", "preprocess", "find", "hit", "compile"} => object[j] = None
    /\ pc[j] \in {"find", "hit", "ensure", "added"} => HasKey(j)
    /\ pc[j] \in {"compile", "compiled"} /\ (hit[j] \/ ~direct[j]) => HasKey(j)
    /\ pc[j] = "hit" => store[cachekey[j]] # None /\ olock[cachekey[j]] = j
    /\ pc[j] \in {"compiled", "ensure", "added"} /\ object[j] # None =>
          object[j] = Now(j) /\ Compiles(source[j], content)
    /\ pc[j] = "added" => object[j] # None

JobsInv == \A j \in Job : JobInv(j)

DirectInv == TypeOK /\ ManifestsSound /\ StoreSound /\ JobsInv

-----------------------------------------------------------------------------
(* Types.                                                                  *)

JobTypes ==
    /\ pc \in [Job -> {"idle", "lookup", "preprocess", "find", "hit", "compile", "compiled",
                       "ensure", "added"}]
    /\ source \in [Job -> Source \cup {None}] /\ direct \in [Job -> BOOLEAN]
    /\ cachekey \in [Job -> Key \cup {None}] /\ hit \in [Job -> BOOLEAN]
    /\ object \in [Job -> Known \cup {None}] /\ fresh \in [Job -> Known \cup {None}]

LockTypes ==
    /\ mlock \in [Source -> Job \cup {None}] /\ olock \in [Key -> Job \cup {None}]

CacheTypes ==
    /\ content \in Contents
    /\ manifest \in [Source -> Seq(Entry)]
    /\ store \in [Key -> Known \cup {None}]

BoundTypes == runs \in 0..MaxRuns /\ edits \in 0..MaxEdits /\ faults \in 0..MaxFaults

LEMMA TypeParts == TypeOK <=> JobTypes /\ LockTypes /\ CacheTypes /\ BoundTypes
BY DEF TypeOK, JobTypes, LockTypes, CacheTypes, BoundTypes

LEMMA TypeParts2 == JobTypes' /\ LockTypes' /\ CacheTypes' /\ BoundTypes' => TypeOK'
BY DEF TypeOK, JobTypes, LockTypes, CacheTypes, BoundTypes

LEMMA KeyTyped ==
    ASSUME TypeOK, NEW j \in Job, source[j] \in Source
    PROVE  Now(j) \in Known /\ KeyOf(j) \in Key
<1>1. content \in Contents /\ direct[j] \in BOOLEAN
  BY DEF TypeOK
<1>2. Now(j) \in Known
  BY <1>1, TypesAreKnown DEF Now
<1> QED
  BY <1>1, <1>2 DEF KeyOf, Key

LEMMA LeaveTyped ==
    ASSUME NEW D, NEW lock \in [D -> Job \cup {None}], NEW j \in Job
    PROVE  [x \in DOMAIN lock |-> IF lock[x] = j THEN None ELSE lock[x]] \in [D -> Job \cup {None}]
OBVIOUS

LEMMA TypeInit == Init => DirectInv
<1> SUFFICES ASSUME Init PROVE DirectInv
  OBVIOUS
<1>1. TypeOK
  BY DirectAssumption DEF Init, TypeOK
<1>2. ManifestsSound /\ StoreSound /\ JobsInv
  BY DEF Init, ManifestsSound, StoreSound, JobsInv, JobInv
<1> QED
  BY <1>1, <1>2 DEF DirectInv

-----------------------------------------------------------------------------
(* Steps of a job.                                                         *)

\* A step of j leaves what belongs to i alone, and if i is about to retrieve an
\* object, the object and the mutex too
Spared(i) ==
    /\ pc'[i] = pc[i] /\ source'[i] = source[i] /\ direct'[i] = direct[i]
    /\ cachekey'[i] = cachekey[i] /\ hit'[i] = hit[i]
    /\ object'[i] = object[i] /\ fresh'[i] = fresh[i]
    /\ content' = content
    /\ pc[i] = "hit" => store'[cachekey[i]] # None /\ olock'[cachekey[i]] = i

LEMMA SparedKeeps ==
    ASSUME NEW i \in Job, JobInv(i), Spared(i)
    PROVE  JobInv(i)'
BY DEF JobInv, Spared, HasKey, KeyOf, Now

\* A job that is about to retrieve an object has the mutex of a key
LEMMA HitHasKey ==
    ASSUME DirectInv, NEW i \in Job, pc[i] = "hit"
    PROVE  cachekey[i] \in Key /\ store[cachekey[i]] # None /\ olock[cachekey[i]] = i
<1>1. JobInv(i) /\ source[i] \in Source /\ HasKey(i)
  BY DEF DirectInv, JobsInv, JobInv
<1> QED
  BY <1>1, KeyTyped DEF JobInv, HasKey, DirectInv

LEMMA StartKeeps ==
    ASSUME DirectInv, NEW j \in Job, Start(j)
    PROVE  DirectInv'
<1>1. PICK s \in Source, d \in BOOLEAN :
        /\ source' = [source EXCEPT ![j] = s]
        /\ direct' = [direct EXCEPT ![j] = d]
        /\ GoTo(j, IF d THEN "lookup" ELSE "preprocess")
  BY DEF Start
<1>2. TypeOK'
  <2>1. JobTypes'
    BY <1>1, TypeParts DEF Start, GoTo, DirectInv, JobTypes
  <2>2. BoundTypes'
    BY DirectAssumption, TypeParts DEF Start, DirectInv, BoundTypes
  <2> QED
    BY <2>1, <2>2, TypeParts, TypeParts2 DEF Start, DirectInv, LockTypes, CacheTypes, cache, locks
<1>3. ManifestsSound' /\ StoreSound'
  BY DEF Start, cache, DirectInv, ManifestsSound, StoreSound
<1>4. ASSUME NEW i \in Job PROVE JobInv(i)'
  <2>1. CASE i = j
    BY <1>1, <2>1 DEF Start, GoTo, JobInv, DirectInv, TypeOK
  <2>2. CASE i # j
    <3>1. Spared(i)
      BY <1>1, <2>2, HitHasKey DEF Start, GoTo, Spared, DirectInv, TypeOK, cache, locks
    <3> QED
      BY <3>1, SparedKeeps DEF DirectInv, JobsInv
  <2> QED
    BY <2>1, <2>2
<1> QED
  BY <1>2, <1>3, <1>4 DEF DirectInv, JobsInv

\* An entry that matches now tells what compiling would read
LEMMA MatchIsCurrent ==
    ASSUME DirectInv, NEW s \in Source, NEW i \in DOMAIN manifest[s],
           Matches(manifest[s][i])
    PROVE  /\ manifest[s][i].objectHash =
                [direct |-> TRUE, source |-> s, includes |-> Includes(s, content)]
           /\ Compiles(s, content)
<1> DEFINE e == manifest[s][i]
<1>1. e \in SoundEntry(s)
  BY DEF DirectInv, ManifestsSound
<1>2. PICK c \in Contents : Compiles(s, c) /\ e.includes = Includes(s, c)
  BY <1>1 DEF SoundEntry
<1>3. Uses[s][c] \subseteq Header /\ content \in Contents
  BY DirectAssumption DEF DirectInv, TypeOK
<1>4. \A h \in Uses[s][c] : h \in DOMAIN e.includes /\ e.includes[h] = c[h]
  BY <1>2 DEF Compiles, Includes
<1>5. \A h \in Uses[s][c] : content[h] = c[h] /\ content[h] # None
  BY <1>4 DEF Matches
<1>6. Uses[s][content] = Uses[s][c]
  BY <1>3, <1>5, DirectAssumption
<1>7. Compiles(s, content)
  BY <1>5, <1>6 DEF Compiles
<1>8. Includes(s, content) = Includes(s, c)
  BY <1>5, <1>6 DEF Includes
<1> QED
  BY <1>1, <1>2, <1>7, <1>8 DEF SoundEntry

LEMMA LookupKeeps ==
    ASSUME DirectInv, NEW j \in Job, Lookup(j)
    PROVE  DirectInv'
<1> DEFINE m == manifest[source[j]]
           found == {i \in DOMAIN m : Matches(m[i])}
<1>0. /\ source[j] \in Source /\ direct[j] /\ ~hit[j]
      /\ object[j] = fresh[j] /\ object[j] = None
  BY DEF Lookup, DirectInv, JobsInv, JobInv
<1>1. ASSUME NEW i \in Job, i # j, JobInv(i) PROVE JobInv(i)'
  <2>1. Spared(i)
    BY <1>1, HitHasKey DEF Lookup, GoTo, Spared, DirectInv, TypeOK
  <2> QED
    BY <1>1, <2>1, SparedKeeps
<1>2. CASE found = {}
  <2>1. /\ pc' = [pc EXCEPT ![j] = "compile"]
        /\ UNCHANGED <<content, store, olock, source, direct, object, fresh, counts,
                       manifest, mlock, cachekey, hit>>
    BY <1>2 DEF Lookup, GoTo
  <2>2. TypeOK'
    BY <2>1 DEF DirectInv, TypeOK, counts
  <2>3. ManifestsSound' /\ StoreSound'
    BY <2>1 DEF DirectInv, ManifestsSound, StoreSound
  <2>4. JobInv(j)'
    BY <1>0, <2>1 DEF JobInv, DirectInv, TypeOK
  <2> QED
    BY <1>1, <2>2, <2>3, <2>4 DEF DirectInv, JobsInv
<1>3. CASE found # {}
  <2>1. PICK i \in found :
          /\ manifest' = [manifest EXCEPT ![source[j]] = Touched(m, i)]
          /\ cachekey' = [cachekey EXCEPT ![j] = m[i].objectHash]
          /\ hit' = [hit EXCEPT ![j] = TRUE]
          /\ mlock' = [mlock EXCEPT ![source[j]] = j]
          /\ pc' = [pc EXCEPT ![j] = "find"]
    BY <1>3 DEF Lookup, GoTo, Take
  <2>2. UNCHANGED <<content, store, olock, source, direct, object, fresh, counts>>
    BY DEF Lookup
  <2>3. m \in Seq(SoundEntry(source[j]))
    BY <1>0 DEF DirectInv, ManifestsSound
  <2>4. Touched(m, i) \in Seq(SoundEntry(source[j]))
    BY <2>3, TouchedIsSeq
  <2>5. Touched(m, i) \in Seq(Entry)
    BY <1>0, TouchedIsSeq DEF DirectInv, TypeOK
  <2>6. m[i].objectHash = KeyOf(j)
    BY <1>0, MatchIsCurrent DEF KeyOf, Now
  <2>7. KeyOf(j) \in Key
    BY <1>0, KeyTyped DEF DirectInv
  <2>8. TypeOK'
    BY <1>0, <2>1, <2>2, <2>5, <2>6, <2>7 DEF DirectInv, TypeOK, counts
  <2>9. ManifestsSound'
    <3>1. manifest \in [Source -> Seq(Entry)]
      BY DEF DirectInv, TypeOK
    <3> QED
      BY <1>0, <2>1, <2>4, <3>1 DEF DirectInv, ManifestsSound
  <2>10. StoreSound'
    BY <2>2 DEF DirectInv, StoreSound
  <2>11. HasKey(j)'
    BY <2>1, <2>2, <2>6 DEF HasKey, KeyOf, Now, DirectInv, TypeOK
  <2>12. JobInv(j)'
    BY <1>0, <2>1, <2>2, <2>11 DEF JobInv, DirectInv, TypeOK
  <2> QED
    BY <1>1, <2>8, <2>9, <2>10, <2>12 DEF DirectInv, JobsInv
<1> QED
  BY <1>2, <1>3

LEMMA PreprocessKeeps ==
    ASSUME DirectInv, NEW j \in Job, Preprocess(j) \/ PreprocessFails(j)
    PROVE  DirectInv'
<1>1. source[j] \in Source /\ object[j] = fresh[j] /\ object[j] = None
  BY DEF Preprocess, PreprocessFails, DirectInv, JobsInv, JobInv
<1>2. KeyOf(j) \in Key
  BY <1>1, KeyTyped DEF DirectInv
<1>3. TypeOK'
  BY <1>2 DEF Preprocess, PreprocessFails, GoTo, DirectInv, TypeOK, cache, locks, counts, local
<1>4. ManifestsSound' /\ StoreSound'
  BY DEF Preprocess, PreprocessFails, cache, DirectInv, ManifestsSound, StoreSound
<1>5. ASSUME NEW i \in Job PROVE JobInv(i)'
  <2>1. CASE i = j
    <3>1. UNCHANGED <<content, store, olock, source, direct, hit, object, fresh>>
      BY DEF Preprocess, PreprocessFails, local, cache, locks
    <3>2. pc'[j] \in {"find", "idle"} /\ (pc'[j] = "find" => cachekey'[j] = KeyOf(j))
      BY DEF Preprocess, PreprocessFails, GoTo, DirectInv, TypeOK
    <3>3. KeyOf(j)' = KeyOf(j)
      BY <3>1 DEF KeyOf, Now
    <3> QED
      BY <1>1, <2>1, <3>1, <3>2, <3>3 DEF JobInv, HasKey
  <2>2. CASE i # j
    <3>1. Spared(i)
      BY <2>2, HitHasKey DEF Preprocess, PreprocessFails, GoTo, Spared, DirectInv, TypeOK,
                             cache, locks, local
    <3> QED
      BY <3>1, SparedKeeps DEF DirectInv, JobsInv
  <2> QED
    BY <2>1, <2>2
<1> QED
  BY <1>3, <1>4, <1>5 DEF DirectInv, JobsInv

\* hasEntry
LEMMA FindKeeps ==
    ASSUME DirectInv, NEW j \in Job, NotFound(j) \/ Found(j)
    PROVE  DirectInv'
<1>1. source[j] \in Source /\ object[j] = fresh[j] /\ object[j] = None /\ HasKey(j)
  BY DEF NotFound, Found, DirectInv, JobsInv, JobInv
<1>2. cachekey[j] \in Key
  BY <1>1, KeyTyped DEF DirectInv, HasKey
<1>3. TypeOK'
  <2>1. LockTypes'
    BY <1>1, <1>2, TypeParts DEF NotFound, Found, Take, Leave, DirectInv, LockTypes
  <2>2. JobTypes'
    BY TypeParts DEF NotFound, Found, GoTo, DirectInv, JobTypes, local
  <2> QED
    BY <2>1, <2>2, TypeParts, TypeParts2 DEF NotFound, Found, DirectInv, CacheTypes, BoundTypes, cache,
                                 counts
<1>4. ManifestsSound' /\ StoreSound'
  BY DEF NotFound, Found, cache, DirectInv, ManifestsSound, StoreSound
<1>5. ASSUME NEW i \in Job PROVE JobInv(i)'
  <2>1. CASE i = j
    <3>1. HasKey(j)'
      BY <1>1 DEF NotFound, Found, HasKey, KeyOf, Now, local
    <3> QED
      BY <1>1, <1>2, <2>1, <3>1 DEF NotFound, Found, GoTo, Take, JobInv, DirectInv, TypeOK,
                                    local, cache
  <2>2. CASE i # j
    <3>1. pc[i] = "hit" => store'[cachekey[i]] # None /\ olock'[cachekey[i]] = i
      <4>1. olock \in [Key -> Job \cup {None}] /\ i # None
        BY DirectAssumption DEF DirectInv, TypeOK
      <4> QED
        BY <1>2, <2>2, <4>1, HitHasKey DEF NotFound, Found, Take, cache
    <3>2. Spared(i)
      BY <2>2, <3>1 DEF NotFound, Found, GoTo, Spared, DirectInv, TypeOK, local
    <3> QED
      BY <3>2, SparedKeeps DEF DirectInv, JobsInv
  <2> QED
    BY <2>1, <2>2
<1> QED
  BY <1>3, <1>4, <1>5 DEF DirectInv, JobsInv

\* The object is the one that compiling would give
LEMMA HitKeeps ==
    ASSUME DirectInv, NEW j \in Job, ProcessCacheHit(j)
    PROVE  DirectInv'
<1>1. source[j] \in Source /\ HasKey(j) /\ cachekey[j] \in Key
  BY HitHasKey DEF ProcessCacheHit, DirectInv, JobsInv, JobInv
<1>2. store[cachekey[j]] = Now(j) /\ Now(j) \in Known
  <2>1. store[cachekey[j]] # None
    BY HitHasKey DEF ProcessCacheHit
  <2> QED
    BY <1>1, <2>1, KeyTyped DEF DirectInv, StoreSound, HasKey, KeyOf
<1>3. TypeOK'
  <2>1. LockTypes'
    BY TypeParts DEF ProcessCacheHit, Leave, DirectInv, LockTypes
  <2>2. JobTypes'
    BY <1>2, TypeParts DEF ProcessCacheHit, GoTo, DirectInv, JobTypes
  <2> QED
    BY <2>1, <2>2, TypeParts, TypeParts2 DEF ProcessCacheHit, DirectInv, CacheTypes, BoundTypes, cache,
                                 counts
<1>4. ManifestsSound' /\ StoreSound'
  BY DEF ProcessCacheHit, cache, DirectInv, ManifestsSound, StoreSound
<1>5. ASSUME NEW i \in Job PROVE JobInv(i)'
  <2>1. CASE i = j
    BY <1>2, <2>1 DEF ProcessCacheHit, GoTo, JobInv, DirectInv, TypeOK
  <2>2. CASE i # j
    <3>1. Spared(i)
      BY <2>2, HitHasKey DEF ProcessCacheHit, GoTo, Leave, Spared, DirectInv, TypeOK, cache
    <3> QED
      BY <3>1, SparedKeeps DEF DirectInv, JobsInv
  <2> QED
    BY <2>1, <2>2
<1> QED
  BY <1>3, <1>4, <1>5 DEF DirectInv, JobsInv

LEMMA CompileKeeps ==
    ASSUME DirectInv, NEW j \in Job, Compile(j) \/ CompileFails(j)
    PROVE  DirectInv'
<1>1. source[j] \in Source /\ Now(j) \in Known
  BY KeyTyped DEF Compile, CompileFails, DirectInv, JobsInv, JobInv
<1>2. TypeOK'
  <2>1. JobTypes'
    BY <1>1, TypeParts DEF Compile, CompileFails, GoTo, DirectInv, JobTypes, local
  <2>2. BoundTypes'
    BY DirectAssumption, TypeParts DEF Compile, CompileFails, Fails, DirectInv, BoundTypes,
                                       counts
  <2> QED
    BY <2>1, <2>2, TypeParts, TypeParts2 DEF Compile, CompileFails, DirectInv, LockTypes, CacheTypes,
                                 cache, locks
<1>3. ManifestsSound' /\ StoreSound'
  BY DEF Compile, CompileFails, cache, DirectInv, ManifestsSound, StoreSound
<1>4. ASSUME NEW i \in Job PROVE JobInv(i)'
  <2>1. CASE i = j /\ Compile(j)
    BY <1>1, <2>1 DEF Compile, GoTo, JobInv, JobsInv, HasKey, KeyOf, Now, DirectInv, TypeOK
  <2>2. CASE i = j /\ CompileFails(j)
    BY <1>1, <2>2 DEF CompileFails, GoTo, JobInv, JobsInv, HasKey, KeyOf, Now, DirectInv,
                      TypeOK, local
  <2>3. CASE i # j
    <3>1. Spared(i)
      BY <2>3, HitHasKey DEF Compile, CompileFails, GoTo, Spared, DirectInv, TypeOK, cache,
                             locks, local
    <3> QED
      BY <3>1, SparedKeeps DEF DirectInv, JobsInv
  <2> QED
    BY <2>1, <2>2, <2>3
<1> QED
  BY <1>2, <1>3, <1>4 DEF DirectInv, JobsInv

LEMMA CreateKeeps ==
    ASSUME DirectInv, NEW j \in Job, CreateEntry(j)
    PROVE  DirectInv'
<1>1. JobInv(j) /\ source[j] \in Source /\ KeyOf(j) \in Key
  BY KeyTyped DEF CreateEntry, DirectInv, JobsInv, JobInv
<1>2. TypeOK'
  <2>1. JobTypes'
    BY <1>1, TypeParts DEF CreateEntry, GoTo, DirectInv, JobTypes
  <2>2. LockTypes'
    BY <1>1, TypeParts DEF CreateEntry, Take, DirectInv, LockTypes
  <2> QED
    BY <2>1, <2>2, TypeParts, TypeParts2 DEF CreateEntry, DirectInv, CacheTypes, BoundTypes,
                                            cache, counts
<1>3. ManifestsSound' /\ StoreSound'
  BY DEF CreateEntry, cache, DirectInv, ManifestsSound, StoreSound
<1>4. ASSUME NEW i \in Job PROVE JobInv(i)'
  <2>1. CASE i = j
    <3>1. HasKey(j)'
      BY <1>1 DEF CreateEntry, JobInv, HasKey, KeyOf, Now, DirectInv, TypeOK
    <3> QED
      BY <1>1, <2>1, <3>1 DEF CreateEntry, GoTo, JobInv, Now, DirectInv, TypeOK
  <2>2. CASE i # j
    <3>1. Spared(i)
      BY <2>2, HitHasKey DEF CreateEntry, GoTo, Spared, DirectInv, TypeOK, cache
    <3> QED
      BY <3>1, SparedKeeps DEF DirectInv, JobsInv
  <2> QED
    BY <2>1, <2>2
<1> QED
  BY <1>2, <1>3, <1>4 DEF DirectInv, JobsInv

LEMMA ExistsKeeps ==
    ASSUME DirectInv, NEW j \in Job, Exists(j)
    PROVE  DirectInv'
<1>1. TypeOK'
  <2>1. JobTypes'
    BY TypeParts DEF Exists, GoTo, DirectInv, JobTypes, local
  <2>2. LockTypes'
    BY TypeParts DEF Exists, Leave, DirectInv, LockTypes
  <2> QED
    BY <2>1, <2>2, TypeParts, TypeParts2 DEF Exists, DirectInv, CacheTypes, BoundTypes, cache,
                                            counts
<1>2. ManifestsSound' /\ StoreSound'
  BY DEF Exists, cache, DirectInv, ManifestsSound, StoreSound
<1>3. ASSUME NEW i \in Job PROVE JobInv(i)'
  <2>1. CASE i = j
    BY <2>1 DEF Exists, GoTo, JobInv, JobsInv, DirectInv, TypeOK, local
  <2>2. CASE i # j
    <3>1. Spared(i)
      BY <2>2, HitHasKey DEF Exists, GoTo, Spared, DirectInv, TypeOK, cache, local
    <3> QED
      BY <3>1, SparedKeeps DEF DirectInv, JobsInv
  <2> QED
    BY <2>1, <2>2
<1> QED
  BY <1>1, <1>2, <1>3 DEF DirectInv, JobsInv

LEMMA AddObjectKeeps ==
    ASSUME DirectInv, NEW j \in Job, AddObject(j)
    PROVE  DirectInv'
<1>1. JobInv(j) /\ source[j] \in Source /\ HasKey(j)
  BY DEF AddObject, DirectInv, JobsInv, JobInv
<1>2. cachekey[j] \in Key /\ object[j] = Now(j) /\ object[j] = cachekey[j].includes
  BY <1>1, KeyTyped DEF AddObject, JobInv, HasKey, KeyOf, DirectInv
<1>3. Now(j) \in Known
  BY <1>1, KeyTyped DEF DirectInv
<1>4. TypeOK'
  <2>1. JobTypes'
    BY TypeParts DEF AddObject, GoTo, DirectInv, JobTypes, local
  <2>2. LockTypes'
    BY <1>2, TypeParts DEF AddObject, Take, DirectInv, LockTypes
  <2>3. CacheTypes'
    BY <1>2, <1>3, TypeParts DEF AddObject, DirectInv, CacheTypes
  <2> QED
    BY <2>1, <2>2, <2>3, TypeParts, TypeParts2 DEF AddObject, DirectInv, BoundTypes, counts
<1>5. StoreSound'
  BY <1>2 DEF AddObject, DirectInv, StoreSound, TypeOK
<1>6. ManifestsSound'
  BY DEF AddObject, DirectInv, ManifestsSound
<1>7. ASSUME NEW i \in Job PROVE JobInv(i)'
  <2>1. CASE i = j
    BY <1>1, <2>1 DEF AddObject, GoTo, JobInv, HasKey, KeyOf, Now, DirectInv, TypeOK, local
  <2>2. CASE i # j
    <3>1. pc[i] = "hit" => store'[cachekey[i]] # None /\ olock'[cachekey[i]] = i
      <4>1. olock \in [Key -> Job \cup {None}] /\ store \in [Key -> Known \cup {None}]
        BY DEF DirectInv, TypeOK
      <4>2. i # None /\ None \notin Known
        BY DirectAssumption
      <4> QED
        BY <1>2, <2>2, <4>1, <4>2, HitHasKey DEF AddObject, Take
    <3>2. Spared(i)
      BY <2>2, <3>1 DEF AddObject, GoTo, Spared, DirectInv, TypeOK, local
    <3> QED
      BY <3>2, SparedKeeps DEF DirectInv, JobsInv
  <2> QED
    BY <2>1, <2>2
<1> QED
  BY <1>4, <1>5, <1>6, <1>7 DEF DirectInv, JobsInv

LEMMA AddManifestKeeps ==
    ASSUME DirectInv, NEW j \in Job, AddManifest(j)
    PROVE  DirectInv'
<1> DEFINE s == source[j]
<1>1. JobInv(j) /\ s \in Source /\ HasKey(j) /\ Compiles(s, content)
  BY DEF AddManifest, DirectInv, JobsInv, JobInv
<1>2. AddedEntries(j) \in Seq(SoundEntry(s))
  <2>1. CASE direct[j] /\ ~hit[j]
    <3> DEFINE e == [includes |-> cachekey[j].includes, objectHash |-> cachekey[j]]
    <3>1. cachekey[j] = [direct |-> TRUE, source |-> s, includes |-> Includes(s, content)]
      BY <1>1, <2>1 DEF HasKey, KeyOf, Now
    <3>2. e \in Entry
      BY <1>1, KeyTyped DEF HasKey, KeyOf, Entry, DirectInv
    <3>3. e.objectHash = cachekey[j] /\ e.includes = Includes(s, content)
      BY <3>1
    <3>4. content \in Contents
      BY DEF DirectInv, TypeOK
    <3>5. e \in SoundEntry(s)
      BY <1>1, <3>1, <3>2, <3>3, <3>4 DEF SoundEntry
    <3> QED
      BY <2>1, <3>5 DEF AddedEntries
  <2>2. CASE ~(direct[j] /\ ~hit[j])
    <3>1. AddedEntries(j) = << >>
      BY <2>2 DEF AddedEntries
    <3>2. << >> \in Seq(SoundEntry(s))
      OBVIOUS
    <3> QED
      BY <3>1, <3>2
  <2> QED
    BY <2>1, <2>2
<1>3. manifest' = [manifest EXCEPT ![s] = AddedEntries(j) \o @]
  BY DEF AddManifest
<1>4. manifest \in [Source -> Seq(Entry)]
  BY DEF DirectInv, TypeOK
<1>5. AddedEntries(j) \o manifest[s] \in Seq(SoundEntry(s))
  BY <1>1, <1>2 DEF DirectInv, ManifestsSound
<1>6. ManifestsSound'
  BY <1>1, <1>3, <1>4, <1>5 DEF DirectInv, ManifestsSound
<1>7. TypeOK'
  <2>1. JobTypes'
    BY TypeParts DEF AddManifest, GoTo, DirectInv, JobTypes, local
  <2>2. LockTypes'
    BY TypeParts DEF AddManifest, Leave, DirectInv, LockTypes
  <2>3. AddedEntries(j) \o manifest[s] \in Seq(Entry)
    BY <1>5, SeqOfSubset DEF SoundEntry
  <2>4. CacheTypes'
    BY <1>1, <1>3, <1>4, <2>3, TypeParts DEF AddManifest, DirectInv, CacheTypes
  <2> QED
    BY <2>1, <2>2, <2>4, TypeParts, TypeParts2 DEF AddManifest, DirectInv, BoundTypes, counts
<1>8. StoreSound'
  BY DEF AddManifest, DirectInv, StoreSound
<1>9. ASSUME NEW i \in Job PROVE JobInv(i)'
  <2>1. CASE i = j
    BY <1>1, <2>1 DEF AddManifest, GoTo, JobInv, DirectInv, TypeOK, local
  <2>2. CASE i # j
    <3>1. Spared(i)
      BY <2>2, HitHasKey DEF AddManifest, GoTo, Leave, Spared, DirectInv, TypeOK, local
    <3> QED
      BY <3>1, SparedKeeps DEF DirectInv, JobsInv
  <2> QED
    BY <2>1, <2>2
<1> QED
  BY <1>6, <1>7, <1>8, <1>9 DEF DirectInv, JobsInv

-----------------------------------------------------------------------------
(* What goes on around the jobs.                                           *)

LEMMA CrashKeeps ==
    ASSUME DirectInv, NEW j \in Job, Crash(j)
    PROVE  DirectInv'
<1>1. TypeOK'
  <2>1. JobTypes'
    BY TypeParts DEF Crash, GoTo, DirectInv, JobTypes
  <2>2. LockTypes'
    BY TypeParts DEF Crash, Leave, DirectInv, LockTypes
  <2>3. BoundTypes'
    BY DirectAssumption, TypeParts DEF Crash, Fails, DirectInv, BoundTypes
  <2> QED
    BY <2>1, <2>2, <2>3, TypeParts, TypeParts2 DEF Crash, DirectInv, CacheTypes, cache
<1>2. ManifestsSound' /\ StoreSound'
  BY DEF Crash, cache, DirectInv, ManifestsSound, StoreSound
<1>3. ASSUME NEW i \in Job PROVE JobInv(i)'
  <2>1. CASE i = j
    BY <2>1 DEF Crash, GoTo, JobInv, DirectInv, TypeOK
  <2>2. CASE i # j
    <3>1. Spared(i)
      BY <2>2, HitHasKey DEF Crash, GoTo, Leave, Spared, DirectInv, TypeOK, cache
    <3> QED
      BY <3>1, SparedKeeps DEF DirectInv, JobsInv
  <2> QED
    BY <2>1, <2>2
<1> QED
  BY <1>1, <1>2, <1>3 DEF DirectInv, JobsInv

LEMMA ClearKeeps == DirectInv /\ Clear => DirectInv'
<1> SUFFICES ASSUME DirectInv, Clear PROVE DirectInv'
  OBVIOUS
<1>1. PICK S \in SUBSET Source :
        manifest' = [s \in Source |-> IF s \in S THEN << >> ELSE manifest[s]]
  BY DEF Clear
<1>2. PICK K \in SUBSET Key : store' = [k \in Key |-> IF k \in K THEN None ELSE store[k]]
  BY DEF Clear
<1>3. UNCHANGED <<content, locks, pc, local, runs, edits>>
  BY DEF Clear
<1>4. TypeOK'
  <2>1. CacheTypes'
    BY <1>1, <1>2, <1>3, TypeParts DEF DirectInv, CacheTypes
  <2>2. BoundTypes'
    BY DirectAssumption, TypeParts DEF Clear, Fails, DirectInv, BoundTypes
  <2> QED
    BY <1>3, <2>1, <2>2, TypeParts, TypeParts2 DEF DirectInv, JobTypes, LockTypes, locks, local
<1>5. ManifestsSound'
  BY <1>1 DEF DirectInv, ManifestsSound
<1>6. StoreSound'
  BY <1>2 DEF DirectInv, StoreSound
<1>7. ASSUME NEW i \in Job PROVE JobInv(i)'
  <2>1. pc[i] # "hit"
    BY HitHasKey, DirectAssumption DEF Clear
  <2>2. Spared(i)
    BY <1>3, <2>1 DEF Spared, local
  <2> QED
    BY <2>2, SparedKeeps DEF DirectInv, JobsInv
<1> QED
  BY <1>4, <1>5, <1>6, <1>7 DEF DirectInv, JobsInv

LEMMA EditKeeps == DirectInv /\ Edit => DirectInv'
<1> SUFFICES ASSUME DirectInv, Edit PROVE DirectInv'
  OBVIOUS
<1>1. TypeOK'
  <2>1. CacheTypes'
    BY TypeParts DEF Edit, DirectInv, CacheTypes, cache
  <2>2. BoundTypes'
    BY DirectAssumption, TypeParts DEF Edit, DirectInv, BoundTypes
  <2> QED
    BY <2>1, <2>2, TypeParts, TypeParts2 DEF Edit, DirectInv, JobTypes, LockTypes, locks, local
<1>2. ManifestsSound' /\ StoreSound'
  BY DEF Edit, cache, DirectInv, ManifestsSound, StoreSound
<1>3. ASSUME NEW i \in Job PROVE JobInv(i)'
  BY DEF Edit, JobInv, JobsInv, DirectInv, local
<1> QED
  BY <1>1, <1>2, <1>3 DEF DirectInv, JobsInv

LEMMA StutterKeeps == DirectInv /\ UNCHANGED vars => DirectInv'
<1> SUFFICES ASSUME DirectInv, UNCHANGED vars PROVE DirectInv'
  OBVIOUS
<1>1. TypeOK'
  BY DEF DirectInv, TypeOK, vars, cache, locks, local, counts
<1>2. ManifestsSound' /\ StoreSound'
  BY DEF DirectInv, ManifestsSound, StoreSound, vars, cache
<1>3. JobsInv'
  BY DEF DirectInv, JobsInv, JobInv, HasKey, KeyOf, Now, vars, cache, locks, local
<1> QED
  BY <1>1, <1>2, <1>3 DEF DirectInv

LEMMA DirectStep == DirectInv /\ [Next]_vars => DirectInv'
<1> SUFFICES ASSUME DirectInv, [Next]_vars PROVE DirectInv'
  OBVIOUS
<1>1. ASSUME NEW j \in Job,
             \/ Start(j) \/ Lookup(j) \/ Preprocess(j) \/ PreprocessFails(j)
             \/ NotFound(j) \/ Found(j) \/ ProcessCacheHit(j)
      PROVE  DirectInv'
  BY <1>1, StartKeeps, LookupKeeps, PreprocessKeeps, FindKeeps, HitKeeps
<1>2. ASSUME NEW j \in Job,
             \/ Compile(j) \/ CompileFails(j) \/ CreateEntry(j)
             \/ Exists(j) \/ AddObject(j) \/ AddManifest(j) \/ Crash(j)
      PROVE  DirectInv'
  BY <1>2, CompileKeeps, CreateKeeps, ExistsKeeps, AddObjectKeeps, AddManifestKeeps, CrashKeeps
<1> QED
  BY <1>1, <1>2, ClearKeeps, EditKeeps, StutterKeeps DEF Next

LEMMA AlwaysDirectInv == Spec => []DirectInv
BY TypeInit, DirectStep, PTL DEF Spec

\* The variables have their types, for any jobs, sources and headers.
THEOREM Typed == Spec => []TypeOK
<1>1. DirectInv => TypeOK
  BY DEF DirectInv
<1> QED
  BY <1>1, AlwaysDirectInv, PTL

\* Whatever jobs run at once, end early or lose what was stored, and however often
\* headers change between them, a job leaves the object that compiling its source
\* would give.
THEOREM AlwaysRight == Spec => []ResultsAreRight
<1>1. DirectInv => ResultsAreRight
  BY DEF DirectInv, JobsInv, JobInv, ResultsAreRight
<1> QED
  BY <1>1, AlwaysDirectInv, PTL

-----------------------------------------------------------------------------
(* What is cached.  While nothing fails, the entries of a manifest and the *)
(* objects of its source are the same, but for the object of the job that  *)
(* is about to add its entry and holds the mutex of the manifest.          *)

Keys(m) == {m[i].objectHash : i \in DOMAIN m}

Once(m) == \A i, x \in DOMAIN m : m[i].objectHash = m[x].objectHash => i = x

\* The key of the object that a job that has ended has left
LeftKey(j) == [direct |-> direct[j], source |-> source[j], includes |-> object[j]]

ManifestsCached ==
    \A s \in Source : Once(manifest[s]) /\ \A k \in Keys(manifest[s]) : store[k] # None

ObjectsListed ==
    \A k \in Key : k.direct /\ store[k] # None =>
        k \in Keys(manifest[k.source]) \/ \E j \in Job : pc[j] = "added" /\ cachekey[j] = k

JobCached(j) ==
    /\ direct[j] =>
        /\ pc[j] # "preprocess"
        /\ pc[j] \in {"find", "hit"} => cachekey[j] \in Keys(manifest[source[j]])
        /\ pc[j] \in {"compile", "compiled", "ensure", "added"} => ~hit[j]
        /\ pc[j] \in {"ensure", "added"} => mlock[source[j]] = j
        /\ pc[j] = "added" => cachekey[j] \notin Keys(manifest[source[j]])
    /\ pc[j] = "added" => store[cachekey[j]] # None
    /\ pc[j] = "idle" /\ object[j] # None =>
        /\ source[j] \in Source
        /\ store[LeftKey(j)] # None
        /\ direct[j] => LeftKey(j) \in Keys(manifest[source[j]])

CacheInv == ManifestsCached /\ ObjectsListed /\ \A j \in Job : JobCached(j)

CachedInv == DirectInv /\ (faults = 0 => CacheInv)

\* What follows the first of two lists that are joined
LEMMA SecondPart ==
    ASSUME NEW a \in Seq(Entry), NEW b \in Seq(Entry), NEW x \in 1..(Len(a) + Len(b)),
           x > Len(a)
    PROVE  (a \o b)[x] = b[x - Len(a)]
OBVIOUS

\* Moving an entry to the front of a manifest neither adds nor removes one.
LEMMA TouchedKeys ==
    ASSUME NEW m \in Seq(Entry), NEW i \in DOMAIN m
    PROVE  /\ Keys(Touched(m, i)) = Keys(m)
           /\ Once(m) => Once(Touched(m, i))
<1> DEFINE t == Touched(m, i)
           from(x) == IF x = 1 THEN i ELSE IF x <= i THEN x - 1 ELSE x
           to(y) == IF y = i THEN 1 ELSE IF y < i THEN y + 1 ELSE y
<1>1. i \in 1..Len(m) /\ Len(m) \in Nat
  OBVIOUS
<1>2. /\ Len(RemoveAt(m, i)) = Len(m) - 1
      /\ \A x \in 1..(Len(m) - 1) : RemoveAt(m, i)[x] = IF x < i THEN m[x] ELSE m[x + 1]
  <2>1. SubSeq(m, 1, i - 1) \in Seq(Entry) /\ SubSeq(m, i + 1, Len(m)) \in Seq(Entry)
    BY <1>1
  <2>2. Len(SubSeq(m, 1, i - 1)) = i - 1 /\ Len(SubSeq(m, i + 1, Len(m))) = Len(m) - i
    BY <1>1
  <2>3. \A x \in 1..(i - 1) : SubSeq(m, 1, i - 1)[x] = m[x]
    BY <1>1
  <2>4. \A x \in 1..(Len(m) - i) : SubSeq(m, i + 1, Len(m))[x] = m[i + x]
    BY <1>1
  <2> DEFINE front == SubSeq(m, 1, i - 1)
             back == SubSeq(m, i + 1, Len(m))
  <2>0. RemoveAt(m, i) = front \o back
    BY DEF RemoveAt
  <2>5. Len(RemoveAt(m, i)) = Len(m) - 1
    <3>1. front \in Seq(Entry) /\ back \in Seq(Entry)
      BY <2>1
    <3>2. Len(front) = i - 1 /\ Len(back) = Len(m) - i
      BY <2>2
    <3> HIDE DEF front, back
    <3>3. Len(front \o back) = Len(front) + Len(back)
      BY <3>1
    <3> QED BY <1>1, <2>0, <3>2, <3>3
  <2>6. ASSUME NEW x \in 1..(Len(m) - 1), x < i PROVE RemoveAt(m, i)[x] = m[x]
    BY <1>1, <2>1, <2>2, <2>3, <2>6 DEF RemoveAt
  <2>7. ASSUME NEW x \in 1..(Len(m) - 1), ~(x < i) PROVE RemoveAt(m, i)[x] = m[x + 1]
    <3>1. x - (i - 1) \in 1..(Len(m) - i) /\ i + (x - (i - 1)) = x + 1
      BY <1>1, <2>7
    <3>2. x \in 1..((i - 1) + (Len(m) - i)) /\ x > i - 1
      BY <1>1, <2>7
    <3>3. RemoveAt(m, i)[x] = back[x - (i - 1)]
      <4>1. front \in Seq(Entry) /\ back \in Seq(Entry)
        BY <2>1
      <4>2. Len(front) = i - 1 /\ Len(back) = Len(m) - i
        BY <2>2
      <4> HIDE DEF front, back
      <4>3. (front \o back)[x] = back[x - Len(front)]
        BY <3>2, <4>1, <4>2, SecondPart
      <4> QED BY <2>0, <4>2, <4>3
    <3> QED BY <2>4, <3>1, <3>3
  <2> QED BY <2>5, <2>6, <2>7
<1>3. RemoveAt(m, i) \in Seq(Entry)
  BY <1>1 DEF RemoveAt
<1>4. DOMAIN t = 1..Len(m) /\ \A x \in 1..Len(m) : t[x] = m[from(x)]
  <2>1. <<m[i]>> \in Seq(Entry) /\ Len(<<m[i]>>) = 1 /\ <<m[i]>>[1] = m[i]
    BY <1>1
  <2>2. t \in Seq(Entry) /\ Len(t) = Len(m)
    BY <1>1, <1>2, <1>3, <2>1 DEF Touched
  <2>3. ASSUME NEW x \in 1..Len(m), x = 1 PROVE t[x] = m[i]
    BY <1>1, <1>2, <1>3, <2>1, <2>3 DEF Touched
  <2>4. ASSUME NEW x \in 1..Len(m), x # 1 PROVE t[x] = RemoveAt(m, i)[x - 1]
    BY <1>1, <1>2, <1>3, <2>1, <2>4 DEF Touched
  <2>5. ASSUME NEW x \in 1..Len(m), x # 1 PROVE t[x] = m[from(x)]
    BY <1>1, <1>2, <2>4, <2>5
  <2> QED BY <2>2, <2>3, <2>5
<1>5. \A x \in 1..Len(m) : from(x) \in 1..Len(m)
  BY <1>1
<1>6. \A y \in 1..Len(m) : to(y) \in 1..Len(m) /\ from(to(y)) = y
  BY <1>1
<1>7. \A x \in 1..Len(m), y \in 1..Len(m) : from(x) = from(y) => x = y
  BY <1>1
<1>8. DOMAIN m = 1..Len(m)
  OBVIOUS
<1> HIDE DEF t, from, to
<1>9. Keys(t) = Keys(m)
  <2>1. ASSUME NEW x \in DOMAIN t PROVE \E y \in DOMAIN m : t[x] = m[y]
    BY <1>4, <1>5, <1>8, <2>1
  <2>2. ASSUME NEW y \in DOMAIN m PROVE \E x \in DOMAIN t : t[x] = m[y]
    <3>1. to(y) \in DOMAIN t /\ t[to(y)] = m[y]
      BY <1>4, <1>6, <1>8, <2>2
    <3> QED BY <3>1
  <2> QED BY <2>1, <2>2 DEF Keys
<1>10. Once(m) => Once(t)
  BY <1>4, <1>5, <1>7, <1>8 DEF Once
<1> QED
  BY <1>9, <1>10 DEF t

\* Adding an entry adds its key.
LEMMA AddedKeys ==
    ASSUME NEW m \in Seq(Entry), NEW e \in Entry
    PROVE  /\ Keys(<<e>> \o m) = Keys(m) \cup {e.objectHash}
           /\ Once(m) /\ e.objectHash \notin Keys(m) => Once(<<e>> \o m)
<1> DEFINE t == <<e>> \o m
<1>1. <<e>> \in Seq(Entry) /\ Len(<<e>>) = 1 /\ <<e>>[1] = e
  OBVIOUS
<1>2. Len(m) \in Nat /\ DOMAIN m = 1..Len(m)
  OBVIOUS
<1>3. DOMAIN t = 1..(Len(m) + 1) /\ t[1] = e
  BY <1>1, <1>2
<1>4. \A x \in 2..(Len(m) + 1) : t[x] = m[x - 1]
  BY <1>1, <1>2
<1>5. \A x \in DOMAIN m : x + 1 \in 2..(Len(m) + 1) /\ t[x + 1] = m[x]
  BY <1>2, <1>4
<1>6. \A x \in DOMAIN t : x = 1 \/ (x \in 2..(Len(m) + 1) /\ x - 1 \in DOMAIN m)
  BY <1>2, <1>3
<1> HIDE DEF t
<1>7. Keys(t) = Keys(m) \cup {e.objectHash}
  <2>1. \A x \in DOMAIN t : t[x] = e \/ \E y \in DOMAIN m : t[x] = m[y]
    BY <1>3, <1>4, <1>6
  <2>2. \A y \in DOMAIN m : \E x \in DOMAIN t : t[x] = m[y]
    BY <1>2, <1>3, <1>5
  <2>3. 1 \in DOMAIN t /\ t[1] = e
    BY <1>2, <1>3
  <2>4. Keys(t) \subseteq Keys(m) \cup {e.objectHash}
    BY <2>1 DEF Keys
  <2>5. Keys(m) \subseteq Keys(t)
    BY <2>2 DEF Keys
  <2>6. e.objectHash \in Keys(t)
    BY <2>3 DEF Keys
  <2> QED BY <2>4, <2>5, <2>6
<1>8. ASSUME Once(m), e.objectHash \notin Keys(m) PROVE Once(t)
  <2> SUFFICES ASSUME NEW x \in DOMAIN t, NEW y \in DOMAIN t,
                      t[x].objectHash = t[y].objectHash
               PROVE  x = y
    BY DEF Once
  <2>1. \A z \in DOMAIN m : m[z].objectHash # e.objectHash
    BY <1>8 DEF Keys
  <2>2. CASE x = 1 /\ y # 1
    BY <1>3, <1>4, <1>6, <2>1, <2>2
  <2>3. CASE x # 1 /\ y = 1
    BY <1>3, <1>4, <1>6, <2>1, <2>3
  <2>4. CASE x # 1 /\ y # 1
    <3>1. x - 1 \in DOMAIN m /\ y - 1 \in DOMAIN m
      BY <1>6, <2>4
    <3>2. m[x - 1].objectHash = m[y - 1].objectHash
      BY <1>4, <1>6, <2>4
    <3>3. x - 1 = y - 1
      BY <1>8, <3>1, <3>2 DEF Once
    <3> QED BY <1>3, <3>3, <1>2
  <2> QED BY <2>2, <2>3, <2>4
<1> QED
  BY <1>7, <1>8 DEF t

Moves(j) ==
    \/ Start(j) \/ Lookup(j) \/ Preprocess(j) \/ PreprocessFails(j)
    \/ NotFound(j) \/ Found(j) \/ ProcessCacheHit(j) \/ Compile(j)
    \/ CompileFails(j) \/ CreateEntry(j) \/ Exists(j) \/ AddObject(j)
    \/ AddManifest(j) \/ Crash(j)

\* A job leaves the others and their mutexes alone.
LEMMA OthersKept ==
    ASSUME TypeOK, NEW j \in Job, Moves(j), NEW i \in Job \ {j}
    PROVE  /\ pc'[i] = pc[i] /\ source'[i] = source[i] /\ direct'[i] = direct[i]
           /\ cachekey'[i] = cachekey[i] /\ hit'[i] = hit[i] /\ object'[i] = object[i]
           /\ \A s \in Source : mlock[s] = i => mlock'[s] = i
<1> USE DirectAssumption DEF TypeOK, GoTo, Leave, Take, local
<1>1. CASE Start(j) \/ Preprocess(j) \/ PreprocessFails(j) \/ Compile(j)
  BY <1>1 DEF Start, Preprocess, PreprocessFails, Compile, locks
<1>2. CASE Lookup(j)
  BY <1>2 DEF Lookup
<1>3. CASE NotFound(j) \/ Found(j) \/ ProcessCacheHit(j)
  BY <1>3 DEF NotFound, Found, ProcessCacheHit
<1>4. CASE CompileFails(j) \/ CreateEntry(j)
  BY <1>4 DEF CompileFails, CreateEntry, locks
<1>5. CASE Exists(j) \/ AddObject(j) \/ AddManifest(j) \/ Crash(j)
  BY <1>5 DEF Exists, AddObject, AddManifest, Crash
<1> QED
  BY <1>1, <1>2, <1>3, <1>4, <1>5 DEF Moves

\* Objects stay.
LEMMA ObjectsKept ==
    ASSUME TypeOK, NEW j \in Job, Moves(j)
    PROVE  /\ AddObject(j) \/ store' = store
           /\ \A k \in Key : store[k] # None => store'[k] # None
<1>1. CASE AddObject(j)
  BY <1>1 DEF AddObject, TypeOK
<1>2. ASSUME ~AddObject(j) PROVE store' = store
  BY <1>2 DEF Moves, Start, Lookup, Preprocess, PreprocessFails, NotFound, Found,
     ProcessCacheHit, Compile, CompileFails, CreateEntry, Exists, AddManifest, Crash, cache
<1> QED
  BY <1>1, <1>2

\* Entries stay, and only a job that has added an object adds one: that object's.
LEMMA EntriesKept ==
    ASSUME DirectInv, NEW j \in Job, Moves(j), NEW s \in Source
    PROVE  \/ /\ Keys(manifest'[s]) = Keys(manifest[s])
              /\ Once(manifest[s]) => Once(manifest'[s])
           \/ /\ AddManifest(j) /\ direct[j] /\ ~hit[j] /\ s = source[j]
              /\ Keys(manifest'[s]) = Keys(manifest[s]) \cup {cachekey[j]}
              /\ Once(manifest[s]) /\ cachekey[j] \notin Keys(manifest[s])
                    => Once(manifest'[s])
<1>0. manifest \in [Source -> Seq(Entry)] /\ manifest[s] \in Seq(Entry)
  BY DEF DirectInv, TypeOK
<1>1. CASE manifest' = manifest
  BY <1>1
<1>2. CASE Lookup(j)
  <2>1. CASE manifest' # manifest
    <3>1. PICK i \in DOMAIN manifest[source[j]] :
              manifest' = [manifest EXCEPT ![source[j]] = Touched(manifest[source[j]], i)]
      BY <1>2, <2>1 DEF Lookup
    <3>2. CASE s = source[j]
      BY <1>0, <3>1, <3>2, TouchedKeys
    <3>3. CASE s # source[j]
      BY <1>0, <3>1, <3>3
    <3> QED
      BY <3>2, <3>3
  <2> QED
    BY <1>1, <2>1
<1>3. CASE AddManifest(j)
  <2>1. /\ manifest' = [manifest EXCEPT ![source[j]] = AddedEntries(j) \o @]
        /\ source[j] \in Source /\ HasKey(j)
    BY <1>3 DEF AddManifest, DirectInv, JobsInv, JobInv
  <2>2. CASE s # source[j]
    BY <1>0, <2>1, <2>2
  <2>3. CASE s = source[j] /\ direct[j] /\ ~hit[j]
    <3> DEFINE e == [includes |-> cachekey[j].includes, objectHash |-> cachekey[j]]
    <3>1. cachekey[j] \in Key
      BY <2>1, KeyTyped DEF HasKey, DirectInv
    <3>2. e \in Entry
      BY <3>1 DEF Entry, Key
    <3>3. manifest'[s] = <<e>> \o manifest[s] /\ e.objectHash = cachekey[j]
      BY <1>0, <2>1, <2>3 DEF AddedEntries
    <3> HIDE DEF e
    <3> QED
      BY <1>0, <1>3, <2>3, <3>2, <3>3, AddedKeys
  <2>4. CASE s = source[j] /\ ~(direct[j] /\ ~hit[j])
    <3>1. manifest'[s] = << >> \o manifest[s]
      BY <1>0, <2>1, <2>4 DEF AddedEntries
    <3>2. manifest'[s] = manifest[s]
      BY <1>0, <3>1
    <3> QED
      BY <3>2
  <2> QED
    BY <2>2, <2>3, <2>4
<1> QED
  BY <1>1, <1>2, <1>3 DEF Moves, Start, Preprocess, PreprocessFails, NotFound, Found,
     ProcessCacheHit, Compile, CompileFails, CreateEntry, Exists, AddObject, Crash, cache

\* The job that has added an object has its key, which is the key of its source.
LEMMA KeyOfSource ==
    ASSUME DirectInv, NEW j \in Job, pc[j] \in {"find", "hit", "ensure", "added"}
    PROVE  /\ source[j] \in Source /\ cachekey[j] \in Key
           /\ cachekey[j].source = source[j] /\ cachekey[j].direct = direct[j]
           /\ cachekey[j].includes = Now(j)
<1>1. source[j] \in Source /\ HasKey(j)
  BY DEF DirectInv, JobsInv, JobInv
<1> QED
  BY <1>1, KeyTyped DEF HasKey, KeyOf, DirectInv

\* Entries stay unique, and their objects stay.
LEMMA ManifestsCachedStep ==
    ASSUME DirectInv, CacheInv, NEW j \in Job, Moves(j)
    PROVE  ManifestsCached'
<1> SUFFICES ASSUME NEW s \in Source
             PROVE  Once(manifest'[s]) /\ \A k \in Keys(manifest'[s]) : store'[k] # None
  BY DEF ManifestsCached, Once, Keys
<1>1. /\ Once(manifest[s]) /\ \A k \in Keys(manifest[s]) : store[k] # None
      /\ JobCached(j)
  BY DEF CacheInv, ManifestsCached
<1>2. \A k \in Key : store[k] # None => store'[k] # None
  BY ObjectsKept DEF DirectInv
<1>3. Keys(manifest[s]) \subseteq Key
  <2>1. manifest[s] \in Seq(Entry)
    BY DEF DirectInv, TypeOK
  <2>2. \A i \in DOMAIN manifest[s] : manifest[s][i] \in Entry
    BY <2>1
  <2>3. \A e \in Entry : e.objectHash \in Key
    BY DEF Entry
  <2> QED
    BY <2>2, <2>3 DEF Keys
<1>4. CASE Keys(manifest'[s]) = Keys(manifest[s]) /\ Once(manifest'[s])
  BY <1>1, <1>2, <1>3, <1>4
<1>5. CASE /\ AddManifest(j) /\ direct[j] /\ s = source[j]
           /\ Keys(manifest'[s]) = Keys(manifest[s]) \cup {cachekey[j]}
           /\ cachekey[j] \notin Keys(manifest[s]) => Once(manifest'[s])
  <2>1. pc[j] = "added" /\ cachekey[j] \in Key
    BY <1>5, KeyOfSource DEF AddManifest
  <2>2. cachekey[j] \notin Keys(manifest[s]) /\ store[cachekey[j]] # None
    BY <1>1, <1>5, <2>1 DEF JobCached
  <2> QED
    BY <1>1, <1>2, <1>3, <1>5, <2>1, <2>2
<1> QED
  BY <1>1, <1>4, <1>5, EntriesKept

\* An object is that of an entry, or its entry is about to be added.
LEMMA ObjectsListedStep ==
    ASSUME DirectInv, CacheInv, NEW j \in Job, Moves(j), ~Crash(j)
    PROVE  ObjectsListed'
<1>0. TypeOK /\ JobCached(j)
  BY DEF DirectInv, CacheInv
<1> SUFFICES ASSUME NEW k \in Key, k.direct, store'[k] # None
             PROVE  \/ k \in Keys(manifest'[k.source])
                    \/ \E i \in Job : pc'[i] = "added" /\ cachekey'[i] = k
  BY DEF ObjectsListed, Keys
<1>1. k.source \in Source
  BY DEF Key
<1>2. CASE k \in Keys(manifest[k.source])
  BY <1>1, <1>2, EntriesKept
<1>3. CASE \E i \in Job \ {j} : pc[i] = "added" /\ cachekey[i] = k
  BY <1>0, <1>3, OthersKept
<1>4. CASE pc[j] = "added" /\ cachekey[j] = k
  <2>1. AddManifest(j)
    BY <1>4 DEF Moves, Start, Lookup, Preprocess, PreprocessFails, NotFound, Found,
       ProcessCacheHit, Compile, CompileFails, CreateEntry, Exists, AddObject
  <2>2. direct[j] /\ k.source = source[j] /\ ~hit[j]
    BY <1>0, <1>4, KeyOfSource DEF JobCached
  <2>3. manifest \in [Source -> Seq(Entry)] /\ manifest[k.source] \in Seq(Entry)
    BY <1>0, <1>1 DEF TypeOK
  <2>4. manifest'[k.source]
          = <<[includes |-> k.includes, objectHash |-> k]>> \o manifest[k.source]
    BY <1>1, <1>4, <2>1, <2>2, <2>3 DEF AddManifest, AddedEntries
  <2>5. [includes |-> k.includes, objectHash |-> k] \in Entry
    BY DEF Key, Entry
  <2> QED
    BY <2>3, <2>4, <2>5, AddedKeys
<1>5. CASE store[k] = None
  <2>1. AddObject(j) /\ k = cachekey[j]
    BY <1>0, <1>5, ObjectsKept DEF AddObject, TypeOK
  <2>2. pc'[j] = "added" /\ cachekey'[j] = k
    BY <1>0, <2>1 DEF AddObject, GoTo, local, TypeOK
  <2> QED
    BY <2>2
<1> QED
  BY <1>2, <1>3, <1>4, <1>5 DEF CacheInv, ObjectsListed

\* What a job relies on stays while another one moves.
LEMMA JobCachedOther ==
    ASSUME DirectInv, CacheInv, NEW j \in Job, Moves(j), NEW i \in Job \ {j}
    PROVE  JobCached(i)'
<1>0. TypeOK /\ JobCached(i) /\ JobCached(j)
  BY DEF DirectInv, CacheInv
<1>1. /\ pc'[i] = pc[i] /\ source'[i] = source[i] /\ direct'[i] = direct[i]
      /\ cachekey'[i] = cachekey[i] /\ hit'[i] = hit[i] /\ object'[i] = object[i]
      /\ \A s \in Source : mlock[s] = i => mlock'[s] = i
  BY <1>0, OthersKept
<1>2. LeftKey(i)' = LeftKey(i)
  BY <1>1 DEF LeftKey
<1>3. \A k \in Key : store[k] # None => store'[k] # None
  BY <1>0, ObjectsKept
<1>4. pc[i] # "idle" => source[i] \in Source
  BY DEF DirectInv, JobsInv, JobInv
<1>5. \A s \in Source : Keys(manifest[s]) \subseteq Keys(manifest'[s])
  BY EntriesKept
<1>6. ASSUME direct[i], pc[i] = "added"
      PROVE  cachekey[i] \notin Keys(manifest'[source[i]])
  <2>1. cachekey[i] \notin Keys(manifest[source[i]]) /\ mlock[source[i]] = i
    BY <1>0, <1>6 DEF JobCached
  <2>2. ~(AddManifest(j) /\ direct[j] /\ source[j] = source[i])
    BY <1>0, <2>1 DEF JobCached, AddManifest
  <2> QED
    BY <1>4, <1>6, <2>1, <2>2, EntriesKept
<1>7. ASSUME pc[i] = "added" PROVE store'[cachekey[i]] # None
  BY <1>0, <1>3, <1>7, KeyOfSource DEF JobCached
<1>8. ASSUME pc[i] = "idle", object[i] # None
      PROVE  /\ source[i] \in Source
             /\ store'[LeftKey(i)] # None
             /\ direct[i] => LeftKey(i) \in Keys(manifest'[source[i]])
  <2>1. source[i] \in Source /\ LeftKey(i) \in Key
    BY <1>0, <1>8 DEF JobCached, LeftKey, Key, TypeOK
  <2> QED
    BY <1>0, <1>3, <1>5, <1>8, <2>1 DEF JobCached
<1>9. pc[i] \in {"find", "hit"} /\ direct[i] => cachekey[i] \in Keys(manifest'[source[i]])
  BY <1>0, <1>4, <1>5 DEF JobCached
<1>10. pc[i] \in {"ensure", "added"} /\ direct[i] => mlock'[source[i]] = i
  BY <1>0, <1>1, <1>4 DEF JobCached
<1> QED
  BY <1>0, <1>1, <1>2, <1>6, <1>7, <1>8, <1>9, <1>10 DEF JobCached

\* A job that ends has stored what it leaves.
LEMMA LeavesStored ==
    ASSUME DirectInv, NEW j \in Job, pc[j] \in {"hit", "ensure", "added"},
           NEW o \in {None, Now(j)}, object'[j] = o, object'[j] # None,
           UNCHANGED <<source, direct>>
    PROVE  LeftKey(j)' = cachekey[j]
<1>1. HasKey(j)
  BY DEF DirectInv, JobsInv, JobInv
<1> QED
  BY <1>1 DEF HasKey, KeyOf, LeftKey

\* What a job relies on stays while it moves itself.
LEMMA JobCachedOwn ==
    ASSUME DirectInv, CacheInv, NEW j \in Job, Moves(j), ~Crash(j)
    PROVE  JobCached(j)'
<1>0. TypeOK /\ JobCached(j) /\ JobInv(j)
  BY DEF DirectInv, CacheInv, JobsInv
<1>1. \A k \in Key : store[k] # None => store'[k] # None
  BY <1>0, ObjectsKept
<1>2. \A s \in Source : Keys(manifest[s]) \subseteq Keys(manifest'[s])
  BY EntriesKept
<1> USE <1>0 DEF TypeOK, GoTo
<1>3. CASE Start(j)
  <2>1. PICK d \in BOOLEAN : /\ direct' = [direct EXCEPT ![j] = d]
                             /\ GoTo(j, IF d THEN "lookup" ELSE "preprocess")
    BY <1>3 DEF Start
  <2>2. direct'[j] = d /\ pc'[j] = IF d THEN "lookup" ELSE "preprocess"
    BY <2>1
  <2>3. CASE d
    BY <2>2, <2>3 DEF JobCached
  <2>4. CASE ~d
    BY <2>2, <2>4 DEF JobCached
  <2> QED
    BY <2>3, <2>4
<1>4. CASE Lookup(j)
  <2>1. pc[j] = "lookup" /\ ~hit[j] /\ source' = source
    BY <1>4 DEF Lookup, JobInv
  <2>2. CASE pc'[j] = "compile" /\ hit' = hit
    BY <2>1, <2>2 DEF JobCached
  <2>3. CASE pc'[j] # "compile"
    <3>1. /\ pc'[j] = "find"
          /\ \E i \in DOMAIN manifest[source[j]] :
                cachekey'[j] = manifest[source[j]][i].objectHash
      BY <1>4, <2>3 DEF Lookup
    <3>2. cachekey'[j] \in Keys(manifest[source[j]]) /\ source[j] \in Source
      BY <2>1, <3>1 DEF Keys, JobInv
    <3> QED
      BY <1>2, <2>1, <3>1, <3>2 DEF JobCached
  <2> QED
    BY <1>4, <2>2, <2>3 DEF Lookup
<1>5. CASE Preprocess(j)
  <2>1. pc'[j] = "find" /\ direct' = direct /\ pc[j] = "preprocess"
    BY <1>5 DEF Preprocess
  <2> QED
    BY <1>5, <2>1 DEF JobCached
<1>6. CASE PreprocessFails(j)
  <2>1. pc'[j] = "idle" /\ object'[j] = None
    BY <1>6 DEF PreprocessFails, JobInv, local
  <2> QED
    BY <2>1 DEF JobCached
<1>7. CASE NotFound(j)
  <2>1. ~direct[j] /\ direct' = direct /\ pc'[j] = "compile"
    <3>1. pc[j] = "find" /\ store[cachekey[j]] = None
      BY <1>7 DEF NotFound
    <3>2. direct[j] => cachekey[j] \in Keys(manifest[source[j]]) /\ source[j] \in Source
      BY <3>1 DEF JobCached, JobInv
    <3> QED
      BY <1>7, <3>1, <3>2 DEF CacheInv, ManifestsCached, NotFound, local
  <2> QED
    BY <2>1 DEF JobCached
<1>8. CASE Found(j)
  <2>1. pc[j] = "find" /\ pc'[j] = "hit" /\ UNCHANGED <<direct, source, cachekey, manifest>>
    BY <1>8 DEF Found, local, cache
  <2> QED
    BY <2>1 DEF JobCached
<1>9. CASE ProcessCacheHit(j)
  <2>1. /\ pc[j] = "hit" /\ pc'[j] = "idle"
        /\ UNCHANGED <<direct, source, cachekey, manifest, store>>
        /\ object'[j] = store[cachekey[j]]
    BY <1>9 DEF ProcessCacheHit, cache
  <2>2. /\ store[cachekey[j]] # None /\ cachekey[j] \in Key /\ source[j] \in Source
        /\ cachekey[j].includes = Now(j)
    BY <2>1, HitHasKey, KeyOfSource
  <2>3. store[cachekey[j]] = Now(j)
    BY <2>2 DEF DirectInv, StoreSound
  <2>4. LeftKey(j)' = cachekey[j]
    BY <2>1, <2>2, <2>3, LeavesStored
  <2>5. direct[j] => cachekey[j] \in Keys(manifest[source[j]])
    BY <2>1 DEF JobCached
  <2> QED
    BY <2>1, <2>2, <2>4, <2>5 DEF JobCached
<1>10. CASE Compile(j) \/ CompileFails(j)
  <2>1. pc[j] = "compile" /\ pc'[j] = "compiled" /\ UNCHANGED <<direct, hit>>
    BY <1>10 DEF Compile, CompileFails, local
  <2> QED
    BY <2>1 DEF JobCached
<1>11. CASE CreateEntry(j)
  <2>1. /\ pc[j] = "compiled" /\ pc'[j] = "ensure" /\ UNCHANGED <<direct, hit, source>>
        /\ source[j] \in Source
    BY <1>11 DEF CreateEntry, JobInv
  <2>2. direct[j] => mlock'[source[j]] = j
    BY <1>11, <2>1 DEF CreateEntry, Take
  <2> QED
    BY <2>1, <2>2 DEF JobCached
<1>12. CASE Exists(j)
  <2>1. /\ pc[j] = "ensure" /\ pc'[j] = "idle"
        /\ UNCHANGED <<direct, source, cachekey, object, manifest, store>>
        /\ store[cachekey[j]] # None \/ object[j] = None
        /\ object[j] \in {None, Now(j)}
    BY <1>12 DEF Exists, local, cache, JobInv
  <2>2. CASE object[j] = None
    BY <2>1, <2>2 DEF JobCached
  <2>3. CASE object[j] # None
    <3>1. /\ source[j] \in Source /\ cachekey[j] \in Key
          /\ cachekey[j].source = source[j] /\ cachekey[j].direct = direct[j]
      BY <2>1, KeyOfSource
    <3>2. LeftKey(j)' = cachekey[j]
      BY <2>1, <2>3, LeavesStored
    <3>3. ASSUME direct[j] PROVE cachekey[j] \in Keys(manifest[source[j]])
      <4>1. ASSUME NEW i \in Job, pc[i] = "added", cachekey[i] = cachekey[j]
            PROVE  FALSE
        <5>1. source[i] = source[j] /\ direct[i] /\ i # j
          BY <2>1, <3>1, <3>3, <4>1, KeyOfSource
        <5>2. mlock[source[j]] = i
          BY <4>1, <5>1 DEF CacheInv, JobCached
        <5>3. mlock[source[j]] = j
          BY <2>1, <3>3 DEF JobCached
        <5> QED
          BY <5>1, <5>2, <5>3
      <4> QED
        BY <2>1, <2>3, <3>1, <3>3, <4>1 DEF CacheInv, ObjectsListed
    <3> QED
      BY <2>1, <2>3, <3>1, <3>2, <3>3 DEF JobCached
  <2> QED
    BY <2>2, <2>3
<1>13. CASE AddObject(j)
  <2>1. /\ pc[j] = "ensure" /\ pc'[j] = "added"
        /\ UNCHANGED <<direct, hit, source, cachekey, manifest, mlock>>
        /\ store[cachekey[j]] = None /\ object[j] # None
        /\ store' = [store EXCEPT ![cachekey[j]] = object[j]]
    BY <1>13 DEF AddObject, local
  <2>2. source[j] \in Source /\ cachekey[j] \in Key
    BY <2>1, KeyOfSource
  <2>3. cachekey[j] \notin Keys(manifest[source[j]])
    BY <2>1, <2>2 DEF CacheInv, ManifestsCached
  <2>4. store'[cachekey[j]] # None
    BY <2>1, <2>2
  <2> QED
    BY <2>1, <2>3, <2>4 DEF JobCached
<1>14. CASE AddManifest(j)
  <2>1. /\ pc[j] = "added" /\ pc'[j] = "idle"
        /\ UNCHANGED <<direct, source, cachekey, object, store>>
        /\ object[j] \in {None, Now(j)} /\ store[cachekey[j]] # None
    BY <1>14 DEF AddManifest, local, JobInv, JobCached
  <2>2. source[j] \in Source /\ cachekey[j] \in Key
    BY <2>1, KeyOfSource
  <2>3. object[j] # None => LeftKey(j)' = cachekey[j]
    BY <2>1, LeavesStored
  <2>4. ASSUME direct[j] PROVE cachekey[j] \in Keys(manifest'[source[j]])
    <3>1. ~hit[j]
      BY <2>1, <2>4 DEF JobCached
    <3>2. manifest[source[j]] \in Seq(Entry)
      BY <2>2
    <3>3. manifest'[source[j]]
            = <<[includes |-> cachekey[j].includes, objectHash |-> cachekey[j]]>>
                \o manifest[source[j]]
      BY <1>14, <2>2, <2>4, <3>1 DEF AddManifest, AddedEntries
    <3>4. [includes |-> cachekey[j].includes, objectHash |-> cachekey[j]] \in Entry
      BY <2>2 DEF Key, Entry
    <3> QED
      BY <3>2, <3>3, <3>4, AddedKeys
  <2> QED
    BY <2>1, <2>2, <2>3, <2>4 DEF JobCached
<1> QED
  BY <1>3, <1>4, <1>5, <1>6, <1>7, <1>8, <1>9, <1>10, <1>11, <1>12, <1>13, <1>14 DEF Moves

\* No failure is forgotten.
LEMMA FailuresGrow ==
    ASSUME TypeOK, NEW j \in Job, Moves(j)
    PROVE  /\ faults' = 0 => faults = 0
           /\ Crash(j) => faults' # 0
<1>0. faults \in Nat
  BY DEF TypeOK
<1>1. CASE UNCHANGED faults
  BY <1>1 DEF Crash, Fails
<1>2. CASE CompileFails(j) \/ Crash(j)
  <2>1. UNCHANGED faults \/ faults' = faults + 1
    BY <1>2 DEF CompileFails, Crash, Fails
  <2> QED
    BY <1>0, <1>1, <2>1
<1> QED
  BY <1>1, <1>2 DEF Moves, Start, Lookup, Preprocess, PreprocessFails, NotFound, Found,
     ProcessCacheHit, Compile, CreateEntry, Exists, AddObject, AddManifest, counts

\* Every step keeps what is cached in order, unless something fails.
LEMMA CachedStep == CachedInv /\ [Next]_vars => CachedInv'
<1> SUFFICES ASSUME CachedInv, [Next]_vars PROVE CachedInv'
  OBVIOUS
<1>0. DirectInv /\ DirectInv' /\ TypeOK
  BY DirectStep DEF CachedInv, DirectInv
<1>1. ASSUME NEW j \in Job, Moves(j), faults' = 0
      PROVE  CacheInv'
  <2>1. faults = 0 /\ ~Crash(j)
    BY <1>0, <1>1, FailuresGrow
  <2>2. CacheInv
    BY <2>1 DEF CachedInv
  <2>3. ManifestsCached' /\ ObjectsListed'
    BY <1>0, <1>1, <2>1, <2>2, ManifestsCachedStep, ObjectsListedStep
  <2>4. \A i \in Job : JobCached(i)'
    BY <1>0, <1>1, <2>1, <2>2, JobCachedOther, JobCachedOwn
  <2> QED
    BY <2>3, <2>4 DEF CacheInv
<1>2. CASE Clear
  <2>1. faults' # 0
    BY <1>0, <1>2 DEF Clear, Fails, TypeOK
  <2> QED
    BY <1>0, <2>1 DEF CachedInv
<1>3. CASE Edit \/ UNCHANGED vars
  <2>1. UNCHANGED <<manifest, store, mlock, pc, source, direct, cachekey, hit, object,
                    faults>>
    BY <1>3 DEF Edit, vars, cache, locks, local, counts
  <2>2. ManifestsCached' = ManifestsCached /\ ObjectsListed' = ObjectsListed
    BY <2>1 DEF ManifestsCached, ObjectsListed, Keys, Once
  <2>3. \A j \in Job : JobCached(j) => JobCached(j)'
    BY <2>1 DEF JobCached, LeftKey
  <2> QED
    BY <1>0, <2>1, <2>2, <2>3 DEF CachedInv, CacheInv
<1> QED
  BY <1>0, <1>1, <1>2, <1>3 DEF Next, Moves, CachedInv

\* What a job has compiled is a hit for the next one as long as nothing fails and
\* nothing is lost: for the object it leaves, the manifest of its source has one
\* entry that matches, and the object is there (ResultsAreCached), in whatever
\* order jobs look up, miss and store.
THEOREM AlwaysCached == Spec => []ResultsAreCached
<1>1. Init => CachedInv
  <2> SUFFICES ASSUME Init PROVE CachedInv
    OBVIOUS
  <2>1. ManifestsCached
    BY DEF Init, ManifestsCached, Keys, Once
  <2>2. ObjectsListed
    BY DEF Init, ObjectsListed
  <2>3. \A j \in Job : JobCached(j)
    BY DEF Init, JobCached
  <2> QED
    BY <2>1, <2>2, <2>3, TypeInit DEF CachedInv, CacheInv
<1>2. CachedInv => ResultsAreCached
  <2> SUFFICES ASSUME CachedInv, faults = 0, NEW j \in Job, pc[j] = "idle",
                      object[j] # None, object[j] = Now(j)
               PROVE  IF direct[j]
                      THEN \E i \in DOMAIN manifest[source[j]] :
                              /\ store[manifest[source[j]][i].objectHash] = Now(j)
                              /\ \A x \in DOMAIN manifest[source[j]] :
                                    Matches(manifest[source[j]][x]) <=> x = i
                      ELSE store[KeyOf(j)] = Now(j)
    BY DEF ResultsAreCached
  <2>0. DirectInv /\ CacheInv /\ JobCached(j)
    BY DEF CachedInv, CacheInv
  <2>1. /\ source[j] \in Source /\ LeftKey(j) = KeyOf(j) /\ store[KeyOf(j)] # None
        /\ direct[j] => KeyOf(j) \in Keys(manifest[source[j]])
    BY <2>0 DEF JobCached, LeftKey, KeyOf
  <2>2. KeyOf(j) \in Key /\ KeyOf(j).includes = Now(j)
    BY <2>0, <2>1, KeyTyped DEF DirectInv, KeyOf
  <2>3. store[KeyOf(j)] = Now(j)
    BY <2>0, <2>1, <2>2 DEF DirectInv, StoreSound
  <2>4. CASE direct[j]
    <3>1. PICK i \in DOMAIN manifest[source[j]] :
              manifest[source[j]][i].objectHash = KeyOf(j)
      BY <2>1, <2>4 DEF Keys
    <3>2. Once(manifest[source[j]])
      BY <2>0, <2>1 DEF CacheInv, ManifestsCached
    <3>3. ASSUME NEW x \in DOMAIN manifest[source[j]], Matches(manifest[source[j]][x])
          PROVE  x = i
      <4>1. manifest[source[j]][x].objectHash = KeyOf(j)
        BY <2>0, <2>1, <2>4, <3>3, MatchIsCurrent DEF KeyOf, Now
      <4> QED
        BY <3>1, <3>2, <4>1 DEF Once
    <3>4. Matches(manifest[source[j]][i])
      <4>1. manifest[source[j]][i] \in SoundEntry(source[j])
        BY <2>0, <2>1 DEF DirectInv, ManifestsSound
      <4>2. manifest[source[j]][i].includes = Now(j)
        BY <2>2, <3>1, <4>1 DEF SoundEntry
      <4> QED
        BY <4>2 DEF Matches, Now, Includes
    <3> QED
      BY <2>3, <2>4, <3>1, <3>3, <3>4
  <2> QED
    BY <2>3, <2>4
<1> QED
  BY <1>1, <1>2, CachedStep, PTL DEF Spec
-----------------------------------------------------------------------------
(* The jobs of a command line                                              *)

JobStates == {"queued", "running", "done", "broken", "collected"}

\* Only a job that has ended has a result, and a cleanup is asked for by
\* compilations that succeeded
JobTyped(i) ==
    /\ jobs[i] = [cmd |-> jobs[i].cmd, state |-> jobs[i].state,
                  rc |-> jobs[i].rc, cleanup |-> jobs[i].cleanup]
    /\ jobs[i].state \in JobStates /\ jobs[i].rc \in {0, 2} /\ jobs[i].cleanup \in BOOLEAN
    /\ jobs[i].state \notin {"done", "collected"} => jobs[i].rc = 0 /\ ~jobs[i].cleanup
    /\ jobs[i].rc # 0 => ~jobs[i].cleanup

JobsTyped ==
    /\ jobs = [i \in DOMAIN jobs |-> jobs[i]]
    /\ \A i \in DOMAIN jobs : JobTyped(i)

LinePhases == {"CL", "_CL_", "file", "expand", "passed", "collect", "shutdown",
               "failing", "done", "raised"}

\* Before the jobs are submitted there is nothing to collect
Unscheduled ==
    phase \in {"CL", "_CL_", "file", "expand", "passed"} => jobs = <<>> /\ ~cleanup

\* While the loop over the results goes on, those collected so far are 0
CollectedAreFine ==
    /\ exit = 0
    /\ \A i \in DOMAIN jobs : jobs[i].state = "collected" =>
          jobs[i].rc = 0 /\ (jobs[i].cleanup => cleanup)

\* It has come to its end, or has ended with the first failure
LoopHasEnded ==
    \/ CollectedAreFine /\ InState("collected") = DOMAIN jobs
    \/ exit # 0 /\ \E i \in DOMAIN jobs : jobs[i].rc # 0

LineInv ==
    /\ JobsTyped /\ phase \in LinePhases /\ exit \in {0, 2}
    /\ cleanup \in BOOLEAN /\ Unscheduled
    /\ phase \in {"CL", "_CL_", "file", "expand"} => exit = 0
    /\ phase = "collect" => CollectedAreFine
    /\ phase = "shutdown" => LoopHasEnded
    /\ phase = "failing" => InState("broken") # {}
    /\ ExitCodeIsRight

LEMMA StateMoves ==
    ASSUME NEW r, NEW st,
           r = [cmd |-> r.cmd, state |-> r.state, rc |-> r.rc, cleanup |-> r.cleanup]
    PROVE  [r EXCEPT !.state = st]
             = [cmd |-> r.cmd, state |-> st, rc |-> r.rc, cleanup |-> r.cleanup]
<1> DEFINE t == [cmd |-> r.cmd, state |-> r.state, rc |-> r.rc, cleanup |-> r.cleanup]
<1>1. [t EXCEPT !.state = st]
        = [cmd |-> r.cmd, state |-> st, rc |-> r.rc, cleanup |-> r.cleanup]
  OBVIOUS
<1>2. r = t
  OBVIOUS
<1> HIDE DEF t
<1> QED
  BY <1>1, <1>2

\* What a job is after a step that touches it, and what the others are
LEMMA JobMoves ==
    ASSUME JobsTyped, NEW i \in DOMAIN jobs, NEW st \in JobStates, NEW rc \in {0, 2},
           NEW clean \in BOOLEAN, clean => rc = 0,
           st \notin {"done", "collected"} => rc = 0 /\ ~clean,
           jobs' = [jobs EXCEPT ![i] = [cmd |-> jobs[i].cmd, state |-> st,
                                        rc |-> rc, cleanup |-> clean]]
    PROVE  /\ JobsTyped' /\ DOMAIN jobs' = DOMAIN jobs
           /\ jobs'[i].state = st /\ jobs'[i].rc = rc /\ jobs'[i].cleanup = clean
           /\ \A k \in DOMAIN jobs : k # i => jobs'[k] = jobs[k]
<1>1. jobs' = [k \in DOMAIN jobs |-> IF k = i THEN [cmd |-> jobs[i].cmd, state |-> st,
                                                   rc |-> rc, cleanup |-> clean]
                                               ELSE jobs[k]]
  BY DEF JobsTyped
<1>2. DOMAIN jobs' = DOMAIN jobs
  BY <1>1
<1>3. \A k \in DOMAIN jobs : k # i => jobs'[k] = jobs[k]
  BY <1>1
<1>4. jobs'[i] = [cmd |-> jobs[i].cmd, state |-> st, rc |-> rc, cleanup |-> clean]
  BY <1>1
<1>5. jobs' = [k \in DOMAIN jobs' |-> jobs'[k]]
  BY <1>1, <1>2
<1>6. ASSUME NEW k \in DOMAIN jobs PROVE JobTyped(k)'
  <2>1. CASE k = i
    BY <1>4, <2>1 DEF JobTyped
  <2>2. CASE k # i
    BY <1>3, <2>2 DEF JobTyped, JobsTyped
  <2> QED
    BY <2>1, <2>2
<1> QED
  BY <1>2, <1>3, <1>4, <1>5, <1>6 DEF JobsTyped

\* A job starts, ends or breaks, whatever the loop over the results does
LEMMA WorkerStep ==
    ASSUME LineInv, NEW i \in DOMAIN jobs, JobStarts(i) \/ JobEnds(i) \/ JobBreaks(i)
    PROVE  LineInv'
<1>0. JobTyped(i) /\ jobs[i].state \in {"queued", "running"}
  BY DEF LineInv, JobsTyped, JobStarts, JobEnds, JobBreaks, InState
<1>1. PICK st \in {"running", "done", "broken"}, rc \in {0, 2}, clean \in BOOLEAN :
        /\ clean => rc = 0
        /\ st # "done" => rc = 0 /\ ~clean
        /\ jobs' = [jobs EXCEPT ![i] = [cmd |-> jobs[i].cmd, state |-> st,
                                        rc |-> rc, cleanup |-> clean]]
  <2>1. CASE JobStarts(i)
    <3>1. jobs' = [jobs EXCEPT ![i] = [cmd |-> jobs[i].cmd, state |-> "running",
                                       rc |-> 0, cleanup |-> FALSE]]
      <4>1. jobs' = [jobs EXCEPT ![i] = [jobs[i] EXCEPT !.state = "running"]]
        BY <2>1 DEF JobStarts
      <4>2. [jobs[i] EXCEPT !.state = "running"]
              = [cmd |-> jobs[i].cmd, state |-> "running", rc |-> jobs[i].rc,
                 cleanup |-> jobs[i].cleanup]
        BY <1>0, StateMoves DEF JobTyped
      <4>3. jobs[i].rc = 0 /\ jobs[i].cleanup = FALSE
        BY <1>0 DEF JobTyped
      <4> QED
        BY <4>1, <4>2, <4>3
    <3> WITNESS "running" \in {"running", "done", "broken"}, 0 \in {0, 2}, FALSE \in BOOLEAN
    <3> QED
      BY <3>1
  <2>2. CASE JobEnds(i)
    <3>1. PICK rc \in {0, 2}, clean \in BOOLEAN :
            /\ clean => rc = 0
            /\ jobs' = [jobs EXCEPT ![i].state = "done", ![i].rc = rc, ![i].cleanup = clean]
      BY <2>2 DEF JobEnds
    <3>2. jobs' = [jobs EXCEPT ![i] = [cmd |-> jobs[i].cmd, state |-> "done",
                                       rc |-> rc, cleanup |-> clean]]
      <4> DEFINE t == [cmd |-> jobs[i].cmd, state |-> "done", rc |-> jobs[i].rc,
                       cleanup |-> jobs[i].cleanup]
                 u == [cmd |-> jobs[i].cmd, state |-> "done", rc |-> rc,
                       cleanup |-> jobs[i].cleanup]
                 v == [cmd |-> jobs[i].cmd, state |-> "done", rc |-> rc, cleanup |-> clean]
      <4>1. [jobs[i] EXCEPT !.state = "done"] = t
        BY <1>0, StateMoves DEF JobTyped
      <4>2. [t EXCEPT !.rc = rc] = u
        OBVIOUS
      <4>3. [u EXCEPT !.cleanup = clean] = v
        OBVIOUS
      <4>4. jobs' = [jobs EXCEPT ![i] =
                       [[[jobs[i] EXCEPT !.state = "done"] EXCEPT !.rc = rc]
                          EXCEPT !.cleanup = clean]]
        BY <3>1
      <4> HIDE DEF t, u, v
      <4>5. jobs' = [jobs EXCEPT ![i] = v]
        BY <4>1, <4>2, <4>3, <4>4
      <4> QED
        BY <4>5 DEF v
    <3> WITNESS "done" \in {"running", "done", "broken"}, rc \in {0, 2}, clean \in BOOLEAN
    <3> QED
      BY <3>1, <3>2
  <2>3. CASE JobBreaks(i)
    <3>1. jobs' = [jobs EXCEPT ![i] = [cmd |-> jobs[i].cmd, state |-> "broken",
                                       rc |-> 0, cleanup |-> FALSE]]
      <4>1. jobs' = [jobs EXCEPT ![i] = [jobs[i] EXCEPT !.state = "broken"]]
        BY <2>3 DEF JobBreaks
      <4>2. [jobs[i] EXCEPT !.state = "broken"]
              = [cmd |-> jobs[i].cmd, state |-> "broken", rc |-> jobs[i].rc,
                 cleanup |-> jobs[i].cleanup]
        BY <1>0, StateMoves DEF JobTyped
      <4>3. jobs[i].rc = 0 /\ jobs[i].cleanup = FALSE
        BY <1>0 DEF JobTyped
      <4> QED
        BY <4>1, <4>2, <4>3
    <3> WITNESS "broken" \in {"running", "done", "broken"}, 0 \in {0, 2}, FALSE \in BOOLEAN
    <3> QED
      BY <3>1
  <2> QED
    BY <2>1, <2>2, <2>3
<1>2. /\ JobsTyped' /\ DOMAIN jobs' = DOMAIN jobs
      /\ jobs'[i].state = st /\ jobs'[i].rc = rc /\ jobs'[i].cleanup = clean
      /\ \A k \in DOMAIN jobs : k # i => jobs'[k] = jobs[k]
  <2>1. JobsTyped
    BY DEF LineInv
  <2> QED
    BY <1>1, <2>1, JobMoves DEF JobStates
<1>3. UNCHANGED <<phase, exit, cleanup, cleaned>>
  BY DEF JobStarts, JobEnds, JobBreaks
<1>4. jobs # <<>>
  BY <1>0
<1>5. phase \in {"collect", "shutdown", "failing", "raised"}
  BY <1>0, <1>4 DEF LineInv, LinePhases, Unscheduled, ExitCodeIsRight, InState
<1>6. Unscheduled'
  BY <1>3, <1>5 DEF Unscheduled
<1>7. CollectedAreFine => CollectedAreFine'
  BY <1>0, <1>1, <1>2, <1>3 DEF CollectedAreFine
<1>8. phase = "shutdown" => LoopHasEnded'
  <2> SUFFICES ASSUME phase = "shutdown" PROVE LoopHasEnded'
    OBVIOUS
  <2>1. InState("collected") # DOMAIN jobs
    BY <1>0 DEF InState
  <2>2. exit # 0 /\ \E k \in DOMAIN jobs : jobs[k].rc # 0
    BY <2>1 DEF LineInv, LoopHasEnded
  <2>3. PICK k \in DOMAIN jobs : jobs[k].rc # 0
    BY <2>2
  <2>4. k # i
    BY <1>0, <2>3 DEF JobTyped
  <2> QED
    BY <1>2, <1>3, <2>2, <2>3, <2>4 DEF LoopHasEnded
<1>9. InState("broken") # {} => InState("broken")' # {}
  BY <1>0, <1>2 DEF InState
<1>10. ExitCodeIsRight'
  BY <1>3, <1>4, <1>5, <1>9 DEF ExitCodeIsRight, LineInv
<1> QED
  BY <1>2, <1>3, <1>5, <1>6, <1>7, <1>8, <1>9, <1>10 DEF LineInv

LEMMA CollectStep ==
    ASSUME LineInv, NEW i \in DOMAIN jobs, Collect(i)
    PROVE  LineInv'
<1>0. JobTyped(i) /\ jobs[i].state = "done" /\ phase = "collect" /\ CollectedAreFine
  BY DEF LineInv, JobsTyped, Collect, InState
<1>1. jobs' = [jobs EXCEPT ![i] = [cmd |-> jobs[i].cmd, state |-> "collected",
                                   rc |-> jobs[i].rc, cleanup |-> jobs[i].cleanup]]
  <2>1. jobs' = [jobs EXCEPT ![i] = [jobs[i] EXCEPT !.state = "collected"]]
    BY DEF Collect
  <2>2. [jobs[i] EXCEPT !.state = "collected"]
          = [cmd |-> jobs[i].cmd, state |-> "collected", rc |-> jobs[i].rc,
             cleanup |-> jobs[i].cleanup]
    BY <1>0, StateMoves DEF JobTyped
  <2> QED
    BY <2>1, <2>2
<1>2. /\ JobsTyped' /\ DOMAIN jobs' = DOMAIN jobs
      /\ jobs'[i].state = "collected" /\ jobs'[i].rc = jobs[i].rc
      /\ jobs'[i].cleanup = jobs[i].cleanup
      /\ \A k \in DOMAIN jobs : k # i => jobs'[k] = jobs[k]
  <2>1. JobsTyped
    BY DEF LineInv
  <2>2. /\ jobs[i].rc \in {0, 2} /\ jobs[i].cleanup \in BOOLEAN
        /\ jobs[i].cleanup => jobs[i].rc = 0
    BY <1>0 DEF JobTyped
  <2> QED
    BY <1>1, <2>1, <2>2, JobMoves DEF JobStates
<1>3. /\ exit' = jobs[i].rc /\ cleanup' = (cleanup \/ jobs[i].cleanup)
      /\ phase' = IF jobs[i].rc # 0 THEN "shutdown" ELSE "collect"
  BY DEF Collect
<1>4. jobs[i].rc = 0 => CollectedAreFine'
  BY <1>0, <1>2, <1>3 DEF CollectedAreFine
<1>5. jobs[i].rc # 0 => LoopHasEnded'
  BY <1>2, <1>3 DEF LoopHasEnded
<1>6. ExitCodeIsRight' /\ Unscheduled'
  BY <1>3 DEF ExitCodeIsRight, Unscheduled
<1>7. jobs[i].rc \in {0, 2} /\ jobs[i].cleanup \in BOOLEAN
  BY <1>0 DEF JobTyped
<1> QED
  BY <1>2, <1>3, <1>4, <1>5, <1>6, <1>7 DEF LineInv, LinePhases

LEMMA ShutdownStep ==
    ASSUME LineInv, Shutdown
    PROVE  LineInv'
<1>1. /\ phase \in {"shutdown", "failing"} /\ UNCHANGED <<jobs, exit, cleanup>>
      /\ phase' = IF phase = "failing" THEN "raised" ELSE "done"
      /\ cleaned' = (phase = "shutdown" /\ cleanup)
      /\ InState("queued") \cup InState("running") = {}
  BY DEF Shutdown
<1>2. JobsTyped' /\ \A s : InState(s)' = InState(s)
  BY <1>1 DEF LineInv, JobsTyped, JobTyped, InState
<1>3. ExitCodeIsRight'
  <2>1. CASE phase = "failing"
    BY <1>1, <1>2, <2>1 DEF LineInv, ExitCodeIsRight
  <2>2. CASE phase = "shutdown"
    <3>1. LoopHasEnded
      BY <2>2 DEF LineInv
    <3>2. exit = 0 <=> \A i \in DOMAIN jobs : jobs[i].state # "broken" /\ jobs[i].rc = 0
      BY <3>1 DEF LoopHasEnded, CollectedAreFine, InState
    <3>3. exit = 0 /\ (\E i \in DOMAIN jobs : jobs[i].cleanup) => cleaned'
      BY <1>1, <2>2, <3>1 DEF LoopHasEnded, CollectedAreFine, InState
    <3> QED
      BY <1>1, <1>2, <2>2, <3>2, <3>3 DEF ExitCodeIsRight
  <2> QED
    BY <1>1, <2>1, <2>2
<1> QED
  BY <1>1, <1>2, <1>3 DEF LineInv, LinePhases, Unscheduled

LEMMA ScheduleStep ==
    ASSUME LineInv, Schedule
    PROVE  LineInv'
<1> DEFINE p == Parsed(cmdLine)
           command(i) == Append(BaseCmdLine(cmdLine, Sources(p)),
                                Sources(p)[i].lang \o Sources(p)[i].file)
<1>1. phase = "expand" /\ exit = 0 /\ ~cleanup /\ jobs = <<>>
  BY DEF LineInv, Unscheduled, Schedule
<1>2. UNCHANGED <<exit, cleanup, cleaned>>
  BY DEF Schedule
<1>3. CASE phase' = "raised" /\ UNCHANGED jobs
  BY <1>1, <1>2, <1>3 DEF LineInv, LinePhases, JobsTyped, JobTyped, Unscheduled, ExitCodeIsRight
<1>4. CASE phase' = "collect" /\ jobs' = [i \in DOMAIN Sources(p) |-> Submitted(command(i))]
  <2> HIDE DEF p, command
  <2>1. DOMAIN jobs' = DOMAIN Sources(p)
    BY <1>4
  <2>2. \A i \in DOMAIN jobs' : jobs'[i] = Submitted(command(i))
    BY <1>4
  <2>3. JobsTyped'
    BY <1>4, <2>1, <2>2 DEF JobsTyped, JobTyped, JobStates, Submitted
  <2>4. CollectedAreFine'
    BY <1>1, <1>2, <2>1, <2>2 DEF CollectedAreFine, Submitted
  <2> QED
    BY <1>1, <1>2, <1>4, <2>3, <2>4 DEF LineInv, LinePhases, Unscheduled, ExitCodeIsRight
<1>5. (phase' = "raised" /\ UNCHANGED jobs)
      \/ (phase' = "collect" /\ jobs' = [i \in DOMAIN Sources(p) |-> Submitted(command(i))])
  BY DEF Schedule
<1> QED
  BY <1>3, <1>4, <1>5

LEMMA LineStep == LineInv /\ [LineNext]_lineVars => LineInv'
<1> SUFFICES ASSUME LineInv, [LineNext]_lineVars PROVE LineInv'
  OBVIOUS
<1>1. ASSUME UNCHANGED results,
             \/ phase' = phase
             \/ /\ phase \in {"CL", "_CL_", "file", "expand"}
                /\ phase' \in {"_CL_", "file", "expand", "raised"}
             \/ phase = "collect" /\ phase' = "failing" /\ InState("broken") # {}
             \/ phase = "collect" /\ phase' = "shutdown" /\ InState("collected") = DOMAIN jobs
      PROVE  LineInv'
  <2>1. UNCHANGED <<jobs, exit, cleanup, cleaned>>
    BY <1>1 DEF results
  <2>2. JobsTyped' /\ \A s : InState(s)' = InState(s)
    BY <2>1 DEF LineInv, JobsTyped, JobTyped, InState
  <2>3. (CollectedAreFine => CollectedAreFine') /\ (LoopHasEnded => LoopHasEnded')
    BY <2>1, <2>2 DEF CollectedAreFine, LoopHasEnded
  <2>4. ExitCodeIsRight'
    BY <1>1, <2>1, <2>2 DEF LineInv, ExitCodeIsRight, Unscheduled
  <2>5. phase' = "shutdown" => LoopHasEnded'
    BY <1>1, <2>1, <2>2, <2>3 DEF LineInv, LoopHasEnded
  <2> QED
    BY <1>1, <2>1, <2>2, <2>3, <2>4, <2>5 DEF LineInv, LinePhases, Unscheduled
<1>2. CASE UNCHANGED lineVars
  BY <1>1, <1>2 DEF lineVars, results
<1>3. CASE Character \/ Prepend \/ Extend \/ Keep \/ ReadFile \/ Include \/ ExpandFails
  BY <1>1, <1>3 DEF Character, Prepend, Extend, Keep, ReadFile, Include, ExpandFails, results
<1>4. CASE PassOn
  <2>1. /\ phase = "expand" /\ UNCHANGED <<jobs, cleanup, cleaned>>
        /\ (phase' = "raised" /\ UNCHANGED exit) \/ (phase' = "passed" /\ exit' \in {0, 2})
    BY <1>4 DEF PassOn
  <2>2. jobs = <<>> /\ ~cleanup
    BY <2>1 DEF LineInv, Unscheduled
  <2> QED
    BY <2>1, <2>2 DEF LineInv, LinePhases, JobsTyped, JobTyped, Unscheduled, ExitCodeIsRight
<1>5. CASE Schedule
  BY <1>5, ScheduleStep
<1>6. CASE CollectEnds
  BY <1>1, <1>6 DEF CollectEnds
<1>7. CASE Shutdown
  BY <1>7, ShutdownStep
<1>8. ASSUME NEW i \in DOMAIN jobs,
             JobStarts(i) \/ JobEnds(i) \/ JobBreaks(i) \/ Collect(i) \/ CollectFails(i)
      PROVE  LineInv'
  <2>1. CASE JobStarts(i) \/ JobEnds(i) \/ JobBreaks(i)
    BY <2>1, WorkerStep
  <2>2. CASE Collect(i)
    BY <2>2, CollectStep
  <2>3. CASE CollectFails(i)
    BY <1>1, <2>3 DEF CollectFails
  <2> QED
    BY <1>8, <2>1, <2>2, <2>3
<1> QED
  BY <1>2, <1>3, <1>4, <1>5, <1>6, <1>7, <1>8 DEF LineNext

\* The invariant of the jobs holds for ever.
LEMMA AlwaysLine == LineSpec => []LineInv
<1>1. LineInit => LineInv
  <2> SUFFICES ASSUME LineInit PROVE LineInv
    OBVIOUS
  <2>1. /\ phase = "CL" /\ jobs = <<>> /\ exit = 0 /\ cleanup = FALSE
    BY DEF LineInit
  <2>2. JobsTyped
    <3>1. DOMAIN jobs = {} /\ jobs = [i \in 1 .. Len(jobs) |-> jobs[i]]
      BY <2>1
    <3>2. DOMAIN jobs = 1 .. Len(jobs)
      BY <2>1
    <3> QED
      BY <3>1, <3>2 DEF JobsTyped
  <2> QED
    BY <2>1, <2>2 DEF LineInv, LinePhases, Unscheduled, ExitCodeIsRight
<1> QED
  BY <1>1, LineStep, PTL DEF LineSpec

\* For any command lines, any number of sources and of workers, and in whatever
\* order the jobs end: the exit code is 0 only if every source was compiled, the
\* cleanup that a job asked for has then been done, and no job is left behind.
THEOREM ExitCodeTells == LineSpec => []ExitCodeIsRight
<1>1. LineInv => ExitCodeIsRight
  BY DEF LineInv
<1> QED
  BY <1>1, AlwaysLine, PTL

-----------------------------------------------------------------------------
(* A command file is a text that is written word by word and read back      *)

\* Every nonempty set of natural numbers has a least element.
LEMMA LeastElement ==
    ASSUME NEW T, T \subseteq Nat, T # {}
    PROVE  \E x \in T : \A y \in T : x <= y
<1> DEFINE R == {ss \in Nat \X Nat : ss[1] < ss[2]}
<1>1. IsWellFoundedOn(R, Nat)
  <2>1. R = OpToRel(<, Nat)
    BY DEF OpToRel
  <2> QED
    BY <2>1, NatLessThanWellFounded
<1> HIDE DEF R
<1>2. PICK x \in T : \A y \in T : ~ (<<y, x>> \in R)
  BY <1>1, WFMin, Zenon
<1>3. ASSUME NEW y \in T PROVE x <= y
  <2>1. x \in Nat /\ y \in Nat
    OBVIOUS
  <2>2. ~(y < x)
    BY <1>2, <2>1 DEF R
  <2> QED
    BY <2>1, <2>2
<1> QED
  BY <1>3

\* Induction, about a set instead of a property.
LEMMA Counting ==
    ASSUME NEW a \in Nat, NEW n \in Nat, NEW S,
           a \in S, \A i \in a .. n - 1 : i \in S => i + 1 \in S
    PROVE  \A i \in a .. n : i \in S
<1> DEFINE bad == {i \in a .. n : i \notin S}
<1> SUFFICES ASSUME bad # {} PROVE FALSE
  OBVIOUS
<1>1. PICK m \in bad : \A i \in bad : m <= i
  <2>1. bad \subseteq Nat
    OBVIOUS
  <2> HIDE DEF bad
  <2> QED
    BY <2>1, LeastElement
<1>2. m \in a .. n /\ m # a
  BY <1>1
<1>3. m - 1 \in a .. n - 1 /\ ~ (m <= m - 1) /\ (m - 1) + 1 = m
  BY <1>2
<1>4. m - 1 \in S
  BY <1>1, <1>3
<1> QED
  BY <1>1, <1>3, <1>4

-----------------------------------------------------------------------------
(* Lists that are joined.                                                  *)

\* Where each of the lists of s begins and ends
Offsets(s, off) ==
    /\ off \in [0 .. Len(s) -> Nat] /\ off[0] = 0
    /\ \A i \in 1 .. Len(s) : off[i] = off[i - 1] + Len(s[i])

\* c is the words of s one after the other, each ending where off says
Joined(s, off, c) ==
    /\ Len(c) = off[Len(s)]
    /\ \A i \in 1 .. Len(s) : \A j \in 1 .. Len(s[i]) : c[off[i - 1] + j] = s[i][j]

\* The first m beginnings of s, joined
Beginnings(s, m, w) ==
    /\ w[1] = s[1]
    /\ \A i \in 1 .. m - 1 : w[i + 1] = w[i] \o s[i + 1]

\* What two sequences are one after the other, place by place.
LEMMA ConcatLaid ==
    ASSUME NEW T, NEW s \in Seq(T), NEW t \in Seq(T)
    PROVE  /\ s \o t \in Seq(T) /\ Len(s \o t) = Len(s) + Len(t)
           /\ \A i \in 1 .. Len(s) : (s \o t)[i] = s[i]
           /\ \A i \in 1 .. Len(t) : (s \o t)[Len(s) + i] = t[i]
<1>1. /\ s \o t \in Seq(T) /\ Len(s \o t) = Len(s) + Len(t)
      /\ \A i \in 1 .. Len(s) + Len(t) : (s \o t)[i] = IF i <= Len(s) THEN s[i] ELSE t[i - Len(s)]
  BY ConcatProperties
<1>2. ASSUME NEW i \in 1 .. Len(s) PROVE i \in 1 .. Len(s) + Len(t) /\ i <= Len(s)
  OBVIOUS
<1>3. ASSUME NEW i \in 1 .. Len(t)
      PROVE  /\ Len(s) + i \in 1 .. Len(s) + Len(t) /\ ~ (Len(s) + i <= Len(s))
             /\ (Len(s) + i) - Len(s) = i
  OBVIOUS
<1> QED
  BY <1>1, <1>2, <1>3

\* For every nonempty sequence of words there is the sequence of what is written so far.
LEMMA BeginningsExist ==
    ASSUME NEW T, NEW s \in Seq(Seq(T)), s # <<>>
    PROVE  \E w \in [1 .. Len(s) -> Seq(T)] : Beginnings(s, Len(s), w)
<1> DEFINE n == Len(s)
           S == {m \in Nat : \E w \in [1 .. m -> Seq(T)] : Beginnings(s, m, w)}
<1>0. n \in Nat \ {0} /\ \A i \in 1 .. n : s[i] \in Seq(T)
  OBVIOUS
<1> HIDE DEF n
<1>1. 1 \in S
  <2> DEFINE v == [i \in 1 .. 1 |-> s[1]]
  <2>1. v \in [1 .. 1 -> Seq(T)]
    BY <1>0
  <2>2. Beginnings(s, 1, v)
    BY DEF Beginnings
  <2> QED
    BY <2>1, <2>2
<1>2. ASSUME NEW m \in 1 .. n - 1, m \in S PROVE m + 1 \in S
  <2>0. m \in Nat /\ m + 1 \in 1 .. n
    BY <1>0
  <2>1. PICK w \in [1 .. m -> Seq(T)] : Beginnings(s, m, w)
    BY <1>2
  <2> DEFINE v == [i \in 1 .. m + 1 |-> IF i = m + 1 THEN w[m] \o s[m + 1] ELSE w[i]]
  <2>2. w[m] \o s[m + 1] \in Seq(T)
    <3>1. w[m] \in Seq(T) /\ s[m + 1] \in Seq(T)
      BY <1>0, <2>0
    <3> QED
      BY <3>1
  <2>3. v \in [1 .. m + 1 -> Seq(T)]
    BY <2>0, <2>2
  <2>4. v[1] = s[1]
    BY <2>0, <2>1 DEF Beginnings
  <2>5. ASSUME NEW i \in 1 .. m PROVE v[i + 1] = v[i] \o s[i + 1]
    <3>1. v[i] = w[i]
      OBVIOUS
    <3>2. CASE i = m
      <4>1. v[m + 1] = w[m] \o s[m + 1]
        BY <2>0
      <4> QED
        BY <3>1, <3>2, <4>1
    <3>3. CASE i # m
      <4>1. i \in 1 .. m - 1 /\ i + 1 \in 1 .. m + 1 /\ i + 1 # m + 1
        BY <2>0, <3>3
      <4>2. v[i + 1] = w[i + 1]
        BY <4>1
      <4>3. w[i + 1] = w[i] \o s[i + 1]
        BY <2>1, <4>1 DEF Beginnings
      <4> QED
        BY <3>1, <4>2, <4>3
    <3> QED
      BY <3>2, <3>3
  <2> HIDE DEF v
  <2>6. Beginnings(s, m + 1, v)
    <3>1. (m + 1) - 1 = m
      BY <2>0
    <3> QED
      BY <2>4, <2>5, <3>1 DEF Beginnings
  <2> QED
    BY <2>0, <2>3, <2>6
<1> HIDE DEF S
<1>3. n \in S
  <2>1. \A i \in 1 .. n : i \in S
    BY <1>0, <1>1, <1>2, Counting
  <2> QED
    BY <1>0, <2>1
<1> QED
  BY <1>3 DEF n, S

\* FlattenSeq of a list that is not empty is the last of its beginnings.
LEMMA FlattenIsLast ==
    ASSUME NEW T, NEW s \in Seq(Seq(T)), s # <<>>
    PROVE  \E w \in [1 .. Len(s) -> Seq(T)] :
             Beginnings(s, Len(s), w) /\ FlattenSeq(s) = w[Len(s)]
<1> DEFINE n == Len(s)
           Eqn(g) == g = [i \in 1 .. n |-> IF i = 1 THEN s[i] ELSE g[i - 1] \o s[i]]
           g == CHOOSE g : Eqn(g)
<1>0. n \in Nat \ {0} /\ \A i \in 1 .. n : s[i] \in Seq(T)
  OBVIOUS
<1>1. PICK w \in [1 .. n -> Seq(T)] : Beginnings(s, n, w)
  BY BeginningsExist
<1>2. FlattenSeq(s) = g[n]
  BY <1>0 DEF FlattenSeq
<1> HIDE DEF n
<1>3. Eqn(w)
  <2>1. w = [i \in 1 .. n |-> w[i]]
    BY <1>1
  <2>2. ASSUME NEW i \in 1 .. n PROVE w[i] = IF i = 1 THEN s[i] ELSE w[i - 1] \o s[i]
    <3>1. CASE i = 1
      BY <1>1, <3>1 DEF Beginnings
    <3>2. CASE i # 1
      <4>1. i - 1 \in 1 .. n - 1 /\ (i - 1) + 1 = i
        BY <1>0, <3>2
      <4> QED
        BY <1>1, <3>2, <4>1 DEF Beginnings
    <3> QED
      BY <3>1, <3>2
  <2> QED
    BY <2>1, <2>2
<1>4. Eqn(g)
  BY <1>3
<1> HIDE DEF g
<1>5. g = [i \in 1 .. n |-> IF i = 1 THEN s[i] ELSE g[i - 1] \o s[i]]
  BY <1>4
<1>6. g[1] = s[1] /\ \A i \in 1 .. n - 1 : g[i + 1] = g[i] \o s[i + 1]
  <2>1. g[1] = s[1]
    <3>1. 1 \in 1 .. n
      BY <1>0
    <3> QED
      BY <1>5, <3>1
  <2>2. ASSUME NEW i \in 1 .. n - 1 PROVE g[i + 1] = g[i] \o s[i + 1]
    <3>1. i + 1 \in 1 .. n /\ i + 1 # 1 /\ (i + 1) - 1 = i
      BY <1>0
    <3> QED
      BY <1>5, <3>1
  <2> QED
    BY <2>1, <2>2
<1>7. \A i \in 1 .. n : g[i] \in Seq(T)
  <2> DEFINE S == {i \in 1 .. n : g[i] \in Seq(T)}
  <2>1. 1 \in S
    <3>1. 1 \in 1 .. n
      BY <1>0
    <3> QED
      BY <1>0, <1>6, <3>1
  <2>2. ASSUME NEW i \in 1 .. n - 1, i \in S PROVE i + 1 \in S
    <3>1. i + 1 \in 1 .. n
      BY <1>0
    <3>2. g[i] \in Seq(T) /\ s[i + 1] \in Seq(T)
      BY <1>0, <2>2, <3>1
    <3>3. g[i] \o s[i + 1] \in Seq(T)
      BY <3>2
    <3> QED
      BY <1>6, <3>1, <3>3
  <2> HIDE DEF S
  <2>3. \A i \in 1 .. n : i \in S
    BY <1>0, <2>1, <2>2, Counting
  <2> QED
    BY <2>3 DEF S
<1>8. g \in [1 .. n -> Seq(T)]
  BY <1>5, <1>7
<1> QED
  BY <1>2, <1>6, <1>8 DEF n, Beginnings

\* What FlattenSeq gives: each element of each list, where its list begins.
LEMMA FlattenJoins ==
    ASSUME NEW T, NEW s \in Seq(Seq(T))
    PROVE  /\ FlattenSeq(s) \in Seq(T)
           /\ \E off : Offsets(s, off) /\ Joined(s, off, FlattenSeq(s))
<1>1. CASE s = <<>>
  <2> DEFINE off == [i \in 0 .. 0 |-> 0]
  <2>1. FlattenSeq(s) = <<>>
    BY <1>1 DEF FlattenSeq
  <2>2. Offsets(s, off) /\ Joined(s, off, <<>>)
    BY <1>1 DEF Offsets, Joined
  <2>3. <<>> \in Seq(T)
    OBVIOUS
  <2> QED
    BY <2>1, <2>2, <2>3
<1>2. CASE s # <<>>
  <2> DEFINE n == Len(s)
  <2>0. n \in Nat \ {0} /\ \A i \in 1 .. n : s[i] \in Seq(T)
    BY <1>2
  <2>1. PICK w \in [1 .. n -> Seq(T)] : Beginnings(s, n, w) /\ FlattenSeq(s) = w[n]
    BY <1>2, FlattenIsLast
  <2> DEFINE off == [i \in 0 .. n |-> IF i = 0 THEN 0 ELSE Len(w[i])]
             S == {m \in 1 .. n : /\ Len(w[m]) = off[m]
                                  /\ \A i \in 1 .. m : off[i] <= off[m]
                                  /\ \A i \in 1 .. m : \A j \in 1 .. Len(s[i]) :
                                       w[m][off[i - 1] + j] = s[i][j]}
  <2> HIDE DEF n
  <2>2. off \in [0 .. n -> Nat] /\ off[0] = 0 /\ \A i \in 1 .. n : off[i] = Len(w[i])
    BY <2>0
  <2> HIDE DEF off
  <2>3. ASSUME NEW i \in 1 .. n PROVE off[i] = off[i - 1] + Len(s[i])
    <3>1. CASE i = 1
      BY <2>0, <2>1, <2>2, <3>1 DEF Beginnings
    <3>2. CASE i # 1
      <4>1. i - 1 \in 1 .. n - 1 /\ i - 1 \in 1 .. n /\ (i - 1) + 1 = i
        BY <2>0, <3>2
      <4>2. w[i] = w[i - 1] \o s[i]
        BY <2>1, <4>1 DEF Beginnings
      <4>3. w[i - 1] \in Seq(T) /\ s[i] \in Seq(T)
        BY <2>0, <4>1
      <4>4. Len(w[i]) = Len(w[i - 1]) + Len(s[i])
        BY <4>2, <4>3
      <4>5. off[i - 1] = Len(w[i - 1])
        BY <2>2, <4>1
      <4> QED
        BY <2>2, <4>4, <4>5
    <3> QED
      BY <3>1, <3>2
  <2>4. Offsets(s, off)
    BY <2>2, <2>3 DEF Offsets, n
  <2>5. 1 \in S
    <3>1. 1 \in 1 .. n /\ off[1 - 1] = 0
      BY <2>0, <2>2
    <3>2. w[1] = s[1]
      BY <2>1 DEF Beginnings
    <3>3. ASSUME NEW i \in 1 .. 1, NEW j \in 1 .. Len(s[i])
          PROVE  w[1][off[i - 1] + j] = s[i][j]
      <4>1. i = 1
        OBVIOUS
      <4>2. j \in Nat /\ 0 + j = j /\ off[i - 1] = 0
        BY <2>0, <2>2, <4>1
      <4> QED
        BY <3>2, <4>1, <4>2
    <3>4. \A i \in 1 .. 1 : off[i] <= off[1]
      BY <2>2, <3>1
    <3> QED
      BY <2>2, <3>1, <3>3, <3>4
  <2>6. ASSUME NEW m \in 1 .. n - 1, m \in S PROVE m + 1 \in S
    <3>1. m \in 1 .. n /\ m + 1 \in 1 .. n /\ (m + 1) - 1 = m
      BY <2>0
    <3>2. w[m] \in Seq(T) /\ s[m + 1] \in Seq(T) /\ w[m + 1] = w[m] \o s[m + 1]
      BY <2>0, <2>1, <3>1 DEF Beginnings
    <3>3. /\ \A x \in 1 .. Len(w[m]) : w[m + 1][x] = w[m][x]
          /\ \A j \in 1 .. Len(s[m + 1]) : w[m + 1][Len(w[m]) + j] = s[m + 1][j]
          /\ Len(w[m + 1]) = Len(w[m]) + Len(s[m + 1])
      <4> DEFINE a == w[m]  b == s[m + 1]  ab == w[m + 1]
      <4>1. a \in Seq(T) /\ b \in Seq(T) /\ ab = a \o b
        BY <3>2
      <4> HIDE DEF a, b, ab
      <4>2. /\ \A x \in 1 .. Len(a) : ab[x] = a[x]
            /\ \A j \in 1 .. Len(b) : ab[Len(a) + j] = b[j]
            /\ Len(ab) = Len(a) + Len(b)
        BY <4>1, ConcatLaid
      <4> QED
        BY <4>2 DEF a, b, ab
    <3>4. ASSUME NEW i \in 1 .. m + 1, NEW j \in 1 .. Len(s[i])
          PROVE  w[m + 1][off[i - 1] + j] = s[i][j]
      <4>1. CASE i = m + 1
        <5>1. off[i - 1] = Len(w[m])
          BY <2>2, <3>1, <4>1
        <5> QED
          BY <3>3, <4>1, <5>1
      <4>2. CASE i # m + 1
        <5>1. i \in 1 .. m /\ i \in 1 .. n /\ i - 1 \in 0 .. n
          BY <2>0, <4>2
        <5>2. w[m][off[i - 1] + j] = s[i][j]
          BY <2>6, <5>1
        <5>3. off[i - 1] + j <= off[i] /\ off[i] <= off[m]
          <6>1. off[i] = off[i - 1] + Len(s[i]) /\ off[i] <= off[m]
            BY <2>3, <2>6, <5>1
          <6>2. s[i] \in Seq(T) /\ off[i - 1] \in Nat
            BY <2>0, <2>2, <5>1
          <6> QED
            BY <6>1, <6>2
        <5>4. off[i - 1] + j \in 1 .. Len(w[m])
          <6>1. s[i] \in Seq(T) /\ off[i - 1] \in Nat /\ off[i] \in Nat /\ off[m] = Len(w[m])
            BY <2>0, <2>2, <3>1, <5>1
          <6> QED
            BY <5>3, <6>1
        <5> QED
          BY <3>3, <5>2, <5>4
      <4> QED
        BY <4>1, <4>2
    <3>5. ASSUME NEW i \in 1 .. m + 1 PROVE off[i] <= off[m + 1]
      <4>1. off[m + 1] = off[m] + Len(s[m + 1]) /\ off[m] \in Nat /\ off[m + 1] \in Nat
        BY <2>2, <2>3, <3>1
      <4>2. CASE i = m + 1
        BY <4>1, <4>2
      <4>3. CASE i # m + 1
        <5>1. i \in 1 .. m /\ i \in 0 .. n
          BY <2>0, <4>3
        <5>2. off[i] \in Nat /\ off[i] <= off[m]
          BY <2>2, <2>6, <5>1
        <5> QED
          BY <3>2, <4>1, <5>2
      <4> QED
        BY <4>2, <4>3
    <3> QED
      BY <2>2, <3>1, <3>4, <3>5
  <2> HIDE DEF S
  <2>7. n \in S
    <3>1. \A i \in 1 .. n : i \in S
      BY <2>0, <2>5, <2>6, Counting
    <3> QED
      BY <2>0, <3>1
  <2>8. Joined(s, off, w[n])
    BY <2>2, <2>7 DEF Joined, S, n
  <2>9. w[n] \in Seq(T)
    BY <2>0
  <2> QED
    BY <2>1, <2>4, <2>8, <2>9
<1> QED
  BY <1>1, <1>2

\* The words of a text come one after the other.
LEMMA OffsetsGrow ==
    ASSUME NEW T, NEW s \in Seq(Seq(T)), NEW off, Offsets(s, off),
           NEW i \in 0 .. Len(s), NEW j \in i .. Len(s)
    PROVE  off[i] <= off[j]
<1> DEFINE n == Len(s)
           S == {m \in i .. n : off[i] <= off[m]}
<1>0. n \in Nat /\ i \in Nat /\ \A m \in 0 .. n : off[m] \in Nat
  <2>1. n \in Nat
    OBVIOUS
  <2>2. off \in [0 .. n -> Nat]
    BY DEF Offsets
  <2> QED
    BY <2>1, <2>2
<1> HIDE DEF n
<1>1. i \in S
  BY <1>0 DEF n
<1>2. ASSUME NEW m \in i .. n - 1, m \in S PROVE m + 1 \in S
  <2>1. m \in 0 .. n /\ m + 1 \in 1 .. n /\ m + 1 \in 0 .. n /\ m + 1 \in i .. n /\ (m + 1) - 1 = m
    BY <1>0
  <2>2. off[m + 1] = off[m] + Len(s[m + 1])
    BY <2>1 DEF Offsets, n
  <2>3. Len(s[m + 1]) \in Nat
    BY <2>1 DEF n
  <2>4. off[i] \in Nat /\ off[m] \in Nat /\ off[i] <= off[m]
    BY <1>0, <1>2, <2>1 DEF n
  <2> QED
    BY <2>1, <2>2, <2>3, <2>4
<1> HIDE DEF S
<1>3. \A m \in i .. n : m \in S
  BY <1>0, <1>1, <1>2, Counting
<1> QED
  BY <1>3 DEF S, n

-----------------------------------------------------------------------------
(* What the text of a list of words looks like.                            *)

\* An atom that is written with a backslash before it
Doubled(w, i, quoted) == w[i] = Mark \/ (w[i] = Backslash /\ BeforeMark(w, i, quoted))

\* The atoms of w begin after the position e[0] of the text c, and the first k
\* of them end at e[k]
AtomsAt(c, w, quoted, e) ==
    \A k \in 1 .. Len(w) :
        IF Doubled(w, k, quoted)
        THEN e[k] = e[k - 1] + 2 /\ c[e[k - 1] + 1] = Backslash /\ c[e[k - 1] + 2] = w[k]
        ELSE e[k] = e[k - 1] + 1 /\ c[e[k - 1] + 1] = w[k]

\* A word that begins after the position b and ends at z
WordAt(c, w, b, z, quoted, e) ==
    /\ quoted \in BOOLEAN /\ e \in [0 .. Len(w) -> Nat]
    /\ AtomsAt(c, w, quoted, e)
    /\ quoted => /\ e[0] = b + 1 /\ z = e[Len(w)] + 1
                 /\ c[b + 1] = Mark /\ c[z] = Mark
    /\ ~quoted => /\ e[0] = b /\ z = e[Len(w)]
                  /\ w # <<>> /\ Blank \notin ToSet(w)

\* The words of a list, with blanks between them
Layout(c, words, at, off, quoted, e) ==
    /\ off \in [0 .. Len(words) -> Nat] /\ off[0] = 0 /\ off[Len(words)] = Len(c)
    /\ at \in [1 .. Len(words) -> Nat]
    /\ \A i \in 1 .. Len(words) :
         /\ IF i = 1 THEN at[i] = 0 ELSE at[i] > off[i - 1]
         /\ \A x \in off[i - 1] + 1 .. at[i] : c[x] = Blank
         /\ WordAt(c, words[i], at[i], off[i], quoted[i], e[i])

\* joinCommandLine: the escaped word is the atoms of the word one after the other.
LEMMA EscapedIsLaid ==
    ASSUME NEW A, NEW w \in Seq(A), NEW quoted \in BOOLEAN, Mark \in A, Backslash \in A
    PROVE  /\ Escaped(w, quoted) \in Seq(A)
           /\ \E e : /\ e \in [0 .. Len(w) -> Nat] /\ e[0] = 0
                     /\ Len(Escaped(w, quoted)) = e[Len(w)]
                     /\ AtomsAt(Escaped(w, quoted), w, quoted, e)
<1> DEFINE n == Len(w)
           s == [i \in 1 .. n |-> IF Doubled(w, i, quoted) THEN <<Backslash, w[i]>> ELSE <<w[i]>>]
           c == Escaped(w, quoted)
<1>1. n \in Nat /\ \A i \in 1 .. n : w[i] \in A
  OBVIOUS
<1>2. c = FlattenSeq(s)
  BY DEF Escaped, Doubled, n, s, c
<1> HIDE DEF n, c
<1>3. \A i \in 1 .. n : s[i] = IF Doubled(w, i, quoted) THEN <<Backslash, w[i]>> ELSE <<w[i]>>
  OBVIOUS
<1>4. s \in Seq(Seq(A)) /\ Len(s) = n
  <2>1. \A i \in 1 .. n : <<Backslash, w[i]>> \in Seq(A) /\ <<w[i]>> \in Seq(A)
    BY <1>1
  <2> QED
    BY <1>1, <2>1
<1> HIDE DEF s
<1>5. PICK e : Offsets(s, e) /\ Joined(s, e, c)
  BY <1>2, <1>4, FlattenJoins
<1>6. c \in Seq(A)
  BY <1>2, <1>4, FlattenJoins
<1>7. /\ e \in [0 .. n -> Nat] /\ e[0] = 0 /\ Len(c) = e[n]
      /\ \A i \in 1 .. n : e[i] = e[i - 1] + Len(s[i])
      /\ \A i \in 1 .. n : \A j \in 1 .. Len(s[i]) : c[e[i - 1] + j] = s[i][j]
  BY <1>4, <1>5 DEF Offsets, Joined
<1>8. ASSUME NEW k \in 1 .. n
      PROVE  IF Doubled(w, k, quoted)
             THEN e[k] = e[k - 1] + 2 /\ c[e[k - 1] + 1] = Backslash /\ c[e[k - 1] + 2] = w[k]
             ELSE e[k] = e[k - 1] + 1 /\ c[e[k - 1] + 1] = w[k]
  <2>1. CASE Doubled(w, k, quoted)
    <3>1. s[k] = <<Backslash, w[k]>>
      BY <1>3, <2>1
    <3>2. Len(s[k]) = 2 /\ s[k][1] = Backslash /\ s[k][2] = w[k]
      BY <3>1
    <3>3. 1 \in 1 .. Len(s[k]) /\ 2 \in 1 .. Len(s[k])
      BY <3>2
    <3>4. c[e[k - 1] + 1] = s[k][1] /\ c[e[k - 1] + 2] = s[k][2]
      BY <1>7, <3>3
    <3> QED
      BY <1>7, <2>1, <3>2, <3>4
  <2>2. CASE ~Doubled(w, k, quoted)
    <3>1. s[k] = <<w[k]>>
      BY <1>3, <2>2
    <3>2. Len(s[k]) = 1 /\ s[k][1] = w[k]
      BY <3>1
    <3> QED
      BY <1>7, <2>2, <3>2
  <2> QED
    BY <2>1, <2>2
<1> QED
  BY <1>6, <1>7, <1>8 DEF AtomsAt, n, c

\* The text c2 has from d on what c has, up to where w ends
Shifted(c, c2, d, e, f, w) ==
    /\ \A x \in 1 .. e[Len(w)] : c2[d + x] = c[x]
    /\ \A k \in 0 .. Len(w) : f[k] = d + e[k]

\* Moved by d, the atoms are where they were.
LEMMA AtomsMove ==
    ASSUME NEW A, NEW w \in Seq(A), NEW quoted \in BOOLEAN, NEW c, NEW c2, NEW d \in Nat,
           NEW e \in [0 .. Len(w) -> Nat], AtomsAt(c, w, quoted, e),
           NEW f, Shifted(c, c2, d, e, f, w)
    PROVE  AtomsAt(c2, w, quoted, f)
<1> DEFINE n == Len(w)
           S == {m \in 0 .. n : \A k \in 0 .. m : e[k] <= e[m]}
<1> USE DEF Shifted
<1>0. n \in Nat
  OBVIOUS
<1> HIDE DEF n
<1>1. \A m \in 0 .. n : m \in S
  <2>1. 0 \in S
    BY <1>0
  <2>2. ASSUME NEW m \in 0 .. n - 1, m \in S PROVE m + 1 \in S
    <3>1. m + 1 \in 1 .. n /\ m + 1 \in 0 .. n /\ (m + 1) - 1 = m /\ m \in 0 .. n
      BY <1>0
    <3>2. e[m + 1] = e[m] + 2 \/ e[m + 1] = e[m] + 1
      BY <3>1 DEF AtomsAt, n
    <3>3. e[m] \in Nat
      BY <3>1 DEF n
    <3>4. ASSUME NEW k \in 0 .. m + 1 PROVE e[k] <= e[m + 1]
      <4>1. CASE k = m + 1
        BY <3>1, <4>1
      <4>2. CASE k # m + 1
        <5>1. k \in 0 .. m /\ k \in 0 .. n
          BY <1>0, <4>2
        <5>2. e[k] <= e[m] /\ e[k] \in Nat
          BY <2>2, <5>1 DEF n
        <5> QED
          BY <3>2, <3>3, <5>2
      <4> QED
        BY <4>1, <4>2
    <3> QED
      BY <3>1, <3>4
  <2> HIDE DEF S
  <2> QED
    BY <1>0, <2>1, <2>2, Counting
<1>2. ASSUME NEW k \in 1 .. n
      PROVE  IF Doubled(w, k, quoted)
             THEN f[k] = f[k - 1] + 2 /\ c2[f[k - 1] + 1] = Backslash /\ c2[f[k - 1] + 2] = w[k]
             ELSE f[k] = f[k - 1] + 1 /\ c2[f[k - 1] + 1] = w[k]
  <2>1. k \in 0 .. n /\ k - 1 \in 0 .. n /\ n \in 0 .. n
    BY <1>0
  <2>2. f[k] = d + e[k] /\ f[k - 1] = d + e[k - 1]
    BY <2>1 DEF n
  <2>3. e[k] \in Nat /\ e[k - 1] \in Nat /\ e[n] \in Nat /\ e[k] <= e[n]
    BY <1>1, <2>1 DEF n
  <2>4. IF Doubled(w, k, quoted)
        THEN e[k] = e[k - 1] + 2 /\ c[e[k - 1] + 1] = Backslash /\ c[e[k - 1] + 2] = w[k]
        ELSE e[k] = e[k - 1] + 1 /\ c[e[k - 1] + 1] = w[k]
    BY DEF AtomsAt, n
  <2> HIDE DEF S
  <2>5. CASE Doubled(w, k, quoted)
    <3>1. e[k - 1] + 1 \in 1 .. e[n] /\ e[k - 1] + 2 \in 1 .. e[n]
      <4>1. \A x, z \in Nat : x + 2 <= z => x + 1 \in 1 .. z /\ x + 2 \in 1 .. z
        OBVIOUS
      <4>2. e[k - 1] + 2 <= e[n]
        BY <2>3, <2>4, <2>5
      <4> QED
        BY <2>3, <4>1, <4>2
    <3>2. c2[d + (e[k - 1] + 1)] = Backslash /\ c2[d + (e[k - 1] + 2)] = w[k]
      BY <2>4, <2>5, <3>1 DEF n
    <3>3. d + (e[k - 1] + 1) = f[k - 1] + 1 /\ d + (e[k - 1] + 2) = f[k - 1] + 2
      <4>1. \A x \in Nat : d + (x + 1) = (d + x) + 1 /\ d + (x + 2) = (d + x) + 2
        OBVIOUS
      <4> QED
        BY <2>2, <2>3, <4>1
    <3>4. f[k] = f[k - 1] + 2
      <4>1. f[k] = d + (e[k - 1] + 2)
        BY <2>2, <2>4, <2>5
      <4> QED
        BY <3>3, <4>1
    <3> QED
      BY <2>5, <3>2, <3>3, <3>4
  <2>6. CASE ~Doubled(w, k, quoted)
    <3>1. e[k - 1] + 1 \in 1 .. e[n]
      BY <2>3, <2>4, <2>6
    <3>2. c2[d + (e[k - 1] + 1)] = w[k]
      BY <2>4, <2>6, <3>1 DEF n
    <3>3. d + (e[k - 1] + 1) = f[k - 1] + 1 /\ f[k] = f[k - 1] + 1
      BY <2>2, <2>3, <2>4, <2>6
    <3> QED
      BY <2>6, <3>2, <3>3
  <2> QED
    BY <2>5, <2>6
<1> QED
  BY <1>2 DEF AtomsAt, n

\* A word that is written elsewhere in a text is written there.
LEMMA WordMoves ==
    ASSUME NEW A, NEW w \in Seq(A), NEW quoted, NEW c, NEW c2, NEW d \in Nat, NEW z \in Nat, NEW e,
           WordAt(c, w, 0, z, quoted, e), \A x \in 1 .. z : c2[d + x] = c[x]
    PROVE  \E f : WordAt(c2, w, d, d + z, quoted, f)
<1> DEFINE n == Len(w)
           f == [k \in 0 .. n |-> d + e[k]]
<1>0. n \in Nat /\ quoted \in BOOLEAN /\ e \in [0 .. n -> Nat] /\ AtomsAt(c, w, quoted, e)
  BY DEF WordAt
<1>1. e[n] \in Nat /\ e[0] \in Nat /\ f[0] = d + e[0] /\ f[n] = d + e[n]
  BY <1>0
<1>2. f \in [0 .. n -> Nat]
  BY <1>0
<1> HIDE DEF n
<1>3. e[n] <= z
  BY <1>1 DEF WordAt, n
<1>4. \A x \in 1 .. e[n] : c2[d + x] = c[x]
  BY <1>1, <1>3
<1>5. AtomsAt(c2, w, quoted, f)
  <2>1. \A k \in 0 .. Len(w) : f[k] = d + e[k]
    BY DEF n
  <2> HIDE DEF f
  <2>2. /\ quoted \in BOOLEAN /\ e \in [0 .. Len(w) -> Nat] /\ AtomsAt(c, w, quoted, e)
        /\ \A x \in 1 .. e[Len(w)] : c2[d + x] = c[x]
    BY <1>0, <1>4 DEF n
  <2>3. Shifted(c, c2, d, e, f, w)
    BY <2>1, <2>2 DEF Shifted
  <2> QED
    BY <2>2, <2>3, AtomsMove
<1> HIDE DEF f
<1>6. CASE quoted
  <2>1. e[0] = 1 /\ z = e[n] + 1 /\ c[1] = Mark /\ c[z] = Mark
    BY <1>6 DEF WordAt, n
  <2>2. 1 \in 1 .. z /\ z \in 1 .. z
    BY <1>1, <2>1
  <2>3. c2[d + 1] = Mark /\ c2[d + z] = Mark
    BY <2>1, <2>2
  <2>4. d + z = f[n] + 1 /\ f[0] = d + 1
    <3>1. d + (e[n] + 1) = (d + e[n]) + 1
      BY <1>1
    <3> QED
      BY <1>1, <2>1, <3>1
  <2>5. WordAt(c2, w, d, d + z, quoted, f)
    BY <1>0, <1>2, <1>5, <1>6, <2>3, <2>4 DEF WordAt, n
  <2> QED
    BY <2>5
<1>7. CASE ~quoted
  <2>1. e[0] = 0 /\ z = e[n] /\ w # <<>> /\ Blank \notin ToSet(w)
    BY <1>7 DEF WordAt, n
  <2>2. d + z = f[n] /\ f[0] = d
    BY <1>1, <2>1
  <2>3. WordAt(c2, w, d, d + z, quoted, f)
    BY <1>0, <1>2, <1>5, <1>7, <2>1, <2>2 DEF WordAt, n
  <2> QED
    BY <2>3
<1> QED
  BY <1>0, <1>6, <1>7

\* What is written of one word is that word, with quotes or without.
LEMMA WrittenIsLaid ==
    ASSUME NEW A, NEW w \in Seq(A), NEW all \in BOOLEAN, Mark \in A, Backslash \in A
    PROVE  /\ Written(w, all) \in Seq(A)
           /\ \E quoted, e : WordAt(Written(w, all), w, 0, Len(Written(w, all)), quoted, e)
<1> DEFINE n == Len(w)
           between == all \/ w = <<>> \/ Blank \in ToSet(w)
           c == Written(w, all)
<1>0. n \in Nat
  OBVIOUS
<1> HIDE DEF n
<1>1. CASE between
  <2> DEFINE b == Escaped(w, TRUE)
  <2>1. PICK e : /\ e \in [0 .. n -> Nat] /\ e[0] = 0 /\ Len(b) = e[n]
                 /\ AtomsAt(b, w, TRUE, e)
    BY EscapedIsLaid DEF n
  <2>2. b \in Seq(A)
    BY EscapedIsLaid
  <2>3. c = <<Mark>> \o b \o <<Mark>>
    BY <1>1 DEF Written
  <2> HIDE DEF b, c, between
  <2>4. /\ c \in Seq(A) /\ Len(c) = e[n] + 2
        /\ c[1] = Mark /\ c[e[n] + 2] = Mark /\ \A x \in 1 .. e[n] : c[1 + x] = b[x]
    <3> DEFINE m == <<Mark>>  mb == m \o b
    <3>1. m \in Seq(A) /\ Len(m) = 1 /\ m[1] = Mark
      OBVIOUS
    <3>2. e[n] \in Nat
      BY <1>0, <2>1
    <3> HIDE DEF m
    <3>3. /\ mb \in Seq(A) /\ Len(mb) = 1 + e[n] /\ mb[1] = Mark
          /\ \A x \in 1 .. e[n] : mb[1 + x] = b[x]
      <4>1. /\ mb \in Seq(A) /\ Len(mb) = Len(m) + Len(b)
            /\ \A x \in 1 .. Len(m) : mb[x] = m[x]
            /\ \A x \in 1 .. Len(b) : mb[Len(m) + x] = b[x]
        <5>1. m \in Seq(A)
          BY <3>1
        <5> QED
          BY <2>2, <5>1, ConcatLaid
      <4>2. 1 \in 1 .. Len(m)
        BY <3>1
      <4> QED
        BY <2>1, <3>1, <4>1, <4>2
    <3> HIDE DEF mb
    <3>4. c = mb \o m
      BY <2>3 DEF mb, m
    <3>5. /\ c \in Seq(A) /\ Len(c) = Len(mb) + Len(m)
          /\ \A x \in 1 .. Len(mb) : c[x] = mb[x]
          /\ \A x \in 1 .. Len(m) : c[Len(mb) + x] = m[x]
      <4>1. /\ mb \o m \in Seq(A) /\ Len(mb \o m) = Len(mb) + Len(m)
            /\ \A x \in 1 .. Len(mb) : (mb \o m)[x] = mb[x]
            /\ \A x \in 1 .. Len(m) : (mb \o m)[Len(mb) + x] = m[x]
        <5>1. m \in Seq(A) /\ mb \in Seq(A)
          BY <3>1, <3>3
        <5> QED
          BY ONLY <5>1, ConcatLaid
      <4> QED
        BY <3>4, <4>1
    <3>6. Len(c) = e[n] + 2 /\ c[e[n] + 2] = Mark
      <4>1. 1 \in 1 .. Len(m) /\ (1 + e[n]) + 1 = e[n] + 2
        BY <3>1, <3>2
      <4> QED
        BY <3>1, <3>3, <3>5, <4>1
    <3>7. 1 \in 1 .. Len(mb) /\ \A x \in 1 .. e[n] : 1 + x \in 1 .. Len(mb)
      BY <3>2, <3>3
    <3> QED
      BY <3>3, <3>5, <3>6, <3>7
  <2> DEFINE f == [k \in 0 .. n |-> 1 + e[k]]
  <2>5. AtomsAt(c, w, TRUE, f)
    <3>1. /\ e \in [0 .. Len(w) -> Nat] /\ \A x \in 1 .. e[Len(w)] : c[1 + x] = b[x]
          /\ AtomsAt(b, w, TRUE, e) /\ TRUE \in BOOLEAN /\ 1 \in Nat /\ w \in Seq(A)
      BY <2>1, <2>4 DEF n
    <3>2. \A k \in 0 .. Len(w) : f[k] = 1 + e[k]
      BY DEF n
    <3> HIDE DEF f
    <3>3. Shifted(b, c, 1, e, f, w)
      BY <3>1, <3>2 DEF Shifted
    <3> QED
      BY <3>1, <3>3, AtomsMove
  <2>6. f \in [0 .. n -> Nat] /\ f[0] = 0 + 1 /\ Len(c) = f[n] + 1
    <3>1. e[n] \in Nat /\ f[n] = 1 + e[n] /\ f[0] = 1
      BY <1>0, <2>1
    <3>2. f \in [0 .. n -> Nat]
      BY <2>1
    <3> QED
      BY <2>4, <3>1, <3>2
  <2>7. c[0 + 1] = Mark /\ c[Len(c)] = Mark
    BY <2>4
  <2> HIDE DEF f
  <2>8. WordAt(c, w, 0, Len(c), TRUE, f)
    BY <2>5, <2>6, <2>7 DEF WordAt, n
  <2> QED
    BY <2>4, <2>8 DEF c
<1>2. CASE ~between
  <2>1. c = Escaped(w, FALSE)
    BY <1>2 DEF Written
  <2>2. PICK e : /\ e \in [0 .. n -> Nat] /\ e[0] = 0 /\ Len(c) = e[n]
                 /\ AtomsAt(c, w, FALSE, e)
    BY <2>1, EscapedIsLaid DEF n
  <2>3. c \in Seq(A)
    BY <2>1, EscapedIsLaid
  <2>4. w # <<>> /\ Blank \notin ToSet(w)
    BY <1>2
  <2> HIDE DEF c, between
  <2>5. WordAt(c, w, 0, Len(c), FALSE, e)
    BY <2>2, <2>4 DEF WordAt, n
  <2> QED
    BY <2>3, <2>5 DEF c
<1> QED
  BY <1>1, <1>2

\* The text of a list of words has the words one after the other, with blanks between.
LEMMA TextIsLaid ==
    ASSUME NEW words, WordList(words), NEW all \in BOOLEAN
    PROVE  /\ \E A : /\ Mark \in A /\ Backslash \in A
                     /\ words \in Seq(Seq(A)) /\ Text(words, all) \in Seq(A)
           /\ \E at, off, quoted, e : Layout(Text(words, all), words, at, off, quoted, e)
<1> DEFINE n == Len(words)
           A == (UNION {ToSet(w) : w \in ToSet(words)}) \cup {Blank, Mark, Backslash}
           sep(i) == IF i = 1 THEN <<>> ELSE IF all THEN <<Blank, Blank>> ELSE <<Blank>>
           written(i) == Written(words[i], all)
           s == [i \in 1 .. n |-> sep(i) \o written(i)]
           c == Text(words, all)
<1>0. n \in Nat /\ words \in Seq(ToSet(words)) /\ Mark \in A /\ Backslash \in A /\ Blank \in A
  <2>1. words \in Seq(ToSet(words))
    BY DEF WordList
  <2>2. n \in Nat
    BY <2>1
  <2>3. Mark \in A /\ Backslash \in A /\ Blank \in A
    OBVIOUS
  <2> HIDE DEF n, A
  <2> QED
    BY <2>1, <2>2, <2>3
<1>1. \A i \in 1 .. n : words[i] \in Seq(A)
  <2> SUFFICES ASSUME NEW i \in 1 .. n PROVE words[i] \in Seq(A)
    OBVIOUS
  <2>1. words[i] \in ToSet(words)
    BY <1>0 DEF ToSet
  <2>2. words[i] \in Seq(ToSet(words[i])) /\ ToSet(words[i]) \subseteq A
    BY <2>1 DEF WordList
  <2> QED
    BY <2>2, SeqMonotonic
<1>2. c = FlattenSeq(s)
  BY Zenon DEF Text
<1> HIDE DEF n, A, c
<1>3. \A i \in 1 .. n : written(i) \in Seq(A)
  BY <1>0, <1>1, WrittenIsLaid
<1>4. \A i \in 1 .. n : \E q, e : WordAt(written(i), words[i], 0, Len(written(i)), q, e)
  BY <1>0, <1>1, WrittenIsLaid
<1> HIDE DEF written
<1>5. \A i \in 1 .. n : /\ sep(i) \in Seq(A) /\ Len(sep(i)) \in Nat
                        /\ (i = 1) = (Len(sep(i)) = 0)
                        /\ \A x \in 1 .. Len(sep(i)) : sep(i)[x] = Blank
  <2> SUFFICES ASSUME NEW i \in 1 .. n
               PROVE  /\ sep(i) \in Seq(A) /\ Len(sep(i)) \in Nat
                      /\ (i = 1) = (Len(sep(i)) = 0)
                      /\ \A x \in 1 .. Len(sep(i)) : sep(i)[x] = Blank
    OBVIOUS
  <2>1. CASE i = 1
    BY <2>1
  <2>2. CASE i # 1 /\ all
    BY <1>0, <2>2
  <2>3. CASE i # 1 /\ ~all
    BY <1>0, <2>3
  <2> QED
    BY <2>1, <2>2, <2>3
<1> HIDE DEF sep
<1>6. ASSUME NEW i \in 1 .. n
      PROVE  /\ s[i] \in Seq(A) /\ Len(s[i]) = Len(sep(i)) + Len(written(i))
             /\ \A x \in 1 .. Len(sep(i)) : s[i][x] = Blank
             /\ \A x \in 1 .. Len(written(i)) : s[i][Len(sep(i)) + x] = written(i)[x]
             /\ Len(written(i)) \in Nat
  <2> DEFINE a == sep(i)  b == written(i)
  <2>1. s[i] = a \o b
    OBVIOUS
  <2>2. a \in Seq(A) /\ b \in Seq(A) /\ \A x \in 1 .. Len(a) : a[x] = Blank
    BY <1>3, <1>5
  <2> HIDE DEF s, a, b
  <2>3. /\ s[i] \in Seq(A) /\ Len(s[i]) = Len(a) + Len(b) /\ Len(b) \in Nat
        /\ \A x \in 1 .. Len(a) : s[i][x] = a[x]
        /\ \A x \in 1 .. Len(b) : s[i][Len(a) + x] = b[x]
    BY <2>1, <2>2, ConcatLaid
  <2> QED
    BY <2>2, <2>3 DEF a, b
<1>7. s \in Seq(Seq(A)) /\ Len(s) = n
  BY <1>0, <1>6
<1> HIDE DEF s
<1>8. PICK off : Offsets(s, off) /\ Joined(s, off, c)
  BY <1>2, <1>7, FlattenJoins
<1>9. /\ off \in [0 .. n -> Nat] /\ off[0] = 0 /\ off[n] = Len(c)
      /\ \A i \in 1 .. n : off[i] = off[i - 1] + (Len(sep(i)) + Len(written(i)))
      /\ \A i \in 1 .. n : \A j \in 1 .. Len(s[i]) : c[off[i - 1] + j] = s[i][j]
  BY <1>6, <1>7, <1>8 DEF Offsets, Joined
<1> DEFINE at == [i \in 1 .. n |-> off[i - 1] + Len(sep(i))]
           Fits(i, q, e) == WordAt(c, words[i], at[i], off[i], q, e)
           quoted == [i \in 1 .. n |-> CHOOSE q : \E e : Fits(i, q, e)]
           places == [i \in 1 .. n |-> CHOOSE e : Fits(i, quoted[i], e)]
<1>10. ASSUME NEW i \in 1 .. n
       PROVE  /\ at[i] \in Nat /\ (IF i = 1 THEN at[i] = 0 ELSE at[i] > off[i - 1])
              /\ \A x \in off[i - 1] + 1 .. at[i] : c[x] = Blank
              /\ \E q, e : Fits(i, q, e)
  <2>0. i - 1 \in 0 .. n /\ i \in 0 .. n
    BY <1>0
  <2>1. off[i - 1] \in Nat /\ off[i] \in Nat /\ at[i] = off[i - 1] + Len(sep(i)) /\ Len(sep(i)) \in Nat
    BY <1>5, <1>9, <2>0
  <2> HIDE DEF at
  <2>2. IF i = 1 THEN at[i] = 0 ELSE at[i] > off[i - 1]
    BY <1>5, <1>9, <2>1
  <2>3. at[i] \in Nat
    BY <2>1
  <2>4. ASSUME NEW x \in off[i - 1] + 1 .. at[i] PROVE c[x] = Blank
    <3>1. x - off[i - 1] \in 1 .. Len(sep(i)) /\ x = off[i - 1] + (x - off[i - 1])
      BY <2>1
    <3>2. x - off[i - 1] \in 1 .. Len(s[i])
      BY <1>5, <1>6, <3>1
    <3>3. c[off[i - 1] + (x - off[i - 1])] = s[i][x - off[i - 1]]
      BY <1>9, <3>2
    <3> QED
      BY <1>6, <3>1, <3>3
  <2>5. PICK q, e : WordAt(written(i), words[i], 0, Len(written(i)), q, e)
    BY <1>4
  <2>6. ASSUME NEW x \in 1 .. Len(written(i)) PROVE c[at[i] + x] = written(i)[x]
    <3>1. Len(sep(i)) + x \in 1 .. Len(s[i])
      BY <1>6, <2>1
    <3>2. c[off[i - 1] + (Len(sep(i)) + x)] = s[i][Len(sep(i)) + x]
      BY <1>9, <3>1
    <3>3. off[i - 1] + (Len(sep(i)) + x) = at[i] + x
      <4>1. \A a, b \in Nat : a + (b + x) = (a + b) + x
        OBVIOUS
      <4> QED
        BY <2>1, <4>1
    <3> QED
      BY <1>6, <3>2, <3>3
  <2>7. off[i] = at[i] + Len(written(i))
    <3>1. \A a, b, d \in Nat : a + (b + d) = (a + b) + d
      OBVIOUS
    <3> QED
      BY <1>6, <1>9, <2>1, <3>1
  <2>8. \E f : WordAt(c, words[i], at[i], at[i] + Len(written(i)), q, f)
    <3>1. words[i] \in Seq(A) /\ Len(written(i)) \in Nat
      BY <1>1, <1>6
    <3> DEFINE v == written(i)  z == Len(written(i))  d == at[i]
    <3>2. /\ z \in Nat /\ d \in Nat /\ WordAt(v, words[i], 0, z, q, e)
          /\ \A x \in 1 .. z : c[d + x] = v[x]
      BY <2>3, <2>5, <2>6, <3>1
    <3> HIDE DEF v, z, d
    <3>3. \E f : WordAt(c, words[i], d, d + z, q, f)
      BY <3>1, <3>2, WordMoves
    <3> QED
      BY <3>3 DEF z, d
  <2> QED
    BY <2>2, <2>3, <2>4, <2>7, <2>8
<1>11. \A i \in 1 .. n : WordAt(c, words[i], at[i], off[i], quoted[i], places[i])
  <2> SUFFICES ASSUME NEW i \in 1 .. n PROVE Fits(i, quoted[i], places[i])
    OBVIOUS
  <2>1. \E q, e : Fits(i, q, e)
    BY <1>10
  <2> HIDE DEF Fits
  <2>2. \E e : Fits(i, quoted[i], e)
    BY <2>1
  <2> QED
    BY <2>2
<1>12. at \in [1 .. n -> Nat]
  BY <1>10
<1> HIDE DEF at, quoted, places
<1>13. Layout(c, words, at, off, quoted, places)
  BY <1>9, <1>10, <1>11, <1>12 DEF Layout, n
<1>14. words \in Seq(Seq(A)) /\ c \in Seq(A)
  <2>1. words \in Seq(Seq(A))
    BY <1>0, <1>1 DEF n
  <2>2. c \in Seq(A)
    BY <1>2, <1>7, FlattenJoins
  <2> QED
    BY <2>1, <2>2
<1> QED
  BY <1>0, <1>13, <1>14 DEF c

\* The atoms of a word come one after the other.
LEMMA AtomsGrow ==
    ASSUME NEW A, NEW w \in Seq(A), NEW quoted \in BOOLEAN, NEW c,
           NEW e \in [0 .. Len(w) -> Nat], AtomsAt(c, w, quoted, e),
           NEW k \in 0 .. Len(w), NEW m \in k .. Len(w)
    PROVE  e[k] <= e[m] /\ (k < m => e[k] < e[m])
<1> DEFINE n == Len(w)
           S == {x \in k .. n : e[k] <= e[x] /\ (k < x => e[k] < e[x])}
<1>0. n \in Nat /\ k \in Nat /\ k \in 0 .. n /\ m \in k .. n
  OBVIOUS
<1>1. \A x \in 0 .. n : e[x] \in Nat
  OBVIOUS
<1> HIDE DEF n
<1>2. k \in S
  BY <1>0, <1>1
<1>3. ASSUME NEW x \in k .. n - 1, x \in S PROVE x + 1 \in S
  <2>1. x + 1 \in 1 .. n /\ x + 1 \in k .. n /\ (x + 1) - 1 = x /\ x \in 0 .. n /\ x + 1 \in 0 .. n
    BY <1>0
  <2>2. e[x + 1] = e[x] + 2 \/ e[x + 1] = e[x] + 1
    BY <2>1 DEF AtomsAt, n
  <2>3. e[x] \in Nat /\ e[k] \in Nat /\ e[x + 1] \in Nat /\ e[k] <= e[x]
    BY <1>0, <1>1, <1>3, <2>1
  <2> QED
    BY <2>1, <2>2, <2>3
<1> HIDE DEF S
<1>4. \A x \in k .. n : x \in S
  BY <1>0, <1>2, <1>3, Counting
<1> QED
  BY <1>0, <1>4 DEF S

\* A run of r backslashes, seen by _parseBackslash
LEMMA RunIs ==
    ASSUME NEW c, NEW n \in Nat, NEW p \in Nat \ {0}, NEW r \in Nat, p + r <= n + 1,
           \A x \in p .. (p + r) - 1 : c[x] = Backslash,
           p + r <= n => c[p + r] # Backslash
    PROVE  Cardinality({i \in p .. n : \A j \in p .. i : c[j] = Backslash}) = r
<1> DEFINE run == {i \in p .. n : \A j \in p .. i : c[j] = Backslash}
<1>1. run = p .. (p + r) - 1
  <2>1. ASSUME NEW i \in p .. (p + r) - 1 PROVE i \in run
    <3>1. i \in p .. n /\ \A j \in p .. i : j \in p .. (p + r) - 1
      OBVIOUS
    <3> QED
      BY <3>1
  <2>2. ASSUME NEW i \in run PROVE i \in p .. (p + r) - 1
    <3>1. CASE i >= p + r
      <4>1. p + r \in p .. i /\ p + r <= n
        BY <3>1
      <4> QED
        BY <4>1
    <3>2. CASE i < p + r
      BY <3>2
    <3> QED
      BY <3>1, <3>2
  <2> HIDE DEF run
  <2> QED
    BY <2>1, <2>2
<1>2. Cardinality(p .. (p + r) - 1) = r
  <2>1. p \in Int /\ p + r - 1 \in Int
    OBVIOUS
  <2>2. Cardinality(p .. (p + r) - 1) = IF p > p + r - 1 THEN 0 ELSE (p + r - 1) - p + 1
    BY <2>1, FS_Interval
  <2> QED
    BY <2>2
<1> QED
  BY <1>1, <1>2

\* What a word gains by the atoms that follow its first k
LEMMA TokenGrows ==
    ASSUME NEW A, NEW w \in Seq(A), NEW k \in 0 .. Len(w), NEW m \in k .. Len(w),
           NEW t \in Seq(A), Len(t) = m - k, \A x \in 1 .. m - k : t[x] = w[k + x]
    PROVE  SubSeq(w, 1, k) \o t = SubSeq(w, 1, m)
<1> DEFINE n == Len(w)  a == SubSeq(w, 1, k)  b == SubSeq(w, 1, m)
<1>0. n \in Nat /\ k \in Nat /\ m \in Nat /\ k <= m /\ m <= n
  OBVIOUS
<1>1. a \in Seq(A) /\ Len(a) = k /\ \A x \in 1 .. k : a[x] = w[x]
  OBVIOUS
<1>2. b \in Seq(A) /\ Len(b) = m /\ \A x \in 1 .. m : b[x] = w[x]
  OBVIOUS
<1> HIDE DEF a, b, n
<1>3. /\ a \o t \in Seq(A) /\ Len(a \o t) = Len(a) + Len(t)
      /\ \A x \in 1 .. Len(a) : (a \o t)[x] = a[x]
      /\ \A x \in 1 .. Len(t) : (a \o t)[Len(a) + x] = t[x]
  <2>1. a \in Seq(A) /\ t \in Seq(A)
    BY <1>1
  <2> QED
    BY ONLY <2>1, ConcatLaid
<1> DEFINE at == a \o t
<1>4. at \in Seq(A) /\ Len(at) = m
  BY <1>0, <1>1, <1>3
<1>5. ASSUME NEW x \in 1 .. m PROVE at[x] = b[x]
  <2>1. CASE x <= k
    <3>1. x \in 1 .. k /\ x \in 1 .. m /\ x \in 1 .. Len(a)
      BY <1>0, <1>1, <2>1
    <3>2. at[x] = a[x]
      BY <1>3, <3>1
    <3> QED
      BY <1>1, <1>2, <3>1, <3>2
  <2>2. CASE ~(x <= k)
    <3>1. x - k \in 1 .. m - k /\ k + (x - k) = x
      BY <1>0, <2>2
    <3>2. x - k \in 1 .. Len(t) /\ Len(a) = k
      BY <1>1, <3>1
    <3>3. at[Len(a) + (x - k)] = t[x - k]
      BY <1>3, <3>2
    <3>4. t[x - k] = w[k + (x - k)]
      BY <3>1
    <3>5. b[x] = w[x]
      BY <1>2
    <3> QED
      BY <3>1, <3>2, <3>3, <3>4, <3>5
  <2> QED
    BY <2>1, <2>2
<1> HIDE DEF at
<1>6. at = b
  BY <1>2, <1>4, <1>5, SeqEqual
<1> QED
  BY <1>6 DEF at, a, b

\* Behind its k-th atom the word w has j - k backslashes, which are written
\* twice if a quotation mark follows them.
RunAt(c, w, quoted, e, k, j, twice) ==
    /\ j \in k .. Len(w) /\ twice \in BOOLEAN
    /\ twice = IF j = Len(w) THEN quoted ELSE w[j + 1] = Mark
    /\ j < Len(w) => w[j + 1] # Backslash
    /\ \A x \in k + 1 .. j : w[x] = Backslash
    /\ e[j] = e[k] + IF twice THEN (j - k) + (j - k) ELSE j - k
    /\ \A p \in e[k] + 1 .. e[j] : c[p] = Backslash
    /\ j = k => twice

\* A mark or a backslash of a word stands in a run of backslashes of that word.
LEMMA RunInWord ==
    ASSUME NEW A, NEW w \in Seq(A), NEW quoted \in BOOLEAN, NEW c,
           NEW e \in [0 .. Len(w) -> Nat], AtomsAt(c, w, quoted, e),
           NEW k \in 0 .. Len(w) - 1, w[k + 1] \in {Mark, Backslash}
    PROVE  \E j, twice : RunAt(c, w, quoted, e, k, j, twice)
<1> DEFINE n == Len(w)
           others == {x \in k + 1 .. n : w[x] # Backslash}
<1>0. n \in Nat /\ k \in Nat /\ k < n /\ \A x \in 0 .. n : e[x] \in Nat
  OBVIOUS
<1> HIDE DEF n
<1>1. PICK j \in k .. n : /\ \A x \in k + 1 .. j : w[x] = Backslash
                          /\ j < n => w[j + 1] # Backslash
                          /\ j < n => \A x \in others : j + 1 <= x
                          /\ j < n => j + 1 \in others
                          /\ j = n => others = {}
  <2>1. CASE others = {}
    <3>1. n \in k .. n /\ ~(n < n)
      BY <1>0
    <3>2. \A x \in k + 1 .. n : w[x] = Backslash
      BY <2>1
    <3> HIDE DEF others
    <3> QED
      BY <2>1, <3>1, <3>2
  <2>2. CASE others # {}
    <3>1. others \subseteq Nat
      BY <1>0
    <3>2. PICK x \in others : \A y \in others : x <= y
      BY <2>2, <3>1, LeastElement
    <3>3. x - 1 \in k .. n /\ (x - 1) + 1 = x /\ x - 1 < n
      BY <1>0
    <3>4. \A y \in k + 1 .. x - 1 : w[y] = Backslash
      <4>1. ASSUME NEW y \in k + 1 .. x - 1, w[y] # Backslash PROVE FALSE
        <5>1. y \in others /\ ~(x <= y)
          BY <1>0, <4>1
        <5> QED
          BY <3>2, <5>1
      <4> QED
        BY <4>1
    <3>5. w[x] # Backslash /\ x - 1 # n
      BY <1>0, <3>3
    <3> HIDE DEF others
    <3> QED
      BY <3>2, <3>3, <3>4, <3>5
  <2> QED
    BY <2>1, <2>2
<1> DEFINE twice == IF j = n THEN quoted ELSE w[j + 1] = Mark
<1>2. ASSUME NEW i \in k + 1 .. j PROVE Doubled(w, i, quoted) = twice
  <2> DEFINE after == {x \in i .. n : w[x] # Backslash}
  <2>1. w[i] = Backslash /\ w[i] # Mark
    BY <1>1 DEF Backslash, Mark
  <2>2. BeforeMark(w, i, quoted) = (IF after = {} THEN quoted
             ELSE \E x \in after : w[x] = Mark /\ \A y \in after : x <= y)
    BY DEF BeforeMark, n
  <2>3. after = others
    <3>1. ASSUME NEW x \in others PROVE x \in i .. n
      <4>1. x \in k + 1 .. n /\ x \notin k + 1 .. j
        BY <1>1
      <4> QED
        BY <1>0, <4>1
    <3>2. ASSUME NEW x \in i .. n PROVE x \in k + 1 .. n
      BY <1>0
    <3> QED
      BY <3>1, <3>2
  <2>4. CASE j = n
    BY <1>1, <2>1, <2>2, <2>3, <2>4 DEF Doubled
  <2>5. CASE j # n
    <3>1. j < n /\ j + 1 \in others /\ \A y \in others : j + 1 <= y
      BY <1>0, <1>1, <2>5
    <3> HIDE DEF after, others
    <3>2. BeforeMark(w, i, quoted) = (w[j + 1] = Mark)
      <4>1. ASSUME NEW x \in others, \A y \in others : x <= y PROVE x = j + 1
        <5>1. x <= j + 1 /\ j + 1 <= x /\ x \in Nat
          BY <1>0, <3>1, <4>1 DEF others
        <5> QED
          BY <1>0, <5>1
      <4>2. others # {}
        BY <3>1
      <4> QED
        BY <2>2, <2>3, <3>1, <4>1, <4>2
    <3> QED
      BY <2>1, <2>5, <3>2 DEF Doubled
  <2> QED
    BY <2>4, <2>5
<1>3. twice \in BOOLEAN
  OBVIOUS
<1>4. j = k => twice
  <2> SUFFICES ASSUME j = k PROVE twice
    OBVIOUS
  <2>1. j < n /\ j # n
    BY <1>0
  <2>2. w[j + 1] # Backslash
    BY <1>1, <2>1
  <2> QED
    BY <2>1, <2>2
<1> HIDE DEF twice, others
<1> DEFINE S == {x \in k .. j : /\ e[x] = e[k] + IF twice THEN (x - k) + (x - k) ELSE x - k
                                /\ \A p \in e[k] + 1 .. e[x] : c[p] = Backslash}
<1>5. k \in S
  <2>1. e[k] \in Nat /\ k - k = 0
    BY <1>0
  <2>2. e[k] = e[k] + IF twice THEN (k - k) + (k - k) ELSE k - k
    BY <2>1
  <2>3. k \in k .. j /\ \A p \in e[k] + 1 .. e[k] : FALSE
    BY <1>0, <2>1
  <2> QED
    BY <2>2, <2>3
<1>6. ASSUME NEW x \in k .. j - 1, x \in S PROVE x + 1 \in S
  <2>1. x + 1 \in k + 1 .. j /\ x + 1 \in 1 .. n /\ (x + 1) - 1 = x /\ x \in 0 .. n /\ x + 1 \in 0 .. n
    BY <1>0
  <2>2. Doubled(w, x + 1, quoted) = twice /\ w[x + 1] = Backslash
    BY <1>1, <1>2, <2>1
  <2>3. IF twice THEN e[x + 1] = e[x] + 2 /\ c[e[x] + 1] = Backslash /\ c[e[x] + 2] = Backslash
                 ELSE e[x + 1] = e[x] + 1 /\ c[e[x] + 1] = Backslash
    BY <2>1, <2>2 DEF AtomsAt, n
  <2>4. e[x] \in Nat /\ e[k] \in Nat /\ e[x + 1] \in Nat /\ x \in Nat
    BY <1>0, <2>1
  <2>5. /\ e[x] = e[k] + IF twice THEN (x - k) + (x - k) ELSE x - k
        /\ \A p \in e[k] + 1 .. e[x] : c[p] = Backslash
    BY <1>6
  <2>6. e[x + 1] = e[k] + IF twice THEN ((x + 1) - k) + ((x + 1) - k) ELSE (x + 1) - k
    <3>1. CASE twice
      <4>1. e[x + 1] = e[k] + ((x - k) + (x - k)) + 2
        BY <2>3, <2>5, <3>1
      <4> QED
        BY <1>0, <2>4, <3>1, <4>1
    <3>2. CASE ~twice
      <4>1. e[x + 1] = e[k] + (x - k) + 1
        BY <2>3, <2>5, <3>2
      <4> QED
        BY <1>0, <2>4, <3>2, <4>1
    <3> QED
      BY <3>1, <3>2
  <2>7. ASSUME NEW p \in e[k] + 1 .. e[x + 1] PROVE c[p] = Backslash
    <3>1. p \in e[k] + 1 .. e[x] \/ p = e[x] + 1 \/ (twice /\ p = e[x] + 2)
      BY <2>3, <2>4
    <3> QED
      BY <2>3, <2>5, <3>1
  <2>8. x + 1 \in k .. j
    BY <1>0, <2>1
  <2> QED
    BY <2>6, <2>7, <2>8
<1> HIDE DEF S
<1>7. j \in S
  <2>1. j \in Nat /\ j \in k .. j
    BY <1>0
  <2>2. \A x \in k .. j : x \in S
    BY <1>0, <1>5, <1>6, <2>1, Counting
  <2> QED
    BY <2>1, <2>2
<1>8. /\ e[j] = e[k] + IF twice THEN (j - k) + (j - k) ELSE j - k
      /\ \A p \in e[k] + 1 .. e[j] : c[p] = Backslash
  BY <1>7 DEF S
<1>9. twice = IF j = n THEN quoted ELSE w[j + 1] = Mark
  BY DEF twice
<1>10. RunAt(c, w, quoted, e, k, j, twice)
  BY <1>1, <1>3, <1>4, <1>8, <1>9 DEF n, RunAt
<1> QED
  BY <1>10

\* Scans of words over the atoms A
ScanRec(A) == [words : Seq(Seq(A)), content : Seq(A), pos : Nat \ {0}, token : Seq(A),
               argv : Seq(Seq(A)), parser : {"initial", "unquoted", "quoted"}]

\* What follows the token where the tokenizer has moved on within a word
MovedTo(s, token, pos) ==
    [s EXCEPT !.token = token, !.pos = pos,
              !.parser = IF s.parser = "quoted" THEN "quoted" ELSE "unquoted"]

\* _parseBackslash takes a run of r backslashes, and the quotation mark behind
\* an odd one.
LEMMA BackslashRun ==
    ASSUME NEW A, NEW s \in ScanRec(A), NEW r \in Nat \ {0},
           s.pos + r <= Len(s.content) + 1,
           \A x \in s.pos .. (s.pos + r) - 1 : s.content[x] = Backslash,
           s.pos + r <= Len(s.content) => s.content[s.pos + r] # Backslash,
           NEW marked, marked = (s.pos + r <= Len(s.content) /\ s.content[s.pos + r] = Mark)
    PROVE  Parse(s) = MovedTo(s,
             s.token \o Atoms(Backslash, IF marked THEN r \div 2 ELSE r)
                     \o (IF marked /\ r % 2 = 1 THEN <<Mark>> ELSE <<>>),
             IF marked /\ r % 2 = 1 THEN s.pos + r ELSE (s.pos + r) - 1)
<1> DEFINE c == s.content  p == s.pos  n == Len(c)
           token == s.token \o Atoms(Backslash, IF marked THEN r \div 2 ELSE r)
                            \o (IF marked /\ r % 2 = 1 THEN <<Mark>> ELSE <<>>)
           pos == IF marked /\ r % 2 = 1 THEN s.pos + r ELSE (s.pos + r) - 1
<1>1. c \in Seq(A) /\ p \in Nat \ {0} /\ n \in Nat
  BY DEF ScanRec
<1>2. Cardinality({i \in p .. n : \A j \in p .. i : c[j] = Backslash}) = r
  <2> HIDE DEF c, p, n
  <2> SUFFICES /\ p + r <= n + 1 /\ \A x \in p .. (p + r) - 1 : c[x] = Backslash
               /\ p + r <= n => c[p + r] # Backslash
    BY <1>1, RunIs
  <2> QED
    BY DEF c, p, n
<1>3. ParseBackslash(s) = [s EXCEPT !.token = token, !.pos = pos]
  <2> DEFINE follows == s.pos + r <= Len(s.content) /\ s.content[s.pos + r] = Mark
  <2>1. ParseBackslash(s) =
          [s EXCEPT !.token = @ \o Atoms(Backslash, IF follows THEN r \div 2 ELSE r)
                                \o (IF follows /\ r % 2 = 1 THEN <<Mark>> ELSE <<>>),
                    !.pos   = IF follows /\ r % 2 = 1 THEN s.pos + r ELSE (s.pos + r) - 1]
    BY <1>2, Zenon DEF ParseBackslash
  <2>2. marked <=> follows
    OBVIOUS
  <2> HIDE DEF follows
  <2>3. CASE marked
    BY <2>1, <2>2, <2>3
  <2>4. CASE ~marked
    BY <2>1, <2>2, <2>4
  <2> QED
    BY <2>3, <2>4
<1>4. c[p] = Backslash
  <2>1. p \in p .. (p + r) - 1
    BY <1>1
  <2> QED
    BY <2>1
<1>5. s.parser \in {"initial", "unquoted", "quoted"}
  BY DEF ScanRec
<1>6. Parse(s) = [ParseBackslash(s) EXCEPT !.parser = IF s.parser # "quoted" THEN "unquoted" ELSE "quoted"]
  BY <1>4 DEF Parse, Backslash, Mark, Blank
<1> HIDE DEF token, pos
<1>7. Parse(s) = MovedTo(s, token, pos)
  BY <1>3, <1>6 DEF MovedTo, ScanRec
<1> QED
  BY <1>7 DEF token, pos

\* Within a word, the tokenizer goes from the atoms it has to some more.
LEMMA WordStep ==
    ASSUME NEW A, Mark \in A, Backslash \in A,
           NEW w \in Seq(A), NEW quoted \in BOOLEAN, NEW s \in ScanRec(A), NEW b, NEW z \in Nat, NEW e,
           WordAt(s.content, w, b, z, quoted, e), z <= Len(s.content),
           ~quoted => z = Len(s.content) \/ s.content[z + 1] = Blank,
           NEW k \in 0 .. Len(w) - 1, s.pos = e[k] + 1, s.token = SubSeq(w, 1, k),
           (s.parser = "quoted") = quoted
    PROVE  \E m \in k + 1 .. Len(w) : Parse(s) = MovedTo(s, SubSeq(w, 1, m), e[m])
<1> DEFINE n == Len(w)  c == s.content
<1>0. n \in Nat /\ k \in Nat /\ k \in 0 .. n - 1 /\ \A x \in 1 .. n : w[x] \in A
  OBVIOUS
<1>1. c \in Seq(A) /\ Len(c) \in Nat /\ s.pos \in Nat /\ s.token \in Seq(A)
  BY DEF ScanRec
<1>2. e \in [0 .. n -> Nat] /\ AtomsAt(c, w, quoted, e)
  BY DEF WordAt
<1> HIDE DEF n, c
<1>3. k + 1 \in 1 .. n /\ (k + 1) - 1 = k /\ k \in 0 .. n /\ k + 1 \in k + 1 .. n /\ e[k] \in Nat
  BY <1>0, <1>2
<1>4. e[n] \in Nat /\ IF quoted THEN z = e[n] + 1 /\ c[z] = Mark ELSE z = e[n]
  BY <1>0, <1>2 DEF WordAt, n, c
<1>5. \A x \in 1 .. n : ~quoted => w[x] # Blank
  BY DEF WordAt, ToSet, n
<1>6. \A x \in 0 .. n : \A y \in x .. n : e[x] <= e[y] /\ (x < y => e[x] < e[y])
  BY <1>2, AtomsGrow DEF n
<1>7. CASE w[k + 1] \notin {Mark, Backslash}
  <2>1. c[e[k] + 1] = w[k + 1] /\ e[k + 1] = e[k] + 1
    BY <1>2, <1>3, <1>7 DEF AtomsAt, Doubled, n
  <2>2. ~quoted => w[k + 1] # Blank
    BY <1>3, <1>5
  <2>3. w[k + 1] \in A
    BY <1>0, <1>3
  <2>4. Parse(s) = MovedTo(s, Append(s.token, w[k + 1]), s.pos)
    BY <1>7, <2>1, <2>2 DEF Parse, MovedTo, ScanRec, c
  <2>5. Append(s.token, w[k + 1]) = SubSeq(w, 1, k + 1)
    <3>1. <<w[k + 1]>> \in Seq(A) /\ Len(<<w[k + 1]>>) = 1 /\ <<w[k + 1]>>[1] = w[k + 1]
      BY <2>3
    <3>2. Append(s.token, w[k + 1]) = s.token \o <<w[k + 1]>>
      BY <1>1, <2>3, AppendIsConcat
    <3> DEFINE t == <<w[k + 1]>>  m == k + 1
    <3>3. /\ k \in 0 .. Len(w) /\ m \in k .. Len(w) /\ t \in Seq(A) /\ Len(t) = m - k
          /\ \A x \in 1 .. m - k : t[x] = w[k + x]
      BY <1>0, <3>1 DEF n
    <3> HIDE DEF t, m
    <3>4. SubSeq(w, 1, k) \o t = SubSeq(w, 1, m)
      BY <3>3, TokenGrows
    <3> QED
      BY <3>2, <3>4 DEF t, m
  <2> QED
    BY <1>3, <2>1, <2>4, <2>5 DEF n
<1>8. CASE w[k + 1] \in {Mark, Backslash}
  <2>1. PICK j, twice : RunAt(c, w, quoted, e, k, j, twice)
    <3>1. e \in [0 .. Len(w) -> Nat] /\ AtomsAt(c, w, quoted, e) /\ w[k + 1] \in {Mark, Backslash}
      BY <1>2, <1>8 DEF n
    <3> QED
      BY <3>1, RunInWord
  <2>2. /\ j \in k .. n /\ twice \in BOOLEAN
        /\ twice = IF j = n THEN quoted ELSE w[j + 1] = Mark
        /\ j < n => w[j + 1] # Backslash
        /\ \A x \in k + 1 .. j : w[x] = Backslash
        /\ e[j] = e[k] + IF twice THEN (j - k) + (j - k) ELSE j - k
        /\ \A p \in e[k] + 1 .. e[j] : c[p] = Backslash
        /\ j = k => twice
    BY <2>1 DEF RunAt, n
  <2>3. j \in Nat /\ j \in 0 .. n /\ e[j] \in Nat /\ j - k \in Nat /\ (j < n \/ j = n)
    <3>1. j \in k .. n
      BY <2>2
    <3>2. j \in Nat /\ j \in 0 .. n /\ j - k \in Nat /\ (j < n \/ j = n)
      BY <1>0, <3>1
    <3> QED
      BY <1>2, <3>2
  <2> DEFINE d == j - k
  <2>4. d \in Nat /\ k + d = j /\ e[j] = e[k] + IF twice THEN d + d ELSE d
    BY <1>0, <2>2, <2>3
  <2>5. \A y \in Nat : Atoms(Backslash, y) \in [1 .. y -> {Backslash}]
    BY DEF Atoms
  <2>6. \A y \in Nat : /\ Atoms(Backslash, y) \in Seq(A) /\ Len(Atoms(Backslash, y)) = y
                       /\ \A x \in 1 .. y : Atoms(Backslash, y)[x] = Backslash
    BY DEF Atoms
  <2>7. \A x \in 1 .. d : w[k + x] = Backslash
    <3>1. ASSUME NEW x \in 1 .. d PROVE k + x \in k + 1 .. j
      BY <1>0, <2>3, <2>4
    <3> QED
      BY <2>2, <3>1
  <2>8. s.token \o Atoms(Backslash, d) = SubSeq(w, 1, j)
    <3>1. k \in 0 .. Len(w) /\ j \in k .. Len(w)
      BY <1>0, <2>2 DEF n
    <3> DEFINE t == Atoms(Backslash, d)
    <3>2. t \in Seq(A) /\ Len(t) = j - k /\ \A x \in 1 .. j - k : t[x] = w[k + x]
      BY <2>4, <2>6, <2>7
    <3> HIDE DEF t
    <3>3. SubSeq(w, 1, k) \o t = SubSeq(w, 1, j)
      BY <3>1, <3>2, TokenGrows
    <3> QED
      BY <3>3 DEF t
  <2> HIDE DEF d
  <2>9. CASE twice /\ j < n
    <3>1. w[j + 1] = Mark /\ j + 1 \in 1 .. n /\ (j + 1) - 1 = j
      <4>1. j # n /\ j + 1 \in 1 .. n /\ (j + 1) - 1 = j
        BY <1>0, <2>3, <2>9
      <4> QED
        BY <2>2, <2>9, <4>1
    <3>2. /\ e[j + 1] = e[j] + 2 /\ c[e[j] + 1] = Backslash /\ c[e[j] + 2] = Mark
      BY <1>2, <3>1 DEF AtomsAt, Doubled, n
    <3>3. e[j + 1] \in Nat /\ e[j + 1] <= e[n]
      BY <1>0, <1>2, <1>6, <3>1
    <3> DEFINE r == d + d + 1
    <3>4. r \in Nat \ {0} /\ r \div 2 = d /\ r % 2 = 1
      BY <2>4
    <3>5. s.pos + r = e[j + 1] /\ (s.pos + r) - 1 = e[j] + 1
      <4>1. \A x, y, v \in Nat :
              v = x + (y + y) => (x + 1) + (y + y + 1) = v + 2
                                 /\ ((x + 1) + (y + y + 1)) - 1 = v + 1
        OBVIOUS
      <4>2. e[j] = e[k] + (d + d)
        BY <2>4, <2>9
      <4> DEFINE x == e[k]  v == e[j]
      <4>3. x \in Nat /\ v \in Nat /\ d \in Nat /\ v = x + (d + d)
        BY <1>3, <2>3, <2>4, <4>2
      <4> HIDE DEF x, v
      <4>4. (x + 1) + (d + d + 1) = v + 2 /\ ((x + 1) + (d + d + 1)) - 1 = v + 1
        BY <4>1, <4>3
      <4>5. (e[k] + 1) + r = e[j] + 2 /\ ((e[k] + 1) + r) - 1 = e[j] + 1
        BY <4>4 DEF x, v
      <4> HIDE DEF r
      <4> QED
        BY <3>2, <4>5
    <3>6. s.pos + r <= Len(c)
      BY <1>1, <1>4, <3>3, <3>5 DEF c
    <3>7. \A x \in s.pos .. (s.pos + r) - 1 : c[x] = Backslash
      <4>1. ASSUME NEW x \in s.pos .. (s.pos + r) - 1 PROVE x \in e[k] + 1 .. e[j] \/ x = e[j] + 1
        <5>1. x \in e[k] + 1 .. e[j] + 1
          BY <3>5
        <5> QED
          BY <1>3, <2>3, <5>1
      <4> QED
        BY <2>2, <3>2, <4>1
    <3>8. c[s.pos + r] = Mark /\ Mark # Backslash
      <4>1. s.pos + r = e[j] + 2
        BY <3>2, <3>5
      <4> QED
        BY <3>2, <4>1 DEF Mark, Backslash
    <3> HIDE DEF r
    <3>9. /\ s.pos + r <= Len(s.content) + 1
          /\ \A x \in s.pos .. (s.pos + r) - 1 : s.content[x] = Backslash
          /\ s.pos + r <= Len(s.content) => s.content[s.pos + r] # Backslash
          /\ TRUE = (s.pos + r <= Len(s.content) /\ s.content[s.pos + r] = Mark)
      BY <1>1, <3>4, <3>6, <3>7, <3>8 DEF c
    <3>10. Parse(s) = MovedTo(s, s.token \o Atoms(Backslash, IF TRUE THEN r \div 2 ELSE r)
                                  \o (IF TRUE /\ r % 2 = 1 THEN <<Mark>> ELSE <<>>),
                              IF TRUE /\ r % 2 = 1 THEN s.pos + r ELSE (s.pos + r) - 1)
      BY <3>4, <3>9, BackslashRun
    <3>11. Parse(s) = MovedTo(s, SubSeq(w, 1, j) \o <<Mark>>, e[j + 1])
      BY <2>8, <3>4, <3>5, <3>10
    <3>12. SubSeq(w, 1, j) \o <<Mark>> = SubSeq(w, 1, j + 1)
      <4> DEFINE t == <<Mark>>  m == j + 1
      <4>1. /\ j \in 0 .. Len(w) /\ m \in j .. Len(w) /\ t \in Seq(A) /\ Len(t) = m - j
            /\ \A x \in 1 .. m - j : t[x] = w[j + x]
        BY <1>0, <2>3, <3>1 DEF n
      <4> HIDE DEF t, m
      <4>2. SubSeq(w, 1, j) \o t = SubSeq(w, 1, m)
        BY <4>1, TokenGrows
      <4> QED
        BY <4>2 DEF t, m
    <3>13. j + 1 \in k + 1 .. Len(w)
      <4>1. j \in k .. n /\ j < n
        BY <2>2, <2>9
      <4>2. j + 1 \in k + 1 .. n
        BY <1>0, <4>1
      <4> QED
        BY <4>2 DEF n
    <3> QED
      BY <3>11, <3>12, <3>13
  <2>10. CASE twice /\ j = n
    <3>1. quoted /\ c[e[n] + 1] = Mark /\ e[n] + 1 <= Len(c)
      BY <1>4, <2>2, <2>10 DEF c
    <3> DEFINE r == d + d
    <3>2. d # 0
      BY <1>0, <2>4, <2>10
    <3>3. r \in Nat \ {0} /\ r \div 2 = d /\ r % 2 = 0
      BY <2>4, <3>2
    <3>4. s.pos + r = e[n] + 1 /\ (s.pos + r) - 1 = e[n]
      <4>1. e[n] = e[k] + r /\ s.pos = e[k] + 1
        BY <2>4, <2>10
      <4>2. \A x, y \in Nat : (x + 1) + y = (x + y) + 1 /\ ((x + 1) + y) - 1 = x + y
        OBVIOUS
      <4> HIDE DEF r
      <4> QED
        BY <1>3, <3>3, <4>1, <4>2
    <3> HIDE DEF r
    <3>5. /\ s.pos + r <= Len(s.content) + 1
          /\ \A x \in s.pos .. (s.pos + r) - 1 : s.content[x] = Backslash
          /\ s.pos + r <= Len(s.content) => s.content[s.pos + r] # Backslash
          /\ TRUE = (s.pos + r <= Len(s.content) /\ s.content[s.pos + r] = Mark)
      <4>1. s.pos + r <= Len(c) /\ c[s.pos + r] = Mark /\ Mark # Backslash
        BY <3>1, <3>4 DEF Mark, Backslash
      <4>2. \A x \in s.pos .. (s.pos + r) - 1 : c[x] = Backslash
        BY <2>2, <2>10, <3>4
      <4>3. s.pos + r <= Len(c) + 1
        BY <1>1, <3>3, <4>1
      <4> QED
        BY <4>1, <4>2, <4>3 DEF c
    <3>6. Parse(s) = MovedTo(s, s.token \o Atoms(Backslash, IF TRUE THEN r \div 2 ELSE r)
                                  \o (IF TRUE /\ r % 2 = 1 THEN <<Mark>> ELSE <<>>),
                              IF TRUE /\ r % 2 = 1 THEN s.pos + r ELSE (s.pos + r) - 1)
      BY <3>3, <3>5, BackslashRun
    <3>7. Parse(s) = MovedTo(s, SubSeq(w, 1, j) \o <<>>, e[n])
      <4>1. ~(r % 2 = 1)
        BY <3>3
      <4> QED
        BY <2>8, <3>3, <3>4, <3>6, <4>1
    <3>8. SubSeq(w, 1, j) \o <<>> = SubSeq(w, 1, j)
      <4>1. SubSeq(w, 1, j) \in Seq(A)
        BY <1>0, <2>3 DEF n
      <4> QED
        BY <4>1, ConcatEmptySeq
    <3>9. j \in k + 1 .. Len(w)
      BY <1>0, <2>10 DEF n
    <3> QED
      BY <2>10, <3>7, <3>8, <3>9
  <2>11. CASE ~twice
    <3>1. d # 0
      BY <1>0, <2>2, <2>3, <2>4, <2>11
    <3>2. s.pos + d = e[j] + 1 /\ (s.pos + d) - 1 = e[j]
      <4>1. e[j] = e[k] + d /\ s.pos = e[k] + 1
        BY <2>4, <2>11
      <4>2. \A x, y \in Nat : (x + 1) + y = (x + y) + 1 /\ ((x + 1) + y) - 1 = x + y
        OBVIOUS
      <4> QED
        BY <1>3, <2>4, <4>1, <4>2
    <3>3. e[j] <= Len(c) /\ (e[j] + 1 <= Len(c) => c[e[j] + 1] \notin {Mark, Backslash})
      <4>1. e[j] <= e[n] /\ e[n] <= Len(c)
        <5>1. e[j] <= e[n]
          BY <1>0, <1>6, <2>3
        <5> QED
          BY <1>1, <1>4, <5>1 DEF c
      <4>2. CASE j = n
        <5>1. ~quoted /\ (e[n] = Len(c) \/ c[e[n] + 1] = Blank)
          BY <1>4, <2>2, <2>11, <4>2 DEF c
        <5>2. Blank \notin {Mark, Backslash}
          BY DEF Blank, Mark, Backslash
        <5> QED
          BY <1>1, <1>4, <4>1, <4>2, <5>1, <5>2
      <4>3. CASE j # n
        <5>1. w[j + 1] \notin {Mark, Backslash} /\ j + 1 \in 1 .. n /\ (j + 1) - 1 = j
          <6>1. j < n /\ j + 1 \in 1 .. n /\ (j + 1) - 1 = j
            BY <1>0, <2>3, <4>3
          <6>2. w[j + 1] # Mark
            BY <2>2, <2>11, <4>3
          <6>3. w[j + 1] # Backslash
            BY <2>2, <6>1
          <6> QED
            BY <6>1, <6>2, <6>3
        <5>2. c[e[j] + 1] = w[j + 1]
          BY <1>2, <5>1 DEF AtomsAt, Doubled, n
        <5> QED
          BY <1>1, <1>4, <2>3, <4>1, <5>1, <5>2
      <4> QED
        BY <4>2, <4>3
    <3>4. /\ s.pos + d <= Len(s.content) + 1
          /\ \A x \in s.pos .. (s.pos + d) - 1 : s.content[x] = Backslash
          /\ s.pos + d <= Len(s.content) => s.content[s.pos + d] # Backslash
          /\ FALSE = (s.pos + d <= Len(s.content) /\ s.content[s.pos + d] = Mark)
      <4>1. \A x \in s.pos .. (s.pos + d) - 1 : c[x] = Backslash
        BY <2>2, <3>2
      <4>2. s.pos + d <= Len(c) + 1
        BY <1>1, <2>3, <3>2, <3>3
      <4>3. s.pos + d <= Len(c) => c[s.pos + d] \notin {Mark, Backslash}
        BY <3>2, <3>3
      <4> QED
        BY <4>1, <4>2, <4>3 DEF c
    <3>5. d \in Nat \ {0}
      BY <2>4, <3>1
    <3>6. Parse(s) = MovedTo(s, s.token \o Atoms(Backslash, IF FALSE THEN d \div 2 ELSE d)
                                  \o (IF FALSE /\ d % 2 = 1 THEN <<Mark>> ELSE <<>>),
                              IF FALSE /\ d % 2 = 1 THEN s.pos + d ELSE (s.pos + d) - 1)
      BY <3>4, <3>5, BackslashRun
    <3>7. Parse(s) = MovedTo(s, SubSeq(w, 1, j) \o <<>>, e[j])
      BY <2>8, <3>2, <3>6
    <3>8. SubSeq(w, 1, j) \o <<>> = SubSeq(w, 1, j)
      <4>1. SubSeq(w, 1, j) \in Seq(A)
        BY <1>0, <2>3 DEF n
      <4> QED
        BY <4>1, ConcatEmptySeq
    <3>9. j \in k + 1 .. Len(w)
      BY <1>0, <2>3, <2>4, <3>1 DEF n
    <3> QED
      BY <3>7, <3>8, <3>9
  <2> QED
    BY <2>2, <2>3, <2>9, <2>10, <2>11
<1> QED
  BY <1>7, <1>8

\* Between two words, with i words taken
Between(s, at, off) ==
    \E i \in 0 .. Len(s.words) :
      /\ s.parser = "initial" /\ s.token = <<>> /\ s.argv = SubSeq(s.words, 1, i)
      /\ i = Len(s.words) => i = 0 /\ s.pos = 1
      /\ i < Len(s.words) => off[i] < s.pos /\ s.pos <= at[i + 1] + 1

\* Within the i-th word, behind its k-th atom
Within(s, quoted, e) ==
    \E i \in 1 .. Len(s.words) : \E k \in 0 .. Len(s.words[i]) :
      /\ s.parser = IF quoted[i] THEN "quoted" ELSE "unquoted"
      /\ s.token = SubSeq(s.words[i], 1, k) /\ s.argv = SubSeq(s.words, 1, i - 1)
      /\ s.pos = e[i][k] + 1 /\ (~quoted[i] => k < Len(s.words[i]))

\* Behind the i-th word, which is not yet appended
Behind(s, off) ==
    \E i \in 1 .. Len(s.words) :
      /\ s.parser = "unquoted" /\ s.token = s.words[i] /\ s.argv = SubSeq(s.words, 1, i - 1)
      /\ s.pos = off[i] + 1

\* A scan that has a place in the layout of its text
ScanIn(s, A, at, off, quoted, e) ==
    /\ Mark \in A /\ Backslash \in A /\ s \in ScanRec(A)
    /\ Layout(s.content, s.words, at, off, quoted, e)
    /\ Between(s, at, off) \/ Within(s, quoted, e) \/ Behind(s, off)

\* The tokenizer is somewhere in the text of its words.
ScanRight(s) == \E A, at, off, quoted, e : ScanIn(s, A, at, off, quoted, e)

\* What a layout says of one of its words, with the types the steps need.
LEMMA LayoutFacts ==
    ASSUME NEW A, NEW c \in Seq(A), NEW words \in Seq(Seq(A)), NEW at, NEW off, NEW quoted, NEW e,
           Layout(c, words, at, off, quoted, e), NEW i \in 1 .. Len(words)
    PROVE  /\ words[i] \in Seq(A) /\ quoted[i] \in BOOLEAN /\ e[i] \in [0 .. Len(words[i]) -> Nat]
           /\ WordAt(c, words[i], at[i], off[i], quoted[i], e[i])
           /\ off[i - 1] \in Nat /\ at[i] \in Nat /\ off[i] \in Nat
           /\ off[i - 1] <= at[i] /\ at[i] < off[i] /\ off[i] <= Len(c)
           /\ (i > 1 => off[i - 1] < at[i])
           /\ (i < Len(words) => off[i] < Len(c))
           /\ (off[i] = Len(c) \/ c[off[i] + 1] = Blank)
<1> DEFINE n == Len(words)
<1>0. n \in Nat /\ \A j \in 1 .. n : words[j] \in Seq(A)
  OBVIOUS
<1>1. /\ off \in [0 .. n -> Nat] /\ off[0] = 0 /\ off[n] = Len(c) /\ at \in [1 .. n -> Nat]
      /\ \A j \in 1 .. n : /\ IF j = 1 THEN at[j] = 0 ELSE at[j] > off[j - 1]
                           /\ \A x \in off[j - 1] + 1 .. at[j] : c[x] = Blank
                           /\ WordAt(c, words[j], at[j], off[j], quoted[j], e[j])
  BY DEF Layout
<1> HIDE DEF n
<1>2. ASSUME NEW j \in 1 .. n
      PROVE  /\ off[j - 1] \in Nat /\ at[j] \in Nat /\ off[j] \in Nat
             /\ off[j - 1] <= at[j] /\ at[j] < off[j] /\ (j > 1 => off[j - 1] < at[j])
             /\ quoted[j] \in BOOLEAN /\ e[j] \in [0 .. Len(words[j]) -> Nat]
  <2>1. off[j - 1] \in Nat /\ at[j] \in Nat /\ off[j] \in Nat
    <3>1. j - 1 \in 0 .. n /\ j \in 0 .. n
      BY <1>0
    <3> QED
      BY <1>1, <3>1
  <2>2. off[j - 1] <= at[j] /\ (j > 1 => off[j - 1] < at[j])
    <3>1. CASE j = 1
      BY <1>1, <2>1, <3>1
    <3>2. CASE j # 1
      BY <1>1, <2>1, <3>2
    <3> QED
      BY <3>1, <3>2
  <2> DEFINE w == words[j]  q == quoted[j]  f == e[j]  b == at[j]  z == off[j]
  <2>3. WordAt(c, w, b, z, q, f) /\ w \in Seq(A) /\ b \in Nat /\ z \in Nat
    BY <1>0, <1>1, <2>1
  <2> HIDE DEF w, q, f, b, z
  <2>4. q \in BOOLEAN /\ f \in [0 .. Len(w) -> Nat] /\ AtomsAt(c, w, q, f)
    BY <2>3 DEF WordAt
  <2>5. Len(w) \in Nat /\ 0 \in 0 .. Len(w) /\ Len(w) \in 0 .. Len(w) /\ Len(w) \in 0 .. Len(w)
    BY <2>3
  <2>6. f[0] \in Nat /\ f[Len(w)] \in Nat /\ f[0] <= f[Len(w)] /\ (0 < Len(w) => f[0] < f[Len(w)])
    BY <2>3, <2>4, <2>5, AtomsGrow
  <2>7. b < z
    <3>1. CASE q
      <4>1. f[0] = b + 1 /\ z = f[Len(w)] + 1
        BY <2>3, <3>1 DEF WordAt
      <4> QED
        BY <2>3, <2>6, <4>1
    <3>2. CASE ~q
      <4>1. f[0] = b /\ z = f[Len(w)] /\ w # <<>>
        BY <2>3, <3>2 DEF WordAt
      <4>2. 0 < Len(w)
        BY <2>3, <4>1, EmptySeq
      <4> QED
        BY <2>3, <2>6, <4>1, <4>2
    <3> QED
      BY <2>4, <3>1, <3>2
  <2> QED
    BY <2>1, <2>2, <2>4, <2>7 DEF w, q, f, b, z
<1> DEFINE S == {m \in i .. n : off[i] <= off[m] /\ (i < m => off[i] < off[m])}
<1>3. i \in S
  <2>1. i \in i .. n
    BY DEF n
  <2> QED
    BY <1>2, <2>1 DEF n
<1>4. ASSUME NEW m \in i .. n - 1, m \in S PROVE m + 1 \in S
  <2>1. m + 1 \in 1 .. n /\ m + 1 \in i .. n /\ (m + 1) - 1 = m
    BY <1>0 DEF n
  <2>2. off[m] \in Nat /\ off[m + 1] \in Nat /\ at[m + 1] \in Nat /\ off[m] <= at[m + 1] /\ at[m + 1] < off[m + 1]
    <3> DEFINE y == m + 1
    <3>1. y \in 1 .. n /\ y - 1 = m
      BY <2>1
    <3> HIDE DEF y
    <3>2. off[m] \in Nat /\ off[y] \in Nat /\ at[y] \in Nat /\ off[m] <= at[y] /\ at[y] < off[y]
      BY <1>2, <3>1
    <3> QED
      BY <3>2 DEF y
  <2>3. off[i] \in Nat
    BY <1>2 DEF n
  <2> QED
    BY <1>4, <2>1, <2>2, <2>3
<1> HIDE DEF S
<1>5. n \in S
  <2>1. i \in Nat /\ n \in i .. n
    BY <1>0 DEF n
  <2>2. \A m \in i .. n : m \in S
    BY <1>0, <1>3, <1>4, <2>1, Counting
  <2> QED
    BY <2>1, <2>2
<1>6. off[i] <= off[n] /\ (i < n => off[i] < off[n])
  BY <1>5 DEF S
<1>7. off[i] = Len(c) \/ c[off[i] + 1] = Blank
  <2>1. CASE i = n
    BY <1>1, <2>1
  <2>2. CASE i # n
    <3>1. i + 1 \in 1 .. n /\ (i + 1) - 1 = i /\ i + 1 # 1
      BY <1>0, <2>2 DEF n
    <3>2. at[i + 1] > off[i] /\ at[i + 1] \in Nat /\ off[i] \in Nat
      <4>1. i \in 0 .. n
        BY <1>0 DEF n
      <4> QED
        BY <1>1, <3>1, <4>1
    <3>3. off[i] + 1 \in off[i] + 1 .. at[i + 1]
      BY <3>2
    <3>4. \A x \in off[i] + 1 .. at[i + 1] : c[x] = Blank
      <4> DEFINE y == i + 1
      <4>1. y \in 1 .. n /\ y - 1 = i
        BY <3>1
      <4> HIDE DEF y
      <4>2. \A x \in off[i] + 1 .. at[y] : c[x] = Blank
        BY <1>1, <4>1
      <4> QED
        BY <4>2 DEF y
    <3> QED
      BY <3>3, <3>4
  <2> QED
    BY <2>1, <2>2
<1>8. /\ off[i - 1] \in Nat /\ at[i] \in Nat /\ off[i] \in Nat
      /\ off[i - 1] <= at[i] /\ at[i] < off[i] /\ (i > 1 => off[i - 1] < at[i])
      /\ quoted[i] \in BOOLEAN /\ e[i] \in [0 .. Len(words[i]) -> Nat]
  BY <1>2 DEF n
<1>9. WordAt(c, words[i], at[i], off[i], quoted[i], e[i]) /\ words[i] \in Seq(A)
  BY <1>0, <1>1 DEF n
<1>10. off[i] <= Len(c) /\ (i < Len(words) => off[i] < Len(c))
  BY <1>1, <1>6 DEF n
<1> QED
  BY <1>7, <1>8, <1>9, <1>10

\* A scan that has read nothing is right.
LEMMA ScanStarts ==
    ASSUME NEW words, WordList(words), NEW all \in BOOLEAN
    PROVE  ScanRight([words |-> words, content |-> Text(words, all), pos |-> 1,
                      token |-> <<>>, argv |-> <<>>, parser |-> "initial"])
<1> DEFINE s == [words |-> words, content |-> Text(words, all), pos |-> 1,
                 token |-> <<>>, argv |-> <<>>, parser |-> "initial"]
<1>1. PICK A : Mark \in A /\ Backslash \in A /\ words \in Seq(Seq(A)) /\ Text(words, all) \in Seq(A)
  BY TextIsLaid
<1>2. PICK at, off, quoted, e : Layout(Text(words, all), words, at, off, quoted, e)
  BY TextIsLaid
<1>3. s \in ScanRec(A)
  BY <1>1 DEF ScanRec
<1>4. /\ s.words = words /\ s.content = Text(words, all) /\ s.pos = 1 /\ s.token = <<>>
      /\ s.argv = <<>> /\ s.parser = "initial"
  OBVIOUS
<1> HIDE DEF s
<1>5. Between(s, at, off)
  <2>1. 0 \in 0 .. Len(s.words) /\ Len(words) \in Nat
    BY <1>1, <1>4
  <2>2. s.argv = SubSeq(s.words, 1, 0)
    BY <1>4, SubSeqEmpty
  <2>3. 0 < Len(s.words) => off[0] < s.pos /\ s.pos <= at[0 + 1] + 1
    <3> SUFFICES ASSUME 0 < Len(words) PROVE off[0] < 1 /\ 1 <= at[1] + 1
      BY <1>4
    <3>1. 1 \in 1 .. Len(words)
      BY <2>1
    <3>2. off[0] = 0 /\ at[1] = 0
      BY <1>2, <3>1 DEF Layout
    <3> QED
      BY <3>2
  <2> QED
    BY <1>4, <2>1, <2>2, <2>3 DEF Between
<1>6. ScanIn(s, A, at, off, quoted, e)
  BY <1>1, <1>2, <1>3, <1>4, <1>5 DEF ScanIn
<1> QED
  BY <1>6 DEF ScanRight, s

\* The scan after one turn of the loop
Advanced(s) == [Parse(s) EXCEPT !.pos = @ + 1]

\* In the i-th word, whose atoms are not all taken
InWord(s, quoted, e, i, k) ==
    /\ i \in 1 .. Len(s.words) /\ k \in 0 .. Len(s.words[i]) - 1
    /\ s.token = SubSeq(s.words[i], 1, k) /\ s.argv = SubSeq(s.words, 1, i - 1)
    /\ s.pos = e[i][k] + 1 /\ (s.parser = "quoted") = quoted[i]

\* A character inside a word: the scan stays in the word, or it is behind it.
LEMMA WithinMoves ==
    ASSUME NEW A, NEW s \in ScanRec(A), NEW at, NEW off, NEW quoted, NEW e,
           Mark \in A, Backslash \in A,
           Layout(s.content, s.words, at, off, quoted, e),
           NEW i, NEW k, InWord(s, quoted, e, i, k)
    PROVE  /\ Advanced(s) \in ScanRec(A)
           /\ Advanced(s).words = s.words /\ Advanced(s).content = s.content
           /\ Within(Advanced(s), quoted, e) \/ Behind(Advanced(s), off)
<1> DEFINE c == s.content  words == s.words  w == words[i]  f == e[i]  q == quoted[i]
           b == at[i]  z == off[i]  t == Advanced(s)
<1>1. c \in Seq(A) /\ words \in Seq(Seq(A)) /\ Len(c) \in Nat
  BY DEF ScanRec
<1>2. /\ w \in Seq(A) /\ q \in BOOLEAN /\ f \in [0 .. Len(w) -> Nat]
      /\ WordAt(c, w, b, z, q, f) /\ z \in Nat
      /\ z <= Len(c) /\ (z = Len(c) \/ c[z + 1] = Blank)
  <2>1. i \in 1 .. Len(words)
    BY DEF InWord
  <2> HIDE DEF c, words
  <2>2. Layout(c, words, at, off, quoted, e)
    BY DEF c, words
  <2> QED
    BY <1>1, <2>1, <2>2, LayoutFacts
<1>3. k \in 0 .. Len(w) - 1 /\ s.token = SubSeq(w, 1, k) /\ s.pos = f[k] + 1 /\ (s.parser = "quoted") = q
  BY DEF InWord
<1> HIDE DEF w, f, q, b, z, t
<1>4. PICK m \in k + 1 .. Len(w) : Parse(s) = MovedTo(s, SubSeq(w, 1, m), f[m])
  BY <1>2, <1>3, WordStep DEF c
<1>5. m \in 0 .. Len(w) /\ f[m] \in Nat /\ Len(w) \in Nat
  BY <1>2, <1>3
<1>6. SubSeq(w, 1, m) \in Seq(A)
  <2>1. \A x \in 1 .. m : w[x] \in A
    BY <1>2, <1>5
  <2>2. 1 \in Int /\ m \in Int
    BY <1>5
  <2> QED
    BY <2>1, <2>2, SubSeqProperties
<1> DEFINE g == SubSeq(w, 1, m)
<1>7. t = [s EXCEPT !.token = g, !.pos = f[m] + 1,
                    !.parser = IF s.parser = "quoted" THEN "quoted" ELSE "unquoted"]
  BY <1>4 DEF Advanced, MovedTo, ScanRec, t
<1>8. f[m] + 1 \in Nat \ {0}
  BY <1>5
<1> HIDE DEF g
<1>9. /\ t \in ScanRec(A) /\ t.words = s.words /\ t.content = s.content /\ t.token = g
      /\ t.argv = s.argv /\ t.pos = f[m] + 1 /\ t.parser = IF q THEN "quoted" ELSE "unquoted"
  BY <1>3, <1>6, <1>7, <1>8 DEF ScanRec, g
<1>10. CASE q \/ m < Len(w)
  <2>1. i \in 1 .. Len(s.words) /\ s.argv = SubSeq(s.words, 1, i - 1)
    BY DEF InWord
  <2>2. Within(t, quoted, e)
    BY <1>5, <1>9, <1>10, <2>1 DEF Within, w, f, q, g
  <2> QED
    BY <1>9, <2>2 DEF t
<1>11. CASE ~q /\ m = Len(w)
  <2>1. z = f[Len(w)]
    BY <1>2, <1>11 DEF WordAt
  <2>2. g = w
    BY <1>2, <1>11, SubSeqFull DEF g
  <2>3. i \in 1 .. Len(s.words) /\ s.argv = SubSeq(s.words, 1, i - 1)
    BY DEF InWord
  <2>4. Behind(t, off)
    BY <1>9, <1>11, <2>1, <2>2, <2>3 DEF Behind, w, z
  <2> QED
    BY <1>9, <2>4 DEF t
<1> QED
  BY <1>2, <1>5, <1>10, <1>11

\* A character between two words: the scan stays there, or a word begins.
LEMMA BetweenMoves ==
    ASSUME NEW A, NEW s \in ScanRec(A), NEW at, NEW off, NEW quoted, NEW e,
           Mark \in A, Backslash \in A,
           Layout(s.content, s.words, at, off, quoted, e),
           Between(s, at, off), s.pos <= Len(s.content)
    PROVE  /\ Advanced(s) \in ScanRec(A)
           /\ Advanced(s).words = s.words /\ Advanced(s).content = s.content
           /\ \/ Between(Advanced(s), at, off)
              \/ Within(Advanced(s), quoted, e) \/ Behind(Advanced(s), off)
<1> DEFINE c == s.content  words == s.words  n == Len(words)  t == Advanced(s)
<1>1. c \in Seq(A) /\ words \in Seq(Seq(A)) /\ Len(c) \in Nat /\ n \in Nat /\ s.pos \in Nat \ {0}
  BY DEF ScanRec
<1>2. PICK i \in 0 .. n :
        /\ s.parser = "initial" /\ s.token = <<>> /\ s.argv = SubSeq(words, 1, i)
        /\ i = n => i = 0 /\ s.pos = 1
        /\ i < n => off[i] < s.pos /\ s.pos <= at[i + 1] + 1
  BY DEF Between
<1>3. i # n
  <2> SUFFICES ASSUME i = n PROVE FALSE
    OBVIOUS
  <2>1. n = 0 /\ s.pos = 1 /\ off[0] = 0 /\ off[n] = Len(c)
    BY <1>2 DEF Layout
  <2> QED
    BY <1>1, <2>1
<1> DEFINE y == i + 1
<1>4. i < n /\ i \in Nat /\ y \in 1 .. n /\ y - 1 = i
  BY <1>1, <1>2, <1>3
<1>5. off[i] < s.pos /\ s.pos <= at[y] + 1
  BY <1>2, <1>4
<1> HIDE DEF t, y
<1>6. /\ words[y] \in Seq(A) /\ quoted[y] \in BOOLEAN /\ e[y] \in [0 .. Len(words[y]) -> Nat]
      /\ WordAt(c, words[y], at[y], off[y], quoted[y], e[y])
      /\ off[i] \in Nat /\ at[y] \in Nat
  BY <1>1, <1>4, LayoutFacts
<1>7. \A x \in off[i] + 1 .. at[y] : c[x] = Blank
  BY <1>4 DEF Layout
<1>8. CASE s.pos <= at[y]
  <2>1. s.pos \in off[i] + 1 .. at[y]
    BY <1>1, <1>5, <1>6, <1>8
  <2>2. c[s.pos] = Blank
    BY <1>7, <2>1
  <2>3. Parse(s) = [s EXCEPT !.parser = "initial", !.token = <<>>]
    BY <1>2, <2>2 DEF Parse, ScanRec
  <2>4. t = [s EXCEPT !.parser = "initial", !.token = <<>>, !.pos = s.pos + 1]
    BY <2>3 DEF Advanced, ScanRec, t
  <2>5. /\ s.pos + 1 \in Nat \ {0} /\ off[i] < s.pos + 1 /\ s.pos + 1 <= at[y] + 1
        /\ <<>> \in Seq(A)
    BY <1>1, <1>5, <1>6, <1>8
  <2>6. /\ t \in ScanRec(A) /\ t.words = s.words /\ t.content = s.content /\ t.token = <<>>
        /\ t.argv = s.argv /\ t.pos = s.pos + 1 /\ t.parser = "initial"
    BY <2>4, <2>5 DEF ScanRec
  <2>7. Between(t, at, off)
    BY <1>2, <1>3, <2>5, <2>6 DEF Between, y
  <2> QED
    BY <2>6, <2>7 DEF t
<1>9. CASE ~(s.pos <= at[y]) /\ quoted[y]
  <2>1. s.pos = at[y] + 1
    BY <1>1, <1>5, <1>6, <1>9
  <2>2. c[s.pos] = Mark /\ e[y][0] = s.pos
    BY <1>6, <1>9, <2>1 DEF WordAt
  <2>3. Parse(s) = [s EXCEPT !.parser = "quoted"]
    BY <1>2, <2>2 DEF Parse, ScanRec, Mark, Blank
  <2>4. t = [s EXCEPT !.parser = "quoted", !.pos = s.pos + 1]
    BY <2>3 DEF Advanced, ScanRec, t
  <2>5. s.pos + 1 \in Nat \ {0}
    BY <1>1
  <2>6. /\ t \in ScanRec(A) /\ t.words = s.words /\ t.content = s.content /\ t.token = <<>>
        /\ t.argv = s.argv /\ t.pos = s.pos + 1 /\ t.parser = "quoted"
    BY <1>2, <2>4, <2>5 DEF ScanRec
  <2>7. 0 \in 0 .. Len(words[y]) /\ SubSeq(words[y], 1, 0) = <<>>
    BY <1>6, SubSeqEmpty
  <2>8. Within(t, quoted, e)
    BY <1>2, <1>4, <1>9, <2>2, <2>6, <2>7 DEF Within
  <2> QED
    BY <2>6, <2>8 DEF t
<1>10. CASE ~(s.pos <= at[y]) /\ ~quoted[y]
  <2>1. s.pos = at[y] + 1
    BY <1>1, <1>5, <1>6, <1>10
  <2>2. e[y][0] = at[y] /\ words[y] # <<>>
    BY <1>6, <1>10 DEF WordAt
  <2>3. 0 \in 0 .. Len(words[y]) - 1
    BY <1>6, <2>2, EmptySeq
  <2>4. SubSeq(words[y], 1, 0) = <<>>
    BY SubSeqEmpty
  <2>5. /\ s.token = SubSeq(words[y], 1, 0) /\ s.argv = SubSeq(words, 1, y - 1)
        /\ s.pos = e[y][0] + 1 /\ (s.parser = "quoted") = quoted[y]
    BY <1>2, <1>4, <1>6, <1>10, <2>1, <2>2, <2>4
  <2>6. InWord(s, quoted, e, y, 0)
    BY <1>4, <2>3, <2>5 DEF InWord
  <2> QED
    BY <2>6, WithinMoves
<1> QED
  BY <1>8, <1>9, <1>10

\* A character just behind a word: the word is a token, and the scan is between words.
LEMMA BehindMoves ==
    ASSUME NEW A, NEW s \in ScanRec(A), NEW at, NEW off, NEW quoted, NEW e,
           Layout(s.content, s.words, at, off, quoted, e),
           Behind(s, off), s.pos <= Len(s.content)
    PROVE  /\ Advanced(s) \in ScanRec(A)
           /\ Advanced(s).words = s.words /\ Advanced(s).content = s.content
           /\ Between(Advanced(s), at, off)
<1> DEFINE c == s.content  words == s.words  n == Len(words)  t == Advanced(s)
<1>1. c \in Seq(A) /\ words \in Seq(Seq(A)) /\ Len(c) \in Nat /\ n \in Nat /\ s.pos \in Nat \ {0}
  BY DEF ScanRec
<1>2. PICK i \in 1 .. n : /\ s.parser = "unquoted" /\ s.token = words[i]
                          /\ s.argv = SubSeq(words, 1, i - 1) /\ s.pos = off[i] + 1
  BY DEF Behind
<1>3. /\ words[i] \in Seq(A) /\ off[i] \in Nat /\ (off[i] = Len(c) \/ c[off[i] + 1] = Blank)
  BY <1>1, LayoutFacts
<1>4. c[s.pos] = Blank /\ i # n
  <2>1. off[n] = Len(c)
    BY DEF Layout
  <2> QED
    BY <1>1, <1>2, <1>3, <2>1
<1> DEFINE y == i + 1
<1>5. y \in 1 .. n /\ y - 1 = i /\ y > 1
  BY <1>1, <1>4
<1> HIDE DEF y
<1>6. off[i] < at[y] /\ at[y] \in Nat
  BY <1>1, <1>5, LayoutFacts
<1>7. Parse(s) = [s EXCEPT !.parser = "initial", !.token = <<>>, !.argv = Append(s.argv, words[i])]
  BY <1>2, <1>4 DEF Parse, ScanRec
<1>8. Append(s.argv, words[i]) = SubSeq(words, 1, i) /\ SubSeq(words, 1, i) \in Seq(Seq(A))
  <2> DEFINE T == Seq(A)
  <2>1. words \in Seq(T) /\ 1 \in 1 .. Len(words) /\ i \in 1 .. Len(words) /\ words[i] \in T
    BY <1>1, <1>3
  <2>2. SubSeq(words, 1, i - 1) \in Seq(T) /\ SubSeq(words, 1, i) \in Seq(T)
    <3> HIDE DEF T
    <3>1. \A x \in 1 .. i : words[x] \in T
      BY <2>1
    <3>2. 1 \in Int /\ i \in Int /\ i - 1 \in Int /\ \A x \in 1 .. i - 1 : words[x] \in T
      BY <3>1
    <3> QED
      BY <3>1, <3>2, SubSeqProperties
  <2> HIDE DEF T
  <2>3. SubSeq(words, 1, i) = SubSeq(words, 1, i - 1) \o <<words[i]>>
    BY <2>1, SubSeqRecursiveSecond
  <2>4. Append(SubSeq(words, 1, i - 1), words[i]) = SubSeq(words, 1, i - 1) \o <<words[i]>>
    BY <2>1, <2>2, AppendIsConcat
  <2> QED
    BY <1>2, <2>2, <2>3, <2>4 DEF T
<1>9. t = [s EXCEPT !.parser = "initial", !.token = <<>>, !.argv = SubSeq(words, 1, i), !.pos = s.pos + 1]
  BY <1>7, <1>8 DEF Advanced, ScanRec
<1>10. /\ s.pos + 1 \in Nat \ {0} /\ off[i] < s.pos + 1 /\ s.pos + 1 <= at[y] + 1
       /\ <<>> \in Seq(A)
  BY <1>1, <1>2, <1>3, <1>6
<1> HIDE DEF t
<1>11. /\ t \in ScanRec(A) /\ t.words = s.words /\ t.content = s.content /\ t.token = <<>>
       /\ t.argv = SubSeq(words, 1, i) /\ t.pos = s.pos + 1 /\ t.parser = "initial"
  BY <1>8, <1>9, <1>10 DEF ScanRec
<1>12. Between(t, at, off)
  <2>1. i \in 0 .. n
    BY <1>1
  <2> QED
    BY <1>4, <1>10, <1>11, <2>1 DEF Between, y
<1> QED
  BY <1>11, <1>12 DEF t

\* One turn of the loop keeps the tokenizer in the text of its words.
LEMMA ScanMoves ==
    ASSUME NEW s, ScanRight(s), s.pos <= Len(s.content)
    PROVE  ScanRight(Advanced(s)) /\ Advanced(s).words = s.words
<1>1. PICK A, at, off, quoted, e : ScanIn(s, A, at, off, quoted, e)
  BY DEF ScanRight
<1>2. /\ Mark \in A /\ Backslash \in A /\ s \in ScanRec(A)
      /\ Layout(s.content, s.words, at, off, quoted, e)
  BY <1>1 DEF ScanIn
<1> DEFINE t == Advanced(s)
<1> HIDE DEF t
<1>3. /\ t \in ScanRec(A) /\ t.words = s.words /\ t.content = s.content
      /\ Between(t, at, off) \/ Within(t, quoted, e) \/ Behind(t, off)
  <2>1. CASE Between(s, at, off)
    BY <1>2, <2>1, BetweenMoves DEF t
  <2>2. CASE Behind(s, off)
    BY <1>2, <2>2, BehindMoves DEF t
  <2>3. CASE Within(s, quoted, e)
    <3> DEFINE words == s.words  c == s.content
    <3>1. words \in Seq(Seq(A)) /\ c \in Seq(A) /\ s.pos \in Nat \ {0}
      BY <1>2 DEF ScanRec
    <3>2. PICK i \in 1 .. Len(words) : \E k \in 0 .. Len(words[i]) :
            /\ s.parser = IF quoted[i] THEN "quoted" ELSE "unquoted"
            /\ s.token = SubSeq(words[i], 1, k) /\ s.argv = SubSeq(words, 1, i - 1)
            /\ s.pos = e[i][k] + 1 /\ (~quoted[i] => k < Len(words[i]))
      BY <2>3 DEF Within
    <3>3. PICK k \in 0 .. Len(words[i]) :
            /\ s.parser = IF quoted[i] THEN "quoted" ELSE "unquoted"
            /\ s.token = SubSeq(words[i], 1, k) /\ s.argv = SubSeq(words, 1, i - 1)
            /\ s.pos = e[i][k] + 1 /\ (~quoted[i] => k < Len(words[i]))
      BY <3>2
    <3>4. /\ words[i] \in Seq(A) /\ quoted[i] \in BOOLEAN
          /\ WordAt(c, words[i], at[i], off[i], quoted[i], e[i])
      BY <1>2, <3>1, LayoutFacts
    <3>5. CASE k < Len(words[i])
      <4>1. k \in 0 .. Len(words[i]) - 1
        BY <3>4, <3>5
      <4>2. (s.parser = "quoted") = quoted[i]
        BY <3>3, <3>4
      <4>3. InWord(s, quoted, e, i, k)
        BY <3>3, <4>1, <4>2 DEF InWord
      <4> QED
        BY <1>2, <4>3, WithinMoves DEF t
    <3>6. CASE ~(k < Len(words[i]))
      <4>1. k = Len(words[i]) /\ quoted[i] = TRUE
        BY <3>3, <3>4, <3>6
      <4>2. c[s.pos] = Mark /\ off[i] = s.pos
        BY <3>3, <3>4, <4>1 DEF WordAt
      <4>3. Parse(s) = [s EXCEPT !.parser = "unquoted"]
        BY <3>3, <4>1, <4>2 DEF Parse, ScanRec, Mark, Blank
      <4>4. s \in ScanRec(A)
        BY <1>2
      <4>5. t = [s EXCEPT !.parser = "unquoted", !.pos = s.pos + 1]
        BY <4>3, <4>4 DEF Advanced, ScanRec, t
      <4>6. s.pos + 1 \in Nat \ {0}
        BY <3>1
      <4>7. /\ t \in ScanRec(A) /\ t.words = s.words /\ t.content = s.content /\ t.token = s.token
            /\ t.argv = s.argv /\ t.pos = s.pos + 1 /\ t.parser = "unquoted"
        BY <4>4, <4>5, <4>6 DEF ScanRec
      <4>8. s.token = words[i]
        BY <3>3, <3>4, <4>1, SubSeqFull
      <4>9. Behind(t, off)
        BY <3>3, <4>2, <4>7, <4>8 DEF Behind
      <4> QED
        BY <4>7, <4>9
    <3> QED
      BY <3>5, <3>6
  <2> QED
    BY <1>1, <2>1, <2>2, <2>3 DEF ScanIn
<1>4. ScanIn(t, A, at, off, quoted, e)
  BY <1>2, <1>3 DEF ScanIn
<1> QED
  BY <1>3, <1>4 DEF ScanRight, t

\* At its end, the tokenizer has the words that were written.
LEMMA ScanEnds ==
    ASSUME NEW s, ScanRight(s), ~(s.pos <= Len(s.content))
    PROVE  Tokens(s) = IF Len(s.words) > 0 /\ s.words[Len(s.words)] = <<>>
                       THEN Front(s.words) ELSE s.words
<1> DEFINE words == s.words  n == Len(words)  c == s.content
<1>1. PICK A, at, off, quoted, e : ScanIn(s, A, at, off, quoted, e)
  BY DEF ScanRight
<1>2. /\ s \in ScanRec(A) /\ Layout(c, words, at, off, quoted, e)
  BY <1>1 DEF ScanIn
<1>3. /\ words \in Seq(Seq(A)) /\ c \in Seq(A) /\ s.pos \in Nat \ {0} /\ Len(c) \in Nat /\ n \in Nat
      /\ s.pos > Len(c)
  BY <1>2 DEF ScanRec
<1>4. \A i \in 1 .. n :
        /\ words[i] \in Seq(A) /\ quoted[i] \in BOOLEAN /\ e[i] \in [0 .. Len(words[i]) -> Nat]
        /\ WordAt(c, words[i], at[i], off[i], quoted[i], e[i])
        /\ at[i] \in Nat /\ off[i] \in Nat /\ at[i] < off[i] /\ off[i] <= Len(c)
        /\ (i < n => off[i] < Len(c))
  BY <1>2, <1>3, LayoutFacts
<1>5. CASE Between(s, at, off)
  <2>1. PICK i \in 0 .. n :
        /\ s.parser = "initial" /\ s.token = <<>> /\ s.argv = SubSeq(words, 1, i)
        /\ i = n => i = 0 /\ s.pos = 1
        /\ i < n => off[i] < s.pos /\ s.pos <= at[i + 1] + 1
    BY <1>5 DEF Between
  <2>2. CASE i < n
    <3> DEFINE y == i + 1
    <3>1. y \in 1 .. n /\ s.pos <= at[y] + 1
      BY <1>3, <2>1, <2>2
    <3> HIDE DEF y
    <3>2. at[y] \in Nat /\ off[y] \in Nat /\ at[y] < off[y] /\ off[y] <= Len(c)
      BY <1>4, <3>1
    <3> QED
      BY <1>3, <3>1, <3>2
  <2>3. CASE i = n
    <3>1. n = 0 /\ s.argv = SubSeq(words, 1, 0)
      BY <2>1, <2>3
    <3>2. words = <<>> /\ s.argv = <<>>
      BY <1>3, <3>1, SubSeqEmpty
    <3> QED
      BY <2>1, <3>1, <3>2 DEF Tokens
  <2> QED
    BY <1>3, <2>2, <2>3
<1>6. CASE Within(s, quoted, e)
  <2>1. PICK i \in 1 .. n : \E k \in 0 .. Len(words[i]) :
            /\ s.pos = e[i][k] + 1 /\ (~quoted[i] => k < Len(words[i]))
    BY <1>6 DEF Within
  <2>2. PICK k \in 0 .. Len(words[i]) :
            /\ s.pos = e[i][k] + 1 /\ (~quoted[i] => k < Len(words[i]))
    BY <2>1
  <2> DEFINE w == words[i]  f == e[i]  q == quoted[i]  z == off[i]  b == at[i]
  <2>3. /\ w \in Seq(A) /\ q \in BOOLEAN /\ f \in [0 .. Len(w) -> Nat] /\ WordAt(c, w, b, z, q, f)
        /\ z \in Nat /\ z <= Len(c) /\ k \in 0 .. Len(w) /\ s.pos = f[k] + 1 /\ (~q => k < Len(w))
    BY <1>4, <2>2
  <2> HIDE DEF w, f, q, z, b
  <2>4. AtomsAt(c, w, q, f) /\ Len(w) \in k .. Len(w) /\ Len(w) \in 0 .. Len(w)
    BY <2>3 DEF WordAt
  <2>5. f[k] <= f[Len(w)] /\ (k < Len(w) => f[k] < f[Len(w)]) /\ f[k] \in Nat /\ f[Len(w)] \in Nat
    BY <2>3, <2>4, AtomsGrow
  <2>6. IF q THEN z = f[Len(w)] + 1 ELSE z = f[Len(w)]
    BY <2>3 DEF WordAt
  <2>7. f[k] < z
    BY <2>3, <2>5, <2>6
  <2> QED
    BY <1>3, <2>3, <2>5, <2>7
<1>7. CASE Behind(s, off)
  <2>1. PICK i \in 1 .. n : /\ s.parser = "unquoted" /\ s.token = words[i]
                            /\ s.argv = SubSeq(words, 1, i - 1) /\ s.pos = off[i] + 1
    BY <1>7 DEF Behind
  <2>2. i = n
    <3>1. off[i] \in Nat /\ (i < n => off[i] < Len(c))
      BY <1>4
    <3> QED
      BY <1>3, <2>1, <3>1
  <2>3. CASE words[n] = <<>>
    <3>1. Tokens(s) = SubSeq(words, 1, n - 1)
      BY <2>1, <2>2, <2>3 DEF Tokens
    <3>2. n > 0
      BY <1>3, <2>1
    <3> QED
      BY <2>3, <3>1, <3>2 DEF Front
  <2>4. CASE words[n] # <<>>
    <3> DEFINE T == Seq(A)
    <3>1. words \in Seq(T) /\ n \in 1 .. Len(words) /\ 1 \in 1 .. Len(words) /\ words[n] \in T
      BY <1>3, <1>4, <2>1, <2>2
    <3>2. Tokens(s) = Append(SubSeq(words, 1, n - 1), words[n])
      BY <2>1, <2>2, <2>4 DEF Tokens
    <3> HIDE DEF T
    <3>3. SubSeq(words, 1, n - 1) \in Seq(T)
      <4>1. 1 \in Int /\ n - 1 \in Int /\ \A x \in 1 .. n - 1 : words[x] \in T
        BY <1>3, <3>1
      <4> QED
        BY <4>1, SubSeqProperties
    <3>4. SubSeq(words, 1, n) = SubSeq(words, 1, n - 1) \o <<words[n]>>
      BY <3>1, SubSeqRecursiveSecond
    <3>5. Append(SubSeq(words, 1, n - 1), words[n]) = SubSeq(words, 1, n - 1) \o <<words[n]>>
      BY <3>1, <3>3, AppendIsConcat
    <3>6. SubSeq(words, 1, n) = words
      BY <3>1, SubSeqFull
    <3> QED
      BY <2>4, <3>2, <3>4, <3>5, <3>6
  <2> QED
    BY <2>3, <2>4
<1> QED
  BY <1>1, <1>5, <1>6, <1>7 DEF ScanIn

-----------------------------------------------------------------------------
\* Every scan is that of one of the texts of the request, and is right.
ScanInv ==
    /\ request \in Requests
    /\ ScanRight(scan)
    /\ phase = "CL" => scan.words = request.CL
    /\ phase = "_CL_" => scan.words = request._CL_
    /\ phase = "file" => scan.words = request.file

\* A scan starts right.
LEMMA ScanInit == LineInit => ScanInv
<1> SUFFICES ASSUME LineInit PROVE ScanInv
  OBVIOUS
<1>1. request \in Requests /\ phase = "CL" /\ scan = Scan(request.CL)
  BY DEF LineInit
<1>2. WordList(request.CL) /\ request.all \in BOOLEAN
  BY <1>1, RequestsAssumption
<1>3. ScanRight(scan)
  BY <1>1, <1>2, ScanStarts DEF Scan
<1>4. scan.words = request.CL
  BY <1>1 DEF Scan
<1> QED
  BY <1>1, <1>3, <1>4 DEF ScanInv

\* No step of the analysis makes a scan wrong.
LEMMA ScanStep == ScanInv /\ [LineNext]_lineVars => ScanInv'
<1> SUFFICES ASSUME ScanInv, [LineNext]_lineVars PROVE ScanInv'
  OBVIOUS
<1>1. CASE Character
  <2>1. scan' = Advanced(scan) /\ request' = request /\ phase' = phase
    BY <1>1 DEF Character, Advanced
  <2>2. ScanRight(scan)
    BY DEF ScanInv
  <2>3. scan.pos <= Len(scan.content)
    <3>1. PICK A, at, off, quoted, e : ScanIn(scan, A, at, off, quoted, e)
      BY <2>2 DEF ScanRight
    <3>2. scan \in ScanRec(A)
      BY <3>1 DEF ScanIn
    <3>3. scan.pos \in Nat /\ Len(scan.content) \in Nat
      BY <3>2 DEF ScanRec
    <3> QED
      BY <1>1, <3>3 DEF Character, Scanned
  <2>4. ScanRight(Advanced(scan)) /\ Advanced(scan).words = scan.words
    BY <2>2, <2>3, ScanMoves
  <2> QED
    BY <2>1, <2>4 DEF ScanInv
<1>2. CASE Prepend
  <2>1. request \in Requests /\ request' = request /\ phase' = "_CL_" /\ scan' = Scan(request._CL_)
    BY <1>2 DEF Prepend, ScanInv
  <2>2. WordList(request._CL_) /\ request.all \in BOOLEAN
    BY <2>1, RequestsAssumption
  <2>3. ScanRight(scan') /\ scan'.words = request._CL_
    BY <2>1, <2>2, ScanStarts DEF Scan
  <2> QED
    BY <2>1, <2>3 DEF ScanInv
<1>3. CASE ReadFile
  <2>1. request \in Requests /\ request' = request /\ phase' = "file" /\ scan' = Scan(request.file)
    BY <1>3 DEF ReadFile, ScanInv
  <2>2. WordList(request.file) /\ request.all \in BOOLEAN
    BY <2>1, RequestsAssumption
  <2>3. ScanRight(scan') /\ scan'.words = request.file
    BY <2>1, <2>2, ScanStarts DEF Scan
  <2> QED
    BY <2>1, <2>3 DEF ScanInv
<1>4. CASE UNCHANGED lineVars
  BY <1>4 DEF ScanInv, lineVars
<1>5. CASE ~(Character \/ Prepend \/ ReadFile) /\ LineNext
  <2>1. scan' = scan /\ request' = request /\ (phase' \in {"CL", "_CL_", "file"} => phase' = phase)
    <3>1. CASE Extend \/ Keep \/ Include \/ ExpandFails \/ CollectEnds
      BY <3>1 DEF Extend, Keep, Include, ExpandFails, CollectEnds
    <3>2. CASE PassOn \/ Schedule
      BY <3>2 DEF PassOn, Schedule
    <3>3. CASE Shutdown
      BY <3>3 DEF Shutdown
    <3>4. ASSUME NEW i \in DOMAIN jobs,
                 JobStarts(i) \/ JobEnds(i) \/ JobBreaks(i) \/ Collect(i) \/ CollectFails(i)
          PROVE  /\ scan' = scan /\ request' = request
                 /\ phase' \in {"CL", "_CL_", "file"} => phase' = phase
      BY <3>4 DEF JobStarts, JobEnds, JobBreaks, Collect, CollectFails
    <3> QED
      BY <1>5, <3>1, <3>2, <3>3, <3>4 DEF LineNext
  <2> QED
    BY <2>1 DEF ScanInv
<1> QED
  BY <1>1, <1>2, <1>3, <1>4, <1>5

\* The invariant of the scan holds for ever.
LEMMA AlwaysScan == LineSpec => []ScanInv
<1>1. LineInit => ScanInv
  BY ScanInit
<1>2. ScanInv /\ [LineNext]_lineVars => ScanInv'
  BY ScanStep
<1> QED
  BY <1>1, <1>2, PTL DEF LineSpec

\* The text of a list of words, taken apart, gives the words.
LEMMA TokensFollow == ScanInv => TokensAreRight
<1> SUFFICES ASSUME ScanInv, Scanned
             PROVE  Tokens(scan) = IF Len(scan.words) > 0 /\ scan.words[Len(scan.words)] = <<>>
                                   THEN Front(scan.words) ELSE scan.words
  BY DEF TokensAreRight
<1>1. ScanRight(scan)
  BY DEF ScanInv
<1>2. ~(scan.pos <= Len(scan.content))
  <2>1. PICK A, at, off, quoted, e : ScanIn(scan, A, at, off, quoted, e)
    BY <1>1 DEF ScanRight
  <2>2. scan \in ScanRec(A)
    BY <2>1 DEF ScanIn
  <2>3. scan.pos \in Nat /\ Len(scan.content) \in Nat
    BY <2>2 DEF ScanRec
  <2> QED
    BY <2>3 DEF Scanned
<1> QED
  BY <1>1, <1>2, ScanEnds

\* For all requests, whatever their variables and response files hold, the
\* tokenizer takes a text apart into the words that were written.
THEOREM TokensRight == LineSpec => []TokensAreRight
<1>1. LineSpec => []ScanInv
  BY AlwaysScan
<1>2. ScanInv => TokensAreRight
  BY TokensFollow
<1> QED
  BY <1>1, <1>2, PTL

-----------------------------------------------------------------------------
(* The loop of parseArgumentsAndInputFiles, word after word                *)

\* What the loop starts with
Turn0 == [options |-> <<>>, inputFiles |-> <<>>, awaits |-> <<>>, error |-> "none"]

\* What it makes of an analysis and more words
Fold(p, ws) == FoldLeft(ParseWord, p, ws)

\* What the analysis is after each word
Turns(p, ws, h) ==
    /\ h[0] = p
    /\ \A i \in 1 .. Len(ws) : h[i] = ParseWord(h[i - 1], ws[i])

\* The greatest number up to m + 1 of a set that has m + 1
LEMMA LastOf ==
    ASSUME NEW m \in Nat, NEW s \in SUBSET (1 .. m + 1), m + 1 \in s
    PROVE  Max(s) = m + 1
<1>1. \A y \in s : m + 1 >= y
  OBVIOUS
<1>2. \E x \in s : \A y \in s : x >= y
  BY <1>1
<1>3. Max(s) \in s /\ \A y \in s : Max(s) >= y
  BY <1>2 DEF Max
<1>4. Max(s) \in 1 .. m + 1 /\ Max(s) >= m + 1
  BY <1>3
<1> DEFINE x == Max(s)
<1>5. x \in 1 .. m + 1 /\ x >= m + 1
  BY <1>4
<1> HIDE DEF x
<1>6. x = m + 1
  BY <1>5
<1> QED
  BY <1>6 DEF x

\* The function that FoldLeft is defined by, on the subsets of 1 .. m
FoldsOn(f, p, ws, m) ==
    f = [s \in SUBSET (1 .. m) |->
           IF s = {} THEN p ELSE ParseWord(f[s \ {Max(s)}], ws[Max(s)])]

\* The function that FoldLeft is defined with exists, so it is what CHOOSE gives.
LEMMA FoldsExist ==
    ASSUME NEW p, NEW ws, NEW n \in Nat
    PROVE  \E f : FoldsOn(f, p, ws, n)
<1> DEFINE S == {m \in Nat : \E f : FoldsOn(f, p, ws, m)}
<1>1. 0 \in S
  <2> DEFINE f == [s \in SUBSET (1 .. 0) |-> p]
  <2>1. \A s \in SUBSET (1 .. 0) : s = {}
    OBVIOUS
  <2>2. FoldsOn(f, p, ws, 0)
    BY <2>1 DEF FoldsOn
  <2> QED
    BY <2>2
<1>2. ASSUME NEW m \in 0 .. n - 1, m \in S PROVE m + 1 \in S
  <2>1. PICK f : FoldsOn(f, p, ws, m)
    BY <1>2
  <2>2. \A s \in SUBSET (1 .. m) :
          f[s] = IF s = {} THEN p ELSE ParseWord(f[s \ {Max(s)}], ws[Max(s)])
    <3> DEFINE body(s) == IF s = {} THEN p ELSE ParseWord(f[s \ {Max(s)}], ws[Max(s)])
    <3>1. f = [s \in SUBSET (1 .. m) |-> body(s)]
      BY <2>1 DEF FoldsOn
    <3> HIDE DEF body
    <3>2. \A s \in SUBSET (1 .. m) : f[s] = body(s)
      BY <3>1
    <3> QED
      BY <3>2 DEF body
  <2> DEFINE g == [s \in SUBSET (1 .. m + 1) |->
                     IF m + 1 \in s THEN ParseWord(f[s \ {m + 1}], ws[m + 1]) ELSE f[s]]
             body(s) == IF s = {} THEN p ELSE ParseWord(g[s \ {Max(s)}], ws[Max(s)])
  <2>3. \A s \in SUBSET (1 .. m + 1) :
          g[s] = IF m + 1 \in s THEN ParseWord(f[s \ {m + 1}], ws[m + 1]) ELSE f[s]
    OBVIOUS
  <2>4. g = [s \in SUBSET (1 .. m + 1) |-> g[s]]
    OBVIOUS
  <2> HIDE DEF g
  <2>5. ASSUME NEW s \in SUBSET (1 .. m + 1) PROVE g[s] = body(s)
    <3>1. CASE m + 1 \in s
      <4>1. Max(s) = m + 1
        BY <3>1, LastOf
      <4>2. s \ {m + 1} \in SUBSET (1 .. m + 1) /\ m + 1 \notin s \ {m + 1}
        OBVIOUS
      <4>3. g[s \ {m + 1}] = f[s \ {m + 1}]
        BY <2>3, <4>2
      <4> QED
        BY <2>3, <3>1, <4>1, <4>3
    <3>2. CASE m + 1 \notin s
      <4>1. s \in SUBSET (1 .. m) /\ g[s] = f[s]
        <5>1. ASSUME NEW x \in s PROVE x \in 1 .. m
          <6>1. x \in 1 .. m + 1 /\ x # m + 1
            BY <3>2
          <6> QED
            BY <6>1
        <5>2. g[s] = f[s]
          BY <2>3, <3>2
        <5> QED
          BY <5>1, <5>2
      <4>2. s \ {Max(s)} \in SUBSET (1 .. m + 1) /\ m + 1 \notin s \ {Max(s)}
        BY <3>2
      <4>3. g[s \ {Max(s)}] = f[s \ {Max(s)}]
        BY <2>3, <4>2
      <4> QED
        BY <2>2, <4>1, <4>3
    <3> QED
      BY <3>1, <3>2
  <2> HIDE DEF body
  <2>6. g = [s \in SUBSET (1 .. m + 1) |-> body(s)]
    BY <2>4, <2>5
  <2>7. FoldsOn(g, p, ws, m + 1)
    BY <2>6 DEF FoldsOn, body
  <2> QED
    BY <2>7
<1> HIDE DEF S
<1>3. n \in S
  <2>1. \A i \in 0 .. n : i \in S
    BY <1>1, <1>2, Counting
  <2> QED
    BY <2>1
<1> QED
  BY <1>3 DEF S

\* The fold is where a sequence of turns ends.
LEMMA FoldTurns ==
    ASSUME NEW T, NEW ws \in Seq(T), NEW p
    PROVE  \E h : Turns(p, ws, h) /\ Fold(p, ws) = h[Len(ws)]
<1> DEFINE n == Len(ws)
           f == CHOOSE f : FoldsOn(f, p, ws, n)
           h == [i \in 0 .. n |-> f[1 .. i]]
           body(s) == IF s = {} THEN p ELSE ParseWord(f[s \ {Max(s)}], ws[Max(s)])
<1>0. n \in Nat /\ DOMAIN ws = 1 .. n
  OBVIOUS
<1>1. Fold(p, ws) = f[1 .. n]
  BY <1>0 DEF Fold, FoldLeft, MapThenFoldSet, FoldsOn
<1> HIDE DEF n
<1>2. FoldsOn(f, p, ws, n)
  BY <1>0, FoldsExist
<1> HIDE DEF f
<1>3. f = [s \in SUBSET (1 .. n) |-> body(s)]
  BY <1>2 DEF FoldsOn
<1> HIDE DEF body
<1>4. \A s \in SUBSET (1 .. n) : f[s] = body(s)
  BY <1>3
<1>5. h[0] = p
  <2>1. 1 .. 0 = {} /\ 1 .. 0 \in SUBSET (1 .. n) /\ 0 \in 0 .. n
    BY <1>0
  <2>2. h[0] = f[1 .. 0] /\ f[1 .. 0] = body(1 .. 0)
    BY <1>4, <2>1
  <2> QED
    BY <2>1, <2>2 DEF body
<1>6. ASSUME NEW i \in 1 .. n PROVE h[i] = ParseWord(h[i - 1], ws[i])
  <2>1. i - 1 \in Nat /\ (i - 1) + 1 = i /\ i - 1 \in 0 .. n /\ i \in 0 .. n
    BY <1>0
  <2>2. 1 .. i \in SUBSET (1 .. (i - 1) + 1) /\ i \in 1 .. i /\ 1 .. i \in SUBSET (1 .. n)
    BY <1>0
  <2>3. Max(1 .. i) = i
    BY <2>1, <2>2, LastOf
  <2>4. (1 .. i) \ {i} = 1 .. i - 1
    OBVIOUS
  <2>5. body(1 .. i) = ParseWord(f[(1 .. i) \ {i}], ws[i])
    BY <2>2, <2>3 DEF body
  <2>6. h[i] = f[1 .. i] /\ h[i - 1] = f[1 .. i - 1]
    BY <2>1
  <2> QED
    BY <1>4, <2>2, <2>4, <2>5, <2>6
<1>7. h[n] = f[1 .. n]
  BY <1>0
<1> HIDE DEF h
<1>8. Turns(p, ws, h)
  BY <1>5, <1>6 DEF Turns, n
<1> QED
  BY <1>1, <1>7, <1>8 DEF n

\* There is one sequence of turns only.
LEMMA TurnsAgree ==
    ASSUME NEW T, NEW ws \in Seq(T), NEW p, NEW g, NEW h, Turns(p, ws, g), Turns(p, ws, h)
    PROVE  \A i \in 0 .. Len(ws) : g[i] = h[i]
<1> DEFINE n == Len(ws)  S == {i \in 0 .. n : g[i] = h[i]}
<1>0. n \in Nat
  OBVIOUS
<1> HIDE DEF n
<1>1. 0 \in S
  BY <1>0 DEF Turns
<1>2. ASSUME NEW i \in 0 .. n - 1, i \in S PROVE i + 1 \in S
  <2>1. i + 1 \in 1 .. n /\ i + 1 \in 0 .. n /\ (i + 1) - 1 = i
    BY <1>0
  <2>2. g[i + 1] = ParseWord(g[i], ws[i + 1]) /\ h[i + 1] = ParseWord(h[i], ws[i + 1])
    BY <2>1 DEF Turns, n
  <2> QED
    BY <1>2, <2>1, <2>2
<1> HIDE DEF S
<1>3. \A i \in 0 .. n : i \in S
  BY <1>0, <1>1, <1>2, Counting
<1> QED
  BY <1>3 DEF S, n

\* Any sequence of turns ends in the fold.
LEMMA FoldIsLast ==
    ASSUME NEW T, NEW ws \in Seq(T), NEW p, NEW h, Turns(p, ws, h)
    PROVE  Fold(p, ws) = h[Len(ws)]
<1>1. PICK g : Turns(p, ws, g) /\ Fold(p, ws) = g[Len(ws)]
  BY FoldTurns
<1>2. \A i \in 0 .. Len(ws) : g[i] = h[i]
  BY <1>1, TurnsAgree
<1>3. Len(ws) \in 0 .. Len(ws)
  OBVIOUS
<1> QED
  BY <1>1, <1>2, <1>3

\* The analysis of two lists is that of the second after the first.
LEMMA FoldConcat ==
    ASSUME NEW T, NEW s \in Seq(T), NEW t \in Seq(T), NEW p
    PROVE  Fold(p, s \o t) = Fold(Fold(p, s), t)
<1> DEFINE m == Len(s)  n == Len(t)  c == s \o t
<1>0. m \in Nat /\ n \in Nat
  OBVIOUS
<1>1. /\ c \in Seq(T) /\ Len(c) = m + n
      /\ \A i \in 1 .. m : c[i] = s[i]
      /\ \A i \in 1 .. n : c[m + i] = t[i]
  BY ConcatLaid
<1>2. PICK h : Turns(p, c, h) /\ Fold(p, c) = h[Len(c)]
  BY <1>1, FoldTurns
<1> HIDE DEF c
<1> DEFINE g == [i \in 0 .. n |-> h[m + i]]
<1>3. Turns(p, s, h)
  <2>1. ASSUME NEW i \in 1 .. m PROVE h[i] = ParseWord(h[i - 1], s[i])
    <3>1. i \in 1 .. Len(c)
      BY <1>0, <1>1
    <3>2. h[i] = ParseWord(h[i - 1], c[i])
      BY <1>2, <3>1 DEF Turns
    <3> QED
      BY <1>1, <3>2
  <2> QED
    BY <1>2, <2>1 DEF Turns
<1>4. Fold(p, s) = h[m]
  BY <1>3, FoldIsLast
<1>5. Turns(h[m], t, g)
  <2>1. g[0] = h[m]
    BY <1>0
  <2>2. ASSUME NEW i \in 1 .. n PROVE g[i] = ParseWord(g[i - 1], t[i])
    <3>1. i \in 0 .. n /\ i - 1 \in 0 .. n /\ m + i \in 1 .. Len(c) /\ (m + i) - 1 = m + (i - 1)
      BY <1>0, <1>1
    <3>2. h[m + i] = ParseWord(h[(m + i) - 1], c[m + i])
      BY <1>2, <3>1 DEF Turns
    <3>3. c[m + i] = t[i]
      BY <1>1
    <3> QED
      BY <3>1, <3>2, <3>3
  <2> HIDE DEF g
  <2> QED
    BY <2>1, <2>2 DEF Turns
<1>6. g[n] = h[m + n]
  BY <1>0
<1> HIDE DEF g
<1>7. Fold(h[m], t) = g[n]
  BY <1>5, FoldIsLast
<1> QED
  BY <1>1, <1>2, <1>4, <1>6, <1>7 DEF c

\* One word is one turn.
LEMMA FoldOne ==
    ASSUME NEW T, NEW w \in T, NEW p
    PROVE  Fold(p, <<w>>) = ParseWord(p, w)
<1> DEFINE ws == <<w>>
<1>1. ws \in Seq(T) /\ Len(ws) = 1 /\ ws[1] = w
  OBVIOUS
<1> HIDE DEF ws
<1>2. PICK h : Turns(p, ws, h) /\ Fold(p, ws) = h[Len(ws)]
  BY <1>1, FoldTurns
<1>3. h[0] = p /\ h[1] = ParseWord(h[1 - 1], ws[1])
  BY <1>1, <1>2 DEF Turns
<1>4. 1 - 1 = 0
  OBVIOUS
<1> QED
  BY <1>1, <1>2, <1>3, <1>4 DEF ws

-----------------------------------------------------------------------------
(* What a turn of the loop does, in terms of sets                          *)

\* Words, options and analyses over the atoms A
AtomWords(A) == Seq(A) \ {<<>>}
Opts(A) == [name : Seq(A), value : Seq(A)]
Analyses(A) == [options : Seq(Opts(A)), inputFiles : Seq(AtomWords(A)), awaits : Seq(A),
                error : {"none", "InvalidArgument", "IndexError"}]

\* What an option begins with
Signs == {"/", "-"}

\* The options, the input files, the awaited option and the error that a word
\* brings when the analysis awaits a
Adds(a, w) ==
    IF a # <<>> THEN {[name |-> a, value |-> w]}
    ELSE IF w[1] \notin Signs THEN {}
    ELSE IF Name(w) \in NoSpace \cup Spaced /\ Value(w) = <<>> THEN {}
    ELSE IF Name(w) \in NoSpace \cup Optional \cup Spaced
    THEN {[name |-> <<w[2]>>, value |-> Value(w)]}
    ELSE {[name |-> Tail(w), value |-> <<>>]}

Files(a, w) == IF a = <<>> /\ w[1] \notin Signs THEN {w} ELSE {}

Awaits(a, w) == IF a = <<>> /\ w[1] \in Signs /\ Name(w) \in Spaced /\ Value(w) = <<>>
                THEN <<w[2]>> ELSE <<>>

Refuses(a, w) == a = <<>> /\ w[1] \in Signs /\ Name(w) \in NoSpace /\ Value(w) = <<>>

\* The set of the elements of a list that is longer by one.
LEMMA OneMore ==
    ASSUME NEW T, NEW s \in Seq(T), NEW x \in T
    PROVE  /\ s \o <<x>> \in Seq(T) /\ s \o <<x>> = Append(s, x)
           /\ ToSet(s \o <<x>>) = ToSet(s) \cup {x}
<1> DEFINE t == <<x>>  c == s \o t
<1>1. t \in Seq(T) /\ Len(t) = 1 /\ t[1] = x
  OBVIOUS
<1> HIDE DEF t
<1>2. /\ c \in Seq(T) /\ Len(c) = Len(s) + 1
      /\ \A i \in 1 .. Len(s) : c[i] = s[i]
      /\ \A i \in 1 .. 1 : c[Len(s) + i] = t[i]
  BY <1>1, ConcatLaid
<1> HIDE DEF c
<1>3. DOMAIN s = 1 .. Len(s) /\ DOMAIN c = 1 .. Len(s) + 1 /\ Len(s) \in Nat
  BY <1>2
<1>4. c[Len(s) + 1] = x
  BY <1>1, <1>2
<1>5. ToSet(c) = ToSet(s) \cup {x}
  <2>1. \A i \in 1 .. Len(s) + 1 : i = Len(s) + 1 \/ i \in 1 .. Len(s)
    BY <1>3
  <2>2. \A i \in 1 .. Len(s) : i \in 1 .. Len(s) + 1
    BY <1>3
  <2>3. Len(s) + 1 \in 1 .. Len(s) + 1
    BY <1>3
  <2> QED
    BY <1>2, <1>3, <1>4, <2>1, <2>2, <2>3 DEF ToSet
<1>6. s \o <<x>> = Append(s, x)
  OBVIOUS
<1> QED
  BY <1>2, <1>5, <1>6 DEF c, t

\* What ParseWord makes of an analysis, in terms of sets
TurnOf(p, w, q) ==
    /\ ToSet(q.options) = ToSet(p.options) \cup Adds(p.awaits, w)
    /\ ToSet(q.inputFiles) = ToSet(p.inputFiles) \cup Files(p.awaits, w)
    /\ q.awaits = Awaits(p.awaits, w)
    /\ q.error = IF Refuses(p.awaits, w) THEN "InvalidArgument" ELSE "none"

\* The parts of a word are made of its atoms.
LEMMA PartsTyped ==
    ASSUME NEW A, NEW w \in AtomWords(A)
    PROVE  /\ w[1] \in A /\ Value(w) \in Seq(A) /\ Tail(w) \in Seq(A)
           /\ Name(w) # Blank => Len(w) > 1 /\ w[2] \in A /\ Name(w) = w[2]
<1>1. w \in Seq(A) /\ Len(w) \in Nat /\ Len(w) # 0 /\ w # <<>>
  BY DEF AtomWords
<1>2. w[1] \in A /\ Value(w) \in Seq(A) /\ Tail(w) \in Seq(A)
  BY <1>1 DEF Value
<1> QED
  BY <1>1, <1>2 DEF Name

\* parseArgumentsAndInputFiles: what one word does to the analysis, said of sets.
LEMMA TurnIs ==
    ASSUME NEW A, NEW p \in Analyses(A), NEW w \in AtomWords(A), p.error = "none"
    PROVE  ParseWord(p, w) \in Analyses(A) /\ TurnOf(p, w, ParseWord(p, w))
<1> DEFINE q == ParseWord(p, w)
           rec(o, f, a, e) == [options |-> o, inputFiles |-> f, awaits |-> a, error |-> e]
<1>1. p = [options |-> p.options, inputFiles |-> p.inputFiles, awaits |-> p.awaits, error |-> p.error]
      /\ p.options \in Seq(Opts(A)) /\ p.inputFiles \in Seq(AtomWords(A)) /\ p.awaits \in Seq(A)
  BY DEF Analyses
<1>2. /\ w[1] \in A /\ Value(w) \in Seq(A) /\ Tail(w) \in Seq(A) /\ w \in Seq(A)
      /\ Name(w) # Blank => Len(w) > 1 /\ w[2] \in A /\ Name(w) = w[2]
  BY PartsTyped DEF AtomWords
<1>3. \A n, v \in Seq(A) : [name |-> n, value |-> v] \in Opts(A)
  BY DEF Opts
<1>4. ASSUME NEW o \in Opts(A), NEW a \in Seq(A),
             q = rec(p.options \o <<o>>, p.inputFiles, a, "none")
      PROVE  /\ q \in Analyses(A) /\ ToSet(q.options) = ToSet(p.options) \cup {o}
             /\ q.inputFiles = p.inputFiles /\ q.awaits = a /\ q.error = "none"
  <2>1. p.options \o <<o>> \in Seq(Opts(A)) /\ ToSet(p.options \o <<o>>) = ToSet(p.options) \cup {o}
    BY <1>1, OneMore
  <2> HIDE DEF q
  <2> QED
    BY <1>1, <1>4, <2>1 DEF Analyses
<1>5. <<>> \in Seq(A)
  OBVIOUS
<1>6. Blank \notin NoSpace \cup Optional \cup Spaced /\ NoSpace \cap Spaced = {}
  BY DEF Blank, NoSpace, Optional, Spaced
<1>7. CASE p.awaits # <<>>
  <2> DEFINE o == [name |-> p.awaits, value |-> w]
  <2>1. q = rec(p.options \o <<o>>, p.inputFiles, <<>>, "none")
    BY <1>1, <1>7 DEF ParseWord, Option
  <2>2. o \in Opts(A)
    BY <1>1, <1>2, <1>3
  <2>3. Adds(p.awaits, w) = {o}
    BY <1>7 DEF Adds
  <2>4. Files(p.awaits, w) = {} /\ Awaits(p.awaits, w) = <<>> /\ ~Refuses(p.awaits, w)
    BY <1>7 DEF Files, Awaits, Refuses
  <2> HIDE DEF o, q
  <2> QED
    BY <1>4, <1>5, <2>1, <2>2, <2>3, <2>4 DEF TurnOf, q
<1>8. CASE p.awaits = <<>> /\ w[1] \notin Signs
  <2>1. q = rec(p.options, p.inputFiles \o <<w>>, <<>>, "none")
    <3>1. Append(p.inputFiles, w) = p.inputFiles \o <<w>>
      BY <1>1, OneMore
    <3> QED
      BY <1>1, <1>8, <3>1 DEF ParseWord, Signs
  <2>2. p.inputFiles \o <<w>> \in Seq(AtomWords(A)) /\ ToSet(p.inputFiles \o <<w>>) = ToSet(p.inputFiles) \cup {w}
    BY <1>1, OneMore
  <2>3. Files(p.awaits, w) = {w} /\ Awaits(p.awaits, w) = <<>> /\ ~Refuses(p.awaits, w) /\ Adds(p.awaits, w) = {}
    BY <1>8 DEF Files, Awaits, Refuses, Adds
  <2> HIDE DEF q
  <2> QED
    BY <1>1, <1>5, <2>1, <2>2, <2>3 DEF TurnOf, Analyses, q
<1>9. CASE p.awaits = <<>> /\ w[1] \in Signs
  <2>0. Files(p.awaits, w) = {}
    BY <1>9 DEF Files
  <2>1. CASE Name(w) \in NoSpace /\ Value(w) = <<>>
    <3>1. q = rec(p.options, p.inputFiles, <<>>, "InvalidArgument")
      BY <1>1, <1>9, <2>1 DEF ParseWord, Signs
    <3>2. Awaits(p.awaits, w) = <<>> /\ Refuses(p.awaits, w) /\ Adds(p.awaits, w) = {}
      BY <1>6, <1>9, <2>1 DEF Awaits, Refuses, Adds
    <3> HIDE DEF q
    <3> QED
      BY <1>1, <1>5, <2>0, <3>1, <3>2 DEF TurnOf, Analyses, q
  <2>2. CASE Name(w) \in Spaced /\ Value(w) = <<>>
    <3>1. q = rec(p.options, p.inputFiles, <<w[2]>>, "none")
      BY <1>1, <1>6, <1>9, <2>2 DEF ParseWord, Signs
    <3>2. Awaits(p.awaits, w) = <<w[2]>> /\ ~Refuses(p.awaits, w) /\ Adds(p.awaits, w) = {}
      BY <1>6, <1>9, <2>2 DEF Awaits, Refuses, Adds
    <3>3. <<w[2]>> \in Seq(A)
      BY <1>2, <1>6, <2>2
    <3> HIDE DEF q
    <3> QED
      BY <1>1, <2>0, <3>1, <3>2, <3>3 DEF TurnOf, Analyses, q
  <2>3. CASE ~(Name(w) \in NoSpace \cup Spaced /\ Value(w) = <<>>) /\ Name(w) \in NoSpace \cup Optional \cup Spaced
    <3> DEFINE o == [name |-> <<w[2]>>, value |-> Value(w)]
    <3>1. q = rec(p.options \o <<o>>, p.inputFiles, <<>>, "none")
      BY <1>1, <1>9, <2>3 DEF ParseWord, Signs, Option
    <3>2. Awaits(p.awaits, w) = <<>> /\ ~Refuses(p.awaits, w) /\ Adds(p.awaits, w) = {o}
      BY <1>9, <2>3 DEF Awaits, Refuses, Adds
    <3>3. <<w[2]>> \in Seq(A)
      BY <1>2, <1>6, <2>3
    <3>4. o \in Opts(A)
      BY <1>2, <1>3, <3>3
    <3> HIDE DEF o, q
    <3> QED
      BY <1>4, <1>5, <2>0, <3>1, <3>2, <3>4 DEF TurnOf, q
  <2>4. CASE Name(w) \notin NoSpace \cup Optional \cup Spaced
    <3> DEFINE o == [name |-> Tail(w), value |-> <<>>]
    <3>1. q = rec(p.options \o <<o>>, p.inputFiles, <<>>, "none")
      BY <1>1, <1>9, <2>4 DEF ParseWord, Signs, Option
    <3>2. Awaits(p.awaits, w) = <<>> /\ ~Refuses(p.awaits, w) /\ Adds(p.awaits, w) = {o}
      BY <1>9, <2>4 DEF Awaits, Refuses, Adds
    <3>4. o \in Opts(A)
      BY <1>2, <1>3, <1>5
    <3> HIDE DEF o, q
    <3> QED
      BY <1>4, <1>5, <2>0, <3>1, <3>2, <3>4 DEF TurnOf, q
  <2> QED
    BY <2>1, <2>2, <2>3, <2>4
<1> QED
  BY <1>7, <1>8, <1>9

\* An error stays.
LEMMA ErrorStays ==
    ASSUME NEW p, NEW w, p.error # "none"
    PROVE  ParseWord(p, w) = p
  BY DEF ParseWord

\* A turn forgets nothing, and makes an analysis of an analysis.
LEMMA TurnGrows ==
    ASSUME NEW A, NEW p \in Analyses(A), NEW w \in AtomWords(A)
    PROVE  LET q == ParseWord(p, w)
           IN  /\ q \in Analyses(A)
               /\ ToSet(p.options) \subseteq ToSet(q.options)
               /\ ToSet(p.inputFiles) \subseteq ToSet(q.inputFiles)
               /\ q.error = "none" => p.error = "none"
<1> DEFINE q == ParseWord(p, w)
<1>1. CASE p.error = "none"
  <2>1. q \in Analyses(A) /\ TurnOf(p, w, q)
    BY <1>1, TurnIs
  <2> HIDE DEF q
  <2>2. ToSet(p.options) \subseteq ToSet(q.options) /\ ToSet(p.inputFiles) \subseteq ToSet(q.inputFiles)
    BY <2>1 DEF TurnOf
  <2> QED
    BY <1>1, <2>1, <2>2 DEF q
<1>2. CASE p.error # "none"
  BY <1>2, ErrorStays
<1> QED
  BY <1>1, <1>2

\* So do many turns.
Grows(p, q) ==
    /\ ToSet(p.options) \subseteq ToSet(q.options)
    /\ ToSet(p.inputFiles) \subseteq ToSet(q.inputFiles)
    /\ q.error = "none" => p.error = "none"

\* No turn loses an option or an input file of an earlier one.
LEMMA TurnsGrow ==
    ASSUME NEW A, NEW ws \in Seq(AtomWords(A)), NEW p \in Analyses(A), NEW h, Turns(p, ws, h)
    PROVE  \A i \in 0 .. Len(ws) : h[i] \in Analyses(A) /\ Grows(h[i], h[Len(ws)])
<1> DEFINE n == Len(ws)
           S == {i \in 0 .. n : h[i] \in Analyses(A)}
<1>0. n \in Nat /\ \A i \in 1 .. n : ws[i] \in AtomWords(A)
  OBVIOUS
<1>1. h[0] = p /\ \A i \in 1 .. n : h[i] = ParseWord(h[i - 1], ws[i])
  BY DEF Turns
<1> HIDE DEF n
<1>2. \A i \in 0 .. n : i \in S
  <2>1. 0 \in S
    BY <1>0, <1>1
  <2>2. ASSUME NEW i \in 0 .. n - 1, i \in S PROVE i + 1 \in S
    <3>1. i + 1 \in 1 .. n /\ i + 1 \in 0 .. n /\ (i + 1) - 1 = i
      BY <1>0
    <3>2. h[i + 1] = ParseWord(h[i], ws[i + 1])
      BY <1>1, <3>1
    <3>3. h[i] \in Analyses(A) /\ ws[i + 1] \in AtomWords(A)
      BY <1>0, <2>2, <3>1
    <3>4. h[i + 1] \in Analyses(A)
      BY <3>2, <3>3, TurnGrows
    <3> QED
      BY <3>1, <3>4
  <2> HIDE DEF S
  <2> QED
    BY <1>0, <2>1, <2>2, Counting
<1>3. ASSUME NEW i \in 0 .. n PROVE Grows(h[i], h[n])
  <2> DEFINE R == {j \in i .. n : Grows(h[i], h[j])}
  <2>0. i \in Nat /\ n \in i .. n
    BY <1>0
  <2>1. i \in R
    BY <1>0 DEF Grows
  <2>2. ASSUME NEW j \in i .. n - 1, j \in R PROVE j + 1 \in R
    <3>1. j + 1 \in 1 .. n /\ j + 1 \in i .. n /\ (j + 1) - 1 = j /\ j \in 0 .. n
      BY <1>0
    <3>2. h[j + 1] = ParseWord(h[j], ws[j + 1])
      BY <1>1, <3>1
    <3>3. h[j] \in Analyses(A) /\ ws[j + 1] \in AtomWords(A)
      BY <1>0, <1>2, <3>1
    <3>4. Grows(h[j], h[j + 1])
      BY <3>2, <3>3, TurnGrows DEF Grows
    <3>5. Grows(h[i], h[j + 1])
      BY <2>2, <3>4 DEF Grows
    <3> QED
      BY <3>1, <3>5
  <2> HIDE DEF R
  <2>3. \A j \in i .. n : j \in R
    BY <1>0, <2>0, <2>1, <2>2, Counting
  <2> QED
    BY <2>0, <2>3 DEF R
<1> HIDE DEF S
<1>4. \A i \in 0 .. n : h[i] \in Analyses(A)
  BY <1>2 DEF S
<1> QED
  BY <1>3, <1>4 DEF n

\* What comes after words that leave nothing open is analysed as if it stood
\* by itself.
Joins(p, q, r) ==
    /\ ToSet(r.options) = ToSet(p.options) \cup ToSet(q.options)
    /\ ToSet(r.inputFiles) = ToSet(p.inputFiles) \cup ToSet(q.inputFiles)
    /\ r.awaits = q.awaits /\ r.error = q.error

\* A word does to the analysis of more words what it does to that of fewer.
LEMMA TurnJoins ==
    ASSUME NEW A, NEW p, NEW q \in Analyses(A), NEW r \in Analyses(A), Joins(p, q, r),
           NEW w \in AtomWords(A)
    PROVE  Joins(p, ParseWord(q, w), ParseWord(r, w))
<1>1. CASE q.error = "none"
  <2> DEFINE q2 == ParseWord(q, w)  r2 == ParseWord(r, w)
  <2>1. TurnOf(q, w, q2)
    BY <1>1, TurnIs
  <2>2. TurnOf(r, w, r2)
    BY <1>1, TurnIs DEF Joins
  <2> HIDE DEF q2, r2
  <2>3. r.awaits = q.awaits
    BY DEF Joins
  <2>4. Joins(p, q2, r2)
    BY <2>1, <2>2, <2>3 DEF TurnOf, Joins
  <2> QED
    BY <2>4 DEF q2, r2
<1>2. CASE q.error # "none"
  BY <1>2, ErrorStays DEF Joins
<1> QED
  BY <1>1, <1>2

\* The analysis of no word
LEMMA Turn0Typed ==
    ASSUME NEW A
    PROVE  Turn0 \in Analyses(A) /\ ToSet(Turn0.options) = {} /\ ToSet(Turn0.inputFiles) = {}
<1>1. <<>> \in Seq(Opts(A)) /\ <<>> \in Seq(AtomWords(A)) /\ <<>> \in Seq(A)
  OBVIOUS
<1>2. ToSet(<<>>) = {}
  BY DEF ToSet
<1> QED
  BY <1>1, <1>2 DEF Turn0, Analyses

\* What is analysed after some words is what is analysed alone, with those words' options.
LEMMA FoldJoins ==
    ASSUME NEW A, NEW ws \in Seq(AtomWords(A)), NEW p \in Analyses(A),
           p.error = "none", p.awaits = <<>>
    PROVE  Joins(p, Fold(Turn0, ws), Fold(p, ws))
<1>1. PICK g : Turns(Turn0, ws, g) /\ Fold(Turn0, ws) = g[Len(ws)]
  BY FoldTurns
<1>2. PICK h : Turns(p, ws, h) /\ Fold(p, ws) = h[Len(ws)]
  BY FoldTurns
<1>3. \A i \in 0 .. Len(ws) : g[i] \in Analyses(A) /\ h[i] \in Analyses(A)
  BY <1>1, <1>2, Turn0Typed, TurnsGrow
<1> DEFINE n == Len(ws)
           S == {i \in 0 .. n : Joins(p, g[i], h[i])}
<1>0. n \in Nat /\ n \in 0 .. n /\ \A i \in 1 .. n : ws[i] \in AtomWords(A)
  OBVIOUS
<1>4. g[0] = Turn0 /\ h[0] = p
      /\ \A i \in 1 .. n : g[i] = ParseWord(g[i - 1], ws[i]) /\ h[i] = ParseWord(h[i - 1], ws[i])
  BY <1>1, <1>2 DEF Turns
<1> HIDE DEF n
<1>5. 0 \in S
  <2>1. Joins(p, Turn0, p)
    BY Turn0Typed DEF Joins, Turn0
  <2> QED
    BY <1>0, <1>4, <2>1
<1>6. ASSUME NEW i \in 0 .. n - 1, i \in S PROVE i + 1 \in S
  <2>1. i + 1 \in 1 .. n /\ i + 1 \in 0 .. n /\ (i + 1) - 1 = i /\ i \in 0 .. n
    BY <1>0
  <2>2. g[i + 1] = ParseWord(g[i], ws[i + 1]) /\ h[i + 1] = ParseWord(h[i], ws[i + 1])
    BY <1>4, <2>1
  <2>3. g[i] \in Analyses(A) /\ h[i] \in Analyses(A) /\ ws[i + 1] \in AtomWords(A) /\ Joins(p, g[i], h[i])
    BY <1>0, <1>3, <1>6, <2>1 DEF n
  <2>4. Joins(p, g[i + 1], h[i + 1])
    BY <2>2, <2>3, TurnJoins
  <2> QED
    BY <2>1, <2>4
<1> HIDE DEF S
<1>7. \A i \in 0 .. n : i \in S
  BY <1>0, <1>5, <1>6, Counting
<1> QED
  BY <1>0, <1>1, <1>2, <1>7 DEF S, n

\* The loop gives an analysis, which keeps what it started from.
LEMMA FoldTyped ==
    ASSUME NEW A, NEW ws \in Seq(AtomWords(A)), NEW p \in Analyses(A)
    PROVE  Fold(p, ws) \in Analyses(A) /\ Grows(p, Fold(p, ws))
<1>1. PICK h : Turns(p, ws, h) /\ Fold(p, ws) = h[Len(ws)]
  BY FoldTurns
<1>2. \A i \in 0 .. Len(ws) : h[i] \in Analyses(A) /\ Grows(h[i], h[Len(ws)])
  BY <1>1, TurnsGrow
<1>3. 0 \in 0 .. Len(ws) /\ Len(ws) \in 0 .. Len(ws) /\ h[0] = p
  BY <1>1 DEF Turns
<1> QED
  BY <1>1, <1>2, <1>3

-----------------------------------------------------------------------------
(* Lists that are filtered                                                 *)

\* The elements of v at the places of D
Chosen(v, D) == FlattenSeq([i \in 1 .. Len(v) |-> IF i \in D THEN <<v[i]>> ELSE <<>>])

\* Where each of them goes
Placed(v, D, c, off) ==
    /\ off \in [0 .. Len(v) -> Nat] /\ off[0] = 0 /\ Len(c) = off[Len(v)]
    /\ \A i \in 1 .. Len(v) : i \in D => off[i] = off[i - 1] + 1 /\ c[off[i]] = v[i]
    /\ \A i \in 1 .. Len(v) : i \notin D => off[i] = off[i - 1]

\* The chosen elements stand in the order of the list.
LEMMA ChosenPlaced ==
    ASSUME NEW T, NEW v \in Seq(T), NEW D
    PROVE  Chosen(v, D) \in Seq(T) /\ \E off : Placed(v, D, Chosen(v, D), off)
<1> DEFINE n == Len(v)
           s == [i \in 1 .. n |-> IF i \in D THEN <<v[i]>> ELSE <<>>]
<1>0. n \in Nat /\ \A i \in 1 .. n : v[i] \in T
  OBVIOUS
<1>1. \A i \in 1 .. n : s[i] = IF i \in D THEN <<v[i]>> ELSE <<>>
  OBVIOUS
<1>2. \A i \in 1 .. n : <<v[i]>> \in Seq(T) /\ <<>> \in Seq(T)
  BY <1>0
<1>3. s \in Seq(Seq(T)) /\ Len(s) = n
  BY <1>0, <1>2
<1>4. Chosen(v, D) = FlattenSeq(s)
  BY DEF Chosen
<1> HIDE DEF s
<1>5. FlattenSeq(s) \in Seq(T) /\ \E off : Offsets(s, off) /\ Joined(s, off, FlattenSeq(s))
  BY <1>3, FlattenJoins
<1>6. PICK off : Offsets(s, off) /\ Joined(s, off, FlattenSeq(s))
  BY <1>5
<1> DEFINE c == FlattenSeq(s)
<1> HIDE DEF c, n
<1>7. /\ off \in [0 .. n -> Nat] /\ off[0] = 0 /\ Len(c) = off[n]
      /\ \A i \in 1 .. n : off[i] = off[i - 1] + Len(s[i])
      /\ \A i \in 1 .. n : \A j \in 1 .. Len(s[i]) : c[off[i - 1] + j] = s[i][j]
  BY <1>3, <1>6 DEF Offsets, Joined, c
<1>8. ASSUME NEW i \in 1 .. n, i \in D PROVE off[i] = off[i - 1] + 1 /\ c[off[i]] = v[i]
  <2>1. s[i] = <<v[i]>>
    BY <1>1, <1>8
  <2>2. Len(s[i]) = 1 /\ s[i][1] = v[i]
    BY <2>1
  <2>3. 1 \in 1 .. Len(s[i])
    BY <2>2
  <2> QED
    BY <1>7, <2>2, <2>3
<1>9. ASSUME NEW i \in 1 .. n, i \notin D PROVE off[i] = off[i - 1]
  <2>1. s[i] = <<>>
    BY <1>1, <1>9
  <2>2. Len(s[i]) = 0 /\ i - 1 \in 0 .. n
    BY <1>0, <2>1
  <2>3. off[i - 1] \in Nat
    BY <1>7, <2>2
  <2> QED
    BY <1>7, <2>2, <2>3
<1>10. Placed(v, D, c, off)
  BY <1>7, <1>8, <1>9 DEF Placed, n
<1> QED
  BY <1>4, <1>5, <1>10 DEF c

\* Every place of the result is that of one element.
LEMMA PlacesFilled ==
    ASSUME NEW T, NEW v \in Seq(T), NEW D, NEW c, NEW off, Placed(v, D, c, off)
    PROVE  /\ \A i \in 0 .. Len(v) : off[i] <= Len(c)
           /\ \A x \in 1 .. Len(c) : \E i \in 1 .. Len(v) : i \in D /\ off[i] = x
<1> DEFINE n == Len(v)
<1>0. n \in Nat
  OBVIOUS
<1> HIDE DEF n
<1>1. /\ off \in [0 .. n -> Nat] /\ off[0] = 0 /\ Len(c) = off[n]
      /\ \A i \in 1 .. n : i \in D => off[i] = off[i - 1] + 1
      /\ \A i \in 1 .. n : i \notin D => off[i] = off[i - 1]
  BY DEF Placed, n
<1> DEFINE S == {m \in 0 .. n : /\ \A i \in 0 .. m : off[i] <= off[m]
                               /\ \A x \in 1 .. off[m] : \E i \in 1 .. n : i \in D /\ off[i] = x}
<1>2. 0 \in S
  <2>1. \A i \in 0 .. 0 : i = 0
    OBVIOUS
  <2>2. 1 .. off[0] = {} /\ off[0] <= off[0] /\ 0 \in 0 .. n
    BY <1>0, <1>1
  <2>3. \A i \in 0 .. 0 : off[i] <= off[0]
    BY <2>1, <2>2
  <2>4. \A x \in 1 .. off[0] : \E i \in 1 .. n : i \in D /\ off[i] = x
    BY <2>2
  <2> QED
    BY <2>2, <2>3, <2>4
<1>3. ASSUME NEW m \in 0 .. n - 1, m \in S PROVE m + 1 \in S
  <2>1. m + 1 \in 1 .. n /\ m + 1 \in 0 .. n /\ (m + 1) - 1 = m /\ m \in 0 .. n
    BY <1>0
  <2>2. off[m] \in Nat /\ off[m + 1] \in Nat /\ \A i \in 0 .. n : off[i] \in Nat
    BY <1>1, <2>1
  <2>3. off[m + 1] = off[m] \/ (off[m + 1] = off[m] + 1 /\ m + 1 \in D)
    BY <1>1, <2>1
  <2>4. ASSUME NEW i \in 0 .. m + 1 PROVE off[i] <= off[m + 1]
    <3>1. i = m + 1 \/ (i \in 0 .. m /\ i \in 0 .. n)
      BY <1>0
    <3>2. CASE i = m + 1
      BY <2>2, <3>2
    <3>3. CASE i \in 0 .. m /\ i \in 0 .. n
      <4>1. off[i] <= off[m] /\ off[i] \in Nat
        BY <1>3, <2>2, <3>3
      <4> QED
        BY <2>2, <2>3, <4>1
    <3> QED
      BY <3>1, <3>2, <3>3
  <2>5. ASSUME NEW x \in 1 .. off[m + 1] PROVE \E i \in 1 .. n : i \in D /\ off[i] = x
    <3>1. x \in 1 .. off[m] \/ (x = off[m + 1] /\ m + 1 \in D)
      BY <2>2, <2>3
    <3>2. \A y \in 1 .. off[m] : \E i \in 1 .. n : i \in D /\ off[i] = y
      BY <1>3
    <3>3. CASE x \in 1 .. off[m]
      BY <3>2, <3>3
    <3>4. CASE x = off[m + 1] /\ m + 1 \in D
      BY <2>1, <3>4
    <3> QED
      BY <3>1, <3>3, <3>4
  <2> QED
    BY <2>1, <2>4, <2>5
<1> HIDE DEF S
<1>4. n \in S
  <2>1. \A i \in 0 .. n : i \in S
    BY <1>0, <1>2, <1>3, Counting
  <2> QED
    BY <1>0, <2>1
<1> QED
  BY <1>1, <1>4 DEF S, n

\* The elements of the result are those at the places of D.
LEMMA ChosenSet ==
    ASSUME NEW T, NEW v \in Seq(T), NEW D
    PROVE  ToSet(Chosen(v, D)) = {v[i] : i \in {k \in 1 .. Len(v) : k \in D}}
<1> DEFINE c == Chosen(v, D)  n == Len(v)
<1>1. c \in Seq(T)
  BY ChosenPlaced
<1>2. PICK off : Placed(v, D, c, off)
  BY ChosenPlaced
<1> HIDE DEF c
<1>3. /\ \A i \in 0 .. n : off[i] <= Len(c)
      /\ \A x \in 1 .. Len(c) : \E i \in 1 .. n : i \in D /\ off[i] = x
  BY <1>2, PlacesFilled
<1>4. /\ off \in [0 .. n -> Nat]
      /\ \A i \in 1 .. n : i \in D => off[i] = off[i - 1] + 1 /\ c[off[i]] = v[i]
  BY <1>2 DEF Placed
<1>5. DOMAIN c = 1 .. Len(c) /\ Len(c) \in Nat
  BY <1>1
<1>6. ASSUME NEW i \in 1 .. n, i \in D PROVE v[i] \in ToSet(c)
  <2>1. i \in 0 .. n /\ i - 1 \in 0 .. n
    OBVIOUS
  <2>2. off[i - 1] \in Nat /\ off[i] \in Nat /\ off[i] = off[i - 1] + 1 /\ off[i] <= Len(c)
    BY <1>3, <1>4, <1>6, <2>1
  <2>3. off[i] \in 1 .. Len(c)
    BY <1>5, <2>2
  <2> QED
    BY <1>4, <1>5, <1>6, <2>3 DEF ToSet
<1>7. ASSUME NEW x \in 1 .. Len(c) PROVE \E i \in 1 .. n : i \in D /\ c[x] = v[i]
  BY <1>3, <1>4
<1> QED
  BY <1>5, <1>6, <1>7 DEF ToSet, c, n

\* A filter as places
LEMMA OnlyIsChosen ==
    ASSUME NEW T, NEW list \in Seq(T), NEW wanted
    PROVE  Only(list, wanted) = Chosen(list, {i \in 1 .. Len(list) : list[i] \in wanted})
<1> DEFINE D == {i \in 1 .. Len(list) : list[i] \in wanted}
           one(i) == IF list[i] \in wanted THEN <<list[i]>> ELSE <<>>
           two(i) == IF i \in D THEN <<list[i]>> ELSE <<>>
<1>1. \A i \in 1 .. Len(list) : one(i) = two(i)
  OBVIOUS
<1>2. DOMAIN list = 1 .. Len(list)
  OBVIOUS
<1> HIDE DEF one, two
<1>3. [i \in DOMAIN list |-> one(i)] = [i \in 1 .. Len(list) |-> two(i)]
  BY <1>1, <1>2
<1>4. FlattenSeq([i \in DOMAIN list |-> one(i)]) = FlattenSeq([i \in 1 .. Len(list) |-> two(i)])
  BY <1>3
<1>5. Only(list, wanted) = FlattenSeq([i \in DOMAIN list |-> one(i)])
  BY DEF Only, one
<1>6. Chosen(list, D) = FlattenSeq([i \in 1 .. Len(list) |-> two(i)])
  BY DEF Chosen, two
<1> QED
  BY <1>4, <1>5, <1>6

\* A filtered list has the elements that are wanted, and no others.
LEMMA OnlySet ==
    ASSUME NEW T, NEW list \in Seq(T), NEW wanted
    PROVE  /\ Only(list, wanted) \in Seq(T)
           /\ ToSet(Only(list, wanted)) = ToSet(list) \cap wanted
<1> DEFINE D == {i \in 1 .. Len(list) : list[i] \in wanted}
<1>1. Only(list, wanted) = Chosen(list, D)
  BY OnlyIsChosen
<1>2. Chosen(list, D) \in Seq(T)
  BY ChosenPlaced
<1>3. ToSet(Chosen(list, D)) = {list[i] : i \in {k \in 1 .. Len(list) : k \in D}}
  BY ChosenSet
<1>4. DOMAIN list = 1 .. Len(list)
  OBVIOUS
<1>5. {list[i] : i \in {k \in 1 .. Len(list) : k \in D}} = ToSet(list) \cap wanted
  BY <1>4 DEF ToSet
<1> QED
  BY <1>1, <1>2, <1>3, <1>5

-----------------------------------------------------------------------------
(* The analysis of a list that is filtered                                 *)

\* The turns of the loop that come to words of k
Skips(p, ws, k, g) ==
    /\ g[0] = p
    /\ \A i \in 1 .. Len(ws) :
         g[i] = IF ws[i] \in k THEN ParseWord(g[i - 1], ws[i]) ELSE g[i - 1]

\* What skips words of the list that k1 leaves, skips words of the list
Pulled(p, ws, k1, k2, h) ==
    \E g : Skips(p, ws, k1 \cap k2, g) /\ g[Len(ws)] = h[Len(Only(ws, k1))]

\* To skip words of a list that is filtered is to skip words of the list.
LEMMA SkipsPulled ==
    ASSUME NEW T, NEW ws \in Seq(T), NEW k1, NEW k2, NEW p, NEW h,
           Skips(p, Only(ws, k1), k2, h)
    PROVE  Pulled(p, ws, k1, k2, h)
<1> DEFINE n == Len(ws)
           D == {i \in 1 .. n : ws[i] \in k1}
           c == Only(ws, k1)
<1>0. n \in Nat
  OBVIOUS
<1>1. c \in Seq(T) /\ \E off : Placed(ws, D, c, off)
  <2>1. c = Chosen(ws, D)
    BY OnlyIsChosen
  <2> QED
    BY <2>1, ChosenPlaced
<1>2. PICK off : Placed(ws, D, c, off)
  BY <1>1
<1>3. h[0] = p /\ \A x \in 1 .. Len(c) : h[x] = IF c[x] \in k2 THEN ParseWord(h[x - 1], c[x]) ELSE h[x - 1]
  BY DEF Skips
<1> HIDE DEF c, D
<1>4. \A i \in 0 .. n : off[i] <= Len(c)
  BY <1>2, PlacesFilled
<1>5. /\ off \in [0 .. n -> Nat] /\ off[0] = 0 /\ Len(c) = off[n]
      /\ \A i \in 1 .. n : i \in D => off[i] = off[i - 1] + 1 /\ c[off[i]] = ws[i]
      /\ \A i \in 1 .. n : i \notin D => off[i] = off[i - 1]
  BY <1>2 DEF Placed
<1> DEFINE g == [i \in 0 .. n |-> h[off[i]]]
<1> HIDE DEF n
<1>6. g[0] = p /\ g[n] = h[Len(c)]
  BY <1>0, <1>3, <1>5
<1>7. ASSUME NEW i \in 1 .. n
      PROVE  g[i] = IF ws[i] \in k1 \cap k2 THEN ParseWord(g[i - 1], ws[i]) ELSE g[i - 1]
  <2>1. i \in 0 .. n /\ i - 1 \in 0 .. n
    BY <1>0
  <2>2. g[i] = h[off[i]] /\ g[i - 1] = h[off[i - 1]]
    BY <2>1
  <2> HIDE DEF g
  <2>3. CASE i \in D
    <3>1. off[i] = off[i - 1] + 1 /\ c[off[i]] = ws[i] /\ ws[i] \in k1
      BY <1>5, <2>3 DEF D
    <3>2. off[i - 1] \in Nat /\ off[i] <= Len(c) /\ Len(c) \in Nat
      BY <1>1, <1>4, <1>5, <2>1
    <3>3. off[i] \in 1 .. Len(c) /\ off[i] - 1 = off[i - 1]
      BY <3>1, <3>2
    <3>4. h[off[i]] = IF c[off[i]] \in k2 THEN ParseWord(h[off[i] - 1], c[off[i]]) ELSE h[off[i] - 1]
      BY <1>3, <3>3
    <3> QED
      BY <2>2, <3>1, <3>3, <3>4
  <2>4. CASE i \notin D
    <3>1. off[i] = off[i - 1] /\ ws[i] \notin k1
      BY <1>5, <2>4 DEF D, n
    <3> QED
      BY <2>2, <3>1
  <2> QED
    BY <2>3, <2>4
<1> HIDE DEF g
<1>8. Skips(p, ws, k1 \cap k2, g)
  BY <1>6, <1>7 DEF Skips, n
<1> QED
  BY <1>6, <1>8 DEF Pulled, c, n

-----------------------------------------------------------------------------
(* The sources of an analysis                                              *)

\* The parameters of an option
Given(p, name) == {o.value : o \in {x \in ToSet(p.options) : x.name = <<name>>}}

\* The files that an analysis names, with or without a language
NamedFiles(p) == ToSet(p.inputFiles) \cup Given(p, "Tp") \cup Given(p, "Tc")

\* The option that a source is given with to a job
LangOf(p, f) == IF f \in Given(p, "Tc") THEN <<"/", "Tc">>
                ELSE IF f \in Given(p, "Tp") THEN <<"/", "Tp">> ELSE <<>>

\* A file as an element of Sources
SourceOf(p, f) == [file |-> f, lang |-> LangOf(p, f)]

\* The values of an option
LEMMA ValuesAre ==
    ASSUME NEW A, NEW p \in Analyses(A), NEW name
    PROVE  Values(p, name) \in Seq(Seq(A)) /\ ToSet(Values(p, name)) = Given(p, name)
<1> DEFINE k == {o \in ToSet(p.options) : o.name = <<name>>}
           c == Only(p.options, k)
           v == [i \in DOMAIN c |-> c[i].value]
<1>1. p.options \in Seq(Opts(A))
  BY DEF Analyses
<1>2. c \in Seq(Opts(A)) /\ ToSet(c) = ToSet(p.options) \cap k
  BY <1>1, OnlySet
<1>3. ToSet(p.options) \cap k = k
  OBVIOUS
<1>4. Values(p, name) = v
  BY DEF Values
<1>5. Given(p, name) = {o.value : o \in k}
  BY DEF Given
<1> HIDE DEF c, k
<1>6. DOMAIN c = 1 .. Len(c) /\ Len(c) \in Nat /\ \A i \in 1 .. Len(c) : c[i] \in Opts(A)
  BY <1>2
<1>7. \A i \in 1 .. Len(c) : c[i].value \in Seq(A)
  BY <1>6 DEF Opts
<1>8. v \in Seq(Seq(A)) /\ DOMAIN v = DOMAIN c
  BY <1>6, <1>7
<1>9. ToSet(v) = {o.value : o \in ToSet(c)}
  BY <1>8 DEF ToSet
<1> QED
  BY <1>2, <1>3, <1>4, <1>5, <1>8, <1>9

\* The language of a source, without reference to the order of the options
LEMMA LanguageIs ==
    ASSUME NEW A, NEW p \in Analyses(A), NEW f
    PROVE  Language(p, f) = LangOf(p, f)
<1>1. ToSet(Values(p, "Tc")) = Given(p, "Tc") /\ ToSet(Values(p, "Tp")) = Given(p, "Tp")
  BY ValuesAre
<1>2. CASE f \in Given(p, "Tc")
  BY <1>1, <1>2 DEF Language, LangOf
<1>3. CASE f \notin Given(p, "Tc") /\ f \in Given(p, "Tp")
  BY <1>1, <1>3 DEF Language, LangOf
<1>4. CASE f \notin Given(p, "Tc") /\ f \notin Given(p, "Tp")
  BY <1>1, <1>4 DEF Language, LangOf
<1> QED
  BY <1>2, <1>3, <1>4

\* The list of the files named, and the places where one is named first
FilesOf(p) == p.inputFiles \o Values(p, "Tp") \o Values(p, "Tc")

\* The places at which a file is named for the first time
Firsts(files) == {i \in 1 .. Len(files) : ~\E k \in 1 .. i - 1 : files[k] = files[i]}

\* The elements of two lists one after the other
LEMMA ConcatSet ==
    ASSUME NEW T, NEW s \in Seq(T), NEW t \in Seq(T)
    PROVE  s \o t \in Seq(T) /\ ToSet(s \o t) = ToSet(s) \cup ToSet(t)
<1> DEFINE c == s \o t  m == Len(s)  n == Len(t)
<1>1. /\ c \in Seq(T) /\ Len(c) = m + n
      /\ \A i \in 1 .. m : c[i] = s[i]
      /\ \A i \in 1 .. n : c[m + i] = t[i]
  BY ConcatLaid
<1>2. DOMAIN s = 1 .. m /\ DOMAIN t = 1 .. n /\ m \in Nat /\ n \in Nat /\ DOMAIN c = 1 .. m + n
  BY <1>1
<1> HIDE DEF c, m, n
<1>3. \A i \in 1 .. m : i \in 1 .. m + n
  BY <1>2
<1>4. \A i \in 1 .. n : m + i \in 1 .. m + n
  BY <1>2
<1>5. \A x \in 1 .. m + n : x \in 1 .. m \/ \E i \in 1 .. n : x = m + i
  <2>1. ASSUME NEW x \in 1 .. m + n, x \notin 1 .. m PROVE \E i \in 1 .. n : x = m + i
    <3>1. x - m \in 1 .. n /\ x = m + (x - m)
      BY <1>2, <2>1
    <3> QED
      BY <3>1
  <2> QED
    BY <2>1
<1>6. ToSet(c) \subseteq ToSet(s) \cup ToSet(t)
  <2>1. \A i \in 1 .. m : s[i] \in ToSet(s)
    BY <1>2 DEF ToSet
  <2>2. \A i \in 1 .. n : t[i] \in ToSet(t)
    BY <1>2 DEF ToSet
  <2>3. ASSUME NEW x \in 1 .. m + n PROVE c[x] \in ToSet(s) \cup ToSet(t)
    <3>1. CASE x \in 1 .. m
      BY <1>1, <2>1, <3>1
    <3>2. CASE \E i \in 1 .. n : x = m + i
      BY <1>1, <2>2, <3>2
    <3> QED
      BY <1>5, <3>1, <3>2
  <2>4. ToSet(c) = {c[x] : x \in 1 .. m + n}
    BY <1>2 DEF ToSet
  <2> QED
    BY <2>3, <2>4
<1>7. ToSet(s) \subseteq ToSet(c)
  BY <1>1, <1>2, <1>3 DEF ToSet
<1>8. ToSet(t) \subseteq ToSet(c)
  BY <1>1, <1>2, <1>4 DEF ToSet
<1> QED
  BY <1>1, <1>6, <1>7, <1>8 DEF c

\* The list of the files has the files that are named.
LEMMA FilesAre ==
    ASSUME NEW A, NEW p \in Analyses(A)
    PROVE  FilesOf(p) \in Seq(Seq(A)) /\ ToSet(FilesOf(p)) = NamedFiles(p)
<1> DEFINE a == p.inputFiles  b == Values(p, "Tp")  c == Values(p, "Tc")
<1>1. a \in Seq(Seq(A))
  <2>1. a \in Seq(AtomWords(A)) /\ AtomWords(A) \subseteq Seq(A)
    BY DEF Analyses, AtomWords
  <2> QED
    BY <2>1
<1>2. /\ b \in Seq(Seq(A)) /\ ToSet(b) = Given(p, "Tp")
      /\ c \in Seq(Seq(A)) /\ ToSet(c) = Given(p, "Tc")
  BY ValuesAre
<1> HIDE DEF a, b, c
<1>3. b \o c \in Seq(Seq(A)) /\ ToSet(b \o c) = ToSet(b) \cup ToSet(c)
      /\ a \o b \in Seq(Seq(A)) /\ ToSet(a \o b) = ToSet(a) \cup ToSet(b)
  BY <1>1, <1>2, ConcatSet
<1>4. (a \o b) \o c \in Seq(Seq(A)) /\ ToSet((a \o b) \o c) = ToSet(a \o b) \cup ToSet(c)
  <2> DEFINE ab == a \o b
  <2>1. ab \in Seq(Seq(A))
    BY <1>3
  <2> HIDE DEF ab
  <2>2. ab \o c \in Seq(Seq(A)) /\ ToSet(ab \o c) = ToSet(ab) \cup ToSet(c)
    BY <1>2, <2>1, ConcatSet
  <2> QED
    BY <2>2 DEF ab
<1> QED
  BY <1>2, <1>3, <1>4 DEF FilesOf, NamedFiles, a, b, c

\* The places where the elements of a list stand first show all of them.
LEMMA FirstsShowAll ==
    ASSUME NEW T, NEW v \in Seq(T)
    PROVE  \A i \in 1 .. Len(v) : \E k \in Firsts(v) : v[k] = v[i]
<1> SUFFICES ASSUME NEW i \in 1 .. Len(v) PROVE \E k \in Firsts(v) : v[k] = v[i]
  OBVIOUS
<1> DEFINE same == {k \in 1 .. Len(v) : v[k] = v[i]}
<1>1. same \subseteq Nat /\ same # {}
  OBVIOUS
<1>2. PICK k \in same : \A y \in same : k <= y
  <2> HIDE DEF same
  <2> QED
    BY <1>1, LeastElement
<1>3. k \in 1 .. Len(v) /\ v[k] = v[i]
  BY <1>2
<1>4. ASSUME NEW j \in 1 .. k - 1, v[j] = v[k] PROVE FALSE
  <2>1. j \in 1 .. Len(v) /\ j < k /\ ~(k <= j)
    BY <1>3
  <2> QED
    BY <1>2, <1>3, <1>4, <2>1
<1> QED
  BY <1>3, <1>4 DEF Firsts

\* The list of sources, as a choice among the files named
LEMMA SourcesChosen ==
    ASSUME NEW A, NEW p \in Analyses(A)
    PROVE  LET v == [i \in 1 .. Len(FilesOf(p)) |-> SourceOf(p, FilesOf(p)[i])]
           IN  /\ v \in Seq({SourceOf(p, f) : f \in NamedFiles(p)})
               /\ Len(v) = Len(FilesOf(p))
               /\ Sources(p) = Chosen(v, Firsts(FilesOf(p)))
<1> DEFINE files == FilesOf(p)
           v == [i \in 1 .. Len(files) |-> SourceOf(p, files[i])]
           D == Firsts(files)
<1>1. files \in Seq(Seq(A)) /\ ToSet(files) = NamedFiles(p)
  BY FilesAre
<1>2. Sources(p) = FlattenSeq([i \in DOMAIN files |->
          IF \E k \in 1 .. i - 1 : files[k] = files[i] THEN <<>>
          ELSE <<[file |-> files[i], lang |-> Language(p, files[i])]>>])
  BY DEF Sources, FilesOf
<1>3. \A f : Language(p, f) = LangOf(p, f)
  BY LanguageIs
<1> HIDE DEF files
<1>4. DOMAIN files = 1 .. Len(files) /\ Len(files) \in Nat
  BY <1>1
<1> DEFINE one(i) == IF \E k \in 1 .. i - 1 : files[k] = files[i] THEN <<>>
                     ELSE <<[file |-> files[i], lang |-> Language(p, files[i])]>>
           two(i) == IF i \in D THEN <<v[i]>> ELSE <<>>
<1>5. \A i \in 1 .. Len(files) : files[i] \in NamedFiles(p)
  BY <1>1, <1>4 DEF ToSet
<1>6. v \in Seq({SourceOf(p, f) : f \in NamedFiles(p)}) /\ Len(v) = Len(files)
  BY <1>4, <1>5
<1>7. ASSUME NEW i \in 1 .. Len(files) PROVE one(i) = two(i)
  <2>1. v[i] = [file |-> files[i], lang |-> Language(p, files[i])]
    BY <1>3 DEF SourceOf
  <2>2. i \in D <=> ~\E k \in 1 .. i - 1 : files[k] = files[i]
    BY DEF Firsts
  <2> HIDE DEF v, D
  <2> QED
    BY <2>1, <2>2
<1> HIDE DEF v, D, one, two
<1>8. [i \in DOMAIN files |-> one(i)] = [i \in 1 .. Len(v) |-> two(i)]
  BY <1>4, <1>6, <1>7
<1>9. FlattenSeq([i \in DOMAIN files |-> one(i)]) = FlattenSeq([i \in 1 .. Len(v) |-> two(i)])
  BY <1>8
<1>10. Sources(p) = FlattenSeq([i \in DOMAIN files |-> one(i)])
  BY <1>2 DEF one
<1>11. Chosen(v, D) = FlattenSeq([i \in 1 .. Len(v) |-> two(i)])
  BY DEF Chosen, two
<1>12. Sources(p) = Chosen(v, D)
  BY <1>9, <1>10, <1>11
<1> QED
  BY <1>6, <1>12 DEF v, D, files

\* Each file that is named is a source, in the language it was given.
LEMMA SourcesAre ==
    ASSUME NEW A, NEW p \in Analyses(A)
    PROVE  /\ Sources(p) \in Seq({SourceOf(p, f) : f \in NamedFiles(p)})
           /\ ToSet(Sources(p)) = {SourceOf(p, f) : f \in NamedFiles(p)}
<1> DEFINE files == FilesOf(p)
           v == [i \in 1 .. Len(files) |-> SourceOf(p, files[i])]
           R == {SourceOf(p, f) : f \in NamedFiles(p)}
           D == Firsts(files)
<1>1. v \in Seq(R) /\ Len(v) = Len(files) /\ Sources(p) = Chosen(v, D)
  BY SourcesChosen
<1>2. files \in Seq(Seq(A)) /\ ToSet(files) = NamedFiles(p)
  BY FilesAre
<1>3. \A i \in 1 .. Len(files) : v[i] = SourceOf(p, files[i])
  OBVIOUS
<1> HIDE DEF v, files
<1>4. Chosen(v, D) \in Seq(R) /\ ToSet(Chosen(v, D)) = {v[i] : i \in {k \in 1 .. Len(v) : k \in D}}
  <2> HIDE DEF R, D
  <2> QED
    BY <1>1, ChosenPlaced, ChosenSet
<1>5. DOMAIN files = 1 .. Len(files)
  BY <1>2
<1>6. ASSUME NEW f \in NamedFiles(p) PROVE \E i \in 1 .. Len(v) : i \in D /\ v[i] = SourceOf(p, f)
  <2>1. PICK i \in 1 .. Len(files) : files[i] = f
    BY <1>2, <1>5 DEF ToSet
  <2>2. PICK k \in D : files[k] = files[i]
    BY <1>2, FirstsShowAll
  <2>3. k \in 1 .. Len(files)
    BY DEF Firsts
  <2> QED
    BY <1>1, <1>3, <2>1, <2>2, <2>3
<1>7. \A i \in 1 .. Len(v) : v[i] \in R
  BY <1>1
<1> HIDE DEF D
<1>8. {v[i] : i \in {k \in 1 .. Len(v) : k \in D}} = R
  BY <1>6, <1>7
<1> QED
  BY <1>1, <1>4, <1>8

\* If only one file is named, it is the only source.
LEMMA OneSource ==
    ASSUME NEW A, NEW p \in Analyses(A), NEW f, NamedFiles(p) = {f}
    PROVE  Sources(p) = <<SourceOf(p, f)>>
<1> DEFINE files == FilesOf(p)
           v == [i \in 1 .. Len(files) |-> SourceOf(p, files[i])]
           R == {SourceOf(p, g) : g \in NamedFiles(p)}
           D == Firsts(files)
           n == Len(files)
           c == Sources(p)
<1>1. v \in Seq(R) /\ Len(v) = n /\ c = Chosen(v, D)
  BY SourcesChosen
<1>2. files \in Seq(Seq(A)) /\ ToSet(files) = {f}
  BY FilesAre
<1> HIDE DEF v, c
<1>3. PICK off : Placed(v, D, c, off)
  <2> HIDE DEF R, D, n
  <2> QED
    BY <1>1, ChosenPlaced
<1> HIDE DEF files
<1>4. n \in Nat /\ DOMAIN files = 1 .. n
  BY <1>2
<1>5. \A i \in 1 .. n : files[i] = f
  BY <1>2, <1>4 DEF ToSet
<1>6. n # 0
  BY <1>2, <1>4 DEF ToSet
<1>7. \A i \in 1 .. n : i \in D <=> i = 1
  <2>1. ASSUME NEW i \in 1 .. n, i # 1 PROVE i \notin D
    <3>1. 1 \in 1 .. i - 1 /\ 1 \in 1 .. n
      BY <1>4, <2>1
    <3>2. files[1] = files[i]
      BY <1>5, <3>1
    <3> QED
      BY <3>1, <3>2 DEF Firsts
  <2>2. 1 \in D
    <3>1. 1 .. 1 - 1 = {} /\ 1 \in 1 .. n
      BY <1>4, <1>6
    <3> QED
      BY <3>1 DEF Firsts
  <2> QED
    BY <2>1, <2>2
<1> HIDE DEF D, n
<1>8. /\ off \in [0 .. n -> Nat] /\ off[0] = 0 /\ Len(c) = off[n]
      /\ \A i \in 1 .. n : i \in D => off[i] = off[i - 1] + 1 /\ c[off[i]] = v[i]
      /\ \A i \in 1 .. n : i \notin D => off[i] = off[i - 1]
  BY <1>1, <1>3 DEF Placed
<1>9. off[1] = 1
  <2>1. 1 \in 1 .. n /\ 1 \in D /\ 1 - 1 = 0
    BY <1>4, <1>6, <1>7
  <2>2. off[1] = off[1 - 1] + 1
    BY <1>8, <2>1
  <2> QED
    BY <1>8, <2>1, <2>2
<1>10. \A i \in 1 .. n : off[i] = 1
  <2> DEFINE S == {i \in 1 .. n : off[i] = 1}
  <2>1. 1 \in S
    BY <1>4, <1>6, <1>9
  <2>2. ASSUME NEW i \in 1 .. n - 1, i \in S PROVE i + 1 \in S
    <3>1. i + 1 \in 1 .. n /\ i + 1 # 1 /\ (i + 1) - 1 = i
      BY <1>4
    <3>2. off[i + 1] = off[i]
      BY <1>7, <1>8, <3>1
    <3> QED
      BY <2>2, <3>1, <3>2
  <2> HIDE DEF S
  <2>3. \A i \in 1 .. n : i \in S
    BY <1>4, <2>1, <2>2, Counting
  <2> QED
    BY <2>3 DEF S
<1>11. Len(c) = 1 /\ c[1] = v[1]
  <2>1. n \in 1 .. n /\ 1 \in 1 .. n
    BY <1>4, <1>6
  <2>2. Len(c) = 1
    BY <1>8, <1>10, <2>1
  <2>3. off[1] = 1 /\ c[off[1]] = v[1]
    BY <1>7, <1>8, <1>9, <2>1
  <2> QED
    BY <2>2, <2>3
<1>12. v[1] = SourceOf(p, f)
  <2>1. 1 \in 1 .. n
    BY <1>4, <1>6
  <2>2. v[1] = SourceOf(p, files[1])
    BY <2>1 DEF v, n
  <2> QED
    BY <1>5, <2>1, <2>2
<1>13. c \in Seq(R)
  BY SourcesAre DEF c
<1> HIDE DEF R
<1>14. c = <<c[1]>>
  BY <1>11, <1>13
<1> QED
  BY <1>11, <1>12, <1>14 DEF c

\* No file that is named, no source
LEMMA NoSource ==
    ASSUME NEW A, NEW p \in Analyses(A)
    PROVE  Sources(p) = <<>> <=> NamedFiles(p) = {}
<1> DEFINE R == {SourceOf(p, f) : f \in NamedFiles(p)}
           c == Sources(p)
<1>1. c \in Seq(R) /\ ToSet(c) = R
  BY SourcesAre
<1>2. R = {} <=> NamedFiles(p) = {}
  OBVIOUS
<1> HIDE DEF c, R
<1>3. c = <<>> <=> ToSet(c) = {}
  <2>1. DOMAIN c = 1 .. Len(c) /\ Len(c) \in Nat
    BY <1>1
  <2>2. c = <<>> => ToSet(c) = {}
    BY <2>1 DEF ToSet
  <2>3. ASSUME c # <<>> PROVE ToSet(c) # {}
    <3>1. Len(c) # 0
      BY <1>1, <2>3
    <3>2. 1 \in DOMAIN c
      BY <2>1, <3>1
    <3> QED
      BY <3>2 DEF ToSet
  <2> QED
    BY <2>2, <2>3
<1> QED
  BY <1>1, <1>2, <1>3 DEF c

-----------------------------------------------------------------------------
(* The command line without its sources                                    *)

\* The options that give a source its language
Langs == {"Tc", "Tp"}

\* A word with an option's sign and name
LEMMA PrefixIs ==
    ASSUME NEW A, NEW w \in AtomWords(A), NEW s, NEW n, n # Blank
    PROVE  IsPrefix(<<s, n>>, w) <=> w[1] = s /\ Name(w) = n
<1> DEFINE a == <<s, n>>
<1>1. Len(a) = 2 /\ a[1] = s /\ a[2] = n /\ SubSeq(a, 1, 2) = <<s, n>>
  <2>1. a \in Seq({s, n}) /\ Len(a) = 2
    OBVIOUS
  <2>2. SubSeq(a, 1, Len(a)) = a
    BY <2>1, SubSeqFull
  <2> QED
    BY <2>1, <2>2
<1>2. w \in Seq(A) /\ Len(w) \in Nat /\ Len(w) # 0
  BY DEF AtomWords
<1>3. Name(w) = n <=> Len(w) >= 2 /\ w[2] = n
  BY <1>2 DEF Name
<1>4. ASSUME Len(w) >= 2 PROVE SubSeq(w, 1, 2) = <<w[1], w[2]>>
  <2> DEFINE t == SubSeq(w, 1, 2)  u == <<w[1], w[2]>>
  <2>1. t \in Seq(A) /\ Len(t) = 2 /\ t[1] = w[1] /\ t[2] = w[2]
    <3>1. \A i \in 1 .. 2 : w[i] \in A
      BY <1>2, <1>4
    <3>2. t \in Seq(A) /\ Len(t) = (2 - 1) + 1 /\ \A i \in 1 .. (2 - 1) + 1 : t[i] = w[(1 + i) - 1]
      BY <3>1, SubSeqProperties
    <3> QED
      BY <3>2
  <2>2. u \in Seq(A) /\ Len(u) = 2 /\ u[1] = w[1] /\ u[2] = w[2]
    BY <1>2, <1>4
  <2> HIDE DEF t, u
  <2>3. \A i \in 1 .. 2 : t[i] = u[i]
    BY <2>1, <2>2
  <2>4. t = u
    BY <2>1, <2>2, <2>3, SeqEqual
  <2> QED
    BY <2>4 DEF t, u
<1>5. IsPrefix(a, w) <=> Len(w) >= 2 /\ <<s, n>> = SubSeq(w, 1, 2)
  BY <1>1, <1>2 DEF IsPrefix
<1>6. ASSUME Len(w) >= 2 PROVE <<s, n>> = <<w[1], w[2]>> <=> s = w[1] /\ n = w[2]
  OBVIOUS
<1> QED
  BY <1>3, <1>4, <1>5, <1>6 DEF a

\* The words that are left
Kept(p, w) ==
    /\ w \notin NamedFiles(p)
    /\ ~(w[1] \in Signs /\ Name(w) \in Langs)
    /\ ~(w[1] = "/" /\ Name(w) = "MP")

\* filterSourceFiles and the removal of /MP: the words that are left out are options.
LEMMA NotSkipped ==
    ASSUME NEW A, NEW w \in AtomWords(A)
    PROVE  /\ (\E a \in Skipped : IsPrefix(a, w)) <=> w[1] \in Signs /\ Name(w) \in Langs
           /\ IsPrefix(MP, w) <=> w[1] = "/" /\ Name(w) = "MP"
<1>1. "Tc" # Blank /\ "Tp" # Blank /\ "MP" # Blank
  BY DEF Blank
<1>2. \A s : (IsPrefix(<<s, "Tc">>, w) <=> w[1] = s /\ Name(w) = "Tc")
          /\ (IsPrefix(<<s, "Tp">>, w) <=> w[1] = s /\ Name(w) = "Tp")
          /\ (IsPrefix(<<s, "MP">>, w) <=> w[1] = s /\ Name(w) = "MP")
  BY <1>1, PrefixIs
<1>3. Skipped = {<<"/", "Tc">>, <<"/", "Tp">>, <<"-", "Tc">>, <<"-", "Tp">>}
  BY DEF Skipped
<1>4. (\E a \in Skipped : IsPrefix(a, w))
        <=> \/ IsPrefix(<<"/", "Tc">>, w) \/ IsPrefix(<<"/", "Tp">>, w)
            \/ IsPrefix(<<"-", "Tc">>, w) \/ IsPrefix(<<"-", "Tp">>, w)
  BY <1>3
<1> QED
  BY <1>2, <1>4 DEF MP, Signs, Langs

\* The turns of the loop that come to words that are left
CutTurns(p, W, g) ==
    /\ g[0] = Turn0
    /\ \A i \in 1 .. Len(W) : g[i] = IF Kept(p, W[i]) THEN ParseWord(g[i - 1], W[i]) ELSE g[i - 1]

\* The analysis of the command line without its sources goes word by word over the whole one.
LEMMA BaseFold ==
    ASSUME NEW A, NEW W \in Seq(AtomWords(A)), NEW p \in Analyses(A)
    PROVE  /\ BaseCmdLine(W, Sources(p)) \in Seq(AtomWords(A))
           /\ \E g : /\ CutTurns(p, W, g)
                     /\ Fold(Turn0, BaseCmdLine(W, Sources(p))) = g[Len(W)]
<1> DEFINE S == Sources(p)
           k1 == {w \in ToSet(W) : /\ \A i \in DOMAIN S : w # S[i].file
                                   /\ ~\E a \in Skipped : IsPrefix(a, w)}
           rest == Only(W, k1)
           k2 == {w \in ToSet(rest) : ~IsPrefix(MP, w)}
           base == Only(rest, k2)
<1>1. BaseCmdLine(W, S) = base
  BY DEF BaseCmdLine, FilterSourceFiles
<1>2. rest \in Seq(AtomWords(A)) /\ ToSet(rest) = ToSet(W) \cap k1
  BY OnlySet
<1>3. \A w \in ToSet(W) : (w \in k1 /\ w \in k2) <=> Kept(p, w)
  <2>1. ASSUME NEW w \in ToSet(W) PROVE (w \in k1 /\ w \in k2) <=> Kept(p, w)
    <3>1. w \in AtomWords(A)
      BY DEF ToSet
    <3>2. /\ (\E a \in Skipped : IsPrefix(a, w)) <=> w[1] \in Signs /\ Name(w) \in Langs
          /\ IsPrefix(MP, w) <=> w[1] = "/" /\ Name(w) = "MP"
      BY <3>1, NotSkipped
    <3>3. (\A i \in DOMAIN S : w # S[i].file) <=> w \notin NamedFiles(p)
      <4>1. ToSet(S) = {SourceOf(p, f) : f \in NamedFiles(p)}
        BY SourcesAre
      <4>2. \A f : SourceOf(p, f).file = f
        BY DEF SourceOf
      <4> HIDE DEF S
      <4>3. ASSUME NEW i \in DOMAIN S PROVE S[i].file \in NamedFiles(p)
        <5>1. S[i] \in ToSet(S)
          BY DEF ToSet
        <5>2. PICK f \in NamedFiles(p) : S[i] = SourceOf(p, f)
          BY <4>1, <5>1
        <5> QED
          BY <4>2, <5>2
      <4>4. ASSUME NEW f \in NamedFiles(p) PROVE \E i \in DOMAIN S : S[i].file = f
        <5>1. SourceOf(p, f) \in ToSet(S)
          BY <4>1
        <5>2. PICK i \in DOMAIN S : S[i] = SourceOf(p, f)
          BY <5>1 DEF ToSet
        <5> QED
          BY <4>2, <5>2
      <4> QED
        BY <4>3, <4>4
    <3>4. w \in k1 <=> w \notin NamedFiles(p) /\ ~(w[1] \in Signs /\ Name(w) \in Langs)
      BY <3>2, <3>3
    <3> HIDE DEF k1, rest
    <3>5. w \in k1 => (w \in k2 <=> ~(w[1] = "/" /\ Name(w) = "MP"))
      BY <1>2, <3>2
    <3> QED
      BY <3>4, <3>5 DEF Kept
  <2> QED
    BY <2>1
<1> HIDE DEF S, k1, rest, k2
<1>4. base \in Seq(AtomWords(A)) /\ ToSet(base) = ToSet(rest) \cap k2
  BY <1>2, OnlySet
<1>5. PICK h : Turns(Turn0, base, h) /\ Fold(Turn0, base) = h[Len(base)]
  BY <1>4, FoldTurns
<1>6. Skips(Turn0, base, ToSet(base), h)
  <2> HIDE DEF base
  <2>1. \A i \in 1 .. Len(base) : base[i] \in ToSet(base)
    BY <1>4 DEF ToSet
  <2> QED
    BY <1>5, <2>1 DEF Skips, Turns
<1> DEFINE k3 == k2 \cap ToSet(base)
<1>7. \E h3 : Skips(Turn0, rest, k3, h3) /\ h3[Len(rest)] = h[Len(base)]
  <2> DEFINE all == ToSet(base)
  <2>1. Skips(Turn0, Only(rest, k2), all, h)
    BY <1>6 DEF base
  <2> HIDE DEF all
  <2>2. Pulled(Turn0, rest, k2, all, h)
    BY <1>2, <2>1, SkipsPulled
  <2> QED
    BY <2>2 DEF Pulled, all, k3, base
<1>8. rest = Only(W, k1)
  BY DEF rest
<1> HIDE DEF k3, base
<1>9. PICK h3 : Skips(Turn0, rest, k3, h3) /\ h3[Len(rest)] = h[Len(base)]
  BY <1>7
<1>10. \E g : Skips(Turn0, W, k1 \cap k3, g) /\ g[Len(W)] = h3[Len(rest)]
  <2>1. Skips(Turn0, Only(W, k1), k3, h3)
    BY <1>8, <1>9
  <2>2. Pulled(Turn0, W, k1, k3, h3)
    BY <2>1, SkipsPulled
  <2> QED
    BY <1>8, <2>2 DEF Pulled
<1>14. PICK g : Skips(Turn0, W, k1 \cap k3, g) /\ g[Len(W)] = h3[Len(rest)]
  BY <1>10
<1>11. ASSUME NEW i \in 1 .. Len(W) PROVE W[i] \in k1 \cap k3 <=> Kept(p, W[i])
  <2>1. W[i] \in ToSet(W)
    BY DEF ToSet
  <2>2. W[i] \in k1 \cap k3 <=> W[i] \in k1 /\ W[i] \in k2
    BY <1>2, <1>4, <2>1 DEF k3
  <2> QED
    BY <1>3, <2>1, <2>2
<1>12. CutTurns(p, W, g)
  BY <1>11, <1>14 DEF CutTurns, Skips
<1>13. Fold(Turn0, base) = g[Len(W)]
  BY <1>5, <1>9, <1>14
<1> QED
  BY <1>1, <1>4, <1>12, <1>13 DEF S

-----------------------------------------------------------------------------
(* The analysis of the words that are left, beside that of all words       *)

\* The names of these options in an analysis
LangNames == {<<"Tc">>, <<"Tp">>}

\* An analysis that gives no source a language
NoLang(p) == \A o \in ToSet(p.options) : o.name \notin LangNames

\* A source that is given with a language has a name.
Solid(p) == \A o \in ToSet(p.options) : o.name \in LangNames => o.value # <<>>

\* The options of a word that starts with a sign carry its name.
LEMMA AddsNamed ==
    ASSUME NEW A, NEW w \in AtomWords(A), w[1] \in Signs, NEW o \in Adds(<<>>, w)
    PROVE  /\ \A n \in {"Tc", "Tp", "MP"} : o.name = <<n>> <=> Name(w) = n
           /\ o.name \in LangNames => o.value # <<>>
<1>1. Name(w) # Blank => Len(w) > 1 /\ w[2] \in A /\ Name(w) = w[2]
  BY PartsTyped
<1>2. Blank \notin NoSpace \cup Optional \cup Spaced /\ {"Tc", "Tp"} \subseteq Spaced /\ "MP" \in Optional
      /\ Blank \notin {"Tc", "Tp", "MP"}
  BY DEF Blank, NoSpace, Optional, Spaced
<1>3. ~(Name(w) \in NoSpace \cup Spaced /\ Value(w) = <<>>)
  BY DEF Adds
<1>4. CASE Name(w) \in NoSpace \cup Optional \cup Spaced
  <2>1. o = [name |-> <<w[2]>>, value |-> Value(w)]
    BY <1>3, <1>4 DEF Adds
  <2>2. o.name = <<w[2]>> /\ o.value = Value(w) /\ Name(w) = w[2]
    BY <1>1, <1>2, <1>4, <2>1
  <2>3. \A n : o.name = <<n>> <=> Name(w) = n
    BY <2>2
  <2>4. o.name \in LangNames => Name(w) \in Spaced
    BY <1>2, <2>3 DEF LangNames
  <2> QED
    BY <1>3, <2>2, <2>3, <2>4
<1>5. CASE Name(w) \notin NoSpace \cup Optional \cup Spaced
  <2>1. o = [name |-> Tail(w), value |-> <<>>]
    BY <1>3, <1>5 DEF Adds
  <2>2. o.name = Tail(w)
    BY <2>1
  <2>3. w \in Seq(A) /\ Len(w) \in Nat /\ Len(w) # 0 /\ w # <<>>
    BY DEF AtomWords
  <2>4. ASSUME NEW n, n # Blank, Tail(w) = <<n>> PROVE Name(w) = n
    <3> DEFINE one == <<n>>
    <3>0. Len(one) = 1 /\ one[1] = n
      OBVIOUS
    <3>1. Tail(w) = one
      BY <2>4
    <3> HIDE DEF one
    <3>2. /\ Len(Tail(w)) = Len(w) - 1
          /\ \A i \in 1 .. Len(Tail(w)) : Tail(w)[i] = w[i + 1]
      BY <2>3, HeadTailProperties
    <3> DEFINE t == Tail(w)  m == Len(w)
    <3>3. m \in Nat /\ Len(t) = 1 /\ t[1] = n /\ Len(t) = m - 1 /\ \A i \in 1 .. Len(t) : t[i] = w[i + 1]
      BY <2>3, <3>0, <3>1, <3>2
    <3> HIDE DEF t, m
    <3>6. \A x \in Nat : 1 = x - 1 => x = 2
      OBVIOUS
    <3>7. m = 2
      BY <3>3, <3>6
    <3>5. m = 2 /\ 1 \in 1 .. Len(t) /\ 1 + 1 = 2
      BY <3>3, <3>7
    <3>4. w[2] = n /\ Len(w) > 1
      BY <3>3, <3>5 DEF m
    <3> QED
      BY <3>4 DEF Name
  <2>5. \A n \in {"Tc", "Tp", "MP"} : Name(w) # n /\ o.name # <<n>>
    BY <1>2, <1>5, <2>2, <2>4
  <2> QED
    BY <2>5 DEF LangNames
<1> QED
  BY <1>4, <1>5

\* A turn keeps the sources named.
LEMMA TurnSolid ==
    ASSUME NEW A, NEW p \in Analyses(A), NEW w \in AtomWords(A), Solid(p)
    PROVE  Solid(ParseWord(p, w))
<1>1. CASE p.error # "none"
  BY <1>1, ErrorStays
<1>2. CASE p.error = "none"
  <2> DEFINE q == ParseWord(p, w)
  <2>1. TurnOf(p, w, q)
    BY <1>2, TurnIs
  <2> HIDE DEF q
  <2>2. ASSUME NEW o \in Adds(p.awaits, w), o.name \in LangNames PROVE o.value # <<>>
    <3>1. CASE p.awaits # <<>>
      <4>1. o = [name |-> p.awaits, value |-> w]
        BY <2>2, <3>1 DEF Adds
      <4> QED
        BY <4>1 DEF AtomWords
    <3>2. CASE p.awaits = <<>>
      <4>1. w[1] \in Signs
        BY <2>2, <3>2 DEF Adds
      <4> QED
        BY <2>2, <3>2, <4>1, AddsNamed
    <3> QED
      BY <3>1, <3>2
  <2>3. Solid(q)
    BY <2>1, <2>2 DEF TurnOf, Solid
  <2> QED
    BY <2>3 DEF q
<1> QED
  BY <1>1, <1>2

\* Every option of an analysis that starts with none is one of the known options.
LEMMA FoldSolid ==
    ASSUME NEW A, NEW ws \in Seq(AtomWords(A))
    PROVE  Solid(Fold(Turn0, ws))
<1>1. PICK h : Turns(Turn0, ws, h) /\ Fold(Turn0, ws) = h[Len(ws)]
  BY FoldTurns
<1>2. \A i \in 0 .. Len(ws) : h[i] \in Analyses(A)
  BY <1>1, TurnsGrow, Turn0Typed
<1> DEFINE n == Len(ws)  S == {i \in 0 .. n : Solid(h[i])}
<1>0. n \in Nat /\ n \in 0 .. n /\ \A i \in 1 .. n : ws[i] \in AtomWords(A)
  OBVIOUS
<1>3. h[0] = Turn0 /\ \A i \in 1 .. n : h[i] = ParseWord(h[i - 1], ws[i])
  BY <1>1 DEF Turns
<1> HIDE DEF n
<1>4. 0 \in S
  <2>1. Solid(Turn0)
    BY Turn0Typed DEF Solid
  <2> QED
    BY <1>0, <1>3, <2>1
<1>5. ASSUME NEW i \in 0 .. n - 1, i \in S PROVE i + 1 \in S
  <2>1. i + 1 \in 1 .. n /\ i + 1 \in 0 .. n /\ (i + 1) - 1 = i /\ i \in 0 .. n
    BY <1>0
  <2>2. h[i + 1] = ParseWord(h[i], ws[i + 1]) /\ h[i] \in Analyses(A) /\ ws[i + 1] \in AtomWords(A) /\ Solid(h[i])
    BY <1>0, <1>2, <1>3, <1>5, <2>1 DEF n
  <2>3. Solid(h[i + 1])
    BY <2>2, TurnSolid
  <2> QED
    BY <2>1, <2>3
<1> HIDE DEF S
<1>6. \A i \in 0 .. n : i \in S
  BY <1>0, <1>4, <1>5, Counting
<1> QED
  BY <1>0, <1>1, <1>6 DEF S, n

\* The files named have names.
LEMMA FilesSolid ==
    ASSUME NEW A, NEW p \in Analyses(A), Solid(p)
    PROVE  \A f \in NamedFiles(p) : f \in AtomWords(A)
<1>1. p.inputFiles \in Seq(AtomWords(A)) /\ p.options \in Seq(Opts(A))
  BY DEF Analyses
<1>2. \A f \in ToSet(p.inputFiles) : f \in AtomWords(A)
  BY <1>1 DEF ToSet
<1>3. \A o \in ToSet(p.options) : o \in Opts(A)
  BY <1>1 DEF ToSet
<1>4. \A o \in ToSet(p.options) : o.value \in Seq(A)
  BY <1>3 DEF Opts
<1>5. ASSUME NEW f \in Given(p, "Tp") \cup Given(p, "Tc") PROVE f \in AtomWords(A)
  <2>1. PICK o \in ToSet(p.options) : o.name \in LangNames /\ f = o.value
    BY DEF Given, LangNames
  <2> QED
    BY <1>4, <2>1 DEF Solid, AtomWords
<1> QED
  BY <1>2, <1>5 DEF NamedFiles

\* An option that awaits its parameter
Open(w) == Len(w) = 2 /\ w[1] \in Signs /\ w[2] \in Spaced

\* g, the analysis of the words that are left, beside h, that of all words so
\* far, whose last is w
Beside(A, h, g, w) ==
    /\ g \in Analyses(A) /\ g.error = "none" /\ ToSet(g.inputFiles) = {} /\ NoLang(g)
    /\ Switches(g) = Switches(h)
    /\ h.awaits = <<>> => g.awaits = <<>>
    /\ h.awaits # <<>> =>
         /\ Open(w) /\ h.awaits = <<w[2]>>
         /\ g.awaits = IF w[2] \in Langs THEN <<>> ELSE <<w[2]>>

\* The turn of the loop that comes to a word whether it is left or not
LEMMA BesideTurn ==
    ASSUME NEW A, NEW p, NEW h \in Analyses(A), NEW g, NEW w, NEW v \in AtomWords(A),
           Beside(A, h, g, w), h.error = "none", ParseWord(h, v).error = "none",
           NamedFiles(ParseWord(h, v)) \subseteq NamedFiles(p),
           \A f \in NamedFiles(p) : f[1] \notin Signs,
           Open(w) /\ w[2] \notin Langs => Kept(p, v)
    PROVE  Beside(A, ParseWord(h, v), IF Kept(p, v) THEN ParseWord(g, v) ELSE g, v)
<1> DEFINE h2 == ParseWord(h, v)  g1 == ParseWord(g, v)
<1>0. g \in Analyses(A) /\ g.error = "none" /\ ToSet(g.inputFiles) = {} /\ NoLang(g)
      /\ Switches(g) = Switches(h)
  BY DEF Beside
<1>1. h2 \in Analyses(A) /\ TurnOf(h, v, h2)
  BY TurnIs
<1>2. g1 \in Analyses(A) /\ TurnOf(g, v, g1)
  BY <1>0, TurnIs
<1>3. h2.error = "none" /\ NamedFiles(h2) \subseteq NamedFiles(p)
  OBVIOUS
<1> HIDE DEF h2, g1
<1>4. ~Refuses(h.awaits, v)
  BY <1>1, <1>3 DEF TurnOf
<1>5. \A o \in Adds(h.awaits, v) : o \in ToSet(h2.options)
  BY <1>1 DEF TurnOf
<1>6. "Tc" \in Langs /\ "Tp" \in Langs /\ \A x : x \in Langs <=> <<x>> \in LangNames
  BY DEF Langs, LangNames
<1>7. CASE h.awaits # <<>>
  <2>1. Open(w) /\ h.awaits = <<w[2]>> /\ g.awaits = IF w[2] \in Langs THEN <<>> ELSE <<w[2]>>
    BY <1>7 DEF Beside
  <2> DEFINE o == [name |-> <<w[2]>>, value |-> v]
  <2>2. Adds(h.awaits, v) = {o} /\ Files(h.awaits, v) = {} /\ Awaits(h.awaits, v) = <<>>
    BY <1>7, <2>1 DEF Adds, Files, Awaits
  <2>3. o.name = <<w[2]>> /\ o.value = v
    OBVIOUS
  <2> HIDE DEF o
  <2>4. h2.awaits = <<>> /\ ToSet(h2.options) = ToSet(h.options) \cup {o}
    BY <1>1, <2>2 DEF TurnOf
  <2>5. CASE w[2] \in Langs
    <3>1. v \in NamedFiles(h2)
      BY <2>3, <2>4, <2>5 DEF Langs, NamedFiles, Given
    <3>2. ~Kept(p, v)
      BY <1>3, <3>1 DEF Kept
    <3>3. Switches(h2) = Switches(h)
      BY <2>3, <2>4, <2>5 DEF Switches, Langs
    <3>4. Beside(A, h2, g, v)
      BY <1>0, <2>1, <2>4, <2>5, <3>3 DEF Beside
    <3> QED
      BY <3>2, <3>4 DEF h2
  <2>6. CASE w[2] \notin Langs
    <3>1. Kept(p, v)
      BY <2>1, <2>6
    <3>2. g.awaits = <<w[2]>> /\ g.awaits # <<>> /\ g.awaits = h.awaits
      BY <2>1, <2>6
    <3>3. Adds(g.awaits, v) = {o} /\ Files(g.awaits, v) = {} /\ Awaits(g.awaits, v) = <<>> /\ ~Refuses(g.awaits, v)
      BY <1>4, <2>2, <3>2
    <3>4. /\ g1.awaits = <<>> /\ g1.error = "none" /\ ToSet(g1.inputFiles) = {}
          /\ ToSet(g1.options) = ToSet(g.options) \cup {o}
      BY <1>0, <1>2, <3>3 DEF TurnOf
    <3>5. NoLang(g1)
      BY <1>0, <1>6, <2>3, <2>6, <3>4 DEF NoLang
    <3>6. Switches(g1) = Switches(h2)
      BY <1>0, <2>4, <3>4 DEF Switches
    <3>7. Beside(A, h2, g1, v)
      BY <1>2, <2>4, <3>4, <3>5, <3>6 DEF Beside
    <3> QED
      BY <3>1, <3>7 DEF h2, g1
  <2> QED
    BY <2>5, <2>6
<1>8. CASE h.awaits = <<>> /\ v[1] \notin Signs
  <2>1. Adds(h.awaits, v) = {} /\ Files(h.awaits, v) = {v} /\ Awaits(h.awaits, v) = <<>>
    BY <1>8 DEF Adds, Files, Awaits
  <2>2. /\ h2.awaits = <<>> /\ ToSet(h2.options) = ToSet(h.options)
        /\ ToSet(h2.inputFiles) = ToSet(h.inputFiles) \cup {v}
    BY <1>1, <2>1 DEF TurnOf
  <2>3. ~Kept(p, v)
    BY <1>3, <2>2 DEF Kept, NamedFiles
  <2>4. Switches(h2) = Switches(h)
    BY <2>2 DEF Switches
  <2>5. Beside(A, h2, g, v)
    BY <1>0, <1>8, <2>2, <2>4 DEF Beside
  <2> QED
    BY <2>3, <2>5 DEF h2
<1>9. CASE h.awaits = <<>> /\ v[1] \in Signs
  <2>0. g.awaits = <<>> /\ v \notin NamedFiles(p)
    BY <1>9 DEF Beside
  <2>1. /\ TurnOf(h, v, h2) /\ TurnOf(g, v, g1)
        /\ Files(<<>>, v) = {} /\ ~Refuses(<<>>, v)
    BY <1>1, <1>2, <1>4, <1>9 DEF Files
  <2>2. /\ ToSet(h2.options) = ToSet(h.options) \cup Adds(<<>>, v) /\ h2.awaits = Awaits(<<>>, v)
        /\ ToSet(g1.options) = ToSet(g.options) \cup Adds(<<>>, v) /\ g1.awaits = Awaits(<<>>, v)
        /\ ToSet(g1.inputFiles) = {} /\ g1.error = "none"
    BY <1>0, <1>9, <2>0, <2>1 DEF TurnOf
  <2>3. \A o \in Adds(<<>>, v) : \A n \in {"Tc", "Tp", "MP"} : o.name = <<n>> <=> Name(v) = n
    BY <1>9, AddsNamed
  <2>4. Awaits(<<>>, v) # <<>> => Open(v) /\ Awaits(<<>>, v) = <<v[2]>> /\ Name(v) = v[2] /\ Name(v) # "MP"
    <3>1. ASSUME Awaits(<<>>, v) # <<>>
          PROVE  Open(v) /\ Awaits(<<>>, v) = <<v[2]>> /\ Name(v) = v[2] /\ Name(v) # "MP"
      <4>1. Name(v) \in Spaced /\ Value(v) = <<>> /\ v[1] \in Signs /\ Awaits(<<>>, v) = <<v[2]>>
        BY <3>1 DEF Awaits
      <4>2. Name(v) # Blank /\ Name(v) # "MP"
        BY <4>1 DEF Spaced, Blank
      <4>3. Len(v) > 1 /\ Name(v) = v[2] /\ v \in Seq(A) /\ Len(v) \in Nat
        BY <4>2, PartsTyped DEF AtomWords
      <4>4. Len(v) = 2
        <5>1. \A i \in 3 .. Len(v) : v[i] \in A
          BY <4>3
        <5> DEFINE m == Len(v)  t == SubSeq(v, 3, m)
        <5>2. m \in Nat /\ 3 \in Int /\ m \in Int
          BY <4>3
        <5>3. Len(t) = IF 3 <= m THEN (m - 3) + 1 ELSE 0
          <6> HIDE DEF m
          <6>1. \A i \in 3 .. m : v[i] \in A
            BY <5>1 DEF m
          <6> QED
            BY <5>2, <6>1, SubSeqProperties
        <5>4. Len(t) = 0
          <6>1. t = <<>>
            BY <4>1 DEF Value
          <6> HIDE DEF t
          <6> QED
            BY <6>1
        <5> HIDE DEF t, m
        <5>5. ~(3 <= m)
          BY <5>2, <5>3, <5>4
        <5>6. m > 1
          BY <4>3 DEF m
        <5>7. m = 2
          BY <5>2, <5>5, <5>6
        <5> QED
          BY <5>7 DEF m
      <4> QED
        BY <4>1, <4>2, <4>3, <4>4 DEF Open
    <3> QED
      BY <3>1
  <2>5. CASE Kept(p, v)
    <3>1. Name(v) \notin Langs
      BY <1>9, <2>5 DEF Kept
    <3>2. \A o \in Adds(<<>>, v) : o.name \notin LangNames
      BY <2>3, <3>1 DEF Langs, LangNames
    <3>3. NoLang(g1)
      BY <1>0, <2>2, <3>2 DEF NoLang
    <3>4. Switches(g1) = Switches(h2)
      BY <1>0, <2>2 DEF Switches
    <3>5. Beside(A, h2, g1, v)
      BY <1>2, <2>2, <2>4, <3>1, <3>3, <3>4 DEF Beside
    <3> QED
      BY <2>5, <3>5 DEF h2, g1
  <2>6. CASE ~Kept(p, v)
    <3>1. Name(v) \in Langs \/ Name(v) = "MP"
      BY <2>0, <2>6 DEF Kept
    <3>2. \A o \in Adds(<<>>, v) : o.name \in {<<"Tc">>, <<"Tp">>, <<"MP">>}
      BY <2>3, <3>1 DEF Langs
    <3>3. Switches(h2) = Switches(h)
      BY <2>2, <3>2 DEF Switches
    <3>4. Beside(A, h2, g, v)
      BY <1>0, <2>0, <2>2, <2>4, <3>1, <3>3 DEF Beside
    <3> QED
      BY <2>6, <3>4 DEF h2
  <2> QED
    BY <2>5, <2>6
<1> QED
  BY <1>7, <1>8, <1>9

\* No word could be taken for a source, or for an option that is left out, that
\* is none.
ClearWords(p, W) ==
    /\ \A f \in NamedFiles(p) : f[1] \notin Signs
    /\ \A i \in 2 .. Len(W) : Open(W[i - 1]) /\ W[i - 1][2] \notin Langs => Kept(p, W[i])

\* The words that are left have the options of the whole command line.
LEMMA CutIs ==
    ASSUME NEW A, NEW W \in Seq(AtomWords(A)),
           Fold(Turn0, W).error = "none", Fold(Turn0, W).awaits = <<>>,
           ClearWords(Fold(Turn0, W), W)
    PROVE  LET p == Fold(Turn0, W)
               b == Fold(Turn0, BaseCmdLine(W, Sources(p)))
           IN  /\ b \in Analyses(A) /\ b.error = "none" /\ b.awaits = <<>>
               /\ ToSet(b.inputFiles) = {} /\ NoLang(b) /\ Switches(b) = Switches(p)
<1> DEFINE p == Fold(Turn0, W)
           b == Fold(Turn0, BaseCmdLine(W, Sources(p)))
           n == Len(W)
<1>0. n \in Nat /\ n \in 0 .. n /\ \A i \in 1 .. n : W[i] \in AtomWords(A)
  OBVIOUS
<1>1. p \in Analyses(A) /\ p.error = "none" /\ p.awaits = <<>> /\ ClearWords(p, W)
  BY Turn0Typed, FoldTyped
<1>2. PICK h : Turns(Turn0, W, h) /\ p = h[n]
  BY FoldTurns
<1> HIDE DEF p
<1>3. PICK g : CutTurns(p, W, g) /\ b = g[n]
  BY <1>1, BaseFold
<1>4. \A i \in 0 .. n : h[i] \in Analyses(A) /\ Grows(h[i], p)
  BY <1>2, TurnsGrow, Turn0Typed
<1>5. h[0] = Turn0 /\ \A i \in 1 .. n : h[i] = ParseWord(h[i - 1], W[i])
  BY <1>2 DEF Turns
<1>6. g[0] = Turn0 /\ \A i \in 1 .. n : g[i] = IF Kept(p, W[i]) THEN ParseWord(g[i - 1], W[i]) ELSE g[i - 1]
  BY <1>3 DEF CutTurns
<1> HIDE DEF b, n
<1>7. \A i \in 0 .. n : h[i].error = "none" /\ NamedFiles(h[i]) \subseteq NamedFiles(p)
  <2>1. ASSUME NEW i \in 0 .. n PROVE h[i].error = "none" /\ NamedFiles(h[i]) \subseteq NamedFiles(p)
    <3>1. Grows(h[i], p)
      BY <1>4
    <3> QED
      BY <1>1, <3>1 DEF Grows, NamedFiles, Given
  <2> QED
    BY <2>1
<1> DEFINE S == {i \in 0 .. n : Beside(A, h[i], g[i], W[i])}
<1>8. 0 \in S
  <2>1. Turn0.awaits = <<>> /\ Turn0.error = "none"
    BY DEF Turn0
  <2>2. Beside(A, Turn0, Turn0, W[0])
    BY <2>1, Turn0Typed DEF Beside, NoLang
  <2> QED
    BY <1>0, <1>5, <1>6, <2>2
<1>9. ASSUME NEW i \in 0 .. n - 1, i \in S PROVE i + 1 \in S
  <2>1. i + 1 \in 1 .. n /\ i + 1 \in 0 .. n /\ (i + 1) - 1 = i /\ i \in 0 .. n
    BY <1>0
  <2>2. h[i + 1] = ParseWord(h[i], W[i + 1])
        /\ g[i + 1] = IF Kept(p, W[i + 1]) THEN ParseWord(g[i], W[i + 1]) ELSE g[i]
    BY <1>5, <1>6, <2>1
  <2>3. h[i] \in Analyses(A) /\ W[i + 1] \in AtomWords(A) /\ Beside(A, h[i], g[i], W[i])
    BY <1>0, <1>4, <1>9, <2>1 DEF n
  <2>4. h[i].error = "none" /\ h[i + 1].error = "none" /\ NamedFiles(h[i + 1]) \subseteq NamedFiles(p)
    BY <1>7, <2>1
  <2>5. \A f \in NamedFiles(p) : f[1] \notin Signs
    BY <1>1 DEF ClearWords
  <2> DEFINE v == W[i + 1]  w == W[i]
  <2>6. CASE i = 0
    <3>1. h[i].awaits = <<>>
      BY <1>5, <2>6 DEF Turn0
    <3> DEFINE u == <<>>
    <3>2. ~Open(u)
      BY DEF Open
    <3>3. Beside(A, h[i], g[i], u)
      BY <2>3, <3>1 DEF Beside
    <3> HIDE DEF v, w, u
    <3>4. Beside(A, ParseWord(h[i], v), IF Kept(p, v) THEN ParseWord(g[i], v) ELSE g[i], v)
      BY <2>2, <2>3, <2>4, <2>5, <3>2, <3>3, BesideTurn DEF v
    <3> QED
      BY <2>1, <2>2, <3>4 DEF v
  <2>7. CASE i # 0
    <3>1. i + 1 \in 2 .. Len(W)
      BY <1>0, <2>1, <2>7 DEF n
    <3>2. Open(w) /\ w[2] \notin Langs => Kept(p, v)
      BY <1>1, <2>1, <3>1 DEF ClearWords
    <3> HIDE DEF v, w
    <3>3. Beside(A, h[i], g[i], w)
      BY <2>3 DEF w
    <3>4. Beside(A, ParseWord(h[i], v), IF Kept(p, v) THEN ParseWord(g[i], v) ELSE g[i], v)
      BY <2>2, <2>3, <2>4, <2>5, <3>2, <3>3, BesideTurn DEF v
    <3> QED
      BY <2>1, <2>2, <3>4 DEF v
  <2> QED
    BY <2>6, <2>7
<1> HIDE DEF S
<1>10. \A i \in 0 .. n : i \in S
  BY <1>0, <1>8, <1>9, Counting
<1>11. Beside(A, p, b, W[n])
  BY <1>0, <1>2, <1>3, <1>10 DEF S, n
<1>12. /\ b \in Analyses(A) /\ b.error = "none" /\ b.awaits = <<>>
       /\ ToSet(b.inputFiles) = {} /\ NoLang(b) /\ Switches(b) = Switches(p)
  BY <1>1, <1>11 DEF Beside
<1> QED
  BY <1>12 DEF p, b

\* What a command is when it is analysed: one source, in its language
Builds(q, p, f) ==
    /\ q.error = "none" /\ q.awaits = <<>>
    /\ NamedFiles(q) = {f} /\ LangOf(q, f) = LangOf(p, f) /\ Switches(q) = Switches(p)

\* The option that gives a source its language, and the source
LEMMA LangWord ==
    ASSUME NEW A, NEW f \in AtomWords(A), NEW n \in Langs, {"/", "Tc", "Tp"} \subseteq A
    PROVE  LET w == <<"/", n>> \o f
           IN  w \in AtomWords(A) /\ w[1] = "/" /\ Name(w) = n /\ w[2] = n /\ Value(w) = f
<1> DEFINE a == <<"/", n>>  w == a \o f  m == Len(f)
<1>1. a \in Seq(A) /\ Len(a) = 2 /\ a[1] = "/" /\ a[2] = n
  BY DEF Langs
<1>2. f \in Seq(A) /\ m \in Nat /\ m # 0
  BY DEF AtomWords
<1> HIDE DEF a
<1>3. /\ w \in Seq(A) /\ Len(w) = 2 + m
      /\ \A i \in 1 .. 2 : w[i] = a[i]
      /\ \A i \in 1 .. m : w[2 + i] = f[i]
  <2>1. /\ w \in Seq(A) /\ Len(w) = Len(a) + m
        /\ \A i \in 1 .. Len(a) : w[i] = a[i]
        /\ \A i \in 1 .. m : w[Len(a) + i] = f[i]
    <3>1. a \in Seq(A) /\ f \in Seq(A)
      BY <1>1, <1>2
    <3> QED
      BY <3>1, ConcatLaid
  <2> HIDE DEF w, m
  <2> QED
    BY <1>1, <2>1
<1> HIDE DEF w, m
<1>4. w[1] = "/" /\ w[2] = n
  BY <1>1, <1>3
<1>5. Len(w) > 1 /\ Len(w) # 0 /\ Len(w) \in Nat /\ 3 <= Len(w) /\ (Len(w) - 3) + 1 = m
  BY <1>2, <1>3
<1>6. Name(w) = n
  BY <1>4, <1>5 DEF Name
<1>7. w \in AtomWords(A)
  BY <1>3, <1>5 DEF AtomWords
<1>8. Value(w) = f
  <2> DEFINE t == SubSeq(w, 3, Len(w))
  <2>1. \A i \in 3 .. Len(w) : w[i] \in A
    BY <1>3, <1>5
  <2>2. t \in Seq(A) /\ Len(t) = (Len(w) - 3) + 1 /\ \A i \in 1 .. (Len(w) - 3) + 1 : t[i] = w[(3 + i) - 1]
    BY <1>5, <2>1, SubSeqProperties
  <2> HIDE DEF t
  <2>3. Len(t) = m /\ \A i \in 1 .. m : t[i] = w[(3 + i) - 1]
    BY <1>5, <2>2
  <2>4. \A i \in 1 .. m : (3 + i) - 1 = 2 + i
    OBVIOUS
  <2>5. \A i \in 1 .. m : t[i] = f[i]
    BY <1>3, <2>3, <2>4
  <2>6. t = f
    BY <1>2, <2>2, <2>3, <2>5, SeqEqual DEF m
  <2> QED
    BY <2>6 DEF t, Value
<1> QED
  BY <1>4, <1>6, <1>7, <1>8 DEF w, a

\* The last word of a command names its source.
LEMMA LastWord ==
    ASSUME NEW A, NEW b \in Analyses(A), b.error = "none", b.awaits = <<>>,
           ToSet(b.inputFiles) = {}, NoLang(b),
           NEW p, Switches(b) = Switches(p), NEW f \in AtomWords(A), f[1] \notin Signs,
           f \in NamedFiles(p), {"/", "Tc", "Tp"} \subseteq A
    PROVE  /\ LangOf(p, f) \o f \in AtomWords(A)
           /\ Builds(ParseWord(b, LangOf(p, f) \o f), p, f)
<1>1. \A n : Given(b, n) \in {{}} \/ <<n>> \notin LangNames
  BY DEF Given, NoLang
<1>2. Given(b, "Tc") = {} /\ Given(b, "Tp") = {}
  BY <1>1 DEF LangNames
<1>3. CASE LangOf(p, f) = <<>>
  <2> DEFINE q == ParseWord(b, f)
  <2>1. <<>> \o f = f
    BY ConcatEmptySeq DEF AtomWords
  <2>2. TurnOf(b, f, q)
    BY TurnIs
  <2>3. Adds(<<>>, f) = {} /\ Files(<<>>, f) = {f} /\ Awaits(<<>>, f) = <<>> /\ ~Refuses(<<>>, f)
    BY DEF Adds, Files, Awaits, Refuses
  <2> HIDE DEF q
  <2>4. /\ ToSet(q.options) = ToSet(b.options) /\ ToSet(q.inputFiles) = {f}
        /\ q.awaits = <<>> /\ q.error = "none"
    BY <2>2, <2>3 DEF TurnOf
  <2>5. Given(q, "Tc") = {} /\ Given(q, "Tp") = {} /\ Switches(q) = Switches(p)
    BY <1>2, <2>4 DEF Given, Switches
  <2>6. NamedFiles(q) = {f} /\ LangOf(q, f) = <<>>
    BY <2>4, <2>5 DEF NamedFiles, LangOf
  <2>7. Builds(q, p, f)
    BY <1>3, <2>4, <2>5, <2>6 DEF Builds
  <2> QED
    BY <1>3, <2>1, <2>7 DEF q
<1>4. ASSUME NEW n \in Langs, LangOf(p, f) = <<"/", n>>
      PROVE  /\ LangOf(p, f) \o f \in AtomWords(A)
             /\ Builds(ParseWord(b, LangOf(p, f) \o f), p, f)
  <2> DEFINE w == <<"/", n>> \o f  q == ParseWord(b, w)
             o == [name |-> <<n>>, value |-> f]
  <2>1. w \in AtomWords(A) /\ w[1] = "/" /\ Name(w) = n /\ w[2] = n /\ Value(w) = f
    BY LangWord
  <2> HIDE DEF w
  <2>2. TurnOf(b, w, q)
    BY <2>1, TurnIs
  <2> HIDE DEF q
  <2>3. f # <<>> /\ n \in Spaced /\ n \notin NoSpace
    BY DEF AtomWords, Langs, Spaced, NoSpace
  <2>4. Adds(<<>>, w) = {o} /\ Files(<<>>, w) = {} /\ Awaits(<<>>, w) = <<>> /\ ~Refuses(<<>>, w)
    BY <2>1, <2>3 DEF Adds, Files, Awaits, Refuses, Signs
  <2>5. /\ ToSet(q.options) = ToSet(b.options) \cup {o} /\ ToSet(q.inputFiles) = {}
        /\ q.awaits = <<>> /\ q.error = "none"
    BY <2>2, <2>4 DEF TurnOf
  <2>6. o.name = <<n>> /\ o.value = f
    OBVIOUS
  <2> HIDE DEF o
  <2>7. \A x : Given(q, x) = IF x = n THEN Given(b, x) \cup {f} ELSE Given(b, x)
    BY <2>5, <2>6 DEF Given
  <2>8. Switches(q) = Switches(p)
    <3>1. o.name \in {<<"Tc">>, <<"Tp">>, <<"MP">>}
      BY <2>6 DEF Langs
    <3> QED
      BY <2>5, <3>1 DEF Switches
  <2>9. NamedFiles(q) = {f} /\ LangOf(q, f) = <<"/", n>>
    <3>1. CASE n = "Tc"
      <4>1. Given(q, "Tc") = {f} /\ Given(q, "Tp") = {}
        BY <1>2, <2>7, <3>1
      <4> QED
        BY <2>5, <3>1, <4>1 DEF NamedFiles, LangOf
    <3>2. CASE n = "Tp"
      <4>1. Given(q, "Tp") = {f} /\ Given(q, "Tc") = {}
        BY <1>2, <2>7, <3>2
      <4> QED
        BY <2>5, <3>2, <4>1 DEF NamedFiles, LangOf
    <3> QED
      BY <3>1, <3>2 DEF Langs
  <2>10. Builds(q, p, f)
    BY <1>4, <2>5, <2>8, <2>9 DEF Builds
  <2> QED
    BY <1>4, <2>1, <2>10 DEF q, w
<1> QED
  BY <1>3, <1>4 DEF LangOf, Langs

\* The command of a job, analysed
LEMMA CommandIs ==
    ASSUME NEW A, {"/", "Tc", "Tp"} \subseteq A, NEW W \in Seq(AtomWords(A)),
           Fold(Turn0, W).error = "none", Fold(Turn0, W).awaits = <<>>,
           ClearWords(Fold(Turn0, W), W), NEW f \in NamedFiles(Fold(Turn0, W))
    PROVE  LET p == Fold(Turn0, W)
               cmd == Append(BaseCmdLine(W, Sources(p)), LangOf(p, f) \o f)
           IN  cmd \in Seq(AtomWords(A)) /\ Builds(Fold(Turn0, cmd), p, f)
<1> DEFINE p == Fold(Turn0, W)
           base == BaseCmdLine(W, Sources(p))
           b == Fold(Turn0, base)
           w == LangOf(p, f) \o f
<1>1. /\ b \in Analyses(A) /\ b.error = "none" /\ b.awaits = <<>>
      /\ ToSet(b.inputFiles) = {} /\ NoLang(b) /\ Switches(b) = Switches(p)
  BY CutIs
<1>2. p \in Analyses(A) /\ Solid(p)
  BY Turn0Typed, FoldTyped, FoldSolid
<1>3. f \in NamedFiles(p) /\ f[1] \notin Signs
  BY DEF ClearWords
<1> HIDE DEF p
<1>4. base \in Seq(AtomWords(A))
  BY <1>2, BaseFold
<1>5. f \in AtomWords(A)
  BY <1>2, <1>3, FilesSolid
<1> HIDE DEF base
<1>6. b = Fold(Turn0, base)
  OBVIOUS
<1> HIDE DEF b
<1>7. w \in AtomWords(A) /\ Builds(ParseWord(b, w), p, f)
  BY <1>1, <1>3, <1>5, LastWord
<1> HIDE DEF w
<1>8. /\ base \o <<w>> \in Seq(AtomWords(A)) /\ base \o <<w>> = Append(base, w)
  BY <1>4, <1>7, OneMore
<1>9. <<w>> \in Seq(AtomWords(A))
  BY <1>7
<1>10. Fold(Turn0, base \o <<w>>) = Fold(Fold(Turn0, base), <<w>>)
  BY <1>4, <1>9, FoldConcat
<1>11. Fold(b, <<w>>) = ParseWord(b, w)
  BY <1>7, FoldOne
<1> QED
  BY <1>6, <1>7, <1>8, <1>10, <1>11 DEF p, base, w

-----------------------------------------------------------------------------
(* The words that the compiler sees                                        *)

\* Words that leave nothing open
Whole(p) == p.error = "none" /\ p.awaits = <<>>

\* What is analysed without an error is what the loop gives.
LEMMA ParsedIs ==
    ASSUME NEW A, NEW ws \in Seq(AtomWords(A))
    PROVE  /\ Fold(Turn0, ws) \in Analyses(A)
           /\ Parsed(ws).error = "none" => Parsed(ws) = Fold(Turn0, ws) /\ Whole(Fold(Turn0, ws))
           /\ Whole(Fold(Turn0, ws)) => Parsed(ws) = Fold(Turn0, ws)
<1> DEFINE p == Fold(Turn0, ws)
<1>1. p \in Analyses(A)
  BY Turn0Typed, FoldTyped
<1>2. Parsed(ws) = IF p.error = "none" /\ p.awaits # <<>> THEN [p EXCEPT !.error = "IndexError"] ELSE p
  BY DEF Parsed, Fold, Turn0
<1> HIDE DEF p
<1>3. [p EXCEPT !.error = "IndexError"].error = "IndexError"
  BY <1>1 DEF Analyses
<1>4. Parsed(ws).error = "none" => Parsed(ws) = p /\ Whole(p)
  BY <1>2, <1>3 DEF Whole
<1>5. Whole(p) => Parsed(ws) = p
  BY <1>2 DEF Whole
<1> QED
  BY <1>1, <1>4, <1>5 DEF p

\* The options of the two parts of a list are options of the list.
LEMMA PartsSwitch ==
    ASSUME NEW A, NEW X \in Seq(AtomWords(A)), NEW Y \in Seq(AtomWords(A))
    PROVE  /\ Switches(Fold(Turn0, X)) \subseteq Switches(Fold(Turn0, X \o Y))
           /\ Whole(Fold(Turn0, X)) =>
                Switches(Fold(Turn0, Y)) \subseteq Switches(Fold(Turn0, X \o Y))
<1> DEFINE x == Fold(Turn0, X)  y == Fold(Turn0, Y)  r == Fold(x, Y)
<1>1. Fold(Turn0, X \o Y) = r
  BY FoldConcat
<1>2. x \in Analyses(A)
  BY Turn0Typed, FoldTyped
<1>3. Whole(x) => Joins(x, y, r)
  <2> HIDE DEF x
  <2> QED
    BY <1>2, FoldJoins DEF Whole
<1>4. Grows(x, r)
  <2> HIDE DEF x
  <2> QED
    BY <1>2, FoldTyped
<1> HIDE DEF x, y, r
<1>5. Switches(x) \subseteq Switches(r)
  BY <1>4 DEF Grows, Switches
<1>6. Whole(x) => Switches(y) \subseteq Switches(r)
  BY <1>3 DEF Joins, Switches
<1> QED
  BY <1>1, <1>5, <1>6 DEF x, y

\* A command between the words of CL and _CL_ still names its source only.
LEMMA BetweenIs ==
    ASSUME NEW A, NEW X \in Seq(AtomWords(A)), NEW cmd \in Seq(AtomWords(A)), NEW Y \in Seq(AtomWords(A)),
           Whole(Fold(Turn0, X)), NamedFiles(Fold(Turn0, X)) = {},
           Whole(Fold(Turn0, Y)), NamedFiles(Fold(Turn0, Y)) = {},
           NEW p, NEW f, Builds(Fold(Turn0, cmd), p, f),
           Switches(Fold(Turn0, X)) \subseteq Switches(p),
           Switches(Fold(Turn0, Y)) \subseteq Switches(p)
    PROVE  (X \o cmd) \o Y \in Seq(AtomWords(A)) /\ Builds(Fold(Turn0, (X \o cmd) \o Y), p, f)
<1> DEFINE x == Fold(Turn0, X)  y == Fold(Turn0, Y)  q == Fold(Turn0, cmd)
           u == Fold(x, cmd)  r == Fold(u, Y)  first == X \o cmd
<1>1. first \in Seq(AtomWords(A))
  BY ConcatSet
<1>2. Fold(Turn0, first) = u
  BY FoldConcat
<1>3. x \in Analyses(A) /\ Whole(x) /\ NamedFiles(x) = {}
  BY Turn0Typed, FoldTyped
<1>4. Whole(y) /\ NamedFiles(y) = {} /\ Builds(q, p, f)
      /\ Switches(x) \subseteq Switches(p) /\ Switches(y) \subseteq Switches(p)
  OBVIOUS
<1> HIDE DEF first
<1>5. first \o Y \in Seq(AtomWords(A)) /\ Fold(Turn0, first \o Y) = Fold(Fold(Turn0, first), Y)
  BY <1>1, FoldConcat, ConcatSet
<1> HIDE DEF x
<1>6. Joins(x, q, u) /\ u \in Analyses(A)
  BY <1>3, FoldJoins, FoldTyped DEF Whole
<1>7. Whole(u)
  BY <1>4, <1>6 DEF Joins, Builds, Whole
<1>8. Fold(Turn0, first \o Y) = r
  BY <1>2, <1>5
<1> HIDE DEF u
<1>9. Joins(u, y, r)
  BY <1>6, <1>7, FoldJoins DEF Whole
<1> HIDE DEF q, y, r
<1>10. r.error = "none" /\ r.awaits = <<>>
  BY <1>4, <1>9 DEF Joins, Whole
<1>11. /\ ToSet(r.options) = ToSet(x.options) \cup ToSet(q.options) \cup ToSet(y.options)
       /\ ToSet(r.inputFiles) = ToSet(x.inputFiles) \cup ToSet(q.inputFiles) \cup ToSet(y.inputFiles)
  BY <1>6, <1>9 DEF Joins
<1>12. \A n : Given(r, n) = Given(x, n) \cup Given(q, n) \cup Given(y, n)
  BY <1>11 DEF Given
<1>13. Given(x, "Tc") = {} /\ Given(x, "Tp") = {} /\ Given(y, "Tc") = {} /\ Given(y, "Tp") = {}
       /\ ToSet(x.inputFiles) = {} /\ ToSet(y.inputFiles) = {}
  BY <1>3, <1>4 DEF NamedFiles
<1>14. Given(r, "Tc") = Given(q, "Tc") /\ Given(r, "Tp") = Given(q, "Tp")
       /\ ToSet(r.inputFiles) = ToSet(q.inputFiles)
  BY <1>11, <1>12, <1>13
<1>15. NamedFiles(r) = NamedFiles(q) /\ LangOf(r, f) = LangOf(q, f)
  BY <1>14 DEF NamedFiles, LangOf
<1>16. Switches(r) = Switches(x) \cup Switches(q) \cup Switches(y)
  BY <1>11 DEF Switches
<1>17. Builds(r, p, f)
  BY <1>4, <1>10, <1>15, <1>16 DEF Builds
<1> QED
  BY <1>5, <1>8, <1>17 DEF first

\* Analysed again, a command that builds f has f as its only source.
LEMMA BuildsOne ==
    ASSUME NEW A, NEW ws \in Seq(AtomWords(A)), NEW p, NEW f, Builds(Fold(Turn0, ws), p, f)
    PROVE  /\ Parsed(ws).error = "none" /\ Switches(Parsed(ws)) = Switches(p)
           /\ Sources(Parsed(ws)) = <<SourceOf(p, f)>>
<1> DEFINE q == Fold(Turn0, ws)
<1>1. q \in Analyses(A) /\ (Whole(q) => Parsed(ws) = q)
  BY ParsedIs
<1>2. Builds(q, p, f)
  OBVIOUS
<1> HIDE DEF q
<1>3. Parsed(ws) = q /\ NamedFiles(q) = {f}
  BY <1>1, <1>2 DEF Builds, Whole
<1>4. Sources(q) = <<SourceOf(q, f)>>
  BY <1>1, <1>3, OneSource
<1>5. SourceOf(q, f) = SourceOf(p, f)
  BY <1>2 DEF SourceOf, Builds
<1> QED
  BY <1>2, <1>3, <1>4, <1>5 DEF Builds

\* An unambiguous command line, in terms of its words
LEMMA ClearIs ==
    ASSUME NEW A, cmdLine \in Seq(AtomWords(A)), Parsed(cmdLine) \in Analyses(A), ~Ambiguous
    PROVE  ClearWords(Parsed(cmdLine), cmdLine)
<1> DEFINE p == Parsed(cmdLine)  sources == {s.file : s \in ToSet(Sources(p))}
<1>1. sources = NamedFiles(p)
  <2>1. ToSet(Sources(p)) = {SourceOf(p, f) : f \in NamedFiles(p)}
    BY SourcesAre
  <2>2. \A f : SourceOf(p, f).file = f
    BY DEF SourceOf
  <2> DEFINE S == ToSet(Sources(p))
  <2>3. sources = {s.file : s \in S}
    OBVIOUS
  <2> HIDE DEF p, S, sources
  <2>4. ASSUME NEW s \in S PROVE s.file \in NamedFiles(p)
    BY <2>1, <2>2 DEF S
  <2>5. ASSUME NEW f \in NamedFiles(p) PROVE \E s \in S : s.file = f
    <3>1. SourceOf(p, f) \in S
      BY <2>1 DEF S
    <3> QED
      BY <2>2, <3>1
  <2> QED
    BY <2>3, <2>4, <2>5
<1>2. /\ ~\E f \in sources : f[1] \in {"/", "-"}
      /\ ~\E i \in 2 .. Len(cmdLine) :
             /\ Len(cmdLine[i - 1]) = 2 /\ cmdLine[i - 1][1] \in {"/", "-"}
             /\ cmdLine[i - 1][2] \in Spaced \ {"Tc", "Tp"}
             /\ cmdLine[i] \in sources \/ \E a \in Skipped \cup {MP} : IsPrefix(a, cmdLine[i])
  BY DEF Ambiguous
<1> HIDE DEF p, sources
<1>3. ASSUME NEW i \in 2 .. Len(cmdLine), Open(cmdLine[i - 1]), cmdLine[i - 1][2] \notin Langs
      PROVE  Kept(p, cmdLine[i])
  <2>1. cmdLine[i] \notin sources /\ ~\E a \in Skipped \cup {MP} : IsPrefix(a, cmdLine[i])
    BY <1>2, <1>3 DEF Open, Langs, Signs
  <2>2. cmdLine[i] \in AtomWords(A)
    <3>1. i \in 1 .. Len(cmdLine)
      OBVIOUS
    <3> QED
      BY <3>1
  <2>3. ~(cmdLine[i][1] \in Signs /\ Name(cmdLine[i]) \in Langs)
        /\ ~(cmdLine[i][1] = "/" /\ Name(cmdLine[i]) = "MP")
    BY <2>1, <2>2, NotSkipped
  <2> QED
    BY <1>1, <2>1, <2>3 DEF Kept
<1>4. \A f \in NamedFiles(p) : f[1] \notin Signs
  BY <1>1, <1>2 DEF Signs
<1>5. ClearWords(p, cmdLine)
  BY <1>3, <1>4 DEF ClearWords
<1> QED
  BY <1>5 DEF p

-----------------------------------------------------------------------------
(* What becomes of CL and _CL_ in the command line                         *)

\* The atoms of all the words of a request, and those that scheduleJobs writes
Alphabet(r) ==
    (UNION {UNION {ToSet(w) : w \in ToSet(ws)} : ws \in {r.args, r.CL, r._CL_, r.file}})
    \cup {"/", "Tc", "Tp"}

\* The words of a request are spelled with its alphabet.
LEMMA Spelled ==
    ASSUME NEW r \in Requests
    PROVE  /\ \A ws \in {r.args, r.CL, r._CL_, r.file} : ws \in Seq(Seq(Alphabet(r)))
           /\ {"/", "Tc", "Tp"} \subseteq Alphabet(r)
<1> DEFINE A == Alphabet(r)
<1>1. {"/", "Tc", "Tp"} \subseteq A
  BY DEF Alphabet
<1>2. ASSUME NEW ws \in {r.args, r.CL, r._CL_, r.file} PROVE ws \in Seq(Seq(A))
  <2>1. WordList(ws)
    BY RequestsAssumption
  <2>2. ws \in Seq(ToSet(ws)) /\ \A w \in ToSet(ws) : w \in Seq(ToSet(w))
    BY <2>1 DEF WordList
  <2>3. ASSUME NEW w \in ToSet(ws) PROVE w \in Seq(A)
    <3>1. ToSet(w) \subseteq A
      BY DEF Alphabet
    <3>2. w \in Seq(ToSet(w))
      BY <2>2
    <3> QED
      BY <3>1, <3>2, SeqMonotonic
  <2> HIDE DEF A
  <2>4. ToSet(ws) \subseteq Seq(A)
    BY <2>3
  <2> QED
    BY <2>2, <2>4, SeqMonotonic
<1> QED
  BY <1>1, <1>2

\* One list is the beginning of another, or its end.
BeginsWith(s, t) == Len(t) <= Len(s) /\ \A k \in 1 .. Len(t) : s[k] = t[k]

EndsWith(s, t) ==
    Len(t) <= Len(s) /\ \A k \in 1 .. Len(t) : s[(Len(s) - Len(t)) + k] = t[k]

\* Words that do not ask for a response file
NoFile(ws) == \A w \in ToSet(ws) : w # <<>> /\ w[1] # "@"

\* What is added behind does not change the beginning.
LEMMA BeginsLonger ==
    ASSUME NEW T, NEW s \in Seq(T), NEW t \in Seq(T), NEW x \in Seq(T), BeginsWith(s, t)
    PROVE  BeginsWith(s \o x, t)
<1> DEFINE c == s \o x  l == Len(s)  m == Len(t)  n == Len(x)
<1>1. Len(c) = l + n /\ \A i \in 1 .. l : c[i] = s[i]
  BY ConcatLaid
<1>2. l \in Nat /\ m \in Nat /\ n \in Nat /\ m <= l /\ \A k \in 1 .. m : s[k] = t[k]
  BY DEF BeginsWith
<1> HIDE DEF c, l, m, n
<1>3. m <= Len(c) /\ \A k \in 1 .. m : k \in 1 .. l
  BY <1>1, <1>2
<1>4. \A k \in 1 .. m : c[k] = t[k]
  BY <1>1, <1>2, <1>3
<1> QED
  BY <1>3, <1>4 DEF BeginsWith, c, m

\* What is added in front does not change the end.
LEMMA EndsLonger ==
    ASSUME NEW T, NEW s \in Seq(T), NEW t \in Seq(T), NEW x \in Seq(T), EndsWith(s, t)
    PROVE  EndsWith(x \o s, t)
<1> DEFINE c == x \o s  l == Len(s)  m == Len(t)  n == Len(x)
<1>1. Len(c) = n + l /\ \A i \in 1 .. l : c[n + i] = s[i]
  BY ConcatLaid
<1>2. l \in Nat /\ m \in Nat /\ n \in Nat /\ m <= l /\ \A k \in 1 .. m : s[(l - m) + k] = t[k]
  BY DEF EndsWith
<1> HIDE DEF c, l, m, n
<1>3. m <= n + l /\ \A k \in 1 .. m : (l - m) + k \in 1 .. l /\ ((n + l) - m) + k = n + ((l - m) + k)
  BY <1>2
<1>4. \A k \in 1 .. m : c[((n + l) - m) + k] = t[k]
  BY <1>1, <1>2, <1>3
<1> QED
  BY <1>1, <1>3, <1>4 DEF EndsWith, c, m

\* Of two lists one after the other, the first is the beginning and the second is the end.
LEMMA BothEnds ==
    ASSUME NEW T, NEW s \in Seq(T), NEW t \in Seq(T)
    PROVE  BeginsWith(s \o t, s) /\ EndsWith(s \o t, t)
<1>1. BeginsWith(s, s)
  BY DEF BeginsWith
<1>2. EndsWith(t, t)
  <2> DEFINE m == Len(t)
  <2>1. m \in Nat
    OBVIOUS
  <2> HIDE DEF m
  <2>2. m <= m /\ \A k \in 1 .. m : (m - m) + k = k
    BY <2>1
  <2> QED
    BY <2>2 DEF EndsWith, m
<1> QED
  BY <1>1, <1>2, BeginsLonger, EndsLonger

\* A list that begins or ends with another, taken apart
LEMMA Apart ==
    ASSUME NEW T, NEW s \in Seq(T), NEW t \in Seq(T)
    PROVE  /\ BeginsWith(s, t) => \E x \in Seq(T) : s = t \o x
           /\ EndsWith(s, t) => s = SubSeq(s, 1, Len(s) - Len(t)) \o t
                                /\ SubSeq(s, 1, Len(s) - Len(t)) \in Seq(T)
<1> DEFINE l == Len(s)  m == Len(t)
<1>0. l \in Nat /\ m \in Nat /\ \A i \in 1 .. l : s[i] \in T
  OBVIOUS
<1>1. ASSUME BeginsWith(s, t) PROVE \E x \in Seq(T) : s = t \o x
  <2> DEFINE x == SubSeq(s, m + 1, l)  c == t \o x
  <2>1. m <= l /\ \A k \in 1 .. m : s[k] = t[k]
    BY <1>1 DEF BeginsWith
  <2> HIDE DEF l, m
  <2>2. x \in Seq(T) /\ Len(x) = l - m /\ \A i \in 1 .. l - m : x[i] = s[m + i]
    <3>1. m + 1 \in Int /\ l \in Int /\ \A i \in m + 1 .. l : s[i] \in T
      BY <1>0
    <3>2. /\ x \in Seq(T)
          /\ Len(x) = IF m + 1 <= l THEN (l - (m + 1)) + 1 ELSE 0
          /\ \A i \in 1 .. (l - (m + 1)) + 1 : x[i] = s[((m + 1) + i) - 1]
      BY <3>1, SubSeqProperties
    <3> HIDE DEF x
    <3>3. (l - (m + 1)) + 1 = l - m /\ \A i \in 1 .. l - m : ((m + 1) + i) - 1 = m + i
      BY <1>0, <2>1
    <3>4. ~(m + 1 <= l) => l - m = 0
      BY <1>0, <2>1
    <3> QED
      BY <3>2, <3>3, <3>4
  <2> HIDE DEF x
  <2>3. /\ c \in Seq(T) /\ Len(c) = m + (l - m)
        /\ \A i \in 1 .. m : c[i] = t[i]
        /\ \A i \in 1 .. l - m : c[m + i] = x[i]
    <3>1. /\ c \in Seq(T) /\ Len(c) = Len(t) + Len(x)
          /\ \A i \in 1 .. Len(t) : c[i] = t[i]
          /\ \A i \in 1 .. Len(x) : c[Len(t) + i] = x[i]
      BY <2>2, ConcatLaid
    <3> HIDE DEF c
    <3> QED
      BY <2>2, <3>1 DEF m
  <2> HIDE DEF c
  <2>4. ASSUME NEW i \in 1 .. l PROVE c[i] = s[i]
    <3>1. CASE i <= m
      <4>1. i \in 1 .. m
        BY <1>0, <3>1
      <4> QED
        BY <2>1, <2>3, <4>1
    <3>2. CASE ~(i <= m)
      <4>1. i - m \in 1 .. l - m /\ m + (i - m) = i
        BY <1>0, <2>1, <3>2
      <4> QED
        BY <2>2, <2>3, <4>1
    <3> QED
      BY <3>1, <3>2
  <2>5. Len(c) = l
    BY <1>0, <2>1, <2>3
  <2>6. c = s
    BY <2>3, <2>4, <2>5, SeqEqual DEF l
  <2> QED
    BY <2>2, <2>6 DEF c
<1>2. ASSUME EndsWith(s, t)
      PROVE  s = SubSeq(s, 1, l - m) \o t /\ SubSeq(s, 1, l - m) \in Seq(T)
  <2> DEFINE x == SubSeq(s, 1, l - m)  c == x \o t
  <2>1. m <= l /\ \A k \in 1 .. m : s[(l - m) + k] = t[k]
    BY <1>2 DEF EndsWith
  <2> HIDE DEF l, m
  <2>2. x \in Seq(T) /\ Len(x) = l - m /\ \A i \in 1 .. l - m : x[i] = s[i]
    <3>1. 1 \in Int /\ l - m \in Int /\ \A i \in 1 .. l - m : s[i] \in T
      BY <1>0, <2>1
    <3> DEFINE y == l - m
    <3>2. y \in Nat
      BY <1>0, <2>1
    <3> HIDE DEF y
    <3>3. 1 \in Int /\ y \in Int /\ \A i \in 1 .. y : s[i] \in T
      BY <3>1, <3>2 DEF y
    <3>4. /\ SubSeq(s, 1, y) \in Seq(T)
          /\ Len(SubSeq(s, 1, y)) = IF 1 <= y THEN (y - 1) + 1 ELSE 0
          /\ \A i \in 1 .. (y - 1) + 1 : SubSeq(s, 1, y)[i] = s[(1 + i) - 1]
      BY <3>3, SubSeqProperties
    <3> DEFINE z == SubSeq(s, 1, y)
    <3> HIDE DEF z
    <3>5. (y - 1) + 1 = y /\ (~(1 <= y) => y = 0) /\ \A i \in 1 .. y : (1 + i) - 1 = i
      BY <3>2
    <3>6. z \in Seq(T) /\ Len(z) = y /\ \A i \in 1 .. y : z[i] = s[i]
      BY <3>4, <3>5 DEF z
    <3> QED
      BY <3>6 DEF z, y
  <2> HIDE DEF x
  <2>3. /\ c \in Seq(T) /\ Len(c) = (l - m) + m
        /\ \A i \in 1 .. l - m : c[i] = x[i]
        /\ \A i \in 1 .. m : c[(l - m) + i] = t[i]
    <3>0. x \in Seq(T)
      BY <2>2
    <3>1. /\ c \in Seq(T) /\ Len(c) = Len(x) + Len(t)
          /\ \A i \in 1 .. Len(x) : c[i] = x[i]
          /\ \A i \in 1 .. Len(t) : c[Len(x) + i] = t[i]
      BY <3>0, ConcatLaid
    <3> HIDE DEF c
    <3> QED
      BY <2>2, <3>1 DEF m
  <2> HIDE DEF c
  <2>4. ASSUME NEW i \in 1 .. l PROVE c[i] = s[i]
    <3>1. CASE i <= l - m
      <4>1. i \in 1 .. l - m
        BY <1>0, <2>1, <3>1
      <4> QED
        BY <2>2, <2>3, <4>1
    <3>2. CASE ~(i <= l - m)
      <4>1. i - (l - m) \in 1 .. m /\ (l - m) + (i - (l - m)) = i
        BY <1>0, <2>1, <3>2
      <4> QED
        BY <2>1, <2>3, <4>1
    <3> QED
      BY <3>1, <3>2
  <2>5. Len(c) = l
    BY <1>0, <2>1, <2>3
  <2>6. c = s
    BY <2>3, <2>4, <2>5, SeqEqual DEF l
  <2> QED
    BY <2>2, <2>6 DEF c, x
<1> QED
  BY <1>1, <1>2

\* One word goes from the list of those to be looked at to the command line.
LEMMA OneMoves ==
    ASSUME NEW T, NEW s \in Seq(T), NEW t \in Seq(T), t # <<>>
    PROVE  /\ Head(t) \in T /\ Tail(t) \in Seq(T)
           /\ Append(s, Head(t)) \in Seq(T) /\ Append(s, Head(t)) \o Tail(t) = s \o t
           /\ t = <<Head(t)>> \o Tail(t)
<1> DEFINE h == Head(t)  r == Tail(t)  one == <<h>>
<1>1. h \in T /\ r \in Seq(T)
  BY HeadTailProperties
<1>2. t = one \o r
  OBVIOUS
<1> HIDE DEF h, r
<1>3. one \in Seq(T)
  BY <1>1
<1>4. Append(s, h) = s \o one /\ s \o one \in Seq(T)
  BY <1>1, OneMore
<1> HIDE DEF one
<1>5. (s \o one) \o r = s \o (one \o r)
  BY <1>1, <1>3, ConcatAssociative
<1> QED
  BY <1>1, <1>2, <1>4, <1>5 DEF h, r, one

\* A response file comes behind the words of CL and before those of _CL_.
LEMMA FileBetween ==
    ASSUME NEW T, NEW s \in Seq(T), NEW h \in T, NEW r \in Seq(T), NEW t \in Seq(T), h[1] = "@", NoFile(t)
    PROVE  /\ BeginsWith(s \o (<<h>> \o r), t) => BeginsWith(s, t)
           /\ EndsWith(s \o (<<h>> \o r), t) => EndsWith(r, t)
<1> DEFINE one == <<h>>  u == one \o r  c == s \o u  l == Len(s)  m == Len(t)  n == Len(r)
<1>0. one \in Seq(T) /\ Len(one) = 1 /\ one[1] = h
  OBVIOUS
<1> HIDE DEF one
<1>1. /\ u \in Seq(T) /\ Len(u) = 1 + n /\ u[1] = h
      /\ \A i \in 1 .. n : u[1 + i] = r[i]
  <2>1. /\ u \in Seq(T) /\ Len(u) = Len(one) + n
        /\ \A i \in 1 .. Len(one) : u[i] = one[i]
        /\ \A i \in 1 .. n : u[Len(one) + i] = r[i]
    <3>1. one \in Seq(T)
      BY <1>0
    <3> QED
      BY <3>1, ConcatLaid
  <2> HIDE DEF u, n
  <2> QED
    BY <1>0, <2>1
<1> HIDE DEF u
<1>2. /\ c \in Seq(T) /\ Len(c) = l + (1 + n)
      /\ \A i \in 1 .. l : c[i] = s[i]
      /\ \A i \in 1 .. 1 + n : c[l + i] = u[i]
  <2>0. u \in Seq(T)
    BY <1>1
  <2>1. /\ c \in Seq(T) /\ Len(c) = l + Len(u)
        /\ \A i \in 1 .. l : c[i] = s[i]
        /\ \A i \in 1 .. Len(u) : c[l + i] = u[i]
    BY <2>0, ConcatLaid
  <2> HIDE DEF c, n, l
  <2> QED
    BY <1>1, <2>1
<1>3. l \in Nat /\ m \in Nat /\ n \in Nat /\ DOMAIN t = 1 .. m
  OBVIOUS
<1> HIDE DEF c, l, n, m
<1>4. c[l + 1] = h /\ \A i \in 1 .. n : c[l + (1 + i)] = r[i]
  <2>1. 1 \in 1 .. 1 + n /\ \A i \in 1 .. n : 1 + i \in 1 .. 1 + n
    BY <1>3
  <2> QED
    BY <1>1, <1>2, <2>1
<1>5. \A k \in 1 .. m : t[k] # h
  <2>1. \A k \in 1 .. m : t[k] \in ToSet(t)
    BY <1>3 DEF ToSet
  <2> QED
    BY <2>1 DEF NoFile
<1>6. ASSUME BeginsWith(c, t) PROVE BeginsWith(s, t)
  <2>1. m <= l + (1 + n) /\ \A k \in 1 .. m : c[k] = t[k]
    BY <1>2, <1>6 DEF BeginsWith, m
  <2>2. m <= l
    <3>1. SUFFICES ASSUME ~(m <= l) PROVE FALSE
      OBVIOUS
    <3>2. l + 1 \in 1 .. m
      BY <1>3, <3>1
    <3> QED
      BY <1>4, <1>5, <2>1, <3>2
  <2>3. \A k \in 1 .. m : k \in 1 .. l
    BY <1>3, <2>2
  <2> QED
    BY <1>2, <2>1, <2>2, <2>3 DEF BeginsWith, m, l
<1>7. ASSUME EndsWith(c, t) PROVE EndsWith(r, t)
  <2>1. m <= l + (1 + n) /\ \A k \in 1 .. m : c[((l + (1 + n)) - m) + k] = t[k]
    BY <1>2, <1>7 DEF EndsWith, m
  <2>2. m <= n
    <3>1. SUFFICES ASSUME ~(m <= n) PROVE FALSE
      OBVIOUS
    <3> DEFINE k == m - n
    <3>2. k \in 1 .. m /\ ((l + (1 + n)) - m) + k = l + 1
      BY <1>3, <3>1
    <3> HIDE DEF k
    <3> QED
      BY <1>4, <1>5, <2>1, <3>2
  <2>3. \A k \in 1 .. m : (n - m) + k \in 1 .. n /\ ((l + (1 + n)) - m) + k = l + (1 + ((n - m) + k))
    BY <1>3, <2>2
  <2>4. \A k \in 1 .. m : r[(n - m) + k] = t[k]
    BY <1>4, <2>1, <2>3
  <2> QED
    BY <2>2, <2>4 DEF EndsWith, m, n
<1> QED
  BY <1>6, <1>7 DEF c, u, one

-----------------------------------------------------------------------------
(* The words on their way to the command line, and the commands of the jobs *)

\* The words of CL are on their way to the beginning of the command line, and
\* those of _CL_ to its end.
WordsInv ==
    /\ todo \in Seq(Seq(Alphabet(request))) /\ cmdLine \in Seq(AtomWords(Alphabet(request)))
    /\ phase \in {"CL", "_CL_"} => cmdLine = <<>>
    /\ NoFile(request.CL) =>
         /\ phase # "CL" => BeginsWith(cmdLine \o todo, request.CL)
         /\ phase = "file" => BeginsWith(cmdLine, request.CL)
    /\ NoFile(request._CL_) =>
         /\ phase \notin {"CL", "_CL_"} => EndsWith(cmdLine \o todo, request._CL_)
         /\ phase = "file" => EndsWith(todo, request._CL_)

\* The command of the i-th source
Command(i) ==
    LET sources == Sources(Parsed(cmdLine))
    IN  Append(BaseCmdLine(cmdLine, sources), sources[i].lang \o sources[i].file)

\* The jobs are those of the command line, each with its own command.
CommandsInv == jobs # <<>> =>
    /\ todo = <<>> /\ Exceptions(Parsed(cmdLine)) = {}
    /\ DOMAIN jobs = DOMAIN Sources(Parsed(cmdLine))
    /\ \A i \in DOMAIN jobs : jobs[i].cmd = Command(i)

\* The words that the scanner has found
LEMMA TokensTyped ==
    ASSUME ScanInv, Scanned, NEW T, NEW ws \in Seq(T), scan.words = ws
    PROVE  Tokens(scan) \in Seq(T) /\ (NoFile(ws) => Tokens(scan) = ws)
<1> DEFINE n == Len(ws)  t == Tokens(scan)
<1>1. t = IF n > 0 /\ ws[n] = <<>> THEN Front(ws) ELSE ws
  BY TokensFollow DEF TokensAreRight
<1>2. n \in Nat /\ DOMAIN ws = 1 .. n
  OBVIOUS
<1>3. n > 0 => Front(ws) \in Seq(T)
  BY DEF Front
<1>4. NoFile(ws) => ~(n > 0 /\ ws[n] = <<>>)
  <2>1. n > 0 => ws[n] \in ToSet(ws)
    BY <1>2 DEF ToSet
  <2> QED
    BY <2>1 DEF NoFile
<1> HIDE DEF t, n
<1> QED
  BY <1>1, <1>3, <1>4 DEF t

\* Nonempty words are words.
LEMMA Retyped ==
    ASSUME NEW A, NEW ws \in Seq(AtomWords(A))
    PROVE  ws \in Seq(Seq(A))
<1>1. AtomWords(A) \subseteq Seq(A)
  BY DEF AtomWords
<1> QED
  BY <1>1, SeqMonotonic

\* No step loses a word of CL or of _CL_ on the way to the command line.
LEMMA WordsStep ==
    ASSUME ScanInv, LineInv, WordsInv, [LineNext]_lineVars
    PROVE  WordsInv'
<1> DEFINE A == Alphabet(request)  CL == request.CL  AP == request._CL_
<1>0. /\ request \in Requests /\ todo \in Seq(Seq(A)) /\ cmdLine \in Seq(AtomWords(A))
      /\ phase \in {"CL", "_CL_"} => cmdLine = <<>>
      /\ NoFile(CL) => /\ phase # "CL" => BeginsWith(cmdLine \o todo, CL)
                       /\ phase = "file" => BeginsWith(cmdLine, CL)
      /\ NoFile(AP) => /\ phase \notin {"CL", "_CL_"} => EndsWith(cmdLine \o todo, AP)
                       /\ phase = "file" => EndsWith(todo, AP)
  BY DEF WordsInv, ScanInv
<1>1. cmdLine \in Seq(Seq(A))
  BY <1>0, Retyped
<1>2. CL \in Seq(Seq(A)) /\ AP \in Seq(Seq(A)) /\ request.file \in Seq(Seq(A)) /\ <<>> \in Seq(Seq(A))
  BY <1>0, Spelled
<1>3. /\ phase = "CL" => scan.words = CL
      /\ phase = "_CL_" => scan.words = AP
      /\ phase = "file" => scan.words = request.file
  BY DEF ScanInv
<1>4. \A s \in Seq(Seq(A)) : <<>> \o s = s
  BY ConcatEmptySeq
<1>5. ASSUME UNCHANGED <<request, todo, cmdLine>>,
             phase' = phase \/ (phase \notin {"CL", "_CL_", "file"} /\ phase' \notin {"CL", "_CL_", "file"})
      PROVE  WordsInv'
  BY <1>5 DEF WordsInv
<1>6. CASE Prepend
  <2>1. /\ phase = "CL" /\ Scanned /\ todo' = Tokens(scan) \o todo /\ phase' = "_CL_"
        /\ request' = request /\ cmdLine' = cmdLine
    BY <1>6 DEF Prepend
  <2>2. Tokens(scan) \in Seq(Seq(A)) /\ (NoFile(CL) => Tokens(scan) = CL)
    BY <1>2, <1>3, <2>1, TokensTyped
  <2> DEFINE t == Tokens(scan)
  <2> HIDE DEF t, A, CL, AP
  <2>3. t \o todo \in Seq(Seq(A)) /\ BeginsWith(t \o todo, t)
    BY <1>0, <2>2, ConcatSet, BothEnds DEF t
  <2>4. cmdLine = <<>> /\ cmdLine' \o todo' = t \o todo /\ todo' = t \o todo
    BY <1>0, <1>4, <2>1, <2>3 DEF t
  <2>5. NoFile(CL) => BeginsWith(cmdLine' \o todo', CL)
    BY <2>2, <2>3, <2>4 DEF t
  <2> QED
    BY <1>0, <2>1, <2>3, <2>4, <2>5 DEF WordsInv, A, CL, AP
<1>7. CASE Extend
  <2>1. /\ phase = "_CL_" /\ Scanned /\ todo' = todo \o Tokens(scan) /\ phase' = "expand"
        /\ request' = request /\ cmdLine' = cmdLine
    BY <1>7 DEF Extend
  <2>2. Tokens(scan) \in Seq(Seq(A)) /\ (NoFile(AP) => Tokens(scan) = AP)
    BY <1>2, <1>3, <2>1, TokensTyped
  <2> DEFINE t == Tokens(scan)
  <2> HIDE DEF t, A, CL, AP
  <2>3. todo \o t \in Seq(Seq(A)) /\ EndsWith(todo \o t, t)
    BY <1>0, <2>2, ConcatSet, BothEnds DEF t
  <2>4. cmdLine = <<>> /\ cmdLine' \o todo' = todo \o t /\ cmdLine \o todo = todo /\ todo' = todo \o t
    BY <1>0, <1>4, <2>1, <2>3 DEF t
  <2>5. NoFile(CL) => BeginsWith(cmdLine' \o todo', CL)
    <3>1. NoFile(CL) => BeginsWith(todo, CL)
      BY <1>0, <2>1, <2>4
    <3>2. t \in Seq(Seq(A))
      BY <2>2 DEF t
    <3>3. NoFile(CL) => BeginsWith(todo \o t, CL)
      BY <1>0, <1>2, <3>1, <3>2, BeginsLonger
    <3> QED
      BY <2>4, <3>3
  <2>6. NoFile(AP) => EndsWith(cmdLine' \o todo', AP)
    BY <2>2, <2>3, <2>4 DEF t
  <2> QED
    BY <1>0, <2>1, <2>3, <2>4, <2>5, <2>6 DEF WordsInv, A, CL, AP
<1>8. CASE Keep
  <2>1. /\ phase = "expand" /\ phase' = phase /\ request' = request
        /\ todo # <<>> /\ Head(todo) # <<>>
        /\ cmdLine' = Append(cmdLine, Head(todo)) /\ todo' = Tail(todo)
    BY <1>8 DEF Keep
  <2> HIDE DEF A, CL, AP
  <2>2. /\ Head(todo) \in Seq(A) /\ todo' \in Seq(Seq(A))
        /\ cmdLine' \o todo' = cmdLine \o todo
    BY <1>0, <1>1, <2>1, OneMoves
  <2>3. Head(todo) \in AtomWords(A)
    BY <2>1, <2>2 DEF AtomWords
  <2>4. cmdLine' \in Seq(AtomWords(A))
    BY <1>0, <2>1, <2>3
  <2> QED
    BY <1>0, <2>1, <2>2, <2>4 DEF WordsInv, A, CL, AP
<1>9. CASE ReadFile
  <2>1. /\ phase = "expand" /\ phase' = "file" /\ request' = request
        /\ todo # <<>> /\ Head(todo) # <<>> /\ Head(todo)[1] = "@"
        /\ cmdLine' = cmdLine /\ todo' = Tail(todo)
    BY <1>9 DEF ReadFile
  <2> HIDE DEF A, CL, AP
  <2>2. Head(todo) \in Seq(A) /\ Tail(todo) \in Seq(Seq(A)) /\ todo = <<Head(todo)>> \o Tail(todo)
    BY <1>0, <1>1, <2>1, OneMoves
  <2> DEFINE h == Head(todo)  r == Tail(todo)
  <2>3. /\ h \in Seq(A) /\ r \in Seq(Seq(A)) /\ cmdLine \o todo = cmdLine \o (<<h>> \o r)
        /\ h[1] = "@" /\ todo' = r
    BY <2>1, <2>2
  <2> HIDE DEF h, r
  <2>4. NoFile(CL) => BeginsWith(cmdLine, CL)
    <3>1. ASSUME NoFile(CL) PROVE BeginsWith(cmdLine, CL)
      <4>1. BeginsWith(cmdLine \o (<<h>> \o r), CL)
        BY <1>0, <2>1, <2>3, <3>1
      <4> QED
        BY <1>1, <1>2, <2>3, <3>1, <4>1, FileBetween
    <3> QED
      BY <3>1
  <2>5. NoFile(AP) => EndsWith(r, AP)
    <3>1. ASSUME NoFile(AP) PROVE EndsWith(r, AP)
      <4>1. EndsWith(cmdLine \o (<<h>> \o r), AP)
        BY <1>0, <2>1, <2>3, <3>1
      <4> QED
        BY <1>1, <1>2, <2>3, <3>1, <4>1, FileBetween
    <3> QED
      BY <3>1
  <2>6. NoFile(CL) => BeginsWith(cmdLine \o r, CL)
    BY <1>1, <1>2, <2>3, <2>4, BeginsLonger
  <2>7. NoFile(AP) => EndsWith(cmdLine \o r, AP)
    BY <1>1, <1>2, <2>3, <2>5, EndsLonger
  <2> QED
    BY <1>0, <2>1, <2>3, <2>4, <2>5, <2>6, <2>7 DEF WordsInv, A, CL, AP
<1>10. CASE Include
  <2>1. /\ phase = "file" /\ Scanned /\ todo' = Tokens(scan) \o todo /\ phase' = "expand"
        /\ request' = request /\ cmdLine' = cmdLine
    BY <1>10 DEF Include
  <2>2. Tokens(scan) \in Seq(Seq(A))
    BY <1>2, <1>3, <2>1, TokensTyped
  <2> DEFINE t == Tokens(scan) \o todo
  <2> HIDE DEF A, CL, AP
  <2>3. t \in Seq(Seq(A))
    BY <1>0, <2>2, ConcatSet
  <2>4. NoFile(AP) => EndsWith(t, AP)
    BY <1>0, <1>2, <2>1, <2>2, EndsLonger
  <2> HIDE DEF t
  <2>5. NoFile(CL) => BeginsWith(cmdLine \o t, CL)
    BY <1>0, <1>1, <1>2, <2>1, <2>3, BeginsLonger
  <2>6. NoFile(AP) => EndsWith(cmdLine \o t, AP)
    BY <1>1, <1>2, <2>3, <2>4, EndsLonger
  <2>7. todo' = t
    BY <2>1 DEF t
  <2> QED
    BY <1>0, <2>1, <2>3, <2>5, <2>6, <2>7 DEF WordsInv, A, CL, AP
<1>11. CASE Character
  BY <1>5, <1>11 DEF Character
<1>12. CASE ExpandFails \/ PassOn \/ Schedule \/ CollectEnds \/ Shutdown
  <2>1. UNCHANGED <<request, todo, cmdLine>> /\ phase \notin {"CL", "_CL_", "file"}
        /\ phase' \notin {"CL", "_CL_", "file"}
    <3>1. CASE ExpandFails \/ CollectEnds
      BY <3>1 DEF ExpandFails, CollectEnds
    <3>2. CASE PassOn \/ Schedule
      BY <3>2 DEF PassOn, Schedule
    <3>3. CASE Shutdown
      BY <3>3 DEF Shutdown
    <3> QED
      BY <1>12, <3>1, <3>2, <3>3
  <2> QED
    BY <1>5, <2>1
<1>13. ASSUME NEW i \in DOMAIN jobs,
              JobStarts(i) \/ JobEnds(i) \/ JobBreaks(i) \/ Collect(i) \/ CollectFails(i)
       PROVE  WordsInv'
  <2>1. UNCHANGED <<request, todo, cmdLine>>
        /\ (phase' = phase \/ (phase = "collect" /\ phase' \in {"collect", "shutdown", "failing"}))
    BY <1>13 DEF JobStarts, JobEnds, JobBreaks, Collect, CollectFails
  <2> QED
    BY <1>5, <2>1
<1>14. CASE UNCHANGED lineVars
  BY <1>5, <1>14 DEF lineVars
<1> QED
  BY <1>6, <1>7, <1>8, <1>9, <1>10, <1>11, <1>12, <1>13, <1>14 DEF LineNext

\* A job keeps its command.
LEMMA CmdStays ==
    ASSUME NEW t, t = [cmd |-> t.cmd, state |-> t.state, rc |-> t.rc, cleanup |-> t.cleanup],
           NEW st, NEW rc, NEW clean
    PROVE  /\ [t EXCEPT !.state = st].cmd = t.cmd
           /\ [[[t EXCEPT !.state = st] EXCEPT !.rc = rc] EXCEPT !.cleanup = clean].cmd = t.cmd
<1>1. [t EXCEPT !.state = st]
        = [cmd |-> t.cmd, state |-> st, rc |-> t.rc, cleanup |-> t.cleanup]
  BY StateMoves
<1> DEFINE u == [cmd |-> t.cmd, state |-> st, rc |-> t.rc, cleanup |-> t.cleanup]
           v == [cmd |-> t.cmd, state |-> st, rc |-> rc, cleanup |-> t.cleanup]
           w == [cmd |-> t.cmd, state |-> st, rc |-> rc, cleanup |-> clean]
<1>2. [u EXCEPT !.rc = rc] = v
  OBVIOUS
<1>3. [v EXCEPT !.cleanup = clean] = w
  OBVIOUS
<1>4. u.cmd = t.cmd /\ w.cmd = t.cmd
  OBVIOUS
<1>5. [t EXCEPT !.state = st] = u
  BY <1>1
<1> HIDE DEF u, v, w
<1> QED
  BY <1>2, <1>3, <1>4, <1>5

\* What a worker and the loop over the results do to a job leaves its command as it is.
LEMMA CommandsKept ==
    ASSUME LineInv, NEW i \in DOMAIN jobs, JobStarts(i) \/ JobEnds(i) \/ JobBreaks(i) \/ Collect(i)
    PROVE  DOMAIN jobs' = DOMAIN jobs /\ \A k \in DOMAIN jobs : jobs'[k].cmd = jobs[k].cmd
<1>0. /\ jobs = [k \in DOMAIN jobs |-> jobs[k]]
      /\ jobs[i] = [cmd |-> jobs[i].cmd, state |-> jobs[i].state,
                    rc |-> jobs[i].rc, cleanup |-> jobs[i].cleanup]
  BY DEF LineInv, JobsTyped, JobTyped
<1>1. PICK t : jobs' = [jobs EXCEPT ![i] = t] /\ t.cmd = jobs[i].cmd
  <2>1. CASE JobEnds(i)
    <3>1. PICK rc \in {0, 2}, clean \in BOOLEAN :
            jobs' = [jobs EXCEPT ![i].state = "done", ![i].rc = rc, ![i].cleanup = clean]
      BY <2>1 DEF JobEnds
    <3> DEFINE t == [[[jobs[i] EXCEPT !.state = "done"] EXCEPT !.rc = rc] EXCEPT !.cleanup = clean]
    <3>2. jobs' = [jobs EXCEPT ![i] = t]
      BY <1>0, <3>1
    <3>3. t.cmd = jobs[i].cmd
      BY <1>0, CmdStays
    <3> HIDE DEF t
    <3> QED
      BY <3>2, <3>3
  <2>2. CASE JobStarts(i) \/ JobBreaks(i) \/ Collect(i)
    <3>1. PICK st : jobs' = [jobs EXCEPT ![i] = [jobs[i] EXCEPT !.state = st]]
      BY <2>2 DEF JobStarts, JobBreaks, Collect
    <3> QED
      BY <1>0, <3>1, CmdStays
  <2> QED
    BY <2>1, <2>2
<1>2. DOMAIN jobs' = DOMAIN jobs /\ \A k \in DOMAIN jobs : jobs'[k] = IF k = i THEN t ELSE jobs[k]
  BY <1>0, <1>1
<1> QED
  BY <1>1, <1>2

\* No step gives a job another command than its own.
LEMMA CommandsStep ==
    ASSUME LineInv, CommandsInv, [LineNext]_lineVars
    PROVE  CommandsInv'
<1>1. ASSUME UNCHANGED <<todo, cmdLine, jobs>> PROVE CommandsInv'
  BY <1>1 DEF CommandsInv, Command
<1>2. ASSUME phase \in {"CL", "_CL_", "file", "expand"}, jobs' = jobs PROVE CommandsInv'
  BY <1>2 DEF LineInv, Unscheduled, CommandsInv
<1>3. CASE Character \/ Prepend \/ Extend \/ Keep \/ ReadFile \/ Include \/ ExpandFails
  <2>1. phase \in {"CL", "_CL_", "file", "expand"} /\ jobs' = jobs
    BY <1>3 DEF Character, Prepend, Extend, Keep, ReadFile, Include, ExpandFails, results
  <2> QED
    BY <1>2, <2>1
<1>4. CASE PassOn
  <2>1. phase = "expand" /\ jobs' = jobs
    BY <1>4 DEF PassOn
  <2> QED
    BY <1>2, <2>1
<1>5. CASE Schedule
  <2> DEFINE p == Parsed(cmdLine)  S == Sources(p)
             sub(i) == Submitted(Append(BaseCmdLine(cmdLine, S), S[i].lang \o S[i].file))
  <2>1. phase = "expand" /\ todo = <<>> /\ UNCHANGED <<todo, cmdLine>> /\ Exceptions(p) = {}
        /\ (jobs' = jobs \/ jobs' = [i \in DOMAIN S |-> sub(i)])
    BY <1>5 DEF Schedule
  <2>2. CASE jobs' = jobs
    BY <1>2, <2>1, <2>2
  <2>3. CASE jobs' = [i \in DOMAIN S |-> sub(i)]
    <3>1. \A i : sub(i).cmd = Command(i)
      BY DEF Submitted, Command
    <3>2. \A i : Command(i)' = Command(i)
      BY <2>1 DEF Command
    <3>3. S' = S /\ Exceptions(Parsed(cmdLine))' = {} /\ todo' = <<>>
      BY <2>1
    <3>4. S = Sources(Parsed(cmdLine))
      OBVIOUS
    <3> HIDE DEF S, sub
    <3>5. DOMAIN jobs' = DOMAIN S /\ \A i \in DOMAIN jobs' : jobs'[i].cmd = Command(i)'
      BY <2>3, <3>1, <3>2
    <3> QED
      BY <2>1, <3>3, <3>4, <3>5 DEF CommandsInv
  <2> QED
    BY <2>1, <2>2, <2>3
<1>6. CASE CollectEnds \/ Shutdown \/ UNCHANGED lineVars
  BY <1>1, <1>6 DEF CollectEnds, Shutdown, lineVars, results
<1>7. ASSUME NEW i \in DOMAIN jobs, JobStarts(i) \/ JobEnds(i) \/ JobBreaks(i) \/ Collect(i)
      PROVE  CommandsInv'
  <2>1. UNCHANGED <<todo, cmdLine>>
    BY <1>7 DEF JobStarts, JobEnds, JobBreaks, Collect
  <2>2. DOMAIN jobs' = DOMAIN jobs /\ \A k \in DOMAIN jobs : jobs'[k].cmd = jobs[k].cmd
    BY <1>7, CommandsKept
  <2>3. jobs # <<>>
    <3>1. DOMAIN jobs # {}
      BY <1>7
    <3> QED
      BY <3>1
  <2>4. \A k : Command(k)' = Command(k)
    BY <2>1 DEF Command
  <2> QED
    BY <2>1, <2>2, <2>3, <2>4 DEF CommandsInv
<1>8. ASSUME NEW i \in DOMAIN jobs, CollectFails(i) PROVE CommandsInv'
  BY <1>1, <1>8 DEF CollectFails, results
<1> QED
  BY <1>3, <1>4, <1>5, <1>6, <1>7, <1>8 DEF LineNext

\* The sources of a variable that is analysed by itself
LEMMA SeparateIs ==
    ASSUME NEW A, NEW ws \in Seq(Seq(A)), Separate(ws)
    PROVE  /\ ws \in Seq(AtomWords(A)) /\ NoFile(ws)
           /\ Whole(Fold(Turn0, ws)) /\ NamedFiles(Fold(Turn0, ws)) = {}
<1>1. NoFile(ws) /\ Parsed(ws).error = "none" /\ Sources(Parsed(ws)) = <<>>
  BY DEF Separate, NoFile
<1>2. ws \in Seq(AtomWords(A))
  <2>1. ws \in Seq(ToSet(ws))
    BY DEF ToSet
  <2>2. \A w \in ToSet(ws) : w \in Seq(A)
    BY DEF ToSet
  <2>3. ToSet(ws) \subseteq AtomWords(A)
    BY <1>1, <2>2 DEF NoFile, AtomWords
  <2> QED
    BY <2>1, <2>3, SeqMonotonic
<1>3. /\ Fold(Turn0, ws) \in Analyses(A) /\ Parsed(ws) = Fold(Turn0, ws)
      /\ Whole(Fold(Turn0, ws))
  BY <1>1, <1>2, ParsedIs
<1> QED
  BY <1>1, <1>2, <1>3, NoSource

\* The options of CL and _CL_ are options of the command line that has them.
LEMMA VariablesSwitch ==
    ASSUME ScanInv, LineInv, WordsInv, CommandsInv, jobs # <<>>,
           Separate(request.CL), Separate(request._CL_), Ready
    PROVE  /\ Switches(Fold(Turn0, request.CL)) \subseteq Switches(Fold(Turn0, cmdLine))
           /\ Switches(Fold(Turn0, request._CL_)) \subseteq Switches(Fold(Turn0, cmdLine))
<1> DEFINE A == Alphabet(request)  CL == request.CL  AP == request._CL_
           X == SubSeq(cmdLine, 1, Len(cmdLine) - Len(AP))
<1>1. CL \in Seq(Seq(A)) /\ AP \in Seq(Seq(A)) /\ cmdLine \in Seq(AtomWords(A))
  BY Spelled DEF ScanInv, WordsInv
<1>2. CL \in Seq(AtomWords(A)) /\ NoFile(CL) /\ AP \in Seq(AtomWords(A)) /\ NoFile(AP)
  BY <1>1, SeparateIs
<1>3. phase \notin {"CL", "_CL_", "file"} /\ todo = <<>>
  BY DEF LineInv, Unscheduled, CommandsInv
<1>4. BeginsWith(cmdLine, CL) /\ EndsWith(cmdLine, AP)
  <2>1. cmdLine \o <<>> = cmdLine
    BY <1>1, ConcatEmptySeq
  <2> QED
    BY <1>2, <1>3, <2>1 DEF WordsInv
<1>5. Parsed(X).error = "none"
  BY DEF Ready
<1> HIDE DEF A, CL, AP
<1>6. cmdLine = X \o AP /\ X \in Seq(AtomWords(A))
  BY <1>1, <1>2, <1>4, Apart
<1>7. \E Y \in Seq(AtomWords(A)) : cmdLine = CL \o Y
  <2> DEFINE T == AtomWords(A)
  <2>1. cmdLine \in Seq(T) /\ CL \in Seq(T)
    BY <1>1, <1>2
  <2>2. BeginsWith(cmdLine, CL)
    BY <1>4
  <2> HIDE DEF T
  <2>3. \E Y \in Seq(T) : cmdLine = CL \o Y
    BY <2>1, <2>2, Apart
  <2> QED
    BY <2>3 DEF T
<1> HIDE DEF X
<1>8. Whole(Fold(Turn0, X))
  BY <1>5, <1>6, ParsedIs
<1>9. Switches(Fold(Turn0, AP)) \subseteq Switches(Fold(Turn0, X \o AP))
  BY <1>2, <1>6, <1>8, PartsSwitch
<1>10. PICK Y \in Seq(AtomWords(A)) : cmdLine = CL \o Y
  BY <1>7
<1>11. Switches(Fold(Turn0, CL)) \subseteq Switches(Fold(Turn0, CL \o Y))
  BY <1>2, <1>10, PartsSwitch
<1> QED
  BY <1>6, <1>9, <1>10, <1>11 DEF CL, AP

\* The command of each job does what the command line asks for its source.
LEMMA JobsFollow == ScanInv /\ LineInv /\ WordsInv /\ CommandsInv => JobsAreRight
<1> SUFFICES ASSUME ScanInv, LineInv, WordsInv, CommandsInv, jobs # <<>>, ~Ambiguous,
                    request.direct => Separate(request.CL) /\ Separate(request._CL_) /\ Ready
             PROVE  LET whole == Parsed(cmdLine)
                    IN  /\ Len(jobs) = Len(Sources(whole))
                        /\ \A i \in DOMAIN jobs :
                             LET p == Parsed(Seen(i))
                             IN  /\ p.error = "none" /\ Switches(p) = Switches(whole)
                                 /\ Sources(p) = <<Sources(whole)[i]>>
  BY DEF JobsAreRight
<1> DEFINE A == Alphabet(request)  whole == Parsed(cmdLine)  S == Sources(whole)
<1>1. /\ cmdLine \in Seq(AtomWords(A)) /\ {"/", "Tc", "Tp"} \subseteq A
      /\ request.CL \in Seq(Seq(A)) /\ request._CL_ \in Seq(Seq(A))
  BY Spelled DEF ScanInv, WordsInv
<1>2. Exceptions(whole) = {} /\ DOMAIN jobs = DOMAIN S /\ \A i \in DOMAIN jobs : jobs[i].cmd = Command(i)
  BY DEF CommandsInv
<1>3. whole.error = "none"
  BY <1>2 DEF Exceptions
<1> HIDE DEF A
<1>4. whole \in Analyses(A) /\ whole = Fold(Turn0, cmdLine) /\ Whole(whole)
  BY <1>1, <1>3, ParsedIs
<1>5. ClearWords(whole, cmdLine)
  BY <1>1, <1>4, ClearIs
<1>6. S \in Seq({SourceOf(whole, f) : f \in NamedFiles(whole)})
  <2> HIDE DEF whole
  <2> QED
    BY <1>4, SourcesAre
<1>7. Len(jobs) = Len(S)
  <2> DEFINE J == {jobs[i] : i \in DOMAIN jobs}
  <2>1. jobs = [i \in DOMAIN jobs |-> jobs[i]]
    BY DEF LineInv, JobsTyped
  <2> HIDE DEF S
  <2>2. DOMAIN S = 1 .. Len(S) /\ Len(S) \in Nat
    BY <1>6
  <2>3. \A i \in DOMAIN jobs : jobs[i] \in J
    OBVIOUS
  <2> HIDE DEF J
  <2>4. jobs \in [1 .. Len(S) -> J]
    BY <1>2, <2>1, <2>2, <2>3
  <2> QED
    BY <2>2, <2>4
<1>8. ASSUME NEW i \in DOMAIN jobs
      PROVE  /\ Parsed(Seen(i)).error = "none" /\ Switches(Parsed(Seen(i))) = Switches(whole)
             /\ Sources(Parsed(Seen(i))) = <<S[i]>>
  <2>1. \E f \in NamedFiles(whole) : S[i] = SourceOf(whole, f)
    <3>1. i \in DOMAIN S
      BY <1>2
    <3> HIDE DEF S, whole
    <3> QED
      BY <1>6, <3>1
  <2>2. PICK f \in NamedFiles(whole) : S[i] = SourceOf(whole, f)
    BY <2>1
  <2> DEFINE cmd == jobs[i].cmd
  <2>3. cmd = Append(BaseCmdLine(cmdLine, S), S[i].lang \o S[i].file)
    BY <1>2 DEF Command
  <2>4. S[i].lang = LangOf(whole, f) /\ S[i].file = f
    BY <2>2 DEF SourceOf
  <2>5. cmd \in Seq(AtomWords(A)) /\ Builds(Fold(Turn0, cmd), whole, f)
    <3>1. cmd = Append(BaseCmdLine(cmdLine, Sources(whole)), LangOf(whole, f) \o f)
      BY <2>3, <2>4
    <3> HIDE DEF cmd, whole
    <3> QED
      BY <1>1, <1>4, <1>5, <3>1, CommandIs DEF Whole
  <2>6. Seen(i) \in Seq(AtomWords(A)) /\ Builds(Fold(Turn0, Seen(i)), whole, f)
    <3>1. CASE request.direct
      <4> DEFINE CL == request.CL  AP == request._CL_
      <4>1. Seen(i) = (CL \o cmd) \o AP
        BY <3>1 DEF Seen
      <4>2. /\ CL \in Seq(AtomWords(A)) /\ Whole(Fold(Turn0, CL)) /\ NamedFiles(Fold(Turn0, CL)) = {}
            /\ AP \in Seq(AtomWords(A)) /\ Whole(Fold(Turn0, AP)) /\ NamedFiles(Fold(Turn0, AP)) = {}
        BY <1>1, <3>1, SeparateIs
      <4>3. Switches(Fold(Turn0, CL)) \subseteq Switches(whole) /\ Switches(Fold(Turn0, AP)) \subseteq Switches(whole)
        BY <1>4, <3>1, VariablesSwitch
      <4> HIDE DEF CL, AP, cmd, whole, S
      <4> DEFINE seen == (CL \o cmd) \o AP  x == Fold(Turn0, CL)  y == Fold(Turn0, AP)
      <4>4. Whole(x) /\ NamedFiles(x) = {} /\ Switches(x) \subseteq Switches(whole)
        BY <4>2, <4>3
      <4>5. Whole(y) /\ NamedFiles(y) = {} /\ Switches(y) \subseteq Switches(whole)
        BY <4>2, <4>3
      <4>6. seen \in Seq(AtomWords(A)) /\ Builds(Fold(Turn0, seen), whole, f)
        BY <2>5, <4>2, <4>4, <4>5, BetweenIs
      <4> HIDE DEF seen
      <4>7. Seen(i) = seen
        BY <4>1 DEF seen
      <4> QED
        BY <4>6, <4>7
    <3>2. CASE ~request.direct
      BY <2>5, <3>2 DEF Seen
    <3> QED
      BY <3>1, <3>2
  <2> HIDE DEF whole, S, cmd
  <2> QED
    BY <2>2, <2>6, BuildsOne
<1> QED
  BY <1>7, <1>8

\* For all requests, whatever their words and the number of their sources: the
\* command of each job, analysed again, has the one source of the job in its
\* language and the options of the whole command line.
THEOREM JobsRight == LineSpec => []JobsAreRight
<1>1. LineInit => WordsInv /\ CommandsInv
  <2> SUFFICES ASSUME LineInit PROVE WordsInv /\ CommandsInv
    OBVIOUS
  <2>1. /\ request \in Requests /\ phase = "CL" /\ todo = request.args /\ cmdLine = <<>> /\ jobs = <<>>
    BY DEF LineInit
  <2>2. todo \in Seq(Seq(Alphabet(request)))
    BY <2>1, Spelled
  <2> QED
    BY <2>1, <2>2 DEF WordsInv, CommandsInv
<1>2. ScanInv /\ LineInv /\ WordsInv /\ CommandsInv /\ [LineNext]_lineVars => WordsInv' /\ CommandsInv'
  BY WordsStep, CommandsStep
<1> QED
  BY <1>1, <1>2, AlwaysScan, AlwaysLine, JobsFollow, PTL DEF LineSpec
=============================================================================
