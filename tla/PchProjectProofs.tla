-------------------------- MODULE PchProjectProofs --------------------------
(***************************************************************************)
(* Projects with precompiled headers are built right, whatever their       *)
(* sources: proofs of the invariants of PchProject.                        *)
(***************************************************************************)
EXTENDS PchProject, TLAPS

\* What the headers in u's .pch contain now
Need(u) == IF isUsePch(u) THEN headers[Pch[u]] ELSE None

\* The pre-invoke process has found u's entry
Found(u) ==
    /\ entry[u] \in manifest[u]
    /\ entry[u].parent = Need(u) /\ entry[u].dep = headers[u]

Together == phase # "shared" =>
    miss \subseteq Own /\ \A u \in miss : isUsePch(u) => Pch[u] \in miss \cup Shared

\* The entries tell what their objects were compiled from
EntriesTell ==
    \A u \in Unit : \A e \in manifest[u] : e.out = [own |-> e.dep, pch |-> e.parent]

\* A source that has been looked up is found, or it misses and so do its users
LookupInv ==
    phase = "lookup" =>
        /\ Readable /\ todo \subseteq Own
        /\ \A u \in Own \ todo : Found(u) \/ (u \in miss /\ Users(u) \subseteq miss)
        /\ \A u \in Own \ todo : isUsePch(u) => Pch[u] \notin todo
        /\ \A u \in todo \cap miss : ~isGenPch(u)

Current(u) == lost = 0 => Available(u)

RetrieveInv ==
    phase = "retrieve" =>
        /\ Readable /\ todo \subseteq Own
        /\ \A u \in todo : Found(u)
        /\ \A u \in Own \ (todo \cup miss) : Rebuilt(u) /\ Current(u)

CompileInv ==
    phase = "compile" =>
        /\ todo \subseteq miss
        /\ \A u \in Own \ todo : Rebuilt(u)
        /\ \A u \in miss \ todo : isGenPch(u) => pchFile[u] = headers[u]
        /\ \A u \in Own \ miss : Current(u)

CollectInv ==
    phase = "collect" =>
        /\ todo \subseteq miss
        /\ \A u \in miss : parentGiven(u)
        /\ \A u \in Own : Rebuilt(u)
        /\ \A u \in miss \ todo : entry[u] # None /\ entry[u].dep = headers[u]
        /\ \A u \in Own \ todo : Current(u)

BuiltInv == phase = "built" => \A u \in Own : Rebuilt(u) /\ Current(u)

\* A shared .pch file is its creator's, its hash is its own, and it has one
\* unless that was lost
SharedInv ==
    /\ \A g \in Shared : /\ pchFile[g] # None => obj[g] = [own |-> pchFile[g], pch |-> None]
                         /\ metadata[g] \in {None, pchFile[g]}
                         /\ pchFile[g] # None /\ metadata[g] = None
                               => lost > 0 \/ (phase = "shared" /\ g \in miss)
    /\ phase = "shared" => /\ todo \subseteq Shared /\ miss \subseteq Shared \ todo
                          /\ \A g \in Shared \ todo : pchFile[g] = headers[g]
    /\ phase \notin {"idle", "shared"} => \A g \in Shared : pchFile[g] = headers[g]

\* A source misses only if something is not in the cache
MissInv ==
    /\ phase = "compile" => miss # {}
    /\ phase \in {"lookup", "retrieve", "compile"} /\ miss # {} =>
           \E u \in Own : ~Available(u)

PchInv ==
    /\ TypeOK /\ Together /\ EntriesTell
    /\ LookupInv /\ RetrieveInv /\ CompileInv /\ CollectInv /\ BuiltInv
    /\ MissInv /\ SharedInv

-----------------------------------------------------------------------------
\* A creator uses no .pch itself.
LEMMA CreatorUsesNone ==
    ASSUME NEW u \in Unit
    PROVE  /\ isGenPch(u) => ~isUsePch(u)
           /\ isUsePch(u) => /\ Pch[u] \in Unit /\ isGenPch(Pch[u])
                             /\ u \in Users(Pch[u]) /\ u \in Own
                             /\ isStub(u) <=> Pch[u] \notin Own
           /\ isStub(u) => isUsePch(u)
           /\ Users(u) \subseteq Own
  BY PchAssumption DEF isGenPch, isUsePch, isStub, Users, Own

\* parse_input sorts creators before users.
LEMMA FirstOrder ==
    ASSUME NEW s \in SUBSET Unit, NEW u \in First(s)
    PROVE  u \in s /\ (isUsePch(u) => Pch[u] \notin s)
<1>1. u \in s
  BY DEF First
<1>2. CASE \E g \in s : isGenPch(g)
  <2>1. isGenPch(u)
    BY <1>2 DEF First
  <2> QED
    BY <1>1, <2>1, CreatorUsesNone
<1>3. CASE ~ \E g \in s : isGenPch(g)
  BY <1>1, <1>3, CreatorUsesNone
<1> QED
  BY <1>1, <1>2, <1>3

\* missing_update adds sources of the project, and a user's creator.
LEMMA RelatedTogether ==
    ASSUME NEW u \in Own
    PROVE  /\ Related(u) \subseteq Own
           /\ Users(u) \subseteq Related(u)
           /\ \A v \in {u} \cup Related(u) :
                 isUsePch(v) => Pch[v] \in {u} \cup Related(u) \cup Shared
<1>0. u \in Unit
  BY DEF Own
<1>1. CASE isGenPch(u)
  BY <1>0, <1>1, CreatorUsesNone, PchAssumption DEF Related, Users
<1>2. CASE ~isGenPch(u)
  <2>1. CASE isUsePch(u)
    <3>1. Pch[u] \in Unit /\ Related(u) = {Pch[u]} \ Shared /\ Users(u) = {}
      BY <1>0, <1>2, <2>1, CreatorUsesNone DEF Related, isGenPch
    <3>2. Pch[Pch[u]] = None
      BY <1>0, <2>1, PchAssumption DEF isUsePch
    <3> QED
      BY <3>1, <3>2 DEF isUsePch, Own
  <2>2. CASE ~isUsePch(u)
    BY <1>2, <2>2 DEF Related, isGenPch
  <2> QED
    BY <2>1, <2>2
<1> QED
  BY <1>1, <1>2

\* The hash of a shared .pch that is there is that of the headers as they are.
LEMMA StubHash ==
    ASSUME PchInv, phase \notin {"idle", "shared"}, NEW u \in Own, isStub(u),
           metadata[Pch[u]] # None
    PROVE  metadata[Pch[u]] = Need(u)
<1>1. u \in Unit /\ isUsePch(u) /\ Pch[u] \in Shared
  BY CreatorUsesNone DEF Own, isStub
<1> QED
  BY <1>1 DEF PchInv, SharedInv, Need

\* The parent of a user that is looked up has been found.
LEMMA ParentFound ==
    ASSUME PchInv, phase = "lookup", NEW u \in First(todo) \ miss
    PROVE  /\ isUsePch(u) => IF isStub(u) THEN metadata[Pch[u]] # None
                              ELSE entry[Pch[u]] # None
           /\ ParentHash(u) = Need(u)
<1>1. u \in todo /\ u \in Own /\ u \in Unit /\ (isUsePch(u) => Pch[u] \notin todo)
  BY FirstOrder DEF PchInv, TypeOK, LookupInv, Own
<1>2. CASE isStub(u)
  <2>1. metadata[Pch[u]] # None
    BY <1>1, <1>2 DEF PchInv, LookupInv, Readable
  <2> QED
    BY <1>1, <1>2, <2>1, StubHash DEF ParentHash
<1>3. CASE isUsePch(u) /\ ~isStub(u)
  <2>1. Pch[u] \in Own /\ Pch[u] \in Unit
    BY <1>1, <1>3, CreatorUsesNone
  <2>2. Found(Pch[u])
    BY <1>1, <1>3, <2>1, CreatorUsesNone DEF PchInv, LookupInv
  <2>3. entry[Pch[u]] \in Entry
    BY <2>1, <2>2 DEF Found, PchInv, TypeOK
  <2>4. entry[Pch[u]] # None
    BY <2>3, PchAssumption
  <2> QED
    BY <1>3, <2>2, <2>4 DEF ParentHash, Need, Found
<1>4. CASE ~isUsePch(u)
  BY <1>1, <1>4, CreatorUsesNone DEF ParentHash, Need
<1> QED
  BY <1>2, <1>3, <1>4

\* Init is a state of the invariant.
LEMMA InitInv == Init => PchInv
<1> SUFFICES ASSUME Init PROVE PchInv
  OBVIOUS
<1>1. 0 \in 0..MaxBuilds /\ 0 \in 0..MaxEdits /\ 0 \in 0..MaxLost
  BY PchAssumption
<1>2. TypeOK
  BY <1>1 DEF Init, TypeOK
<1> QED
  BY <1>2, PchAssumption DEF Init, PchInv, Together, EntriesTell, LookupInv, RetrieveInv,
     CompileInv, CollectInv, BuiltInv, MissInv, SharedInv

\* The projects that create a shared .pch.
LEMMA SharedStep ==
    ASSUME PchInv, NEW g \in Shared,
           SharedUpToDate(g) \/ CompileShared(g) \/ WriteMetadata(g) \/ MetadataLost(g)
    PROVE  PchInv'
<1>1. /\ phase = "shared" /\ phase' = "shared" /\ g \in Unit /\ headers[g] \in Version
      /\ UNCHANGED <<headers, manifest, store, entry>>
  BY PchAssumption DEF SharedUpToDate, CompileShared, WriteMetadata, MetadataLost, PchInv,
     TypeOK
<1>2. headers[g] # None
  BY <1>1, PchAssumption
<1>3. TypeOK'
  <2>1. CASE MetadataLost(g)
    BY <2>1, PchAssumption DEF MetadataLost, PchInv, TypeOK
  <2>2. CASE CompileShared(g)
    BY <1>1, <2>2 DEF CompileShared, PchInv, TypeOK, bounds, Object
  <2>3. CASE SharedUpToDate(g) \/ WriteMetadata(g)
    BY <1>1, <2>3 DEF SharedUpToDate, WriteMetadata, PchInv, TypeOK, bounds
  <2> QED
    BY <2>1, <2>2, <2>3
<1>4. SharedInv'
  <2>1. CASE SharedUpToDate(g)
    BY <1>1, <2>1 DEF SharedUpToDate, PchInv, SharedInv, bounds
  <2>2. CASE CompileShared(g)
    <3>1. \A h \in Shared :
            /\ obj'[h] = IF h = g THEN [own |-> headers[g], pch |-> None] ELSE obj[h]
            /\ pchFile'[h] = IF h = g THEN headers[g] ELSE pchFile[h]
            /\ metadata'[h] = IF h = g THEN None ELSE metadata[h]
      BY <2>2, PchAssumption DEF CompileShared, PchInv, TypeOK
    <3>2. miss = {} /\ miss' = {g} /\ todo' = todo \ {g} /\ UNCHANGED lost
      BY <2>2 DEF CompileShared, bounds
    <3> QED
      BY <1>1, <3>1, <3>2 DEF PchInv, SharedInv
  <2>3. CASE WriteMetadata(g)
    <3>1. \A h \in Shared : metadata'[h] = IF h = g THEN headers[g] ELSE metadata[h]
      BY <2>3, PchAssumption DEF WriteMetadata, PchInv, TypeOK
    <3>2. g \in miss /\ miss' = miss \ {g} /\ UNCHANGED <<obj, pchFile, todo, lost>>
      BY <2>3 DEF WriteMetadata, bounds
    <3>3. pchFile[g] = headers[g]
      BY <1>1, <3>2 DEF PchInv, SharedInv
    <3> QED
      BY <1>1, <1>2, <3>1, <3>2, <3>3 DEF PchInv, SharedInv
  <2>4. CASE MetadataLost(g)
    <3>1. lost' > 0
      BY <2>4 DEF MetadataLost, PchInv, TypeOK
    <3> QED
      BY <1>1, <2>4, <3>1 DEF MetadataLost, PchInv, SharedInv
  <2> QED
    BY <2>1, <2>2, <2>3, <2>4
<1> QED
  BY <1>1, <1>3, <1>4 DEF PchInv, Together, EntriesTell, LookupInv, RetrieveInv, CompileInv,
     CollectInv, BuiltInv, MissInv

\* The pre-invoke process looks everything up, or nothing.
LEMMA PreInvokeStep ==
    ASSUME PchInv, PreInvoke
    PROVE  PchInv'
<1>1. /\ phase = "shared" /\ todo = {} /\ miss = {} /\ todo' = Own
      /\ phase' = IF Readable THEN "lookup" ELSE "compile"
      /\ miss' = IF Readable THEN {} ELSE Own
      /\ UNCHANGED <<headers, obj, pchFile, metadata, manifest, store, entry, builds, edits, lost>>
  BY DEF PreInvoke, bounds
<1>2. Readable' = Readable /\ \A u \in Unit : Available(u)' = Available(u)
  BY <1>1 DEF Readable, Available
<1>3. ASSUME NEW u \in Own, isUsePch(u) PROVE Pch[u] \in Own \cup Shared
  BY <1>3, CreatorUsesNone DEF Own
<1>4. ~Readable => \E u \in Own : ~Available(u)
  BY DEF Readable, Available
<1>5. TypeOK'
  BY <1>1 DEF PchInv, TypeOK, Own
<1>8. SharedInv' /\ EntriesTell'
  BY <1>1 DEF PchInv, SharedInv, EntriesTell
<1>6. Together' /\ MissInv'
  <2>1. CASE Readable
    <3>1. phase' = "lookup" /\ miss' = {}
      BY <1>1, <2>1
    <3> QED
      BY <3>1 DEF Together, MissInv
  <2>2. CASE ~Readable
    <3>1. phase' = "compile" /\ miss' = Own /\ Own # {}
      BY <1>1, <2>2 DEF Readable
    <3>2. \E u \in Own : ~Available(u)'
      BY <1>2, <1>4, <2>2 DEF Own
    <3> QED
      BY <1>3, <3>1, <3>2 DEF Together, MissInv
  <2> QED
    BY <2>1, <2>2
<1>7. LookupInv' /\ CompileInv'
  <2>1. CASE Readable
    <3>1. phase' = "lookup" /\ miss' = {} /\ Readable'
      BY <1>1, <1>2, <2>1
    <3> QED
      BY <1>1, <3>1 DEF LookupInv, CompileInv
  <2>2. CASE ~Readable
    <3>1. phase' = "compile" /\ miss' = Own
      BY <1>1, <2>2
    <3> QED
      BY <1>1, <3>1 DEF LookupInv, CompileInv
  <2> QED
    BY <2>1, <2>2
<1> QED
  BY <1>1, <1>5, <1>6, <1>7, <1>8 DEF PchInv, RetrieveInv, CollectInv, BuiltInv

\* What there is of a shared .pch is left alone by all steps of the project.
LEMMA SharedKept ==
    ASSUME PchInv, phase # "shared", phase' # "shared",
           phase' = "idle" \/ phase \notin {"idle", "shared"},
           UNCHANGED <<headers, metadata>> \/ (phase' = "idle" /\ UNCHANGED metadata),
           lost' = lost \/ lost' > 0,
           \A g \in Shared : pchFile'[g] = pchFile[g] /\ obj'[g] = obj[g]
    PROVE  SharedInv'
BY DEF PchInv, SharedInv

\* Build, and the step from the lookup to the retrieval.
LEMMA StartStep ==
    ASSUME PchInv, Build \/ LookedUp
    PROVE  PchInv'
<1>1. CASE Build
  <2>1. TypeOK'
    BY <1>1, PchAssumption DEF PchInv, Build, TypeOK
  <2>2. SharedInv'
    BY <1>1 DEF PchInv, Build, SharedInv
  <2> QED
    BY <1>1, <2>1, <2>2 DEF Build, PchInv, Together, EntriesTell, LookupInv, RetrieveInv,
       CompileInv, CollectInv, BuiltInv, MissInv
<1>2. CASE LookedUp
  <2>1. /\ phase = "lookup" /\ phase' = "retrieve" /\ todo = {} /\ todo' = Own \ miss
        /\ UNCHANGED <<headers, obj, pchFile, metadata, manifest, store, miss, entry, lost>>
    BY <1>2 DEF LookedUp, bounds
  <2>2. TypeOK'
    BY <1>2 DEF PchInv, LookedUp, TypeOK, Own, bounds
  <2>3. \A u \in Own : Found(u)' = Found(u) /\ Available(u)' = Available(u)
    BY <2>1 DEF Found, Need, Available
  <2>4. SharedInv'
    BY <2>1, SharedKept
  <2>5. RetrieveInv'
    BY <2>1, <2>3 DEF PchInv, LookupInv, RetrieveInv, Readable
  <2>6. Together' /\ MissInv' /\ EntriesTell'
    BY <2>1, <2>3 DEF PchInv, Together, MissInv, EntriesTell
  <2> QED
    BY <2>1, <2>2, <2>4, <2>5, <2>6 DEF PchInv, LookupInv, CompileInv, CollectInv, BuiltInv
<1> QED
  BY <1>1, <1>2

\* A lookup finds the entry, or makes u and its related sources miss.
LEMMA LookupStep ==
    ASSUME PchInv, NEW u \in Own, Lookup(u)
    PROVE  PchInv'
<1>1. /\ phase = "lookup" /\ phase' = "lookup" /\ todo' = todo \ {u}
      /\ UNCHANGED <<headers, obj, pchFile, metadata, manifest, store, builds, edits, lost>>
      /\ u \in todo /\ (isUsePch(u) => Pch[u] \notin todo)
  BY FirstOrder DEF Lookup, bounds, PchInv, TypeOK
<1>0. u \in Unit /\ (isUsePch(u) => Pch[u] \in Unit) /\ Users(u) \subseteq Own
  BY CreatorUsesNone DEF Own
<1>9. SharedInv'
  BY <1>1, SharedKept
<1>2. \A v \in Own : Available(v)' = Available(v)
  BY <1>1 DEF Available
<1>3. \A v \in Own : entry'[v] = entry[v] => Found(v)' = Found(v)
  BY <1>1 DEF Found, Need
<1>4. \A v \in Own \ todo' : isUsePch(v) => Pch[v] \notin todo'
  BY <1>1 DEF PchInv, LookupInv
<1>5. RetrieveInv' /\ CompileInv' /\ CollectInv' /\ BuiltInv' /\ EntriesTell'
  BY <1>1 DEF RetrieveInv, CompileInv, CollectInv, BuiltInv, PchInv, EntriesTell
<1>10. Readable' /\ todo' \subseteq Own
  BY <1>1 DEF PchInv, LookupInv, Readable
<1>6. CASE u \in miss
  <2>1. UNCHANGED <<miss, entry>>
    BY <1>6 DEF Lookup
  <2>2. TypeOK' /\ Together' /\ MissInv'
    BY <1>1, <1>2, <2>1 DEF PchInv, TypeOK, Own, Together, MissInv
  <2>3. Users(u) = {}
    BY <1>1, <1>6 DEF PchInv, LookupInv, isGenPch
  <2>4. LookupInv'
    BY <1>1, <1>3, <1>4, <1>6, <1>10, <2>1, <2>3 DEF PchInv, LookupInv
  <2> QED
    BY <1>5, <1>9, <2>2, <2>4 DEF PchInv
<1>7. CASE u \notin miss /\ UNCHANGED miss
  <2>1. PICK e \in Matches(u) : entry' = [entry EXCEPT ![u] = e]
    BY <1>7, RelatedTogether DEF Lookup
  <2>2. e \in manifest[u] /\ e.parent = Need(u) /\ e.dep = headers[u]
    BY <1>1, <1>7, <2>1, ParentFound DEF Matches, Lookup
  <2>3. \A v \in Own : entry'[v] = IF v = u THEN e ELSE entry[v]
    BY <2>1 DEF PchInv, TypeOK, Own
  <2>4. Found(u)'
    BY <1>1, <2>2, <2>3 DEF Found, Need
  <2>5. TypeOK'
    BY <1>1, <1>7, <2>1, <2>2 DEF PchInv, TypeOK, Own
  <2>6. Together' /\ MissInv'
    BY <1>1, <1>2, <1>7 DEF PchInv, Together, MissInv
  <2>7. LookupInv'
    BY <1>1, <1>3, <1>4, <1>7, <1>10, <2>3, <2>4 DEF PchInv, LookupInv
  <2> QED
    BY <1>5, <1>9, <2>5, <2>6, <2>7 DEF PchInv
<1>8. CASE u \notin miss /\ Matches(u) = {} /\ miss' = miss \cup {u} \cup Related(u)
           /\ UNCHANGED entry
  <2>1. ~Available(u)
    BY <1>1, <1>8, ParentFound DEF Available, Matches, Lookup, Need
  <2>2. TypeOK' /\ Together'
    BY <1>1, <1>8, RelatedTogether DEF PchInv, TypeOK, Own, Together
  <2>3. MissInv'
    BY <1>1, <1>2, <2>1 DEF MissInv
  <2>4. \A v \in Own \ todo' : Found(v)' \/ (v \in miss' /\ Users(v) \subseteq miss')
    BY <1>1, <1>3, <1>8, RelatedTogether DEF PchInv, LookupInv
  <2>5. \A v \in todo' \cap miss' : ~isGenPch(v)
    <3> SUFFICES ASSUME NEW v \in todo', v \in miss', v \notin miss PROVE ~isGenPch(v)
      BY <1>1 DEF PchInv, LookupInv
    <3>1. v \in Related(u) /\ v \in Unit
      BY <1>1, <1>8 DEF PchInv, TypeOK, Own
    <3>2. v # Pch[u] \/ ~isUsePch(u)
      BY <1>1
    <3>3. CASE isGenPch(u)
      BY <1>0, <3>1, <3>3, CreatorUsesNone, PchAssumption DEF Related, Users, isUsePch
    <3>4. CASE ~isGenPch(u)
      BY <3>1, <3>2, <3>4 DEF Related
    <3> QED
      BY <3>3, <3>4
  <2>6. LookupInv'
    BY <1>1, <1>4, <1>10, <2>4, <2>5 DEF LookupInv
  <2> QED
    BY <1>5, <1>9, <2>2, <2>3, <2>6 DEF PchInv
<1> QED
  BY <1>6, <1>7, <1>8 DEF Lookup

\* A retrieval rebuilds u, or makes u and its related sources miss.
LEMMA RetrieveStep ==
    ASSUME PchInv, NEW u \in Own, Retrieve(u)
    PROVE  PchInv'
<1>1. /\ phase = "retrieve" /\ phase' = "retrieve" /\ u \in todo /\ todo' = todo \ {u}
      /\ UNCHANGED <<headers, pchFile, metadata, manifest, store, entry, builds, edits, lost>>
  BY DEF Retrieve, bounds
<1>0. u \in Unit
  BY DEF Own
<1>7. SharedInv' /\ Readable' /\ todo' \subseteq Own
  <2>1. \A g \in Shared : obj'[g] = obj[g]
    BY <1>0, PchAssumption DEF Retrieve, Own, PchInv, TypeOK
  <2>2. UNCHANGED <<headers, metadata, pchFile, lost>>
    BY <1>1
  <2> QED
    BY <1>1, <2>1, <2>2, SharedKept DEF PchInv, RetrieveInv, Readable
<1>2. \A v \in Own : Available(v)' = Available(v) /\ Found(v)' = Found(v)
  BY <1>1 DEF Available, Found, Need
<1>3. LookupInv' /\ CompileInv' /\ CollectInv' /\ BuiltInv' /\ EntriesTell'
  BY <1>1 DEF LookupInv, CompileInv, CollectInv, BuiltInv, PchInv, EntriesTell
<1>4. /\ Found(u) /\ entry[u] \in Entry
      /\ entry[u].out = [own |-> headers[u], pch |-> Need(u)]
  BY <1>0, <1>1 DEF PchInv, RetrieveInv, Found, EntriesTell, TypeOK
<1>5. CASE entry[u].out \in store[u] /\ obj' = [obj EXCEPT ![u] = entry[u].out]
           /\ UNCHANGED miss
  <2>1. TypeOK' /\ Together' /\ MissInv'
    <3>1. entry[u].out \in Object
      BY <1>4 DEF Entry
    <3>2. obj' \in [Unit -> Object \cup {None}]
      BY <1>5, <3>1 DEF PchInv, TypeOK
    <3>3. TypeOK'
      BY <1>1, <1>5, <3>2 DEF PchInv, TypeOK
    <3> QED
      BY <1>1, <1>2, <1>5, <3>3 DEF PchInv, Together, MissInv
  <2>2. \A v \in Own : obj'[v] = IF v = u THEN entry[u].out ELSE obj[v]
    BY <1>5 DEF PchInv, TypeOK, Own
  <2>3. Rebuilt(u)' /\ Available(u)
    <3>1. Rebuilt(u)'
      BY <1>1, <1>4, <2>2 DEF Rebuilt, Need
    <3>2. isStub(u) => metadata[Pch[u]] # None
      BY <1>1 DEF PchInv, RetrieveInv, Readable
    <3> QED
      BY <1>4, <1>5, <3>1, <3>2 DEF Need, Available, Found
  <2>4. \A v \in Own : v # u => Rebuilt(v)' = Rebuilt(v)
    BY <1>1, <2>2 DEF Rebuilt
  <2>5. RetrieveInv'
    BY <1>1, <1>2, <1>5, <1>7, <2>3, <2>4 DEF PchInv, RetrieveInv, Current, TypeOK, Own
  <2> QED
    BY <1>3, <1>7, <2>1, <2>5 DEF PchInv
<1>6. CASE entry[u].out \notin store[u] /\ miss' = miss \cup {u} \cup Related(u)
           /\ UNCHANGED obj
  <2>1. TypeOK' /\ Together'
    BY <1>1, <1>6, RelatedTogether DEF PchInv, TypeOK, Own, Together
  <2>2. ~Available(u)
    <3> SUFFICES ASSUME NEW e \in manifest[u], e.parent = Need(u), e.dep = headers[u],
                        e.out \in store[u]
                 PROVE  FALSE
      BY DEF Available, Need
    <3>1. e.out = [own |-> headers[u], pch |-> Need(u)]
      BY <1>0 DEF PchInv, EntriesTell
    <3> QED
      BY <1>4, <1>6, <3>1
  <2>3. MissInv'
    BY <1>1, <1>2, <2>2 DEF MissInv
  <2>4. \A v \in Own : Rebuilt(v)' = Rebuilt(v)
    BY <1>1, <1>6 DEF Rebuilt
  <2>5. RetrieveInv'
    BY <1>1, <1>2, <1>6, <1>7, <2>4 DEF PchInv, RetrieveInv, Current, TypeOK, Own
  <2> QED
    BY <1>3, <1>7, <2>1, <2>3, <2>5 DEF PchInv
<1> QED
  BY <1>5, <1>6 DEF Retrieve

\* Reporting the hits leaves the misses to compile.
LEMMA ReportStep ==
    ASSUME PchInv, Report
    PROVE  PchInv'
<1>1. /\ phase = "retrieve" /\ todo = {} /\ todo' = miss
      /\ phase' = IF miss = {} THEN "built" ELSE "compile"
      /\ UNCHANGED <<headers, obj, pchFile, metadata, manifest, store, miss, entry, builds, edits, lost>>
  BY DEF Report, bounds
<1>2. \A v \in Own : Available(v)' = Available(v) /\ Rebuilt(v)' = Rebuilt(v)
  BY <1>1 DEF Available, Rebuilt
<1>3. TypeOK' /\ EntriesTell'
  BY <1>1 DEF PchInv, TypeOK, EntriesTell
<1>4. Together' /\ MissInv' /\ miss \subseteq Own
  BY <1>1, <1>2 DEF PchInv, Together, MissInv
<1>5. SharedInv'
  BY <1>1, SharedKept
<1>6. CompileInv' /\ BuiltInv'
  BY <1>1, <1>2, <1>4 DEF PchInv, RetrieveInv, CompileInv, BuiltInv, Current
<1> QED
  BY <1>1, <1>3, <1>4, <1>5, <1>6 DEF PchInv, LookupInv, RetrieveInv, CollectInv

\* A user is compiled with the .pch that its creator has just written.
LEMMA CompileStep ==
    ASSUME PchInv, NEW u \in Own, Compile(u)
    PROVE  PchInv'
<1>1. /\ phase = "compile" /\ phase' = "compile" /\ todo' = todo \ {u}
      /\ UNCHANGED <<headers, metadata, manifest, store, miss, entry, builds, edits, lost>>
      /\ u \in todo /\ (isUsePch(u) => Pch[u] \notin todo)
  BY FirstOrder DEF Compile, bounds, PchInv, TypeOK, Own
<1>0. u \in Unit /\ (isUsePch(u) => Pch[u] \in Unit)
  BY CreatorUsesNone DEF Own
<1>2. u \in miss
  BY <1>1 DEF PchInv, CompileInv
<1>3. ASSUME isUsePch(u) PROVE pchFile[Pch[u]] = headers[Pch[u]]
  <2>1. CASE isStub(u)
    BY <1>1, <2>1 DEF PchInv, SharedInv, isStub
  <2>2. CASE ~isStub(u)
    <3>1. Pch[u] \in miss \ todo /\ isGenPch(Pch[u])
      BY <1>0, <1>1, <1>2, <1>3, <2>2, CreatorUsesNone DEF PchInv, Together, isStub
    <3> QED
      BY <1>1, <3>1 DEF PchInv, CompileInv
  <2> QED
    BY <2>1, <2>2
<1>4. obj' = [obj EXCEPT ![u] = [own |-> headers[u], pch |-> Need(u)]]
  BY <1>3 DEF Compile, Need
<1>5. Need(u) \in Version \cup {None}
  BY <1>0 DEF Need, PchInv, TypeOK
<1>6. \A v \in Own : pchFile'[v] = IF v = u /\ isGenPch(u) THEN headers[u] ELSE pchFile[v]
  BY DEF Compile, PchInv, TypeOK, Own
<1>7. TypeOK'
  <2>1. pchFile' \in [Unit -> Version \cup {None}]
    BY DEF Compile, PchInv, TypeOK, Own
  <2> QED
    BY <1>1, <1>4, <1>5, <2>1 DEF PchInv, TypeOK, Own, Object
<1>8. \A v \in Own : obj'[v] = IF v = u THEN [own |-> headers[u], pch |-> Need(u)] ELSE obj[v]
  BY <1>4 DEF PchInv, TypeOK, Own
<1>9. \A v \in Own : Rebuilt(v)' = (v = u \/ Rebuilt(v))
  BY <1>1, <1>8 DEF Rebuilt, Need
<1>10. \A v \in Own : Available(v)' = Available(v)
  BY <1>1 DEF Available
<1>11. CompileInv'
  BY <1>1, <1>6, <1>9, <1>10 DEF PchInv, CompileInv, Current, TypeOK, Together
<1>12. Together' /\ EntriesTell' /\ MissInv'
  BY <1>1, <1>10 DEF PchInv, Together, EntriesTell, MissInv
<1>13. SharedInv'
  <2>1. \A g \in Shared : pchFile'[g] = pchFile[g] /\ obj'[g] = obj[g]
    BY <1>0 DEF Compile, Own, PchInv, TypeOK
  <2> QED
    BY <1>1, <2>1, SharedKept
<1> QED
  BY <1>1, <1>7, <1>11, <1>12, <1>13 DEF PchInv, LookupInv, RetrieveInv, CollectInv, BuiltInv

\* The post-invoke process starts when everything is compiled.  A parent that
\* an item lacks is a shared .pch whose hash was lost.
LEMMA PostInvokeStep ==
    ASSUME PchInv, PostInvoke
    PROVE  PchInv'
<1>1. /\ phase = "compile" /\ todo = {} /\ todo' = miss
      /\ phase' = IF \A u \in miss : parentGiven(u) THEN "collect" ELSE "built"
      /\ entry' = [u \in Unit |-> None]
      /\ UNCHANGED <<headers, obj, pchFile, metadata, manifest, store, miss, builds, edits, lost>>
  BY DEF PostInvoke, bounds
<1>2. \A v \in Own : Available(v)' = Available(v) /\ Rebuilt(v)' = Rebuilt(v)
  BY <1>1 DEF Available, Rebuilt
<1>3. \A v \in Own : Rebuilt(v) /\ (v \notin miss => Current(v))
  BY <1>1 DEF PchInv, CompileInv
<1>4. TypeOK' /\ EntriesTell'
  BY <1>1 DEF PchInv, TypeOK, EntriesTell
<1>5. Together' /\ SharedInv'
  BY <1>1, SharedKept DEF PchInv, Together
<1>6. CASE \A u \in miss : parentGiven(u)
  <2>1. phase' = "collect"
    BY <1>1, <1>6
  <2>2. CollectInv'
    BY <1>1, <1>2, <1>3, <1>6 DEF CollectInv, parentGiven, Current
  <2> QED
    BY <1>4, <1>5, <2>1, <2>2 DEF PchInv, LookupInv, RetrieveInv, CompileInv, BuiltInv, MissInv
<1>7. CASE ~ \A u \in miss : parentGiven(u)
  <2>1. phase' = "built"
    BY <1>1, <1>7
  <2>2. PICK u \in miss : isUsePch(u) /\ Pch[u] \notin miss /\ metadata[Pch[u]] = None
    BY <1>7 DEF parentGiven
  <2>3. Pch[u] \in Shared /\ Pch[u] \in Unit
    BY <1>1, <2>2, PchAssumption DEF PchInv, Together
  <2>4. pchFile[Pch[u]] # None
    BY <1>1, <2>3, PchAssumption DEF PchInv, TypeOK, SharedInv
  <2>5. lost > 0
    BY <1>1, <2>2, <2>3, <2>4 DEF PchInv, SharedInv
  <2>6. BuiltInv'
    BY <1>1, <1>2, <1>3, <2>5 DEF BuiltInv, Current
  <2> QED
    BY <1>4, <1>5, <2>1, <2>6 DEF PchInv, LookupInv, RetrieveInv, CompileInv, CollectInv, MissInv
<1> QED
  BY <1>6, <1>7

\* Collecting u publishes the entry that the next build will look for.
LEMMA CollectStep ==
    ASSUME PchInv, NEW u \in Own, Collect(u)
    PROVE  PchInv'
<1>1. /\ phase = "collect" /\ phase' = "collect" /\ todo' = todo \ {u}
      /\ UNCHANGED <<headers, obj, pchFile, metadata, miss, builds, edits, lost>>
      /\ u \in todo /\ (isUsePch(u) => Pch[u] \notin todo)
  BY FirstOrder DEF Collect, bounds, PchInv, TypeOK, Own
<1>0. u \in Unit /\ (isUsePch(u) => Pch[u] \in Unit)
  BY CreatorUsesNone DEF Own
<1>2. ParentHash(u) = Need(u)
  <2>1. CASE isStub(u)
    <3>1. Pch[u] \notin miss /\ isUsePch(u) /\ u \in miss
      BY <1>0, <1>1, <2>1, CreatorUsesNone DEF PchInv, CollectInv, Together, isStub, Own
    <3>2. metadata[Pch[u]] # None
      BY <1>1, <3>1 DEF PchInv, CollectInv, parentGiven
    <3> QED
      BY <1>1, <2>1, <3>2, StubHash DEF ParentHash
  <2>2. CASE isUsePch(u) /\ ~isStub(u)
    <3>1. Pch[u] \in miss \ todo
      BY <1>1, <2>2 DEF PchInv, CollectInv, Together, isStub
    <3> QED
      BY <1>1, <2>2, <3>1 DEF PchInv, CollectInv, ParentHash, Need
  <2>3. CASE ~isUsePch(u)
    BY <1>0, <2>3, CreatorUsesNone DEF ParentHash, Need
  <2> QED
    BY <2>1, <2>2, <2>3
<1> DEFINE e == [parent |-> Need(u), dep |-> headers[u], out |-> obj[u]]
<1>3. obj[u] = [own |-> headers[u], pch |-> Need(u)]
  BY <1>1 DEF PchInv, CollectInv, Rebuilt, Need
<1>4. e \in Entry /\ obj[u] \in Object
  <2>1. Need(u) \in Version \cup {None} /\ headers[u] \in Version
    BY <1>0 DEF Need, PchInv, TypeOK
  <2> QED
    BY <1>3, <2>1 DEF Entry, Object
<1>5. /\ entry' = [entry EXCEPT ![u] = e]
      /\ store' = [store EXCEPT ![u] = store[u] \cup {obj[u]}]
      /\ manifest' = [manifest EXCEPT ![u] = Published(u, e)]
  BY <1>2 DEF Collect, NewEntry
<1>6. Published(u, e) \subseteq manifest[u] \cup {e} /\ e \in Published(u, e)
  BY DEF Published
<1> HIDE DEF e
<1>7. \A v \in Unit : /\ entry'[v] = IF v = u THEN e ELSE entry[v]
                      /\ store'[v] = IF v = u THEN store[u] \cup {obj[u]} ELSE store[v]
                      /\ manifest'[v] = IF v = u THEN Published(u, e) ELSE manifest[v]
  BY <1>5 DEF PchInv, TypeOK
<1>8. TypeOK'
  <2>1. Published(u, e) \subseteq Entry /\ store[u] \cup {obj[u]} \subseteq Object
    BY <1>0, <1>4, <1>6 DEF PchInv, TypeOK
  <2>2. /\ entry' \in [Unit -> Entry \cup {None}]
        /\ store' \in [Unit -> SUBSET Object]
        /\ manifest' \in [Unit -> SUBSET Entry]
    BY <1>4, <1>5, <2>1 DEF PchInv, TypeOK
  <2> QED
    BY <1>1, <2>2 DEF PchInv, TypeOK
<1>9. e.parent = Need(u) /\ e.dep = headers[u] /\ e.out = obj[u]
  BY DEF e
<1>10. EntriesTell'
  BY <1>3, <1>6, <1>7, <1>9 DEF PchInv, EntriesTell
<1>11. Available(u)'
  <2>1. isStub(u) => metadata[Pch[u]] # None
    <3> SUFFICES ASSUME isStub(u) PROVE metadata[Pch[u]] # None
      OBVIOUS
    <3>1. Pch[u] \notin miss /\ isUsePch(u) /\ u \in miss
      BY <1>0, <1>1, CreatorUsesNone DEF PchInv, CollectInv, Together, isStub, Own
    <3> QED
      BY <1>1, <3>1 DEF PchInv, CollectInv, parentGiven
  <2> QED
    BY <1>0, <1>1, <1>6, <1>7, <1>9, <2>1 DEF Available, Need
<1>12. \A v \in Own : v # u => Available(v)' = Available(v)
  BY <1>1, <1>7 DEF Available, Own
<1>13. \A v \in Own : Rebuilt(v)' = Rebuilt(v)
  BY <1>1 DEF Rebuilt
<1>14. entry'[u] # None /\ entry'[u].dep = headers[u]
  BY <1>0, <1>4, <1>7, <1>9, PchAssumption
<1>15. CollectInv'
  <2>1. /\ \A v \in miss : parentGiven(v)'
        /\ todo' \subseteq miss' /\ (\A v \in Own : Rebuilt(v)')
    BY <1>1, <1>13 DEF PchInv, CollectInv, parentGiven
  <2>2. \A v \in miss \ todo' : entry'[v] # None /\ entry'[v].dep = headers[v]
    BY <1>1, <1>7, <1>14 DEF PchInv, CollectInv, TypeOK
  <2>3. \A v \in Own \ todo' : Current(v)'
    BY <1>1, <1>11, <1>12 DEF PchInv, CollectInv, Current
  <2> QED
    BY <1>1, <2>1, <2>2, <2>3 DEF CollectInv
<1>16. Together' /\ MissInv'
  BY <1>1 DEF PchInv, Together, MissInv
<1>17. SharedInv'
  BY <1>1, SharedKept
<1> QED
  BY <1>1, <1>8, <1>10, <1>15, <1>16, <1>17 DEF PchInv, LookupInv, RetrieveInv, CompileInv, BuiltInv

\* The ends of a build, and edits between two builds.
LEMMA EndStep ==
    ASSUME PchInv, CompileFails \/ Collected \/ Done \/ Edit
    PROVE  PchInv'
<1>1. CASE CompileFails
  <2>1. TypeOK'
    BY <1>1 DEF PchInv, TypeOK, Own, CompileFails, bounds
  <2>2. SharedInv'
    BY <1>1 DEF CompileFails, bounds, PchInv, SharedInv
  <2> QED
    BY <1>1, <2>1, <2>2 DEF CompileFails, PchInv, Together, EntriesTell, LookupInv, RetrieveInv,
                      CompileInv, CollectInv, BuiltInv, MissInv
<1>2. CASE Collected
  <2>1. TypeOK'
    BY <1>2 DEF PchInv, TypeOK, Own, Collected, bounds
  <2>2. \A v \in Own : Available(v)' = Available(v) /\ Rebuilt(v)' = Rebuilt(v)
    BY <1>2 DEF Collected, Available, Rebuilt
  <2>3. SharedInv'
    BY <1>2, SharedKept DEF Collected, bounds
  <2> QED
    BY <1>2, <2>1, <2>2, <2>3 DEF Collected, bounds, PchInv, Together, EntriesTell, LookupInv,
                      RetrieveInv, CompileInv, CollectInv, BuiltInv, MissInv, Current
<1>3. CASE Done
  <2>1. TypeOK'
    BY <1>3 DEF PchInv, TypeOK, Own, Done, bounds
  <2>2. SharedInv'
    BY <1>3 DEF Done, bounds, PchInv, SharedInv
  <2> QED
    BY <1>3, <2>1, <2>2 DEF Done, PchInv, Together, EntriesTell, LookupInv, RetrieveInv,
                      CompileInv, CollectInv, BuiltInv, MissInv
<1>4. CASE Edit
  <2>1. TypeOK'
    BY <1>4, PchAssumption DEF PchInv, TypeOK, Own, Edit
  <2>2. SharedInv'
    BY <1>4 DEF Edit, PchInv, SharedInv
  <2> QED
    BY <1>4, <2>1, <2>2 DEF Edit, PchInv, Together, EntriesTell, LookupInv, RetrieveInv,
                      CompileInv, CollectInv, BuiltInv, MissInv
<1> QED
  BY <1>1, <1>2, <1>3, <1>4

\* An object that is lost makes no source available, and no entry wrong.
LEMMA LoseStep ==
    ASSUME PchInv, Lose
    PROVE  PchInv'
<1>1. PICK w \in Unit : \E o \in store[w] : store' = [store EXCEPT ![w] = store[w] \ {o}]
  BY DEF Lose
<1>2. /\ lost' = lost + 1 /\ lost < MaxLost
      /\ UNCHANGED <<headers, obj, pchFile, metadata, manifest, phase, todo, miss, entry, builds, edits>>
  BY DEF Lose
<1>3. TypeOK'
  BY <1>1, <1>2, PchAssumption DEF PchInv, TypeOK, Own
<1>4. \A v \in Own : store'[v] \subseteq store[v]
  BY <1>1 DEF PchInv, TypeOK, Own
<1>5. \A v \in Own : Found(v)' = Found(v) /\ Rebuilt(v)' = Rebuilt(v)
  BY <1>2 DEF Found, Need, Rebuilt
<1>6. \A v \in Own : Available(v)' => Available(v)
  BY <1>2, <1>4 DEF Available
<1>7. \A v \in Own : Current(v)'
  <2>1. lost' # 0
    BY <1>2 DEF PchInv, TypeOK, Own
  <2> QED
    BY <2>1 DEF Current
<1>8. LookupInv' /\ RetrieveInv' /\ CompileInv' /\ CollectInv' /\ BuiltInv'
  <2>1. LookupInv' /\ RetrieveInv'
    BY <1>2, <1>5, <1>7 DEF PchInv, LookupInv, RetrieveInv, Readable
  <2>2. CompileInv' /\ BuiltInv'
    BY <1>2, <1>5, <1>7 DEF PchInv, CompileInv, BuiltInv
  <2>3. CollectInv'
    BY <1>2, <1>5, <1>7 DEF PchInv, CollectInv, parentGiven
  <2> QED
    BY <2>1, <2>2, <2>3
<1>10. SharedInv'
  BY <1>2, PchAssumption DEF PchInv, TypeOK, SharedInv
<1>9. Together' /\ EntriesTell' /\ MissInv'
  BY <1>2, <1>6 DEF PchInv, Together, EntriesTell, MissInv
<1> QED
  BY <1>3, <1>8, <1>9, <1>10 DEF PchInv

\* Every step keeps the invariant.
LEMMA PchStep == PchInv /\ [Next]_vars => PchInv'
<1> SUFFICES ASSUME PchInv, [Next]_vars PROVE PchInv'
  OBVIOUS
<1>1. CASE UNCHANGED vars
  <2>1. \A v \in Own : /\ Available(v)' = Available(v) /\ Rebuilt(v)' = Rebuilt(v)
                        /\ Found(v)' = Found(v)
    BY <1>1 DEF vars, Available, Rebuilt, Found, Need
  <2>2. TypeOK'
    BY <1>1 DEF PchInv, TypeOK, vars, bounds
  <2>3. LookupInv' /\ RetrieveInv'
    BY <1>1, <2>1 DEF vars, bounds, PchInv, LookupInv, RetrieveInv, Current, Readable
  <2>4. CompileInv' /\ BuiltInv'
    BY <1>1, <2>1 DEF vars, bounds, PchInv, CompileInv, BuiltInv, Current
  <2>5. CollectInv'
    BY <1>1, <2>1 DEF vars, bounds, PchInv, CollectInv, Current, parentGiven
  <2>6. Together' /\ EntriesTell' /\ MissInv'
    BY <1>1, <2>1 DEF vars, PchInv, Together, EntriesTell, MissInv
  <2>7. SharedInv'
    BY <1>1 DEF vars, bounds, PchInv, SharedInv
  <2> QED
    BY <2>2, <2>3, <2>4, <2>5, <2>6, <2>7 DEF PchInv
<1> QED
  BY <1>1, SharedStep, PreInvokeStep, StartStep, LookupStep, RetrieveStep, ReportStep,
     CompileStep, PostInvokeStep, CollectStep, EndStep, LoseStep DEF Next

\* The invariant holds in every state.
LEMMA PchInvariant == Spec => []PchInv
  BY InitInv, PchStep, PTL DEF Spec

-----------------------------------------------------------------------------
\* Whatever misses first and whatever the cache loses, the users of a .pch
\* file are only compiled together with its creator, unless that belongs to
\* another project, so that the items of the post-invoke process have their
\* parents among them (missing_update, __post_init__).
THEOREM CompiledTogether == Spec => []PchTogether
<1>1. PchInv => PchTogether
  BY DEF PchInv, Together, PchTogether
<1> QED
  BY <1>1, PchInvariant, PTL

\* manifest_hash never reads the entry of a parent that was not found, or the
\* hash of a shared .pch that is not there.
THEOREM ParentAlwaysFound == Spec => []ParentIsFound
<1>1. PchInv => ParentIsFound
  BY ParentFound DEF ParentIsFound
<1> QED
  BY <1>1, PchInvariant, PTL

\* The objects of a finished build, retrieved or compiled, are those that
\* compiling all its sources from scratch would give.
THEOREM BuiltRight == Spec => []AllRebuilt
<1>1. PchInv => AllRebuilt
  <2> SUFFICES ASSUME PchInv, phase = "built", NEW u \in Unit PROVE Rebuilt(u)
    BY DEF AllRebuilt
  <2>1. CASE u \in Own
    BY <2>1 DEF PchInv, BuiltInv
  <2>2. CASE u \in Shared
    <3>1. pchFile[u] = headers[u] /\ headers[u] # None /\ ~isUsePch(u)
      BY <2>2, PchAssumption DEF PchInv, TypeOK, SharedInv, isUsePch
    <3> QED
      BY <2>2, <3>1 DEF PchInv, SharedInv, Rebuilt
  <2> QED
    BY <2>1, <2>2 DEF Own
<1> QED
  BY <1>1, PchInvariant, PTL

\* No project is compiled when the cache has an entry and the object for each
\* of its sources (manifest_hit, retrieve_hit).
THEOREM CompiledForCause == Spec => []NoNeedlessBuild
<1>1. PchInv => NoNeedlessBuild
  BY DEF PchInv, MissInv, NoNeedlessBuild
<1> QED
  BY <1>1, PchInvariant, PTL

\* A finished build leaves the cache with what the next build needs
\* (ensure_output), if nothing is lost.
THEOREM LeavesAllCached == Spec => []AllCached
<1>1. PchInv => AllCached
  BY DEF PchInv, BuiltInv, Current, AllCached
<1> QED
  BY <1>1, PchInvariant, PTL
=============================================================================
