--------------------------- MODULE LinkProjectProofs ---------------------------
(***************************************************************************)
(* The properties of LinkProject, for builds with ACLCACHE_SKIPGET that    *)
(* find no objects of earlier builds.                                      *)
(***************************************************************************)
EXTENDS LinkProject, TLAPS

\* Before the compiler runs, and from its last object to the new output
Compiling == pc = "precompile"
Linking   == pc \in {"prelink", "retrieve", "pendings", "link", "postlink", "publish"}

\* An object that is to be stored is there, and what the linker's processes find is
\* an object, or a file of size 0 with a stream
ShapeInv ==
    /\ \A u \in Unit :
        /\ u \in collect \cup flush => obj[u] \in Version /\ ~Compiling
        /\ Linking \/ (Compiling /\ u \in hits) =>
              obj[u] \in Version \/ (obj[u] = Empty /\ meta[u] # None)
    /\ pc \in {"postlink", "publish"} => exe \in Linked

\* Of each object: what its stream says of it, and what it is before and after the
\* compiler has run.  A file of size 0 is a hit and has the hash of the object.
TreeInv ==
    \A u \in Unit :
        /\ meta[u] \in Version => obj[u] \in {Empty, meta[u]}
        /\ Compiling /\ u \in todo =>
              /\ u \notin hits
              /\ skipGet => obj[u] = None /\ meta[u] = None
        /\ Compiling /\ u \in hits => obj[u] \in {Empty, src[u]} /\ meta[u] = src[u]
        /\ Linking =>
              /\ obj[u] \in {Empty, src[u]} /\ meta[u] \in {None, Torn, src[u]}
              /\ obj[u] = Empty => u \in hits /\ meta[u] = src[u]

\* What a process has read of u is the hash of the object, or nothing
Hashed(u) == hashes[u] \in {src[u], Torn} /\ (hashes[u] = Torn => torn)

\* What the processes of the linker know, and which objects they have put aside
HashInv ==
    /\ pc \in {"prelink", "retrieve", "pendings", "postlink", "publish"} =>
          \A u \in Unit \ todo : Hashed(u)
    /\ pc \in {"retrieve", "pendings", "publish"} => todo = {}
    /\ Compiling => pending = {}
    /\ pc \in {"prelink", "retrieve", "pendings"} =>
          /\ \A u \in Unit \ todo : obj[u] = Empty => u \in pending
          /\ \A u \in pending : obj[u] = Empty /\ hashes[u] = src[u]

\* What was linked
ExeInv ==
    /\ exeMeta # None => exe = exeMeta
    /\ pc \in {"postlink", "publish"} => obj = src /\ exe = Current
    /\ pc = "retrieve" /\ ~torn => entry = Current
    /\ built => pc = "idle"
    /\ LinkedIsCurrent
    /\ EntriesAreSound

\* What the cache has, as long as nothing goes wrong
CacheInv ==
    ~hurt =>
        /\ pc \in {"precompile", "prelink", "retrieve", "pendings"} =>
              \A u \in hits : <<u, src[u]>> \in store
        /\ pc = "link" => \A u \in Unit : obj[u] \in Version
        /\ pc = "retrieve" => \E e \in links : Matches(e) /\ e.output = entry
        /\ pc = "publish" => exe \in exes
        /\ Finished /\ ~torn =>
              exe \in exes /\ \E e \in links : e.inputs = src /\ e.lib = lib /\ e.output = exe

-----------------------------------------------------------------------------
(* Types.                                                                  *)

TreeTypes ==
    /\ skipGet \in BOOLEAN
    /\ src \in [Unit -> Version] /\ lib \in Version
    /\ obj \in [Unit -> Version \cup {None, Empty}] /\ meta \in [Unit -> Hash \cup {None}]
    /\ exe \in Linked \cup {None} /\ exeMeta \in Linked \cup {None}

CacheTypes ==
    /\ known \in SUBSET (Unit \X Version) /\ store \in SUBSET (Unit \X Version)
    /\ links \in SUBSET Entry /\ exes \in SUBSET Linked

BuildTypes ==
    /\ pc \in {"idle", "precompile", "prelink", "retrieve", "pendings", "link", "postlink",
               "publish"}
    /\ todo \in SUBSET Unit /\ hits \in SUBSET Unit
    /\ hashes \in [Unit -> Hash] /\ pending \in SUBSET Unit
    /\ entry \in Linked \cup {None} /\ built \in BOOLEAN

RestTypes ==
    /\ collect \in SUBSET Unit /\ flush \in SUBSET Unit
    /\ torn \in BOOLEAN /\ hurt \in BOOLEAN
    /\ builds \in 0..MaxBuilds /\ faults \in 0..MaxFaults

Types == TreeTypes /\ CacheTypes /\ BuildTypes /\ RestTypes

LEMMA TypesAreAll == TypeOK <=> Types
BY DEF TypeOK, Types, TreeTypes, CacheTypes, BuildTypes, RestTypes

LEMMA Distinct == None \notin Version /\ Empty \notin Version /\ Torn \notin Version
BY LinkAssumption

\* A process that has read no unwritten stream has the hashes of the right objects
LEMMA HashesAreRight ==
    ASSUME Types, HashInv, ~torn, todo = {},
           pc \in {"prelink", "retrieve", "pendings", "postlink", "publish"}
    PROVE  hashes = src
<1>1. \A u \in Unit : hashes[u] = src[u]
  BY DEF HashInv, Hashed
<1> QED
  BY <1>1 DEF Types, TreeTypes, BuildTypes

LEMMA TypeStep == TypeOK /\ ShapeInv /\ [Next]_vars => Types'
<1> SUFFICES ASSUME Types, ShapeInv, [Next]_vars PROVE Types'
  BY TypesAreAll
<1>1. ASSUME Begin PROVE Types'
  <2>1. TreeTypes' /\ BuildTypes'
    BY <1>1 DEF Begin, Types, TreeTypes, BuildTypes, Hash
  <2>2. RestTypes'
    <3>1. builds' \in 0..MaxBuilds
      BY <1>1, LinkAssumption DEF Begin, Types, RestTypes
    <3> QED
      BY <1>1, <3>1 DEF Begin, Types, RestTypes, behind
  <2>3. CacheTypes'
    BY <1>1 DEF Begin, Types, CacheTypes, cache
  <2> QED
    BY <2>1, <2>2, <2>3 DEF Types
<1>2. ASSUME NEW u \in Unit, PreInvoke(u) PROVE Types'
  BY <1>2 DEF PreInvoke, Put, PutHash, Types, TreeTypes, CacheTypes, BuildTypes,
              RestTypes, Hash, cache, behind, aux, counts
<1>3. ASSUME Compile PROVE Types'
  BY <1>3 DEF Compile, Compiled, Misses, Types, TreeTypes, CacheTypes, BuildTypes,
              RestTypes, cache, aux, counts
<1>4. ASSUME CompileFails PROVE Types'
  BY <1>4 DEF CompileFails, Compiled, Types, TreeTypes, CacheTypes, BuildTypes, RestTypes,
              cache, behind, aux, counts
<1>5. ASSUME NEW u \in Unit, Collect(u) PROVE Types'
  BY <1>5 DEF Collect, ShapeInv, Types, TreeTypes, CacheTypes, BuildTypes, RestTypes,
              tree, build, aux, counts
<1>6. ASSUME NEW u \in Unit, FlushOpen(u) PROVE Types'
  BY <1>6 DEF FlushOpen, Types, TreeTypes, CacheTypes, BuildTypes, RestTypes, Hash, cache,
              build, behind, aux, counts
<1>7. ASSUME NEW u \in Unit, FlushWrite(u) PROVE Types'
  BY <1>7 DEF FlushWrite, ShapeInv, Types, TreeTypes, CacheTypes, BuildTypes, RestTypes,
              Hash, cache, build, aux, counts
<1>8. ASSUME NEW u \in Unit, HashInput(u) PROVE Types'
  BY <1>8 DEF HashInput, HashOf, ShapeInv, Linking, Types, TreeTypes, CacheTypes,
              BuildTypes, RestTypes, Hash, tree, cache, behind, counts
<1>9. ASSUME PreLink PROVE Types'
  BY <1>9 DEF PreLink, Types, TreeTypes, CacheTypes, BuildTypes, RestTypes, Entry, tree,
              cache, behind, aux, counts
<1>10. ASSUME Retrieve PROVE Types'
  BY <1>10 DEF Retrieve, Types, TreeTypes, CacheTypes, BuildTypes, RestTypes, cache,
               behind, aux, counts
<1>11. ASSUME RetrieveFails PROVE Types'
  BY <1>11 DEF RetrieveFails, Types, TreeTypes, CacheTypes, BuildTypes, RestTypes, tree,
               cache, behind, aux, counts
<1>12. ASSUME NEW u \in Unit, GetPending(u) PROVE Types'
  BY <1>12 DEF GetPending, Put, Types, TreeTypes, CacheTypes, BuildTypes, RestTypes,
               cache, behind, aux, counts
<1>13. ASSUME PendingFails PROVE Types'
  BY <1>13 DEF PendingFails, Types, TreeTypes, CacheTypes, BuildTypes, RestTypes, tree,
               cache, behind, aux, counts
<1>14. ASSUME PreLinked PROVE Types'
  BY <1>14 DEF PreLinked, Types, TreeTypes, CacheTypes, BuildTypes, RestTypes, tree,
               cache, behind, aux, counts
<1>15. ASSUME Link PROVE Types'
  BY <1>15 DEF Link, Types, TreeTypes, CacheTypes, BuildTypes, RestTypes, Linked, cache,
               behind, aux, counts
<1>16. ASSUME LinkFails PROVE Types'
  BY <1>16 DEF LinkFails, Types, TreeTypes, CacheTypes, BuildTypes, RestTypes, tree,
               cache, behind, aux, counts
<1>17. ASSUME AddOutput PROVE Types'
  BY <1>17 DEF AddOutput, ShapeInv, Types, TreeTypes, CacheTypes, BuildTypes, RestTypes,
               tree, behind, aux, counts
<1>18. ASSUME PostLink PROVE Types'
  BY <1>18 DEF PostLink, Published, ShapeInv, Types, TreeTypes, CacheTypes, BuildTypes,
               RestTypes, Entry, behind, aux, counts
<1>19. ASSUME PreInvokeCrash PROVE Types'
  BY <1>19, LinkAssumption DEF PreInvokeCrash, Fails, Types, TreeTypes, CacheTypes,
                               BuildTypes, RestTypes, tree, cache, behind
<1>20. ASSUME PostInvokeCrash PROVE Types'
  BY <1>20, LinkAssumption DEF PostInvokeCrash, Fails, Types, TreeTypes, CacheTypes,
                               BuildTypes, RestTypes, tree, cache, build
<1>21. ASSUME PreLinkCrash PROVE Types'
  BY <1>21, LinkAssumption DEF PreLinkCrash, Fails, Types, TreeTypes, CacheTypes,
                               BuildTypes, RestTypes, cache, behind
<1>22. ASSUME PostLinkCrash PROVE Types'
  BY <1>22, LinkAssumption DEF PostLinkCrash, Fails, Types, TreeTypes, CacheTypes,
                               BuildTypes, RestTypes, tree, cache, behind
<1>23. ASSUME Lose PROVE Types'
  BY <1>23, LinkAssumption DEF Lose, Fails, Types, TreeTypes, CacheTypes, BuildTypes,
                               RestTypes, tree, build, behind
<1>24. ASSUME UNCHANGED vars PROVE Types'
  BY <1>24 DEF counts, vars, Types, TreeTypes, CacheTypes, BuildTypes, RestTypes, tree,
               cache, build, behind, aux
<1> QED
  BY <1>1, <1>2, <1>3, <1>4, <1>5, <1>6, <1>7, <1>8, <1>9, <1>10, <1>11, <1>12,
     <1>13, <1>14, <1>15, <1>16, <1>17, <1>18, <1>19, <1>20, <1>21, <1>22, <1>23, <1>24 DEF Next

LEMMA ShapeStep == Types /\ ShapeInv /\ [Next]_vars => ShapeInv'
<1> SUFFICES ASSUME Types, ShapeInv, [Next]_vars PROVE ShapeInv'
  OBVIOUS
<1>1. ASSUME Begin PROVE ShapeInv'
  BY <1>1 DEF Begin, ShapeInv, Linking, behind
<1>2. ASSUME NEW u \in Unit, PreInvoke(u) PROVE ShapeInv'
  BY <1>2, LinkAssumption DEF PreInvoke, Put, PutHash, Kept, ShapeInv, Compiling, Linking,
                              Types, TreeTypes, behind
<1>3. ASSUME Compile PROVE ShapeInv'
  BY <1>3 DEF Compile, Compiled, Misses, ShapeInv, Compiling, Types, TreeTypes
<1>4. ASSUME CompileFails PROVE ShapeInv'
  BY <1>4 DEF CompileFails, ShapeInv, Compiling, Linking, behind
<1>5. ASSUME NEW u \in Unit, Collect(u) PROVE ShapeInv'
  BY <1>5 DEF Collect, ShapeInv, Compiling, Linking, tree, build
<1>6. ASSUME NEW u \in Unit, FlushOpen(u) PROVE ShapeInv'
  BY <1>6 DEF FlushOpen, ShapeInv, Compiling, Linking, build, behind
<1>7. ASSUME NEW u \in Unit, FlushWrite(u) PROVE ShapeInv'
  <2>1. obj' = obj /\ pc' = pc /\ hits' = hits /\ exe' = exe /\ collect' = collect
    BY <1>7 DEF FlushWrite, build
  <2>2. obj[u] # None /\ meta' = [meta EXCEPT ![u] = obj[u]]
    BY <1>7, Distinct DEF FlushWrite, ShapeInv
  <2>3. flush' \subseteq flush
    BY <1>7 DEF FlushWrite
  <2>4. meta \in [Unit -> Hash \cup {None}]
    BY DEF Types, TreeTypes
  <2> QED
    BY <2>1, <2>2, <2>3, <2>4 DEF ShapeInv, Compiling, Linking
<1>8. ASSUME NEW u \in Unit, HashInput(u) PROVE ShapeInv'
  BY <1>8 DEF HashInput, ShapeInv, Compiling, Linking, tree, behind
<1>9. ASSUME PreLink PROVE ShapeInv'
  BY <1>9 DEF PreLink, ShapeInv, Compiling, Linking, tree, behind
<1>10. ASSUME Retrieve PROVE ShapeInv'
  BY <1>10 DEF Retrieve, ShapeInv, Compiling, Linking, behind
<1>11. ASSUME RetrieveFails PROVE ShapeInv'
  BY <1>11 DEF RetrieveFails, ShapeInv, Compiling, Linking, tree, behind
<1>12. ASSUME NEW u \in Unit, GetPending(u) PROVE ShapeInv'
  BY <1>12 DEF GetPending, Put, Kept, ShapeInv, Compiling, Linking, Types, TreeTypes,
               CacheTypes, behind
<1>13. ASSUME PendingFails PROVE ShapeInv'
  BY <1>13 DEF PendingFails, ShapeInv, Compiling, Linking, tree, behind
<1>14. ASSUME PreLinked PROVE ShapeInv'
  BY <1>14 DEF PreLinked, ShapeInv, Compiling, Linking, tree, behind
<1>15. ASSUME Link PROVE ShapeInv'
  BY <1>15 DEF Link, ShapeInv, Compiling, Types, TreeTypes, Linked
<1>16. ASSUME LinkFails PROVE ShapeInv'
  BY <1>16 DEF LinkFails, ShapeInv, Compiling, Linking, tree, behind
<1>17. ASSUME AddOutput PROVE ShapeInv'
  BY <1>17 DEF AddOutput, ShapeInv, Compiling, Linking, tree, behind
<1>18. ASSUME PostLink PROVE ShapeInv'
  BY <1>18 DEF PostLink, ShapeInv, Compiling, Linking, behind
<1>19. ASSUME PreInvokeCrash PROVE ShapeInv'
  BY <1>19 DEF PreInvokeCrash, ShapeInv, Compiling, Linking, behind
<1>20. ASSUME PostInvokeCrash PROVE ShapeInv'
  BY <1>20 DEF PostInvokeCrash, ShapeInv, Compiling, Linking, tree, build
<1>21. ASSUME PreLinkCrash PROVE ShapeInv'
  BY <1>21 DEF PreLinkCrash, ShapeInv, Compiling, Linking, behind
<1>22. ASSUME PostLinkCrash PROVE ShapeInv'
  BY <1>22 DEF PostLinkCrash, ShapeInv, Compiling, Linking, tree, behind
<1>23. ASSUME Lose PROVE ShapeInv'
  BY <1>23 DEF Lose, ShapeInv, Compiling, Linking, tree, build, behind
<1>24. ASSUME UNCHANGED vars PROVE ShapeInv'
  BY <1>24 DEF behind, vars, ShapeInv, Compiling, Linking, tree, build
<1> QED
  BY <1>1, <1>2, <1>3, <1>4, <1>5, <1>6, <1>7, <1>8, <1>9, <1>10, <1>11, <1>12,
     <1>13, <1>14, <1>15, <1>16, <1>17, <1>18, <1>19, <1>20, <1>21, <1>22, <1>23, <1>24 DEF Next

LEMMA TreeStep ==
    ~OldObjects /\ Types /\ ShapeInv /\ HashInv /\ TreeInv /\ [Next]_vars => TreeInv'
<1> SUFFICES ASSUME ~OldObjects, Types, ShapeInv, HashInv, TreeInv, [Next]_vars PROVE TreeInv'
  OBVIOUS
<1>1. ASSUME Begin PROVE TreeInv'
  BY <1>1 DEF Begin, TreeInv, Linking
<1>2. ASSUME NEW u \in Unit, PreInvoke(u) PROVE TreeInv'
  BY <1>2 DEF PreInvoke, Put, PutHash, Kept, TreeInv, Compiling, Linking, TreeTypes, Types
<1>3. ASSUME Compile PROVE TreeInv'
  BY <1>3, LinkAssumption DEF Compile, Compiled, Misses, TreeInv, Compiling, TreeTypes,
                              Types
<1>4. ASSUME CompileFails PROVE TreeInv'
  BY <1>4, LinkAssumption DEF CompileFails, Compiled, TreeInv, Compiling, Linking
<1>5. ASSUME NEW u \in Unit, Collect(u) PROVE TreeInv'
  BY <1>5 DEF Collect, TreeInv, Compiling, Linking, tree, build
<1>6. ASSUME NEW u \in Unit, FlushOpen(u) PROVE TreeInv'
  BY <1>6, LinkAssumption DEF FlushOpen, ShapeInv, TreeInv, Compiling, Linking, build
<1>7. ASSUME NEW u \in Unit, FlushWrite(u) PROVE TreeInv'
  BY <1>7, LinkAssumption DEF FlushWrite, ShapeInv, TreeInv, Compiling, Linking, build
<1>8. ASSUME NEW u \in Unit, HashInput(u) PROVE TreeInv'
  BY <1>8 DEF HashInput, TreeInv, Compiling, Linking, tree
<1>9. ASSUME PreLink PROVE TreeInv'
  BY <1>9 DEF PreLink, TreeInv, Compiling, Linking, tree
<1>10. ASSUME Retrieve PROVE TreeInv'
  BY <1>10 DEF Retrieve, TreeInv, Compiling, Linking
<1>11. ASSUME RetrieveFails PROVE TreeInv'
  BY <1>11 DEF RetrieveFails, TreeInv, Compiling, Linking, tree
<1>12. ASSUME NEW u \in Unit, GetPending(u) PROVE TreeInv'
  BY <1>12 DEF GetPending, Put, HashInv, TreeInv, Compiling, Linking
<1>13. ASSUME PendingFails PROVE TreeInv'
  BY <1>13 DEF PendingFails, TreeInv, Compiling, Linking, tree
<1>14. ASSUME PreLinked PROVE TreeInv'
  BY <1>14 DEF PreLinked, TreeInv, Compiling, Linking, tree
<1>15. ASSUME Link PROVE TreeInv'
  BY <1>15 DEF Link, TreeInv, Compiling, Linking
<1>16. ASSUME LinkFails PROVE TreeInv'
  BY <1>16 DEF LinkFails, TreeInv, Compiling, Linking, tree
<1>17. ASSUME AddOutput PROVE TreeInv'
  BY <1>17 DEF AddOutput, TreeInv, Compiling, Linking, tree
<1>18. ASSUME PostLink PROVE TreeInv'
  BY <1>18 DEF PostLink, TreeInv, Compiling, Linking
<1>19. ASSUME PreInvokeCrash PROVE TreeInv'
  BY <1>19 DEF PreInvokeCrash, TreeInv, Linking, tree
<1>20. ASSUME PostInvokeCrash PROVE TreeInv'
  BY <1>20 DEF PostInvokeCrash, TreeInv, Compiling, Linking, tree, build
<1>21. ASSUME PreLinkCrash PROVE TreeInv'
  BY <1>21 DEF PreLinkCrash, TreeInv, Compiling, Linking
<1>22. ASSUME PostLinkCrash PROVE TreeInv'
  BY <1>22 DEF PostLinkCrash, TreeInv, Compiling, Linking, tree
<1>23. ASSUME Lose PROVE TreeInv'
  BY <1>23 DEF Lose, TreeInv, Compiling, Linking, tree, build
<1>24. ASSUME UNCHANGED vars PROVE TreeInv'
  BY <1>24 DEF build, vars, TreeInv, Compiling, Linking, tree
<1> QED
  BY <1>1, <1>2, <1>3, <1>4, <1>5, <1>6, <1>7, <1>8, <1>9, <1>10, <1>11, <1>12,
     <1>13, <1>14, <1>15, <1>16, <1>17, <1>18, <1>19, <1>20, <1>21, <1>22, <1>23, <1>24 DEF Next

LEMMA HashStep ==
    Types /\ ShapeInv /\ TreeInv /\ HashInv /\ [Next]_vars => HashInv'
<1> SUFFICES ASSUME Types, ShapeInv, TreeInv, HashInv, [Next]_vars PROVE HashInv'
  OBVIOUS
<1>1. ASSUME Begin PROVE HashInv'
  BY <1>1 DEF Begin, HashInv
<1>2. ASSUME NEW u \in Unit, PreInvoke(u) PROVE HashInv'
  BY <1>2 DEF PreInvoke, HashInv, Compiling
<1>3. ASSUME Compile PROVE HashInv'
  BY <1>3 DEF Compile, HashInv, Compiling
<1>4. ASSUME CompileFails PROVE HashInv'
  BY <1>4 DEF CompileFails, HashInv, Compiling
<1>5. ASSUME NEW u \in Unit, Collect(u) PROVE HashInv'
  BY <1>5 DEF Collect, HashInv, Hashed, Compiling, tree, build, aux
<1>6. ASSUME NEW u \in Unit, FlushOpen(u) PROVE HashInv'
  BY <1>6 DEF FlushOpen, HashInv, Hashed, Compiling, build, aux
<1>7. ASSUME NEW u \in Unit, FlushWrite(u) PROVE HashInv'
  BY <1>7 DEF FlushWrite, HashInv, Hashed, Compiling, build, aux
<1>8. ASSUME NEW u \in Unit, HashInput(u) PROVE HashInv'
  <2>1. /\ pc' = pc /\ obj' = obj /\ src' = src /\ Linking
        /\ todo' = todo \ {u} /\ hashes' = [hashes EXCEPT ![u] = HashOf(u)]
        /\ pending' = IF obj[u] = Empty THEN pending \cup {u} ELSE pending
        /\ torn' = (torn \/ HashOf(u) = Torn)
    BY <1>8 DEF HashInput, tree, Linking
  <2>2. HashOf(u) \in {src[u], Torn} /\ (obj[u] = Empty => HashOf(u) = src[u])
    BY <2>1, Distinct DEF HashOf, TreeInv, Types, TreeTypes
  <2>3. hashes \in [Unit -> Hash] /\ pc \in {"prelink", "postlink"}
    BY <1>8 DEF HashInput, Types, BuildTypes
  <2>4. \A w \in Unit \ todo' : Hashed(w)'
    BY <2>1, <2>2, <2>3 DEF HashInv, Hashed
  <2>5. pc = "prelink" =>
          /\ \A w \in Unit \ todo' : obj[w] = Empty => w \in pending'
          /\ \A w \in pending' : obj[w] = Empty /\ hashes'[w] = src[w]
    BY <2>1, <2>2, <2>3 DEF HashInv, Types, BuildTypes
  <2> QED
    BY <2>1, <2>3, <2>4, <2>5 DEF HashInv, Compiling
<1>9. ASSUME PreLink PROVE HashInv'
  BY <1>9 DEF PreLink, HashInv, Hashed, Compiling, tree, aux
<1>10. ASSUME Retrieve PROVE HashInv'
  BY <1>10 DEF Retrieve, HashInv, Compiling
<1>11. ASSUME RetrieveFails PROVE HashInv'
  BY <1>11 DEF RetrieveFails, HashInv, Hashed, Compiling, tree, aux
<1>12. ASSUME NEW u \in Unit, GetPending(u) PROVE HashInv'
  BY <1>12, LinkAssumption DEF GetPending, Put, Kept, HashInv, Hashed, Compiling,
                               TreeTypes, Types, aux
<1>13. ASSUME PendingFails PROVE HashInv'
  BY <1>13 DEF PendingFails, HashInv, Compiling
<1>14. ASSUME PreLinked PROVE HashInv'
  BY <1>14 DEF PreLinked, HashInv
<1>15. ASSUME Link PROVE HashInv'
  BY <1>15 DEF Link, HashInv
<1>16. ASSUME LinkFails PROVE HashInv'
  BY <1>16 DEF LinkFails, HashInv, Compiling
<1>17. ASSUME AddOutput PROVE HashInv'
  BY <1>17 DEF AddOutput, HashInv, Hashed, Compiling, tree, aux
<1>18. ASSUME PostLink PROVE HashInv'
  BY <1>18 DEF PostLink, HashInv, Compiling
<1>19. ASSUME PreInvokeCrash PROVE HashInv'
  BY <1>19 DEF PreInvokeCrash, HashInv, Compiling
<1>20. ASSUME PostInvokeCrash PROVE HashInv'
  BY <1>20 DEF PostInvokeCrash, HashInv, Hashed, Compiling, tree, build
<1>21. ASSUME PreLinkCrash PROVE HashInv'
  BY <1>21 DEF PreLinkCrash, HashInv, Compiling
<1>22. ASSUME PostLinkCrash PROVE HashInv'
  BY <1>22 DEF PostLinkCrash, HashInv, Compiling
<1>23. ASSUME Lose PROVE HashInv'
  BY <1>23 DEF Lose, HashInv, Hashed, Compiling, tree, build
<1>24. ASSUME UNCHANGED vars PROVE HashInv'
  BY <1>24 DEF aux, vars, HashInv, Hashed, Compiling, tree, build
<1> QED
  BY <1>1, <1>2, <1>3, <1>4, <1>5, <1>6, <1>7, <1>8, <1>9, <1>10, <1>11, <1>12,
     <1>13, <1>14, <1>15, <1>16, <1>17, <1>18, <1>19, <1>20, <1>21, <1>22, <1>23, <1>24 DEF Next

LEMMA ExeStep ==
    Types /\ TreeInv /\ HashInv /\ ExeInv /\ [Next]_vars => ExeInv'
<1> SUFFICES ASSUME Types, TreeInv, HashInv, ExeInv, [Next]_vars PROVE ExeInv'
  OBVIOUS
<1>1. ASSUME Begin PROVE ExeInv'
  BY <1>1 DEF Begin, ExeInv, LinkedIsCurrent, EntriesAreSound, Finished, cache
<1>2. ASSUME NEW u \in Unit, PreInvoke(u) PROVE ExeInv'
  BY <1>2 DEF PreInvoke, ExeInv, LinkedIsCurrent, EntriesAreSound, Finished, cache
<1>3. ASSUME Compile PROVE ExeInv'
  BY <1>3 DEF Compile, ExeInv, LinkedIsCurrent, EntriesAreSound, Finished, cache
<1>4. ASSUME CompileFails PROVE ExeInv'
  BY <1>4 DEF CompileFails, ExeInv, LinkedIsCurrent, EntriesAreSound, Finished, cache
<1>5. ASSUME NEW u \in Unit, Collect(u) PROVE ExeInv'
  BY <1>5 DEF Collect, ExeInv, LinkedIsCurrent, EntriesAreSound, Finished, Current, tree,
              build, aux
<1>6. ASSUME NEW u \in Unit, FlushOpen(u) PROVE ExeInv'
  BY <1>6 DEF FlushOpen, ExeInv, LinkedIsCurrent, EntriesAreSound, Finished, Current,
              cache, build, aux
<1>7. ASSUME NEW u \in Unit, FlushWrite(u) PROVE ExeInv'
  BY <1>7 DEF FlushWrite, ExeInv, LinkedIsCurrent, EntriesAreSound, Finished, Current,
              cache, build, aux
<1>8. ASSUME NEW u \in Unit, HashInput(u) PROVE ExeInv'
  BY <1>8 DEF HashInput, ExeInv, LinkedIsCurrent, EntriesAreSound, Finished, Current,
              tree, cache
<1>9. ASSUME PreLink PROVE ExeInv'
  <2>1. ASSUME ~torn, pc' = "retrieve" PROVE entry' = Current'
    <3>1. PICK e \in links : Matches(e) /\ entry' = e.output
      BY <1>9, <2>1 DEF PreLink
    <3>2. hashes = src
      BY <1>9, <2>1, HashesAreRight DEF PreLink
    <3>3. \A u \in Unit : e.inputs[u] # Torn
      BY <3>1, <3>2, Distinct DEF Matches, Types, TreeTypes
    <3>4. e.output = [objs |-> src, lib |-> lib]
      BY <3>1, <3>2, <3>3 DEF Matches, ExeInv, EntriesAreSound
    <3> QED
      BY <1>9, <3>1, <3>4 DEF PreLink, Current, tree
  <2>2. pc' # "idle" /\ pc' \notin {"postlink", "publish"}
    BY <1>9 DEF PreLink
  <2>3. UNCHANGED <<tree, cache, built, aux>>
    BY <1>9 DEF PreLink
  <2>4. ~built
    BY <1>9 DEF PreLink, ExeInv
  <2> QED
    BY <2>1, <2>2, <2>3, <2>4 DEF ExeInv, LinkedIsCurrent, EntriesAreSound, Finished, Current,
                                  tree, cache, aux
<1>10. ASSUME Retrieve PROVE ExeInv'
  BY <1>10, LinkAssumption DEF Retrieve, ExeKept, ExeInv, LinkedIsCurrent,
                               EntriesAreSound, Current, CacheTypes, Types, cache, aux
<1>11. ASSUME RetrieveFails PROVE ExeInv'
  BY <1>11 DEF RetrieveFails, ExeInv, LinkedIsCurrent, EntriesAreSound, Finished, tree,
               cache
<1>12. ASSUME NEW u \in Unit, GetPending(u) PROVE ExeInv'
  BY <1>12 DEF GetPending, ExeInv, LinkedIsCurrent, EntriesAreSound, Finished, cache
<1>13. ASSUME PendingFails PROVE ExeInv'
  BY <1>13 DEF PendingFails, ExeInv, LinkedIsCurrent, EntriesAreSound, Finished, tree,
               cache
<1>14. ASSUME PreLinked PROVE ExeInv'
  BY <1>14 DEF PreLinked, ExeInv, LinkedIsCurrent, EntriesAreSound, Finished, tree, cache
<1>15. ASSUME Link PROVE ExeInv'
  BY <1>15, LinkAssumption DEF Link, ExeInv, TreeInv, LinkedIsCurrent, EntriesAreSound,
                               Current, Linking, TreeTypes, Types, cache
<1>16. ASSUME LinkFails PROVE ExeInv'
  BY <1>16 DEF LinkFails, ExeInv, LinkedIsCurrent, EntriesAreSound, Finished, tree, cache
<1>17. ASSUME AddOutput PROVE ExeInv'
  BY <1>17 DEF AddOutput, ExeInv, LinkedIsCurrent, EntriesAreSound, Current, tree
<1>18. ASSUME PostLink PROVE ExeInv'
  BY <1>18 DEF PostLink, Published, ExeInv, HashInv, Hashed, LinkedIsCurrent,
               EntriesAreSound, Current, TreeTypes, BuildTypes, Types
<1>19. ASSUME PreInvokeCrash PROVE ExeInv'
  BY <1>19 DEF PreInvokeCrash, ExeInv, LinkedIsCurrent, EntriesAreSound, Finished, tree,
               cache
<1>20. ASSUME PostInvokeCrash PROVE ExeInv'
  BY <1>20 DEF PostInvokeCrash, ExeInv, LinkedIsCurrent, EntriesAreSound, Finished,
               Current, tree, cache, build
<1>21. ASSUME PreLinkCrash PROVE ExeInv'
  BY <1>21 DEF PreLinkCrash, ExeInv, LinkedIsCurrent, EntriesAreSound, Finished, cache
<1>22. ASSUME PostLinkCrash PROVE ExeInv'
  BY <1>22 DEF PostLinkCrash, ExeInv, LinkedIsCurrent, EntriesAreSound, Current, tree,
               cache
<1>23. ASSUME Lose PROVE ExeInv'
  BY <1>23 DEF Lose, ExeInv, LinkedIsCurrent, EntriesAreSound, Finished, Current, tree,
               build
<1>24. ASSUME UNCHANGED vars PROVE ExeInv'
  BY <1>24 DEF aux, vars, ExeInv, LinkedIsCurrent, EntriesAreSound, Finished, Current,
               tree, cache, build
<1> QED
  BY <1>1, <1>2, <1>3, <1>4, <1>5, <1>6, <1>7, <1>8, <1>9, <1>10, <1>11, <1>12,
     <1>13, <1>14, <1>15, <1>16, <1>17, <1>18, <1>19, <1>20, <1>21, <1>22, <1>23, <1>24 DEF Next

LEMMA CacheStep ==
    Types /\ TreeInv /\ HashInv /\ ExeInv /\ CacheInv /\ [Next]_vars => CacheInv'
<1> SUFFICES ASSUME Types, TreeInv, HashInv, ExeInv, CacheInv, [Next]_vars PROVE CacheInv'
  OBVIOUS
<1>1. ASSUME Begin PROVE CacheInv'
  BY <1>1 DEF Begin, CacheInv, Finished
<1>2. ASSUME NEW u \in Unit, PreInvoke(u) PROVE CacheInv'
  BY <1>2 DEF PreInvoke, CacheInv, Finished, cache, aux
<1>3. ASSUME Compile PROVE CacheInv'
  BY <1>3 DEF Compile, CacheInv, Finished, cache, aux
<1>4. ASSUME CompileFails PROVE CacheInv'
  BY <1>4 DEF CompileFails, CacheInv, ExeInv, Finished
<1>5. ASSUME NEW u \in Unit, Collect(u) PROVE CacheInv'
  BY <1>5 DEF Collect, CacheInv, Finished, Matches, tree, build, aux
<1>6. ASSUME NEW u \in Unit, FlushOpen(u) PROVE CacheInv'
  BY <1>6 DEF FlushOpen, CacheInv, Finished, Matches, cache, build, aux
<1>7. ASSUME NEW u \in Unit, FlushWrite(u) PROVE CacheInv'
  BY <1>7 DEF FlushWrite, CacheInv, Finished, Matches, cache, build, aux
<1>8. ASSUME NEW u \in Unit, HashInput(u) PROVE CacheInv'
  BY <1>8 DEF HashInput, CacheInv, Finished, tree, cache
<1>9. ASSUME PreLink PROVE CacheInv'
  BY <1>9 DEF PreLink, Matches, CacheInv, Finished, tree, cache, aux
<1>10. ASSUME Retrieve PROVE CacheInv'
  BY <1>10, LinkAssumption DEF Retrieve, ExeKept, CacheInv, ExeInv, HashInv, Hashed,
                               Matches, TreeTypes, CacheTypes, BuildTypes, Types, cache,
                               aux
<1>11. ASSUME RetrieveFails PROVE CacheInv'
  BY <1>11 DEF RetrieveFails, CacheInv, Finished, tree, cache, aux
<1>12. ASSUME NEW u \in Unit, GetPending(u) PROVE CacheInv'
  BY <1>12 DEF GetPending, CacheInv, Finished, cache, aux
<1>13. ASSUME PendingFails PROVE CacheInv'
  BY <1>13 DEF PendingFails, CacheInv, HashInv, TreeInv, Linking, BuildTypes, Types, aux
<1>14. ASSUME PreLinked PROVE CacheInv'
  BY <1>14 DEF PreLinked, CacheInv, HashInv, TreeInv, Finished, Linking, TreeTypes, Types,
               tree
<1>15. ASSUME Link PROVE CacheInv'
  BY <1>15 DEF Link, CacheInv, Finished
<1>16. ASSUME LinkFails PROVE CacheInv'
  BY <1>16 DEF LinkFails, CacheInv, aux
<1>17. ASSUME AddOutput PROVE CacheInv'
  BY <1>17 DEF AddOutput, CacheInv, Finished, tree
<1>18. ASSUME PostLink PROVE CacheInv'
  <2> DEFINE e == [inputs |-> hashes, lib |-> lib, output |-> exe]
  <2>1. ASSUME ~hurt PROVE exe \in exes
    BY <1>18, <2>1 DEF PostLink, CacheInv
  <2>2. ASSUME ~torn PROVE hashes = src
    BY <1>18, <2>2, HashesAreRight DEF PostLink, HashInv
  <2>3. e \in links' /\ e.inputs = hashes /\ e.lib = lib /\ e.output = exe
    BY <1>18 DEF PostLink, Published
  <2>4. UNCHANGED <<src, lib, exe, exes, aux>> /\ pc' = "idle"
    BY <1>18 DEF PostLink
  <2>5. ~hurt /\ ~torn =>
          exe' \in exes' /\ \E x \in links' : x.inputs = src' /\ x.lib = lib' /\ x.output = exe'
    BY <2>1, <2>2, <2>3, <2>4
  <2> QED
    BY <2>4, <2>5 DEF CacheInv, aux
<1>19. ASSUME PreInvokeCrash PROVE CacheInv'
  BY <1>19 DEF PreInvokeCrash, Fails, CacheInv
<1>20. ASSUME PostInvokeCrash PROVE CacheInv'
  BY <1>20 DEF PostInvokeCrash, Fails, CacheInv
<1>21. ASSUME PreLinkCrash PROVE CacheInv'
  BY <1>21 DEF PreLinkCrash, Fails, CacheInv
<1>22. ASSUME PostLinkCrash PROVE CacheInv'
  BY <1>22 DEF PostLinkCrash, Fails, CacheInv
<1>23. ASSUME Lose PROVE CacheInv'
  BY <1>23 DEF Lose, Fails, CacheInv
<1>24. ASSUME UNCHANGED vars PROVE CacheInv'
  BY <1>24 DEF aux, vars, CacheInv, Finished, Matches, tree, cache, build
<1> QED
  BY <1>1, <1>2, <1>3, <1>4, <1>5, <1>6, <1>7, <1>8, <1>9, <1>10, <1>11, <1>12,
     <1>13, <1>14, <1>15, <1>16, <1>17, <1>18, <1>19, <1>20, <1>21, <1>22, <1>23, <1>24 DEF Next

LinkInv == TypeOK /\ ShapeInv /\ TreeInv /\ HashInv /\ ExeInv /\ CacheInv

LEMMA Start == Init => LinkInv
<1> SUFFICES ASSUME Init PROVE LinkInv
  OBVIOUS
<1>1. TypeOK
  <2>1. TreeTypes /\ BuildTypes
    BY DEF Init, TreeTypes, BuildTypes, Hash
  <2>2. CacheTypes
    BY DEF Init, CacheTypes
  <2>3. RestTypes
    <3>1. builds \in 0..MaxBuilds /\ faults \in 0..MaxFaults
      BY LinkAssumption DEF Init
    <3> QED
      BY <3>1 DEF Init, RestTypes
  <2> QED
    BY <2>1, <2>2, <2>3, TypesAreAll DEF Types
<1>2. ShapeInv /\ TreeInv
  BY Distinct DEF Init, ShapeInv, TreeInv, Compiling, Linking
<1>3. HashInv /\ ExeInv /\ CacheInv
  BY DEF Init, HashInv, ExeInv, CacheInv, Compiling, Finished, LinkedIsCurrent, EntriesAreSound
<1> QED
  BY <1>1, <1>2, <1>3 DEF LinkInv

LEMMA TypesAreAllNext == Types' => TypeOK'
BY DEF TypeOK, Types, TreeTypes, CacheTypes, BuildTypes, RestTypes

\* The variables have their types, with the objects of earlier builds or without.
THEOREM Typed == Spec => []TypeOK
<1>1. Init => TypeOK /\ ShapeInv
  BY Start DEF LinkInv
<1>2. TypeOK /\ ShapeInv /\ [Next]_vars => (TypeOK /\ ShapeInv)'
  BY TypeStep, ShapeStep, TypesAreAll, TypesAreAllNext
<1> QED
  BY <1>1, <1>2, PTL DEF Spec

LEMMA AlwaysLinkInv == ASSUME ~OldObjects PROVE Spec => []LinkInv
<1>1. LinkInv /\ [Next]_vars => LinkInv'
  <2> SUFFICES ASSUME LinkInv, [Next]_vars PROVE LinkInv'
    OBVIOUS
  <2>1. Types /\ ShapeInv /\ TreeInv /\ HashInv /\ ExeInv /\ CacheInv
    BY TypesAreAll DEF LinkInv
  <2>2. TypeOK' /\ ShapeInv'
    BY <2>1, TypeStep, ShapeStep, TypesAreAll, TypesAreAllNext
  <2>3. TreeInv' /\ HashInv'
    BY <2>1, TreeStep, HashStep
  <2>4. ExeInv' /\ CacheInv'
    BY <2>1, ExeStep, CacheStep
  <2> QED
    BY <2>2, <2>3, <2>4 DEF LinkInv
<1> QED
  BY <1>1, Start, PTL DEF Spec

\* A build that succeeds leaves what linking its sources gives, when no stream was
\* read before it was written: whether the objects are there or only their hashes,
\* whatever processes end early and whatever is lost.
THEOREM LinkedRight == ASSUME ~OldObjects PROVE Spec => []LinkedIsCurrent
<1>1. LinkInv => LinkedIsCurrent
  BY DEF LinkInv, ExeInv
<1> QED
  BY <1>1, AlwaysLinkInv, PTL

\* An entry names the objects and the library that its output was linked from.
THEOREM EntriesRight == ASSUME ~OldObjects PROVE Spec => []EntriesAreSound
<1>1. LinkInv => EntriesAreSound
  BY DEF LinkInv, ExeInv
<1> QED
  BY <1>1, AlwaysLinkInv, PTL

\* What has been built is a hit the next time, if nothing has gone wrong.
THEOREM FinishedIsCached == ASSUME ~OldObjects PROVE Spec => []LinkIsCached
<1>1. LinkInv => LinkIsCached
  BY DEF LinkInv, CacheInv, LinkIsCached
<1> QED
  BY <1>1, AlwaysLinkInv, PTL

\* The linker finds every object that was a hit and was not retrieved.
THEOREM ObjectsAreFound == ASSUME ~OldObjects PROVE Spec => []LinksSucceed
<1>1. LinkInv => LinksSucceed
  BY DEF LinkInv, CacheInv, LinksSucceed
<1> QED
  BY <1>1, AlwaysLinkInv, PTL
=============================================================================
