--------------------------- MODULE MemcacheProofs ---------------------------
(***************************************************************************)
(* A cache in memcached, for any number of machines, keys, files and       *)
(* servers.                                                                *)
(*                                                                         *)
(* MemcacheStore, without any lock: a manifest has one entry for each      *)
(* state of the headers; what is retrieved is the object that was asked    *)
(* for, because joining the slices of a file gives the file; entries keep  *)
(* their objects as long as memcached keeps its items; and what a machine  *)
(* builds alone is a hit afterwards.                                       *)
(*                                                                         *)
(* MemcacheClient: the clients keep the promise of KeyValueCalls.          *)
(***************************************************************************)
EXTENDS MemcacheStore, MemcacheClient, SequenceTheorems, FiniteSetTheorems,
        WellFoundedInduction, TLAPS

Unique(es) == \A e, f \in es : e.dependency = f.dependency => e = f

\* The manifests are as they should be, and so is every copy that a process is
\* about to change and write back, however old it is
ManifestInv ==
    /\ manifest = [u \in Unit |-> manifest[u]]
    /\ copy = [m \in Machine |-> copy[m]]
    /\ unit \in [Machine -> Unit]
    /\ \A u \in Unit : Unique(manifest[u])
    /\ \A m \in Machine : Unique(copy[m])

\* What is written back has one entry for each state of the headers.
LEMMA PublishedUnique ==
    ASSUME NEW m \in Machine, Unique(copy[m])
    PROVE  Unique(Published(m))
BY DEF Unique, Published

LEMMA ManifestInit == Init => ManifestInv
<1> SUFFICES ASSUME Init PROVE ManifestInv
  OBVIOUS
<1>1. (CHOOSE u \in Unit : TRUE) \in Unit
  BY StoreAssumption
<1>2. unit \in [Machine -> Unit]
  BY <1>1 DEF Init
<1> QED
  BY <1>2 DEF Init, ManifestInv, Unique

\* A step that leaves the manifests and the copies alone
LEMMA Untouched ==
    ASSUME ManifestInv, UNCHANGED <<manifest, copy>>, unit' \in [Machine -> Unit]
    PROVE  ManifestInv'
BY DEF ManifestInv

LEMMA ManifestStep == ManifestInv /\ [Next]_vars => ManifestInv'
<1> SUFFICES ASSUME ManifestInv, [Next]_vars PROVE ManifestInv'
  OBVIOUS
<1>0. unit \in [Machine -> Unit]
  BY DEF ManifestInv
<1>1. ASSUME NEW m \in Machine, PubRead(m) PROVE ManifestInv'
  <2>1. PICK es \in {manifest[unit[m]], {}} : copy' = [copy EXCEPT ![m] = es]
    BY <1>1 DEF PubRead
  <2>2. Unique(es)
    BY <1>0, <1>1 DEF ManifestInv, Unique
  <2>3. UNCHANGED <<manifest, unit>>
    BY <1>1 DEF PubRead, server
  <2> QED
    BY <2>1, <2>2, <2>3 DEF ManifestInv
<1>2. ASSUME NEW m \in Machine, PubWrite(m) PROVE ManifestInv'
  <2>1. CASE manifest' = [manifest EXCEPT ![unit[m]] = Published(m)]
    <3>1. Unique(Published(m))
      BY PublishedUnique DEF ManifestInv
    <3>2. UNCHANGED <<copy, unit>>
      BY <1>2 DEF PubWrite
    <3> QED
      BY <2>1, <3>1, <3>2 DEF ManifestInv
  <2>2. CASE UNCHANGED manifest
    BY <1>2, <2>2 DEF PubWrite, ManifestInv
  <2> QED
    BY <1>2, <2>1, <2>2 DEF PubWrite
<1>3. CASE Evict
  <2>1. CASE \E u \in Unit : manifest' = [manifest EXCEPT ![u] = {}]
    <3>1. UNCHANGED <<copy, unit>>
      BY <1>3 DEF Evict
    <3> QED
      BY <2>1, <3>1 DEF ManifestInv, Unique
  <2>2. CASE UNCHANGED manifest
    BY <1>3, <2>2 DEF Evict, ManifestInv
  <2> QED
    BY <1>3, <2>1, <2>2 DEF Evict
<1>4. CASE Clear
  BY <1>4 DEF Clear, ManifestInv, Unique
\* Looking for a unit and collecting one choose it among Unit
<1>5. ASSUME NEW m \in Machine, NEW u \in Unit, Lookup(m, u) \/ Get(m, u) \/ Collect(m, u)
      PROVE  ManifestInv'
  <2>1. UNCHANGED <<manifest, copy>>
    BY <1>5 DEF Lookup, Get, Collect, server
  <2>2. unit' \in [Machine -> Unit]
    BY <1>0, <1>5 DEF Lookup, Get, Collect
  <2> QED
    BY <2>1, <2>2, Untouched
<1>6. ASSUME NEW m \in Machine, Begin(m) \/ LookedUp(m) \/ Compile(m) \/ Collected(m)
      PROVE  UNCHANGED <<manifest, copy, unit>>
  BY <1>6 DEF Begin, LookedUp, Compile, Collected, server
<1>7. ASSUME NEW m \in Machine,
             HasKnown(m) \/ HasItem(m) \/ HasDescriptor(m) \/ HasSlice(m)
      PROVE  UNCHANGED <<manifest, copy, unit>>
  BY <1>7 DEF HasKnown, HasItem, HasDescriptor, HasSlice, server
<1>8. ASSUME NEW m \in Machine, Fetch(m) \/ FetchDescriptor(m) \/ FetchSlices(m)
      PROVE  UNCHANGED <<manifest, copy, unit>>
  BY <1>8 DEF Fetch, FetchDescriptor, FetchSlices, server
<1>9. ASSUME NEW m \in Machine,
             StoreWhole(m) \/ StoreBig(m) \/ StoreSlice(m) \/ StoreDescriptor(m)
      PROVE  UNCHANGED <<manifest, copy, unit>>
  BY <1>9 DEF StoreWhole, StoreBig, StoreSlice, StoreDescriptor, server
<1>10. ASSUME NEW m \in Machine, PreCrash(m) \/ PostCrash(m)
       PROVE  UNCHANGED <<manifest, copy, unit>>
  BY <1>10 DEF PreCrash, PostCrash, server
<1>11. CASE UNCHANGED vars
  BY <1>0, <1>11, Untouched DEF vars, server
<1> QED
  BY <1>0, <1>1, <1>2, <1>3, <1>4, <1>5, <1>6, <1>7, <1>8, <1>9, <1>10, <1>11, Untouched
  DEF Next

\* For any number of machines, whatever is lost or fails and however old the
\* copy is that a machine writes back, a manifest has one entry for each state of
\* the headers (addEntry is only called when no entry has these headers).
THEOREM OneEntryPerHeader == Spec => []UniqueDeps
<1>1. ManifestInv => UniqueDeps
  BY DEF ManifestInv, UniqueDeps, Unique
<1> QED
  BY <1>1, ManifestInit, ManifestStep, PTL DEF Spec

-----------------------------------------------------------------------------
(* Slices.                                                                 *)

\* Every nonempty set of natural numbers has a least element.
LEMMA LeastElement ==
    ASSUME NEW T, T \subseteq Nat, T # {}
    PROVE  \E x \in T : \A y \in T : x <= y
  <1> DEFINE R == {ss \in Nat \X Nat : ss[1] < ss[2]}
  <1>1. R = OpToRel(<, Nat)
    BY DEF OpToRel
  <1>2. IsWellFoundedOn(R, Nat)
    BY <1>1, NatLessThanWellFounded
  <1> HIDE DEF R
  <1>3. PICK x \in T : \A y \in T : ~ (<<y, x>> \in R)
    BY <1>2, WFMin, Zenon
  <1>4. ASSUME NEW y \in T PROVE x <= y
    <2>1. x \in Nat /\ y \in Nat
      OBVIOUS
    <2>2. ~(y < x)
      BY <1>3, <2>1 DEF R
    <2> QED BY <2>1, <2>2
  <1> QED BY <1>4

\* Joining is what a list w of the joined beginnings ends with.
LEMMA FlattenIs ==
    ASSUME NEW n \in Nat \ {0}, NEW s, s = [i \in 1..n |-> s[i]],
           NEW w, w = [i \in 1..n |-> IF i = 1 THEN s[i] ELSE w[i - 1] \o s[i]]
    PROVE  FlattenSeq(s) = w[n]
  <1> DEFINE Eqn(g) == g = [i \in 1..n |-> IF i = 1 THEN s[i] ELSE g[i - 1] \o s[i]]
             g == CHOOSE g : Eqn(g)
  <1>1. Len(s) = n
    OBVIOUS
  <1>2. Eqn(w)
    OBVIOUS
  <1>3. Eqn(g)
    BY <1>2
  <1>4. FlattenSeq(s) = g[n]
    BY <1>1 DEF FlattenSeq
  <1> HIDE DEF g
  <1>5. ASSUME g[n] # w[n] PROVE FALSE
    <2> DEFINE T == {i \in 1..n : g[i] # w[i]}
    <2>1. PICK x \in T : \A y \in T : x <= y
      <3>1. T \subseteq Nat /\ n \in T
        BY <1>5
      <3> QED BY <3>1, LeastElement
    <2>2. CASE x = 1
      BY <1>2, <1>3, <2>1, <2>2
    <2>3. CASE x # 1
      <3>1. x \in Nat /\ 1 < x /\ x <= n
        BY <2>1, <2>3
      <3>2. x - 1 \notin T
        <4>1. ~(x <= x - 1)
          BY <3>1
        <4> QED BY <2>1, <4>1
      <3>4. x - 1 \in 1..n
        BY <3>1
      <3>5. g[x - 1] = w[x - 1]
        BY <3>2, <3>4
      <3>3. g[x] = g[x - 1] \o s[x] /\ w[x] = w[x - 1] \o s[x]
        BY <1>2, <1>3, <2>1, <2>3
      <3> QED BY <2>1, <3>5, <3>3
    <2> QED BY <2>2, <2>3
  <1> QED BY <1>4, <1>5

\* Slices that are not empty are not empty together.
LEMMA ProductType ==
    ASSUME NEW a \in Nat \ {0}, NEW b \in Nat \ {0}
    PROVE  a * b \in Nat /\ a * b >= 1
OBVIOUS

\* How many slices of n blocks l blocks have: the last but one ends before them,
\* the last does not.
LEMMA SliceCount ==
    ASSUME NEW l \in Nat \ {0}, NEW n \in Nat \ {0}
    PROVE  /\ (l + n - 1) \div n \in Nat \ {0}
           /\ ((l + n - 1) \div n) * n >= l
           /\ \A i \in Nat : i < (l + n - 1) \div n => i * n < l
  <1> DEFINE a == l + n - 1  k == a \div n  r == a % n
  <1>1. a \in Nat /\ a >= n
    OBVIOUS
  <1>2. k \in Int /\ r \in Int
    BY <1>1
  <1>3. a = n * k + r /\ 0 <= r /\ r < n
    BY <1>1, <1>2
  <1> HIDE DEF k, r
  <1>4. k > 0
    <2>1. SUFFICES ASSUME k <= 0 PROVE FALSE
      BY <1>2
    <2>2. n * k <= 0
      BY <1>2, <2>1
    <2> QED BY <1>1, <1>2, <1>3, <2>2
  <1>5. k * n >= l
    <2>1. k * n = n * k
      BY <1>2
    <2>2. k * n \in Int
      BY <1>2
    <2> QED BY <1>2, <1>3, <2>1, <2>2
  <1>6. ASSUME NEW i \in Nat, i < k PROVE i * n < l
    <2>1. i + 1 <= k
      BY <1>2, <1>6
    <2>2. n * (i + 1) <= n * k
      BY <1>2, <2>1
    <2>3. n * (i + 1) = i * n + n
      OBVIOUS
    <2>4. n * k \in Int /\ i * n \in Int
      BY <1>2
    <2> QED BY <1>2, <1>3, <2>2, <2>3, <2>4
  <1>7. k = (l + n - 1) \div n
    BY DEF k
  <1> QED
    BY <1>2, <1>4, <1>5, <1>6, <1>7

\* The slices of a file, joined, are the file (store_file and fetch_file).
LEMMA SlicesJoin ==
    ASSUME NEW S, NEW c \in Seq(S), Len(c) > 0, NEW n \in Nat \ {0}
    PROVE  /\ Slices(c, n) = [i \in 1..Len(Slices(c, n)) |-> Slices(c, n)[i]]
           /\ Len(Slices(c, n)) \in Nat \ {0}
           /\ FlattenSeq(Slices(c, n)) = c
  <1> DEFINE l == Len(c)
             k == (l + n - 1) \div n
             end(i) == IF i * n < l THEN i * n ELSE l
             s == Slices(c, n)
             w == [i \in 1..k |-> SubSeq(c, 1, end(i))]
  <1>1. l \in Nat \ {0}
    OBVIOUS
  <1>2. k \in Nat \ {0} /\ k * n >= l /\ \A i \in Nat : i < k => i * n < l
    BY <1>1, SliceCount
  <1> HIDE DEF k
  <1>3. s = [i \in 1..k |-> SubSeq(c, (i - 1) * n + 1, end(i))]
    BY DEF Slices, k
  <1> HIDE DEF s
  <1>4. s = [i \in 1..k |-> s[i]] /\ Len(s) = k
    <2>1. k \in Nat
      BY <1>2
    <2> HIDE DEF end
    <2>2. s = [i \in 1..k |-> s[i]]
      BY <1>3
    <2>3. DOMAIN s = 1..k
      BY <2>2
    <2> QED BY <2>1, <2>2, <2>3
  <1>5. \A i \in 1..k : end(i) \in 1..l
    <2> SUFFICES ASSUME NEW i \in 1..k PROVE end(i) \in 1..l
      OBVIOUS
    <2>1. i * n \in Nat /\ i * n >= 1
      <3>1. i \in Nat \ {0}
        OBVIOUS
      <3> QED BY <3>1, ProductType
    <2> QED BY <1>1, <2>1
  <1>6. end(k) = l
    <2>1. k * n \in Nat
      BY <1>2
    <2> QED BY <1>1, <1>2, <2>1
  <1>7. ASSUME NEW i \in 1..k PROVE w[i] = IF i = 1 THEN s[i] ELSE w[i - 1] \o s[i]
    <2>1. CASE i = 1
      <3>1. (i - 1) * n + 1 = 1
        BY <2>1
      <3> QED BY <1>3, <2>1, <3>1
    <2>2. CASE i # 1
      <3> DEFINE m == (i - 1) * n
      <3>1. i - 1 \in 1..k /\ i - 1 < k /\ i - 1 \in Nat
        BY <1>2, <2>2
      <3>2. m < l /\ m \in Nat /\ m >= 1
        <4>1. i - 1 \in Nat \ {0}
          BY <3>1
        <4>2. m \in Nat /\ m >= 1
          BY <4>1, ProductType
        <4> QED BY <1>2, <3>1, <4>2
      <3>3. end(i - 1) = m
        BY <3>2
      <3>4. w[i - 1] = SubSeq(c, 1, m) /\ w[i] = SubSeq(c, 1, end(i))
        BY <3>1, <3>3
      <3>5. s[i] = SubSeq(c, m + 1, end(i))
        BY <1>3
      <3>6. m <= end(i)
        <4>1. i * n = m + n
          BY <1>2
        <4> QED BY <1>1, <3>2, <4>1
      <3>7. end(i) \in m..l
        BY <1>5, <3>2, <3>6
      <3> HIDE DEF m, end
      <3>8. SubSeq(c, 1, m) \o SubSeq(c, m + 1, end(i)) = SubSeq(c, 1, end(i))
        <4>1. 1 \in 1..Len(c) + 1 /\ m \in 1 - 1..Len(c) /\ end(i) \in m..Len(c)
          BY <1>1, <3>2, <3>7
        <4> QED BY <4>1, ConcatAdjacentSubSeq
      <3> QED BY <2>2, <3>4, <3>5, <3>8
    <2> QED BY <2>1, <2>2
  <1>8. w = [i \in 1..k |-> IF i = 1 THEN s[i] ELSE w[i - 1] \o s[i]]
    BY <1>7
  <1>9. w[k] = c
    <2>1. SubSeq(c, 1, Len(c)) = c
      BY SubSeqFull
    <2>2. k \in 1..k
      BY <1>2
    <2>3. w[k] = SubSeq(c, 1, end(k))
      BY <2>2
    <2> QED BY <1>6, <2>1, <2>3
  <1>10. FlattenSeq(s) = c
    <2> HIDE DEF w, s
    <2>1. k \in Nat \ {0}
      BY <1>2
    <2>2. s = [i \in 1..k |-> s[i]]
      BY <1>4 DEF s
    <2>3. FlattenSeq(s) = w[k]
      BY ONLY <1>8, <2>1, <2>2, FlattenIs, ZenonT(30)
    <2> QED BY <1>9, <2>3
  <1> QED
    BY <1>2, <1>4, <1>10 DEF s

-----------------------------------------------------------------------------
(* What is stored, and what each process knows, is right.                  *)

\* The descriptors of the file k that the machines may write
Descs(k) == {[hashes |-> Slices(k, ChunkSize(m)), size |-> Len(k)] : m \in Machine}

\* Each entry names an object that compiling u with its headers could give
Right(u, es) == \A e \in es : e.output \in Object[u][e.dependency]

Phases == {"idle", "lookup", "get", "has", "hasbig", "hasslices", "fetch", "fetchbig",
           "fetchslices", "collect", "store", "slices", "publish", "write"}

\* The steps that deal with the unit at hand
AtUnit == {"has", "hasbig", "hasslices", "fetch", "fetchbig", "fetchslices",
           "store", "slices", "publish", "write"}

ControlTypes ==
    /\ pc \in [Machine -> Phases] /\ mode \in [Machine -> {"get", "add"}]
    /\ todo \in [Machine -> SUBSET Unit] /\ unit \in [Machine -> Unit]
    /\ hits \in [Machine -> SUBSET Unit]
FileTypes ==
    /\ manifest \in [Unit -> SUBSET Entry] /\ copy \in [Machine -> SUBSET Entry]
    /\ file \in [Machine -> [Unit -> File \cup {None}]]
    /\ entry \in [Machine -> [Unit -> File \cup {None}]]
    /\ slices \in [Machine -> [hashes : Seq(Stored), size : Nat]]
OtherTypes ==
    /\ hdr \in [Machine -> Header] /\ bad \in [Machine -> BOOLEAN]
    /\ localCacheKeys = [m \in Machine |-> localCacheKeys[m]]
    /\ localCache = [m \in Machine |-> localCache[m]]
    /\ pipelined \in BOOLEAN
    /\ builds \in Nat /\ faults \in Nat /\ lost \in Nat
Types == ControlTypes /\ FileTypes /\ OtherTypes

ServerInv ==
    /\ \A k \in DOMAIN item : item[k] = k
    /\ \A k \in DOMAIN desc : k \in File /\ desc[k] \in Descs(k)
    /\ \A u \in Unit : Right(u, manifest[u])

\* Which process is at work, and what the one that retrieves has found
Getting(m) ==
    /\ pc[m] \in {"lookup", "get", "fetch", "fetchbig", "fetchslices"} => mode[m] = "get"
    /\ pc[m] \in {"collect", "store", "slices", "publish", "write"} => mode[m] = "add"
    /\ mode[m] = "get" =>
        /\ pc[m] = "lookup" => hits[m] = {}
        /\ pc[m] # "lookup" =>
            \A u \in todo[m] : entry[m][u] # None /\ u \notin hits[m]
        /\ \A u \in Unit : entry[m][u] # None => entry[m][u] \in Object[u][hdr[m]]
        /\ pc[m] \in AtUnit =>
            entry[m][unit[m]] # None /\ unit[m] \notin hits[m] /\ unit[m] \notin todo[m]

\* The object files
Made(m) ==
    /\ \A u \in hits[m] : file[m][u] \in Object[u][hdr[m]]
    /\ mode[m] = "add" => \A u \in Unit : file[m][u] \in Object[u][hdr[m]]

\* What the process has read
Holding(m) ==
    /\ \A k \in DOMAIN localCache[m] : localCache[m][k] \in {k, None}
    /\ pc[m] = "fetchslices" => slices[m] \in Descs(key(m))
    /\ pc[m] = "write" => Right(unit[m], copy[m])

MachineInv(m) == Getting(m) /\ Made(m) /\ Holding(m)

SoundInv == Types /\ ServerInv /\ \A m \in Machine : MachineInv(m)

LEMMA ChunkType == \A m \in Machine : ChunkSize(m) \in Nat \ {0}
BY StoreAssumption DEF ChunkSize

\* The object at hand is a file, and one that compiling the unit could give.
LEMMA KeyIsRight ==
    ASSUME Types, NEW m \in Machine, MachineInv(m), pc[m] \in AtUnit
    PROVE  key(m) \in File /\ key(m) # None /\ key(m) \in Object[unit[m]][hdr[m]]
  <1>1. unit[m] \in Unit /\ hdr[m] \in Header /\ mode[m] \in {"get", "add"}
    BY DEF Types, ControlTypes, FileTypes, OtherTypes
  <1>2. key(m) \in Object[unit[m]][hdr[m]]
    BY <1>1 DEF MachineInv, Getting, Made, key
  <1>3. key(m) \in File
    BY <1>1, <1>2 DEF File
  <1>4. None \notin File
    BY StoreAssumption DEF Stored
  <1> QED BY <1>2, <1>3, <1>4

\* The descriptors of a file are sequences of slices.
LEMMA DescsType ==
    ASSUME NEW k \in File, NEW d \in Descs(k)
    PROVE  /\ d \in [hashes : Seq(Stored), size : Nat]
           /\ d.size = Len(k)
           /\ Len(d.hashes) \in Nat \ {0}
           /\ d.hashes = [i \in 1..Len(d.hashes) |-> d.hashes[i]]
           /\ FlattenSeq(d.hashes) = k
  <1>1. k \in Seq(Range(k)) /\ Len(k) > 0 /\ Len(k) \in Nat
    BY StoreAssumption
  <1>2. PICK m \in Machine : d = [hashes |-> Slices(k, ChunkSize(m)), size |-> Len(k)]
    BY DEF Descs
  <1> DEFINE s == Slices(k, ChunkSize(m))
  <1>3. ChunkSize(m) \in Nat \ {0}
    BY ChunkType
  <1>4. s = [i \in 1..Len(s) |-> s[i]] /\ Len(s) \in Nat \ {0} /\ FlattenSeq(s) = k
    BY <1>1, <1>3, SlicesJoin
  <1>5. Range(s) \subseteq Stored
    BY DEF Stored
  <1>6. \A i \in 1..Len(s) : s[i] \in Stored
    BY <1>4, <1>5 DEF Range
  <1> HIDE DEF s
  <1>7. s \in Seq(Stored)
    BY <1>4, <1>6, IsASeq
  <1> QED
    BY <1>1, <1>2, <1>4, <1>7 DEF s

\* The slices of a file that the server has, joined, are the file, or the server
\* does not have all of them.
LEMMA JoinIs ==
    ASSUME ServerInv, NEW k \in File, NEW d \in Descs(k)
    PROVE  Join(d) = IF Range(d.hashes) \subseteq DOMAIN item THEN k ELSE None
  <1>1. CASE ~(Range(d.hashes) \subseteq DOMAIN item)
    BY <1>1 DEF Join
  <1>2. CASE Range(d.hashes) \subseteq DOMAIN item
    <2> DEFINE s == d.hashes
    <2>1. /\ Len(s) \in Nat \ {0} /\ s = [i \in 1..Len(s) |-> s[i]]
          /\ FlattenSeq(s) = k /\ d.size = Len(k)
      BY DescsType
    <2>2. \A i \in DOMAIN s : item[s[i]] = s[i]
      BY <1>2 DEF ServerInv, Range
    <2>3. [i \in DOMAIN s |-> item[s[i]]] = s
      <3>1. DOMAIN s = 1..Len(s)
        BY <2>1
      <3>2. [i \in DOMAIN s |-> item[s[i]]] = [i \in 1..Len(s) |-> s[i]]
        BY <2>2, <3>1
      <3> QED BY <2>1, <3>2
    <2> QED
      BY <1>2, <2>1, <2>3 DEF Join
  <1> QED BY <1>1, <1>2

\* What n holds stays as it is
Same(n) ==
    /\ hdr'[n] = hdr[n] /\ file'[n] = file[n] /\ pc'[n] = pc[n] /\ mode'[n] = mode[n]
    /\ todo'[n] = todo[n] /\ unit'[n] = unit[n] /\ entry'[n] = entry[n]
    /\ hits'[n] = hits[n]
    /\ localCacheKeys'[n] = localCacheKeys[n] /\ localCache'[n] = localCache[n]
    /\ slices'[n] = slices[n] /\ copy'[n] = copy[n] /\ bad'[n] = bad[n]

\* A step of the machine m
Step(m) ==
    \/ Begin(m) \/ LookedUp(m)
    \/ \E u \in Unit : Lookup(m, u) \/ Get(m, u) \/ Collect(m, u)
    \/ HasKnown(m) \/ HasItem(m) \/ HasDescriptor(m) \/ HasSlice(m)
    \/ Fetch(m) \/ FetchDescriptor(m) \/ FetchSlices(m)
    \/ Compile(m) \/ Collected(m)
    \/ StoreWhole(m) \/ StoreBig(m) \/ StoreSlice(m) \/ StoreDescriptor(m)
    \/ PubRead(m) \/ PubWrite(m)
    \/ PreCrash(m) \/ PostCrash(m)

\* What holds of a machine that has not moved still does.
LEMMA Unmoved ==
    ASSUME NEW n \in Machine, Same(n), MachineInv(n)
    PROVE  MachineInv(n)'
BY DEF Same, MachineInv, Getting, Made, Holding, key

\* A step of m leaves the other machines alone.
LEMMA OthersAreSame ==
    ASSUME Types, NEW m \in Machine, Step(m), NEW n \in Machine, n # m
    PROVE  Same(n)
  <1> USE DEF Same, Types, ControlTypes, FileTypes, OtherTypes, caches, counts
  <1>1. CASE Begin(m) \/ LookedUp(m)
    BY <1>1 DEF Begin, LookedUp, GoTo
  <1>2. ASSUME NEW u \in Unit, Lookup(m, u) \/ Get(m, u) \/ Collect(m, u) PROVE Same(n)
    BY <1>2 DEF Lookup, Get, Collect, GoTo
  <1>3. CASE HasKnown(m) \/ HasItem(m)
    BY <1>3 DEF HasKnown, HasItem, Answer, GoTo
  <1>4. CASE HasDescriptor(m) \/ HasSlice(m)
    BY <1>4 DEF HasDescriptor, HasSlice, Answer, GoTo
  <1>5. CASE Fetch(m) \/ FetchDescriptor(m) \/ FetchSlices(m)
    BY <1>5 DEF Fetch, FetchDescriptor, FetchSlices, Keep, GoTo
  <1>6. CASE Compile(m) \/ Collected(m)
    BY <1>6 DEF Compile, Collected, GoTo
  <1>7. CASE StoreWhole(m) \/ StoreBig(m)
    BY <1>7 DEF StoreWhole, StoreBig, Success, GoTo
  <1>8. CASE StoreSlice(m) \/ StoreDescriptor(m)
    BY <1>8 DEF StoreSlice, StoreDescriptor, Success, GoTo
  <1>9. CASE PubRead(m) \/ PubWrite(m)
    BY <1>9 DEF PubRead, PubWrite, GoTo
  <1>10. CASE PreCrash(m) \/ PostCrash(m)
    BY <1>10 DEF PreCrash, PostCrash, GoTo
  <1> QED
    BY <1>1, <1>2, <1>3, <1>4, <1>5, <1>6, <1>7, <1>8, <1>9, <1>10 DEF Step


\* The descriptor that a machine stores is one of the file's.
LEMMA DescriptorIs ==
    ASSUME Types, NEW m \in Machine, MachineInv(m), pc[m] \in {"store", "slices"}
    PROVE  /\ key(m) = file[m][unit[m]] /\ key(m) \in File
           /\ Descriptor(m) \in Descs(key(m))
           /\ Descriptor(m) \in [hashes : Seq(Stored), size : Nat]
  <1>1. key(m) = file[m][unit[m]]
    BY DEF MachineInv, Getting, key
  <1>2. key(m) \in File
    BY KeyIsRight DEF AtUnit
  <1>3. Descriptor(m) \in Descs(key(m))
    BY <1>1 DEF Descriptor, Descs
  <1> QED BY <1>1, <1>2, <1>3, DescsType

\* What a machine fetches is the file at hand, or nothing.
LEMMA FetchedIs ==
    ASSUME SoundInv, NEW m \in Machine,
           Fetch(m) \/ FetchDescriptor(m) \/ FetchSlices(m),
           pc'[m] = "get"
    PROVE  \E v \in {key(m), None} : Keep(m, v)
  <1>1. Types /\ MachineInv(m) /\ pc[m] \in {"fetch", "fetchbig", "fetchslices"}
    BY DEF SoundInv, Fetch, FetchDescriptor, FetchSlices, At
  <1>2. key(m) \in File
    BY <1>1, KeyIsRight DEF AtUnit
  <1>3. m \in DOMAIN pc
    BY <1>1 DEF Types, ControlTypes
  <1>4. CASE Fetch(m)
    BY <1>1, <1>3, <1>4 DEF Fetch, GoTo, SoundInv, ServerInv, MachineInv, Holding
  <1>5. CASE FetchDescriptor(m)
    BY <1>3, <1>5 DEF FetchDescriptor, GoTo
  <1>6. CASE FetchSlices(m)
    <2>1. slices[m] \in Descs(key(m))
      BY <1>1, <1>6 DEF FetchSlices, MachineInv, Holding, At
    <2>2. Join(slices[m]) \in {key(m), None}
      BY <1>2, <2>1, JoinIs DEF SoundInv
    <2> QED BY <1>6, <2>2 DEF FetchSlices
  <1> QED BY <1>4, <1>5, <1>6

LEMMA TailType ==
    ASSUME NEW d \in [hashes : Seq(Stored), size : Nat], d.hashes # <<>>
    PROVE  [d EXCEPT !.hashes = Tail(d.hashes)] \in [hashes : Seq(Stored), size : Nat]
  <1>1. Tail(d.hashes) \in Seq(Stored)
    BY HeadTailProperties
  <1> QED BY <1>1

LEMMA TypesInit == Init => Types
  <1> SUFFICES ASSUME Init PROVE Types
    OBVIOUS
  <1>1. (CHOOSE u \in Unit : TRUE) \in Unit
    BY StoreAssumption
  <1>2. NoSlices \in [hashes : Seq(Stored), size : Nat]
    <2>1. <<>> \in Seq(Stored)
      BY EmptySeq
    <2> QED BY <2>1 DEF NoSlices
  <1> QED
    BY <1>1, <1>2 DEF Init, Types, ControlTypes, FileTypes, OtherTypes, Phases


\* A step of m takes it to a phase, and chooses units among Unit.
LEMMA ControlStep ==
    ASSUME Types, NEW m \in Machine, Step(m)
    PROVE  ControlTypes'
  <1>0. ControlTypes
    BY DEF Types
  <1>1. ASSUME NEW p \in Phases, GoTo(m, p)
        PROVE  pc' \in [Machine -> Phases]
    BY <1>0, <1>1 DEF GoTo, ControlTypes
  <1>2. ASSUME NEW u \in Unit, Lookup(m, u) \/ Get(m, u) \/ Collect(m, u)
        PROVE  ControlTypes'
    <2>1. pc' \in [Machine -> Phases]
      BY <1>0, <1>1, <1>2 DEF Lookup, Get, Collect, Phases, ControlTypes
    <2> QED BY <1>0, <1>2, <2>1 DEF Lookup, Get, Collect, ControlTypes
  <1>3. CASE Begin(m) \/ LookedUp(m) \/ Compile(m) \/ Collected(m)
    <2>1. pc' \in [Machine -> Phases]
      BY <1>1, <1>3 DEF Begin, LookedUp, Compile, Collected, Phases
    <2> QED
      BY <1>0, <1>3, <2>1 DEF Begin, LookedUp, Compile, Collected, ControlTypes
  <1>4. CASE HasKnown(m) \/ HasItem(m) \/ HasDescriptor(m) \/ HasSlice(m)
    <2>1. \A r : AfterHas(m, r) \in Phases
      BY DEF AfterHas, Phases
    <2>2. pc' \in [Machine -> Phases]
      BY <1>0, <1>1, <1>4, <2>1
      DEF HasKnown, HasItem, HasDescriptor, HasSlice, Answer, Phases, ControlTypes
    <2>3. UNCHANGED <<mode, todo, unit, hits>>
      BY <1>4 DEF HasKnown, HasItem, HasDescriptor, HasSlice
    <2> QED BY <1>0, <2>2, <2>3 DEF ControlTypes
  <1>5. CASE Fetch(m) \/ FetchDescriptor(m) \/ FetchSlices(m)
    <2>1. pc' \in [Machine -> Phases]
      BY <1>1, <1>5 DEF Fetch, FetchDescriptor, FetchSlices, Keep, Phases
    <2>2. hits' \in {hits, [hits EXCEPT ![m] = @ \cup {unit[m]}]}
      BY <1>5 DEF Fetch, FetchDescriptor, FetchSlices, Keep
    <2>3. UNCHANGED <<mode, todo, unit>>
      BY <1>5 DEF Fetch, FetchDescriptor, FetchSlices
    <2> QED BY <1>0, <2>1, <2>2, <2>3 DEF ControlTypes
  <1>6. CASE \/ StoreWhole(m) \/ StoreBig(m) \/ StoreSlice(m) \/ StoreDescriptor(m)
             \/ PubRead(m) \/ PubWrite(m)
    <2>1. pc' \in [Machine -> Phases]
      <3>1. CASE StoreWhole(m) \/ StoreBig(m)
        BY <1>1, <3>1 DEF StoreWhole, StoreBig, Success, Phases
      <3>2. CASE StoreSlice(m)
        BY <1>0, <1>1, <3>2 DEF StoreSlice, Phases, ControlTypes
      <3>3. CASE StoreDescriptor(m)
        BY <1>1, <3>3 DEF StoreDescriptor, Success, Phases
      <3>4. CASE PubRead(m) \/ PubWrite(m)
        BY <1>1, <3>4 DEF PubRead, PubWrite, Phases
      <3> QED BY <1>6, <3>1, <3>2, <3>3, <3>4
    <2>2. UNCHANGED <<mode, todo, unit, hits>>
      BY <1>6 DEF StoreWhole, StoreBig, StoreSlice, StoreDescriptor, PubRead, PubWrite
    <2> QED BY <1>0, <2>1, <2>2 DEF ControlTypes
  <1>7. CASE PreCrash(m) \/ PostCrash(m)
    <2>1. pc' \in [Machine -> Phases]
      BY <1>1, <1>7 DEF PreCrash, PostCrash, Phases
    <2> QED BY <1>0, <1>7, <2>1 DEF PreCrash, PostCrash, ControlTypes
  <1> QED
    BY <1>2, <1>3, <1>4, <1>5, <1>6, <1>7 DEF Step

LEMMA OtherStep ==
    ASSUME Types, NEW m \in Machine, Step(m)
    PROVE  OtherTypes'
  <1>0. OtherTypes /\ MaxFaults \in Nat
    BY StoreAssumption DEF Types
  <1>1. lost' = lost /\ pipelined' = pipelined
    BY DEF Step, Begin, LookedUp, Lookup, Get, Collect, HasKnown, HasItem, HasDescriptor,
           HasSlice, Fetch, FetchDescriptor, FetchSlices, Compile, Collected, StoreWhole,
           StoreBig, StoreSlice, StoreDescriptor, PubRead, PubWrite, PreCrash, PostCrash,
           counts, server
  <1>2. faults' \in {faults, faults + 1} /\ builds' \in {builds, builds + 1}
    BY DEF Step, Begin, LookedUp, Lookup, Get, Collect, HasKnown, HasItem, HasDescriptor,
           HasSlice, Fetch, FetchDescriptor, FetchSlices, Compile, Collected, StoreWhole,
           StoreBig, StoreSlice, StoreDescriptor, PubRead, PubWrite, PreCrash, PostCrash,
           counts, OrFails, Fails
  <1>3. \/ UNCHANGED hdr
        \/ \E h \in Header : hdr' = [hdr EXCEPT ![m] = h]
    BY DEF Step, Begin, LookedUp, Lookup, Get, Collect, HasKnown, HasItem, HasDescriptor,
           HasSlice, Fetch, FetchDescriptor, FetchSlices, Compile, Collected, StoreWhole,
           StoreBig, StoreSlice, StoreDescriptor, PubRead, PubWrite, PreCrash, PostCrash
  <1>4. \/ UNCHANGED bad
        \/ \E b \in BOOLEAN : bad' = [bad EXCEPT ![m] = b]
    BY DEF Step, Begin, LookedUp, Lookup, Get, Collect, HasKnown, HasItem, HasDescriptor,
           HasSlice, Fetch, FetchDescriptor, FetchSlices, Compile, Collected, StoreWhole,
           StoreBig, StoreSlice, StoreDescriptor, PubRead, PubWrite, PreCrash, PostCrash
  <1>5. \/ UNCHANGED localCacheKeys
        \/ \E v : localCacheKeys' = [localCacheKeys EXCEPT ![m] = v]
    BY DEF Step, Begin, LookedUp, Lookup, Get, Collect, HasKnown, HasItem, HasDescriptor,
           HasSlice, Fetch, FetchDescriptor, FetchSlices, Compile, Collected, StoreWhole,
           StoreBig, StoreSlice, StoreDescriptor, PubRead, PubWrite, PreCrash, PostCrash,
           caches, Answer, Success
  <1>6. \/ UNCHANGED localCache
        \/ \E v : localCache' = [localCache EXCEPT ![m] = v]
    BY DEF Step, Begin, LookedUp, Lookup, Get, Collect, HasKnown, HasItem, HasDescriptor,
           HasSlice, Fetch, FetchDescriptor, FetchSlices, Compile, Collected, StoreWhole,
           StoreBig, StoreSlice, StoreDescriptor, PubRead, PubWrite, PreCrash, PostCrash,
           caches, Keep
  <1> QED
    BY <1>0, <1>1, <1>2, <1>3, <1>4, <1>5, <1>6 DEF OtherTypes


\* What a step of m puts in files, entries, manifests and descriptors is a file,
\* an entry, slices.
LEMMA FileStep ==
    ASSUME SoundInv, NEW m \in Machine, Step(m)
    PROVE  FileTypes'
  <1>0. /\ Types /\ ControlTypes /\ FileTypes /\ OtherTypes /\ ServerInv /\ MachineInv(m)
    BY DEF SoundInv, Types
  <1>1. ASSUME NEW d \in [hashes : Seq(Stored), size : Nat], slices' = [slices EXCEPT ![m] = d]
        PROVE  slices' \in [Machine -> [hashes : Seq(Stored), size : Nat]]
    BY <1>0, <1>1 DEF FileTypes
  <1>2. ASSUME slices[m].hashes # <<>>,
               slices' = [slices EXCEPT ![m].hashes = Tail(slices[m].hashes)]
        PROVE  slices' \in [Machine -> [hashes : Seq(Stored), size : Nat]]
    <2>1. slices[m] \in [hashes : Seq(Stored), size : Nat]
      BY <1>0 DEF FileTypes
    <2>2. [slices[m] EXCEPT !.hashes = Tail(slices[m].hashes)]
            \in [hashes : Seq(Stored), size : Nat]
      BY <1>2, <2>1, TailType
    <2> QED BY <1>1, <1>2, <2>2
  <1>3. ASSUME NEW u \in Unit, Lookup(m, u) PROVE FileTypes'
    <2>1. UNCHANGED <<manifest, file, slices, copy>>
      BY <1>3 DEF Lookup, server
    <2>2. \A e \in manifest[u] : e.output \in File
      BY <1>0 DEF FileTypes, Entry
    <2>3. \/ UNCHANGED entry
          \/ \E v \in File : entry' = [entry EXCEPT ![m][u] = v]
      BY <1>3, <2>2 DEF Lookup
    <2>4. entry' \in [Machine -> [Unit -> File \cup {None}]]
      <3>1. entry \in [Machine -> [Unit -> File \cup {None}]]
        BY <1>0 DEF FileTypes
      <3>2. ASSUME NEW v \in File, entry' = [entry EXCEPT ![m][u] = v]
            PROVE  entry' \in [Machine -> [Unit -> File \cup {None}]]
        <4>1. [entry[m] EXCEPT ![u] = v] \in [Unit -> File \cup {None}]
          BY <3>1
        <4> QED BY <3>1, <3>2, <4>1
      <3> QED BY <2>3, <3>1, <3>2
    <2> QED BY <1>0, <2>1, <2>4 DEF FileTypes
  <1>4. ASSUME NEW u \in Unit, Get(m, u) \/ Collect(m, u) PROVE FileTypes'
    <2>1. UNCHANGED <<manifest, file, entry, slices, copy>>
      BY <1>4 DEF Get, Collect, server
    <2> QED BY <1>0, <2>1 DEF FileTypes
  <1>5. CASE LookedUp(m) \/ HasKnown(m) \/ HasItem(m) \/ Collected(m) \/ StoreWhole(m)
             \/ StoreDescriptor(m) \/ PreCrash(m) \/ PostCrash(m)
    <2>1. UNCHANGED <<manifest, file, entry, slices, copy>>
      BY <1>5 DEF LookedUp, HasKnown, HasItem, Answer, Collected, StoreWhole,
                  StoreDescriptor, PreCrash, PostCrash, server
    <2> QED BY <1>0, <2>1 DEF FileTypes
  <1>6. CASE Begin(m)
    <2>1. UNCHANGED <<manifest, slices, copy>>
      BY <1>6 DEF Begin, server
    <2>2. /\ file' = [file EXCEPT ![m] = [u \in Unit |-> None]]
          /\ entry' = [entry EXCEPT ![m] = [u \in Unit |-> None]]
      BY <1>6 DEF Begin
    <2> QED BY <1>0, <2>1, <2>2 DEF FileTypes
  <1>7. CASE HasDescriptor(m) \/ HasSlice(m)
    <2>1. UNCHANGED <<manifest, file, entry, copy>>
      BY <1>7 DEF HasDescriptor, HasSlice, server
    <2>2. key(m) \in DOMAIN desc => desc[key(m)] \in [hashes : Seq(Stored), size : Nat]
      BY <1>0, DescsType DEF ServerInv
    <2>3. slices' \in [Machine -> [hashes : Seq(Stored), size : Nat]]
      <3>1. CASE HasDescriptor(m)
        BY <1>0, <1>1, <2>2, <3>1 DEF HasDescriptor, Answer, FileTypes
      <3>2. CASE HasSlice(m)
        BY <1>0, <1>2, <3>2 DEF HasSlice, Answer, FileTypes
      <3> QED BY <1>7, <3>1, <3>2
    <2> QED BY <1>0, <2>1, <2>3 DEF FileTypes
  <1>8. CASE Fetch(m) \/ FetchDescriptor(m) \/ FetchSlices(m)
    <2>1. UNCHANGED <<manifest, entry, copy>>
      BY <1>8 DEF Fetch, FetchDescriptor, FetchSlices, server
    <2>2. key(m) \in File
      BY <1>0, <1>8, KeyIsRight DEF Fetch, FetchDescriptor, FetchSlices, At, AtUnit
    <2>3. CASE pc'[m] = "get"
      <3>1. PICK v \in {key(m), None} : Keep(m, v)
        BY <1>8, <2>3, FetchedIs
      <3>2. /\ file' = [file EXCEPT ![m][unit[m]] = v]
            /\ UNCHANGED slices
            /\ v \in File \cup {None}
        BY <2>2, <3>1 DEF Keep
      <3>3. file' \in [Machine -> [Unit -> File \cup {None}]]
        BY <1>0, <3>2 DEF FileTypes, ControlTypes
      <3> QED BY <1>0, <2>1, <3>2, <3>3 DEF FileTypes
    <2>4. CASE pc'[m] # "get"
      <3>1. \A v : ~Keep(m, v)
        BY <1>0, <2>4 DEF Keep, GoTo, ControlTypes
      <3>2. /\ UNCHANGED file
            /\ \/ UNCHANGED slices
               \/ key(m) \in DOMAIN desc /\ slices' = [slices EXCEPT ![m] = desc[key(m)]]
        BY <1>8, <3>1 DEF Fetch, FetchDescriptor, FetchSlices
      <3>3. key(m) \in DOMAIN desc => desc[key(m)] \in [hashes : Seq(Stored), size : Nat]
        BY <1>0, DescsType DEF ServerInv
      <3>4. slices' \in [Machine -> [hashes : Seq(Stored), size : Nat]]
        BY <1>0, <1>1, <3>2, <3>3 DEF FileTypes
      <3> QED BY <1>0, <2>1, <3>2, <3>4 DEF FileTypes
    <2> QED BY <2>3, <2>4
  <1>9. CASE Compile(m)
    <2>1. UNCHANGED <<manifest, entry, slices, copy>>
      BY <1>9 DEF Compile, server
    <2>2. PICK made \in [Unit \ hits[m] -> File] :
            file' = [file EXCEPT ![m] =
                        [u \in Unit |-> IF u \in hits[m] THEN file[m][u] ELSE made[u]]]
      BY <1>9 DEF Compile
    <2>3. [u \in Unit |-> IF u \in hits[m] THEN file[m][u] ELSE made[u]]
            \in [Unit -> File \cup {None}]
      BY <1>0, <2>2 DEF FileTypes
    <2>4. file' \in [Machine -> [Unit -> File \cup {None}]]
      BY <1>0, <2>2, <2>3 DEF FileTypes
    <2> QED BY <1>0, <2>1, <2>4 DEF FileTypes
  <1>10. CASE StoreBig(m) \/ StoreSlice(m)
    <2>1. UNCHANGED <<manifest, file, entry, copy>>
      BY <1>10 DEF StoreBig, StoreSlice, server
    <2>2. slices' \in [Machine -> [hashes : Seq(Stored), size : Nat]]
      <3>1. CASE StoreBig(m)
        <4>1. Descriptor(m) \in [hashes : Seq(Stored), size : Nat]
          BY <1>0, <3>1, DescriptorIs DEF StoreBig, At
        <4> QED BY <1>1, <3>1, <4>1 DEF StoreBig
      <3>2. CASE StoreSlice(m)
        BY <1>0, <1>2, <3>2 DEF StoreSlice, FileTypes
      <3> QED BY <1>10, <3>1, <3>2
    <2> QED BY <1>0, <2>1, <2>2 DEF FileTypes
  <1>11. CASE PubRead(m)
    <2>1. UNCHANGED <<manifest, file, entry, slices>>
      BY <1>11 DEF PubRead, server
    <2>2. PICK es \in {manifest[unit[m]], {}} : copy' = [copy EXCEPT ![m] = es]
      BY <1>11 DEF PubRead
    <2>3. es \in SUBSET Entry
      BY <1>0 DEF FileTypes, ControlTypes
    <2>4. copy' \in [Machine -> SUBSET Entry]
      BY <1>0, <2>2, <2>3 DEF FileTypes
    <2> QED BY <1>0, <2>1, <2>4 DEF FileTypes
  <1>12. CASE PubWrite(m)
    <2>1. UNCHANGED <<file, entry, slices, copy>>
      BY <1>12 DEF PubWrite
    <2>2. Published(m) \in SUBSET Entry
      <3>1. hdr[m] \in Header /\ copy[m] \subseteq Entry
        BY <1>0 DEF OtherTypes, FileTypes
      <3>2. pc[m] = "write" /\ mode[m] = "add"
        BY <1>0, <1>12 DEF PubWrite, At, MachineInv, Getting
      <3>3. file[m][unit[m]] \in File
        BY <1>0, <3>2, KeyIsRight DEF AtUnit, key
      <3> QED BY <3>1, <3>3 DEF Published, Entry
    <2>3. manifest' \in [Unit -> SUBSET Entry]
      BY <1>0, <1>12, <2>2 DEF PubWrite, FileTypes, ControlTypes
    <2> QED BY <1>0, <2>1, <2>3 DEF FileTypes
  <1> QED
    BY <1>3, <1>4, <1>5, <1>6, <1>7, <1>8, <1>9, <1>10, <1>11, <1>12 DEF Step

LEMMA TypesStep ==
    ASSUME SoundInv, NEW m \in Machine, Step(m)
    PROVE  Types'
BY ControlStep, FileStep, OtherStep DEF SoundInv, Types


\* A machine stores a file, a slice and a descriptor under the right hash, and
\* publishes the object that it has made.
LEMMA ServerStep ==
    ASSUME SoundInv, NEW m \in Machine, Step(m)
    PROVE  ServerInv'
  <1>0. Types /\ ServerInv /\ MachineInv(m)
    BY DEF SoundInv
  <1>1. CASE StoreWhole(m) \/ StoreSlice(m)
    <2>1. key(m) = file[m][unit[m]] \/ StoreSlice(m)
      BY <1>0, <1>1, DescriptorIs DEF StoreWhole, At
    <2>2. item' = item \/ \E k : item' = Put(item, k, k)
      BY <1>1, <2>1 DEF StoreWhole, StoreSlice
    <2>3. \A k \in DOMAIN item' : item'[k] = k
      <3>1. \A k \in DOMAIN item : item[k] = k
        BY <1>0 DEF ServerInv
      <3>2. ASSUME NEW k, item' = Put(item, k, k) PROVE \A x \in DOMAIN item' : item'[x] = x
        <4>1. item' = [x \in DOMAIN item \cup {k} |-> IF x = k THEN k ELSE item[x]]
          BY <3>2 DEF Put
        <4> QED BY <3>1, <4>1
      <3> QED BY <2>2, <3>1, <3>2
    <2>4. UNCHANGED <<desc, manifest>>
      BY <1>1 DEF StoreWhole, StoreSlice
    <2> QED BY <1>0, <2>3, <2>4 DEF ServerInv
  <1>2. CASE StoreDescriptor(m)
    <2>1. key(m) \in File /\ Descriptor(m) \in Descs(key(m))
      BY <1>0, <1>2, DescriptorIs DEF StoreDescriptor, At
    <2>2. desc' \in {desc, Put(desc, key(m), Descriptor(m))}
      BY <1>2 DEF StoreDescriptor
    <2>3. UNCHANGED <<item, manifest>>
      BY <1>2 DEF StoreDescriptor
    <2>4. \A k \in DOMAIN desc' : k \in File /\ desc'[k] \in Descs(k)
      BY <1>0, <2>1, <2>2 DEF Put, ServerInv
    <2> QED BY <1>0, <2>3, <2>4 DEF ServerInv
  <1>3. CASE PubWrite(m)
    <2>1. pc[m] = "write" /\ unit[m] \in Unit
      BY <1>0, <1>3 DEF PubWrite, At, Types, ControlTypes
    <2>2. Right(unit[m], Published(m))
      <3>1. Right(unit[m], copy[m]) /\ mode[m] = "add"
        BY <1>0, <2>1 DEF MachineInv, Holding, Getting
      <3>2. file[m][unit[m]] \in Object[unit[m]][hdr[m]]
        BY <1>0, <2>1, <3>1 DEF MachineInv, Made
      <3> QED BY <3>1, <3>2 DEF Right, Published
    <2>3. manifest' \in {manifest, [manifest EXCEPT ![unit[m]] = Published(m)]}
      BY <1>3 DEF PubWrite
    <2>4. \A u \in Unit : Right(u, manifest'[u])
      BY <1>0, <2>1, <2>2, <2>3 DEF ServerInv, Types, FileTypes
    <2>5. UNCHANGED <<item, desc>>
      BY <1>3 DEF PubWrite
    <2> QED BY <1>0, <2>4, <2>5 DEF ServerInv, Right
  <1>4. CASE ~(StoreWhole(m) \/ StoreSlice(m) \/ StoreDescriptor(m) \/ PubWrite(m))
    <2>1. UNCHANGED <<item, desc, manifest>>
      BY <1>4 DEF Step, Begin, LookedUp, Lookup, Get, Collect, HasKnown, HasItem,
         HasDescriptor, HasSlice, Fetch, FetchDescriptor, FetchSlices, Compile, Collected,
         StoreBig, PubRead, PreCrash, PostCrash, server
    <2> QED BY <1>0, <2>1 DEF ServerInv, Right
  <1> QED BY <1>1, <1>2, <1>3, <1>4

\* What a machine has found, made and read is right after its next step.
LEMMA MachineStep ==
    ASSUME SoundInv, NEW m \in Machine, Step(m)
    PROVE  MachineInv(m)'
  <1>0. Types /\ ServerInv /\ MachineInv(m) /\ ControlTypes /\ FileTypes /\ OtherTypes
    BY DEF SoundInv, Types
  <1>1. unit[m] \in Unit /\ pc[m] \in Phases /\ mode[m] \in {"get", "add"}
    BY <1>0 DEF ControlTypes
  <1> USE DEF MachineInv, Getting, Made, Holding, AtUnit, At
  <1>2. CASE Begin(m)
    <2>1. /\ pc'[m] = "lookup" /\ mode'[m] = "get" /\ hits'[m] = {}
          /\ \A u \in Unit : entry'[m][u] = None
          /\ DOMAIN localCache'[m] = {}
      BY <1>0, <1>2 DEF Begin, GoTo, ControlTypes, FileTypes, OtherTypes
    <2> QED BY <2>1
  <1>3. ASSUME NEW u \in Unit, Lookup(m, u) PROVE MachineInv(m)'
    <2>1. /\ pc'[m] = "lookup" /\ mode'[m] = mode[m] /\ hits' = hits /\ hdr' = hdr
          /\ UNCHANGED <<localCache, file>>
      BY <1>3 DEF Lookup, caches
    <2>2. \A e \in manifest[u] : e.output \in Object[u][e.dependency]
      BY <1>0 DEF ServerInv, Right
    <2>3. \/ UNCHANGED entry
          \/ \E v \in Object[u][hdr[m]] : entry' = [entry EXCEPT ![m][u] = v]
      BY <1>3, <2>2 DEF Lookup
    <2>4. \A w \in Unit : entry'[m][w] # None => entry'[m][w] \in Object[w][hdr[m]]
      <3>1. pc[m] = "lookup" /\ mode[m] = "get"
        BY <1>0, <1>3 DEF Lookup
      <3>2. entry \in [Machine -> [Unit -> File \cup {None}]]
        BY <1>0 DEF FileTypes
      <3> QED BY <1>0, <2>3, <3>1, <3>2
    <2>5. pc[m] = "lookup" /\ mode[m] = "get"
      BY <1>0, <1>3 DEF Lookup
    <2>6. hits'[m] = {} /\ hdr'[m] = hdr[m] /\ mode'[m] = "get"
      BY <1>0, <2>1, <2>5
    <2>7. Getting(m)'
      BY <2>1, <2>4, <2>6
    <2>8. Made(m)' /\ Holding(m)'
      BY <1>0, <2>1, <2>6
    <2> QED BY <2>7, <2>8
  <1>4. CASE LookedUp(m)
    <2>1. /\ pc'[m] = "get" /\ todo'[m] = {u \in Unit : entry[m][u] # None}
          /\ UNCHANGED <<mode, hits, hdr, file, entry, localCache>>
      BY <1>0, <1>4 DEF LookedUp, GoTo, caches, ControlTypes
    <2>2. mode[m] = "get" /\ hits[m] = {}
      BY <1>0, <1>4 DEF LookedUp
    <2> QED BY <1>0, <2>1, <2>2
  <1>5. ASSUME NEW u \in Unit, Get(m, u) PROVE MachineInv(m)'
    <2>1. /\ pc'[m] = "has" /\ unit'[m] = u /\ todo'[m] = todo[m] \ {u} /\ u \in todo[m]
          /\ UNCHANGED <<mode, hits, hdr, file, entry, localCache>>
      BY <1>0, <1>5 DEF Get, GoTo, caches, ControlTypes
    <2>2. mode[m] = "get" /\ pc[m] = "get"
      BY <1>0, <1>5 DEF Get
    <2> QED BY <1>0, <2>1, <2>2
  <1>6. ASSUME NEW u \in Unit, Collect(m, u) PROVE MachineInv(m)'
    <2>1. /\ pc'[m] = "has" /\ UNCHANGED <<mode, hits, hdr, file, entry, localCache>>
      BY <1>0, <1>6 DEF Collect, GoTo, caches, ControlTypes
    <2>2. mode[m] = "add"
      BY <1>0, <1>6 DEF Collect
    <2> QED BY <1>0, <2>1, <2>2
  <1>7. CASE HasKnown(m) \/ HasItem(m) \/ HasDescriptor(m) \/ HasSlice(m)
    <2>1. UNCHANGED <<mode, hits, hdr, file, entry, localCache, unit, todo>>
      BY <1>7 DEF HasKnown, HasItem, HasDescriptor, HasSlice, caches
    <2>2. \A r : AfterHas(m, r) \in IF mode[m] = "get" THEN {"fetch", "get"}
                                                       ELSE {"publish", "store"}
      BY DEF AfterHas
    <2>3. pc'[m] \in {"hasbig", "hasslices"} \cup
                       IF mode[m] = "get" THEN {"fetch", "get"} ELSE {"publish", "store"}
      <3>1. pc \in [Machine -> Phases]
        BY <1>0 DEF ControlTypes
      <3>2. CASE HasKnown(m)
        BY <2>2, <3>1, <3>2 DEF HasKnown, GoTo
      <3>3. CASE HasItem(m)
        BY <2>2, <3>1, <3>3 DEF HasItem, Answer, GoTo
      <3>4. CASE HasDescriptor(m)
        BY <2>2, <3>1, <3>4 DEF HasDescriptor, Answer, GoTo
      <3>5. CASE HasSlice(m)
        BY <2>2, <3>1, <3>5 DEF HasSlice, Answer, GoTo
      <3> QED BY <1>7, <3>2, <3>3, <3>4, <3>5
    <2>4. pc[m] \in {"has", "hasbig", "hasslices"}
      BY <1>7 DEF HasKnown, HasItem, HasDescriptor, HasSlice
    <2> QED BY <1>0, <1>1, <2>1, <2>3, <2>4
  <1>8. CASE Fetch(m) \/ FetchDescriptor(m) \/ FetchSlices(m)
    <2>1. UNCHANGED <<mode, hdr, entry, unit, todo>>
      BY <1>8 DEF Fetch, FetchDescriptor, FetchSlices
    <2>2. mode[m] = "get" /\ pc[m] \in {"fetch", "fetchbig", "fetchslices"}
      BY <1>0, <1>8 DEF Fetch, FetchDescriptor, FetchSlices
    <2>3. CASE pc'[m] = "get"
      <3>1. PICK v \in {key(m), None} : Keep(m, v)
        BY <1>8, <2>3, FetchedIs
      <3>2. /\ localCache'[m] = Put(localCache[m], key(m), v)
            /\ file'[m] = [file[m] EXCEPT ![unit[m]] = v]
            /\ hits'[m] = IF v = None THEN hits[m] ELSE hits[m] \cup {unit[m]}
        BY <1>0, <3>1 DEF Keep, ControlTypes, FileTypes, OtherTypes
      <3>3. \A k \in DOMAIN localCache'[m] : localCache'[m][k] \in {k, None}
        BY <1>0, <3>2 DEF Put
      <3>4. key(m) # None /\ key(m) \in Object[unit[m]][hdr[m]]
        BY <1>0, <2>2, KeyIsRight
      <3>5. unit[m] \notin hits[m] /\ unit[m] \notin todo[m]
        BY <1>0, <2>2
      <3>6. \A u \in hits'[m] : file'[m][u] \in Object[u][hdr[m]]
        <4>1. file[m] \in [Unit -> File \cup {None}] /\ hits[m] \subseteq Unit
          BY <1>0 DEF FileTypes, ControlTypes
        <4> QED BY <1>0, <1>1, <3>2, <3>4, <3>5, <4>1
      <3>7. \A u \in todo[m] : u \notin hits'[m]
        BY <1>0, <2>2, <3>2, <3>5
      <3> QED BY <1>0, <2>1, <2>2, <2>3, <3>3, <3>6, <3>7
    <2>4. CASE pc'[m] # "get"
      <3>1. \A v : ~Keep(m, v)
        BY <1>0, <2>4 DEF Keep, GoTo, ControlTypes
      <3>2. UNCHANGED <<file, hits, localCache>>
        BY <1>8, <3>1 DEF Fetch, FetchDescriptor, FetchSlices
      <3>3. \/ pc'[m] = "fetchbig"
            \/ /\ pc'[m] = "fetchslices" /\ key(m) \in DOMAIN desc
               /\ slices'[m] = desc[key(m)]
        <4>1. /\ pc \in [Machine -> Phases]
              /\ slices \in [Machine -> [hashes : Seq(Stored), size : Nat]]
          BY <1>0 DEF ControlTypes, FileTypes
        <4>2. CASE Fetch(m)
          <5>1. GoTo(m, "fetchbig")
            BY <3>1, <4>2 DEF Fetch
          <5> QED BY <4>1, <5>1 DEF GoTo
        <4>3. CASE FetchDescriptor(m)
          BY <3>1, <4>1, <4>3 DEF FetchDescriptor, GoTo
        <4> QED BY <1>8, <3>1, <4>2, <4>3 DEF FetchSlices
      <3>4. key(m)' = key(m)
        BY <2>1, <2>2, <3>2 DEF key
      <3>5. pc'[m] = "fetchslices" => slices'[m] \in Descs(key(m)')
        BY <1>0, <3>3, <3>4 DEF ServerInv
      <3> QED BY <1>0, <2>1, <2>2, <3>2, <3>3, <3>5
    <2> QED BY <2>3, <2>4
  <1>9. CASE Compile(m)
    <2>1. pc[m] = "get" /\ UNCHANGED <<hdr, hits>>
      BY <1>9 DEF Compile
    <2>2. /\ pc'[m] = "collect" /\ mode'[m] = "add" /\ DOMAIN localCache'[m] = {}
      BY <1>0, <1>9 DEF Compile, GoTo, ControlTypes, OtherTypes
    <2>3. PICK made :
            /\ \A u \in Unit \ hits[m] : made[u] \in Object[u][hdr[m]]
            /\ file' = [file EXCEPT ![m] =
                        [u \in Unit |-> IF u \in hits[m] THEN file[m][u] ELSE made[u]]]
      BY <1>9 DEF Compile
    <2>4. file'[m] = [u \in Unit |-> IF u \in hits[m] THEN file[m][u] ELSE made[u]]
      BY <1>0, <2>3 DEF FileTypes
    <2>5. \A u \in Unit : file'[m][u] \in Object[u][hdr[m]]
      BY <1>0, <2>3, <2>4
    <2>6. hits[m] \subseteq Unit
      BY <1>0 DEF ControlTypes
    <2> QED BY <2>1, <2>2, <2>5, <2>6
  <1>10. CASE Collected(m) \/ PostCrash(m)
    <2>1. /\ pc'[m] = "idle" /\ mode[m] = "add"
          /\ UNCHANGED <<mode, hits, hdr, file, entry, localCache>>
      BY <1>0, <1>10 DEF Collected, PostCrash, GoTo, caches, ControlTypes
    <2> QED BY <1>0, <2>1
  <1>11. CASE StoreWhole(m) \/ StoreBig(m) \/ StoreSlice(m) \/ StoreDescriptor(m)
    <2>1. mode[m] = "add" /\ UNCHANGED <<mode, hits, hdr, file, entry, localCache>>
      BY <1>0, <1>11 DEF StoreWhole, StoreBig, StoreSlice, StoreDescriptor, caches
    <2>2. pc'[m] \in {"collect", "publish", "slices"}
      BY <1>0, <1>11 DEF StoreWhole, StoreBig, StoreSlice, StoreDescriptor, Success, GoTo,
                         ControlTypes
    <2> QED BY <1>0, <2>1, <2>2
  <1>12. CASE PubRead(m)
    <2>1. /\ mode[m] = "add" /\ pc'[m] = "write"
          /\ UNCHANGED <<mode, hits, hdr, file, entry, localCache, unit>>
      BY <1>0, <1>12 DEF PubRead, GoTo, caches, ControlTypes
    <2>2. copy'[m] \in {manifest[unit[m]], {}}
      BY <1>0, <1>12 DEF PubRead, FileTypes
    <2>3. Right(unit[m], copy'[m])
      BY <1>0, <1>1, <2>2 DEF ServerInv, Right
    <2> QED BY <1>0, <2>1, <2>3 DEF Right
  <1>13. CASE PubWrite(m)
    <2>1. /\ mode[m] = "add" /\ pc'[m] = "collect"
          /\ UNCHANGED <<mode, hits, hdr, file, entry, localCache>>
      BY <1>0, <1>13 DEF PubWrite, GoTo, caches, ControlTypes
    <2> QED BY <1>0, <2>1
  <1>14. CASE PreCrash(m)
    <2>1. /\ pc'[m] = "get" /\ hits'[m] = {} /\ todo'[m] = {} /\ mode[m] = "get"
          /\ UNCHANGED <<mode, hdr, file, entry, localCache>>
      BY <1>0, <1>14 DEF PreCrash, GoTo, caches, ControlTypes
    <2> QED BY <1>0, <2>1
  <1> QED
    BY <1>2, <1>3, <1>4, <1>5, <1>6, <1>7, <1>8, <1>9, <1>10, <1>11, <1>12, <1>13, <1>14
    DEF Step

\* What the server forgets leaves the rest right.
LEMMA ForgetStep ==
    ASSUME SoundInv, Evict \/ Clear
    PROVE  SoundInv' /\ \A n \in Machine : Same(n)
  <1>1. \A n \in Machine : Same(n)
    BY DEF Evict, Clear, Same, caches
  <1>2. ControlTypes' /\ OtherTypes'
    <2>1. UNCHANGED <<pc, mode, todo, unit, hits, hdr, bad, localCacheKeys, localCache,
                      pipelined, builds, faults>>
      BY DEF Evict, Clear, caches
    <2>2. lost' = lost + 1
      BY DEF Evict, Clear
    <2> QED BY <2>1, <2>2 DEF SoundInv, Types, ControlTypes, OtherTypes
  <1>3. \A u \in Unit : manifest'[u] \in {manifest[u], {}}
    BY DEF Evict, Clear, SoundInv, Types, FileTypes
  <1>4. FileTypes'
    <2>1. UNCHANGED <<copy, file, entry, slices>>
      BY DEF Evict, Clear
    <2>2. manifest' \in [Unit -> SUBSET Entry]
      BY DEF Evict, Clear, SoundInv, Types, FileTypes
    <2> QED BY <2>1, <2>2 DEF SoundInv, Types, FileTypes
  <1>5. ServerInv'
    <2>1. \A k \in DOMAIN item' : k \in DOMAIN item /\ item'[k] = item[k]
      <3>1. UNCHANGED item \/ item' = <<>> \/ \E k : item' = Forget(item, k)
        BY DEF Evict, Clear
      <3>2. CASE item' = <<>>
        BY <3>2
      <3>3. ASSUME NEW x, item' = Forget(item, x)
            PROVE  \A k \in DOMAIN item' : k \in DOMAIN item /\ item'[k] = item[k]
        <4>1. item' = [k \in DOMAIN item \ {x} |-> item[k]]
          BY <3>3 DEF Forget
        <4> QED BY <4>1
      <3> QED BY <3>1, <3>2, <3>3
    <2>2. \A k \in DOMAIN desc' : k \in DOMAIN desc /\ desc'[k] = desc[k]
      <3>1. UNCHANGED desc \/ desc' = <<>> \/ \E k : desc' = Forget(desc, k)
        BY DEF Evict, Clear
      <3>2. CASE desc' = <<>>
        BY <3>2
      <3>3. ASSUME NEW x, desc' = Forget(desc, x)
            PROVE  \A k \in DOMAIN desc' : k \in DOMAIN desc /\ desc'[k] = desc[k]
        <4>1. desc' = [k \in DOMAIN desc \ {x} |-> desc[k]]
          BY <3>3 DEF Forget
        <4> QED BY <4>1
      <3> QED BY <3>1, <3>2, <3>3
    <2> QED BY <1>3, <2>1, <2>2 DEF SoundInv, ServerInv, Right
  <1> QED
    BY <1>1, <1>2, <1>4, <1>5, Unmoved DEF SoundInv, Types

LEMMA NextIsStep == Next <=> (\E m \in Machine : Step(m)) \/ Evict \/ Clear
BY DEF Next, Step

LEMMA SoundInit == Init => SoundInv
  <1> SUFFICES ASSUME Init PROVE SoundInv
    OBVIOUS
  <1>1. ServerInv
    BY DEF Init, ServerInv, Right
  <1>2. ASSUME NEW m \in Machine PROVE MachineInv(m)
    BY DEF Init, MachineInv, Getting, Made, Holding, AtUnit
  <1> QED
    BY <1>1, <1>2, TypesInit DEF SoundInv

LEMMA SoundStep == SoundInv /\ [Next]_vars => SoundInv'
  <1> SUFFICES ASSUME SoundInv, [Next]_vars PROVE SoundInv'
    OBVIOUS
  <1>1. ASSUME NEW m \in Machine, Step(m) PROVE SoundInv'
    <2>1. Types' /\ ServerInv' /\ MachineInv(m)'
      BY <1>1, TypesStep, ServerStep, MachineStep
    <2>2. \A n \in Machine \ {m} : MachineInv(n)'
      BY <1>1, OthersAreSame, Unmoved DEF SoundInv
    <2> QED BY <2>1, <2>2 DEF SoundInv
  <1>2. CASE Evict \/ Clear
    BY <1>2, ForgetStep
  <1>3. CASE UNCHANGED vars
    <2>1. \A n \in Machine : Same(n)
      BY <1>3 DEF vars, Same, caches
    <2>2. Types' /\ ServerInv'
      BY <1>3 DEF vars, server, caches, counts, SoundInv, Types, ControlTypes, FileTypes,
                  OtherTypes, ServerInv, Right
    <2> QED BY <2>1, <2>2, Unmoved DEF SoundInv
  <1> QED
    BY <1>1, <1>2, <1>3, NextIsStep

\* For any number of machines with any slice sizes, whatever is lost, fails or
\* ends early, a hit that is reported is an object that compiling the unit with
\* the headers of this machine could have given (retrieve_hit, fetch_file).
THEOREM HitsAreRight == Spec => []HitsAreSound
<1>1. SoundInv => HitsAreSound
  BY DEF SoundInv, MachineInv, Made, HitsAreSound
<1> QED
  BY <1>1, SoundInit, SoundStep, PTL DEF Spec

-----------------------------------------------------------------------------
(* What entries name can be fetched.                                       *)

\* Nothing has been forgotten, and no slice was refused by a server to which the
\* slices are sent at once
Reliable == lost = 0 /\ (~pipelined \/ faults = 0)

Present(k) == k \in DOMAIN item \/ k \in DOMAIN desc

ServerBacked ==
    /\ \A k \in DOMAIN desc : Range(desc[k].hashes) \subseteq DOMAIN item
    /\ \A u \in Unit : \A e \in manifest[u] : Present(e.output)

\* What a process believes to be on the server is there
MachineBacked(m) ==
    /\ \A k \in DOMAIN localCacheKeys[m] : localCacheKeys[m][k] = TRUE => Present(k)
    /\ \A k \in DOMAIN localCache[m] : localCache[m][k] # None => Present(k)
    /\ pc[m] \in {"hasslices", "fetchslices"} => key(m) \in DOMAIN desc
    /\ pc[m] = "slices" =>
        Range(Descriptor(m).hashes) \subseteq DOMAIN item \cup Range(slices[m].hashes)
    /\ pc[m] \in {"publish", "write"} => Present(key(m))
    /\ pc[m] = "write" => \A e \in copy[m] : Present(e.output)

\* A slice is only taken for refused after a call has failed
RefusedIsFault == \A m \in Machine : bad[m] => pipelined /\ faults > 0

Backed == ServerBacked /\ \A m \in Machine : MachineBacked(m)

BackedInv == SoundInv /\ RefusedIsFault /\ (Reliable => Backed)

LEMMA RangeHeadTail ==
    ASSUME NEW S, NEW s \in Seq(S), s # <<>>
    PROVE  Range(s) = {Head(s)} \cup Range(Tail(s))
  <1>1. /\ Tail(s) \in Seq(S) /\ Len(Tail(s)) = Len(s) - 1
        /\ \A i \in 1..Len(Tail(s)) : Tail(s)[i] = s[i + 1]
    BY HeadTailProperties
  <1>2. Len(s) \in Nat \ {0} /\ DOMAIN s = 1..Len(s) /\ DOMAIN Tail(s) = 1..(Len(s) - 1)
    BY <1>1
  <1>3. Head(s) = s[1]
    OBVIOUS
  <1>4. ASSUME NEW i \in DOMAIN s PROVE s[i] \in {Head(s)} \cup Range(Tail(s))
    <2>1. CASE i = 1
      BY <1>3, <2>1
    <2>2. CASE i # 1
      <3>1. i - 1 \in DOMAIN Tail(s) /\ i - 1 \in 1..Len(Tail(s)) /\ (i - 1) + 1 = i
        BY <1>1, <1>2, <2>2
      <3>2. Tail(s)[i - 1] = s[i]
        BY <1>1, <3>1
      <3> QED BY <3>1, <3>2 DEF Range
    <2> QED BY <2>1, <2>2
  <1>5. ASSUME NEW i \in DOMAIN Tail(s) PROVE Tail(s)[i] \in Range(s)
    <2>1. i + 1 \in DOMAIN s /\ Tail(s)[i] = s[i + 1]
      BY <1>1, <1>2
    <2> QED BY <2>1 DEF Range
  <1>6. Head(s) \in Range(s)
    BY <1>2, <1>3 DEF Range
  <1> QED
    BY <1>4, <1>5, <1>6 DEF Range

\* A step of a machine takes nothing from the server.
LEMMA ServerGrows ==
    ASSUME NEW m \in Machine, Step(m)
    PROVE  /\ DOMAIN item \subseteq DOMAIN item' /\ DOMAIN desc \subseteq DOMAIN desc'
           /\ \A k : Present(k) => Present(k)'
  <1>1. item' = item \/ \E k, v : item' = Put(item, k, v)
    BY DEF Step, Begin, LookedUp, Lookup, Get, Collect, HasKnown, HasItem, HasDescriptor,
           HasSlice, Fetch, FetchDescriptor, FetchSlices, Compile, Collected, StoreWhole,
           StoreBig, StoreSlice, StoreDescriptor, PubRead, PubWrite, PreCrash, PostCrash,
           server
  <1>2. desc' = desc \/ \E k, v : desc' = Put(desc, k, v)
    BY DEF Step, Begin, LookedUp, Lookup, Get, Collect, HasKnown, HasItem, HasDescriptor,
           HasSlice, Fetch, FetchDescriptor, FetchSlices, Compile, Collected, StoreWhole,
           StoreBig, StoreSlice, StoreDescriptor, PubRead, PubWrite, PreCrash, PostCrash,
           server
  <1>4. DOMAIN item \subseteq DOMAIN item'
    <2>1. ASSUME NEW k, NEW v, item' = Put(item, k, v) PROVE DOMAIN item \subseteq DOMAIN item'
      BY <2>1 DEF Put
    <2> QED BY <1>1, <2>1
  <1>5. DOMAIN desc \subseteq DOMAIN desc'
    <2>1. ASSUME NEW k, NEW v, desc' = Put(desc, k, v) PROVE DOMAIN desc \subseteq DOMAIN desc'
      BY <2>1 DEF Put
    <2> QED BY <1>2, <2>1
  <1> QED
    BY <1>4, <1>5 DEF Present

LEMMA ReliableBefore ==
    ASSUME Types, NEW m \in Machine, Step(m), Reliable'
    PROVE  Reliable /\ (pipelined => faults = 0 /\ faults' = 0)
  <1>1. lost' = lost /\ pipelined' = pipelined
    BY DEF Step, Begin, LookedUp, Lookup, Get, Collect, HasKnown, HasItem, HasDescriptor,
           HasSlice, Fetch, FetchDescriptor, FetchSlices, Compile, Collected, StoreWhole,
           StoreBig, StoreSlice, StoreDescriptor, PubRead, PubWrite, PreCrash, PostCrash,
           counts, server
  <1>2. faults' \in {faults, faults + 1} /\ faults \in Nat
    BY DEF Step, Begin, LookedUp, Lookup, Get, Collect, HasKnown, HasItem, HasDescriptor,
           HasSlice, Fetch, FetchDescriptor, FetchSlices, Compile, Collected, StoreWhole,
           StoreBig, StoreSlice, StoreDescriptor, PubRead, PubWrite, PreCrash, PostCrash,
           counts, OrFails, Fails, Types, OtherTypes
  <1> QED BY <1>1, <1>2 DEF Reliable

LEMMA RefusedStep ==
    ASSUME Types, RefusedIsFault, NEW m \in Machine, Step(m)
    PROVE  RefusedIsFault'
  <1>0. OtherTypes
    BY DEF Types
  <1>1. pipelined' = pipelined
    BY DEF Step, Begin, LookedUp, Lookup, Get, Collect, HasKnown, HasItem, HasDescriptor,
           HasSlice, Fetch, FetchDescriptor, FetchSlices, Compile, Collected, StoreWhole,
           StoreBig, StoreSlice, StoreDescriptor, PubRead, PubWrite, PreCrash, PostCrash,
           server
  <1>2. faults' \in {faults, faults + 1} /\ faults \in Nat
    BY DEF Step, Begin, LookedUp, Lookup, Get, Collect, HasKnown, HasItem, HasDescriptor,
           HasSlice, Fetch, FetchDescriptor, FetchSlices, Compile, Collected, StoreWhole,
           StoreBig, StoreSlice, StoreDescriptor, PubRead, PubWrite, PreCrash, PostCrash,
           counts, OrFails, Fails, Types, OtherTypes
  <1>3. CASE StoreSlice(m)
    <2>1. \/ UNCHANGED bad
          \/ /\ pipelined /\ bad' = [bad EXCEPT ![m] = TRUE]
             /\ bad[m] \/ faults' = faults + 1
      BY <1>3 DEF StoreSlice, OrFails, Fails
    <2> QED BY <1>0, <1>1, <1>2, <2>1 DEF RefusedIsFault, OtherTypes
  <1>4. CASE ~StoreSlice(m)
    <2>1. UNCHANGED bad \/ bad' = [bad EXCEPT ![m] = FALSE]
      BY <1>4 DEF Step, Begin, LookedUp, Lookup, Get, Collect, HasKnown, HasItem,
           HasDescriptor, HasSlice, Fetch, FetchDescriptor, FetchSlices, Compile, Collected,
           StoreWhole, StoreBig, StoreDescriptor, PubRead, PubWrite, PreCrash, PostCrash
    <2> QED BY <1>0, <1>1, <1>2, <2>1 DEF RefusedIsFault, OtherTypes
  <1> QED BY <1>3, <1>4

\* The server keeps what backs the descriptors and the entries.
LEMMA ServerBackedStep ==
    ASSUME SoundInv, Backed, NEW m \in Machine, Step(m)
    PROVE  ServerBacked'
  <1>0. Types /\ ControlTypes /\ FileTypes /\ MachineInv(m) /\ ServerBacked /\ MachineBacked(m)
    BY DEF SoundInv, Types, Backed
  <1>1. /\ DOMAIN item \subseteq DOMAIN item' /\ DOMAIN desc \subseteq DOMAIN desc'
        /\ \A k : Present(k) => Present(k)'
    BY ServerGrows
  <1>2. \A k \in DOMAIN desc' : Range(desc'[k].hashes) \subseteq DOMAIN item'
    <2>1. CASE StoreDescriptor(m)
      <3>1. pc[m] = "slices" /\ slices[m].hashes = <<>>
        BY <2>1 DEF StoreDescriptor, At
      <3>2. Range(slices[m].hashes) = {}
        BY <3>1 DEF Range
      <3>3. Range(Descriptor(m).hashes) \subseteq DOMAIN item
        BY <1>0, <3>1, <3>2 DEF MachineBacked
      <3>4. desc' \in {desc, Put(desc, key(m), Descriptor(m))}
        BY <2>1 DEF StoreDescriptor
      <3>5. CASE desc' = desc
        BY <1>0, <1>1, <3>5 DEF ServerBacked
      <3>6. CASE desc' = Put(desc, key(m), Descriptor(m))
        <4>1. ASSUME NEW k \in DOMAIN desc'
              PROVE  desc'[k] = Descriptor(m) \/ (k \in DOMAIN desc /\ desc'[k] = desc[k])
          BY <3>6 DEF Put
        <4>2. \A k \in DOMAIN desc : Range(desc[k].hashes) \subseteq DOMAIN item
          BY <1>0 DEF ServerBacked
        <4>3. ASSUME NEW k \in DOMAIN desc'
              PROVE  Range(desc'[k].hashes) \subseteq DOMAIN item
          <5>1. CASE desc'[k] = Descriptor(m)
            BY <3>3, <5>1
          <5>2. CASE k \in DOMAIN desc /\ desc'[k] = desc[k]
            BY <4>2, <5>2
          <5> QED BY <4>1, <5>1, <5>2
        <4> QED BY <1>1, <4>3
      <3> QED BY <3>4, <3>5, <3>6
    <2>2. CASE ~StoreDescriptor(m)
      <3>1. UNCHANGED desc
        BY <2>2 DEF Step, Begin, LookedUp, Lookup, Get, Collect, HasKnown, HasItem,
           HasDescriptor, HasSlice, Fetch, FetchDescriptor, FetchSlices, Compile, Collected,
           StoreWhole, StoreBig, StoreSlice, PubRead, PubWrite, PreCrash, PostCrash, server
      <3> QED BY <1>0, <1>1, <3>1 DEF ServerBacked
    <2> QED BY <2>1, <2>2
  <1>3. ASSUME NEW u \in Unit, NEW e \in manifest'[u] PROVE Present(e.output)'
    <2>1. CASE PubWrite(m)
      <3>1. pc[m] = "write"
        BY <2>1 DEF PubWrite, At
      <3>2. Present(key(m)) /\ \A f \in copy[m] : Present(f.output)
        BY <1>0, <3>1 DEF MachineBacked
      <3>3. file[m][unit[m]] = key(m)
        BY <1>0, <3>1 DEF MachineInv, Getting, key
      <3>4. \A f \in Published(m) : Present(f.output)
        BY <3>2, <3>3 DEF Published
      <3>5. manifest' \in {manifest, [manifest EXCEPT ![unit[m]] = Published(m)]}
        BY <2>1 DEF PubWrite
      <3>6. Present(e.output)
        <4>1. e \in manifest[u] \/ e \in Published(m)
          <5>1. DOMAIN manifest = Unit
            BY <1>0 DEF FileTypes
          <5> QED BY <3>5, <5>1
        <4>2. \A f \in manifest[u] : Present(f.output)
          BY <1>0 DEF ServerBacked
        <4> QED BY <3>4, <4>1, <4>2
      <3> QED BY <1>1, <3>6
    <2>2. CASE ~PubWrite(m)
      <3>1. UNCHANGED manifest
        BY <2>2 DEF Step, Begin, LookedUp, Lookup, Get, Collect, HasKnown, HasItem,
           HasDescriptor, HasSlice, Fetch, FetchDescriptor, FetchSlices, Compile, Collected,
           StoreWhole, StoreBig, StoreSlice, StoreDescriptor, PubRead, PreCrash, PostCrash,
           server
      <3> QED BY <1>0, <1>1, <3>1 DEF ServerBacked
    <2> QED BY <2>1, <2>2
  <1> QED BY <1>2, <1>3 DEF ServerBacked

\* What a process believes to be on the server is there after its next step.
LEMMA MachineBackedStep ==
    ASSUME BackedInv, Backed, Reliable', NEW m \in Machine, Step(m)
    PROVE  MachineBacked(m)'
  <1>0. /\ Types /\ ControlTypes /\ FileTypes /\ OtherTypes /\ ServerInv /\ MachineInv(m)
        /\ ServerBacked /\ MachineBacked(m)
    BY DEF BackedInv, SoundInv, Types, Backed
  <1>1. /\ DOMAIN item \subseteq DOMAIN item' /\ DOMAIN desc \subseteq DOMAIN desc'
        /\ \A k : Present(k) => Present(k)'
    BY ServerGrows
  <1>2. pc[m] \in Phases /\ unit[m] \in Unit
    BY <1>0 DEF ControlTypes
  \* The step may only make a descriptor of what is stored, or put an answer in the cache
  <1>3. ASSUME localCacheKeys'[m] = localCacheKeys[m],
               localCache'[m] = localCache[m],
               pc'[m] \notin {"hasslices", "fetchslices", "slices", "publish", "write"}
        PROVE  MachineBacked(m)'
    BY <1>0, <1>1, <1>3 DEF MachineBacked
  <1>4. ASSUME NEW r \in BOOLEAN, r => Present(key(m))', key(m)' = key(m),
               localCacheKeys'[m] = Put(localCacheKeys[m], key(m), r)
        PROVE  \A k \in DOMAIN localCacheKeys'[m] :
                    localCacheKeys'[m][k] = TRUE => Present(k)'
    <2>1. localCacheKeys'[m] =
            [k \in DOMAIN localCacheKeys[m] \cup {key(m)} |->
                IF k = key(m) THEN r ELSE localCacheKeys[m][k]]
      BY <1>4 DEF Put
    <2>2. ASSUME NEW k \in DOMAIN localCacheKeys'[m], localCacheKeys'[m][k] = TRUE
          PROVE  Present(k)'
      <3>1. CASE k = key(m)
        BY <1>4, <2>1, <2>2, <3>1 DEF Present
      <3>2. CASE k # key(m)
        BY <1>0, <1>1, <2>1, <2>2, <3>2 DEF MachineBacked
      <3> QED BY <3>1, <3>2
    <2> QED BY <2>2
  <1>5. ASSUME NEW u \in Unit, Lookup(m, u) \/ Get(m, u) \/ Collect(m, u)
        PROVE  MachineBacked(m)'
    BY <1>0, <1>3, <1>5 DEF Lookup, Get, Collect, At, GoTo, caches, ControlTypes
  <1>6. CASE LookedUp(m) \/ Collected(m) \/ PreCrash(m) \/ PostCrash(m) \/ PubWrite(m)
    BY <1>0, <1>3, <1>6
    DEF LookedUp, Collected, PreCrash, PostCrash, PubWrite, GoTo, caches, ControlTypes
  <1>7. CASE Begin(m) \/ Compile(m)
    <2>1. /\ DOMAIN localCacheKeys'[m] = {} /\ DOMAIN localCache'[m] = {}
          /\ pc'[m] \in {"lookup", "collect"}
      BY <1>0, <1>7 DEF Begin, Compile, GoTo, ControlTypes, OtherTypes
    <2> QED BY <2>1 DEF MachineBacked
  <1>8. CASE HasKnown(m)
    <2>1. UNCHANGED <<localCacheKeys, localCache, mode, file, unit, entry>>
      BY <1>8 DEF HasKnown, caches
    <2>2. pc'[m] \in {"get", "fetch", "store"} \/ (pc'[m] = "publish" /\ Present(key(m)))
      <3>1. PICK r : /\ pc'[m] = AfterHas(m, r)
                     /\ r = IF key(m) \in DOMAIN localCacheKeys[m]
                            THEN localCacheKeys[m][key(m)] ELSE TRUE
        BY <1>0, <1>8 DEF HasKnown, GoTo, ControlTypes
      <3>2. Known(m)
        BY <1>8 DEF HasKnown
      <3>3. r = TRUE => Present(key(m))
        BY <1>0, <3>1, <3>2 DEF MachineBacked, Known
      <3> QED BY <3>1, <3>3 DEF AfterHas
    <2>3. key(m)' = key(m)
      BY <2>1 DEF key
    <2> QED BY <1>0, <1>1, <2>1, <2>2, <2>3 DEF MachineBacked
  <1>9. CASE HasItem(m) \/ HasDescriptor(m) \/ HasSlice(m)
    <2>1. UNCHANGED <<localCache, mode, file, unit, entry, item, desc>>
      BY <1>9 DEF HasItem, HasDescriptor, HasSlice, server
    <2>2. key(m)' = key(m) /\ Descriptor(m)' = Descriptor(m)
      BY <2>1 DEF key, Descriptor
    <2>3. ASSUME NEW r \in BOOLEAN, r => Present(key(m)), Answer(m, r)
          PROVE  MachineBacked(m)'
      <3>1. /\ localCacheKeys'[m] = Put(localCacheKeys[m], key(m), r)
            /\ pc'[m] = AfterHas(m, r)
        BY <1>0, <2>3 DEF Answer, GoTo, ControlTypes, OtherTypes
      <3>2. pc'[m] \in {"get", "fetch", "store"} \/ (pc'[m] = "publish" /\ Present(key(m)))
        BY <2>3, <3>1 DEF AfterHas
      <3>3. r => Present(key(m))'
        BY <1>1, <2>2, <2>3 DEF Present
      <3>4. \A k \in DOMAIN localCacheKeys'[m] : localCacheKeys'[m][k] = TRUE => Present(k)'
        BY <1>4, <2>2, <3>1, <3>3
      <3> QED BY <1>0, <1>1, <2>1, <2>2, <3>2, <3>4 DEF MachineBacked, Present
    <2>4. CASE HasItem(m)
      <3>1. CASE key(m) \in DOMAIN item /\ Answer(m, TRUE)
        BY <2>3, <3>1 DEF Present
      <3>2. CASE GoTo(m, "hasbig") /\ UNCHANGED localCacheKeys
        BY <1>0, <1>3, <2>1, <3>2 DEF GoTo, ControlTypes
      <3> QED BY <2>4, <3>1, <3>2 DEF HasItem
    <2>5. CASE HasDescriptor(m)
      <3>1. CASE Answer(m, FALSE)
        BY <2>3, <3>1
      <3>2. CASE key(m) \in DOMAIN desc /\ GoTo(m, "hasslices") /\ UNCHANGED localCacheKeys
        <4>1. pc'[m] = "hasslices"
          BY <1>0, <3>2 DEF GoTo, ControlTypes
        <4> QED BY <1>0, <1>1, <2>1, <2>2, <3>2, <4>1 DEF MachineBacked
      <3> QED BY <2>5, <3>1, <3>2 DEF HasDescriptor
    <2>6. CASE HasSlice(m)
      <3>1. pc[m] = "hasslices" /\ key(m) \in DOMAIN desc
        BY <1>0, <2>6 DEF HasSlice, At, MachineBacked
      <3>2. CASE \E r \in BOOLEAN : Answer(m, r)
        BY <2>3, <3>1, <3>2 DEF Present
      <3>3. CASE UNCHANGED <<pc, localCacheKeys>>
        BY <1>0, <1>1, <2>1, <2>2, <3>1, <3>3 DEF MachineBacked
      <3> QED BY <2>6, <3>2, <3>3 DEF HasSlice
    <2> QED BY <1>9, <2>4, <2>5, <2>6
  <1>10. CASE Fetch(m) \/ FetchDescriptor(m) \/ FetchSlices(m)
    <2>1. UNCHANGED <<localCacheKeys, mode, unit, entry, item, desc>>
      BY <1>10 DEF Fetch, FetchDescriptor, FetchSlices, server
    <2>2. mode[m] = "get" /\ key(m)' = key(m)
      BY <1>0, <1>10, <2>1 DEF Fetch, FetchDescriptor, FetchSlices, At, MachineInv, Getting, key
    <2>3. ASSUME NEW v, v # None => Present(key(m)), Keep(m, v)
          PROVE  MachineBacked(m)'
      <3>1. pc'[m] = "get" /\ localCache'[m] = Put(localCache[m], key(m), v)
        BY <1>0, <2>3 DEF Keep, GoTo, ControlTypes, OtherTypes
      <3>2. localCache'[m] = [k \in DOMAIN localCache[m] \cup {key(m)} |->
                                IF k = key(m) THEN v ELSE localCache[m][k]]
        BY <3>1 DEF Put
      <3>3. \A k \in DOMAIN localCache'[m] : localCache'[m][k] # None => Present(k)
        BY <1>0, <2>3, <3>2 DEF MachineBacked
      <3> QED BY <1>0, <1>1, <2>1, <3>1, <3>3 DEF MachineBacked
    <2>4. CASE Fetch(m)
      <3>1. CASE GoTo(m, "fetchbig") /\ UNCHANGED localCache
        BY <1>0, <1>3, <2>1, <3>1 DEF GoTo, ControlTypes
      <3>2. CASE key(m) \in DOMAIN localCache[m] /\ Keep(m, localCache[m][key(m)])
        <4>1. localCache[m][key(m)] # None => Present(key(m))
          BY <1>0, <3>2 DEF MachineBacked
        <4> QED BY <2>3, <3>2, <4>1
      <3>3. CASE key(m) \in DOMAIN item /\ Keep(m, item[key(m)])
        <4>1. Present(key(m))
          BY <3>3 DEF Present
        <4> QED BY <2>3, <3>3, <4>1
      <3> QED BY <2>4, <3>1, <3>2, <3>3 DEF Fetch
    <2>5. CASE FetchDescriptor(m)
      <3>1. CASE Keep(m, None)
        BY <2>3, <3>1
      <3>2. CASE key(m) \in DOMAIN desc /\ GoTo(m, "fetchslices") /\ UNCHANGED localCache
        <4>1. pc'[m] = "fetchslices"
          BY <1>0, <3>2 DEF GoTo, ControlTypes
        <4> QED BY <1>0, <1>1, <2>1, <2>2, <3>2, <4>1 DEF MachineBacked
      <3> QED BY <2>5, <3>1, <3>2 DEF FetchDescriptor
    <2>6. CASE FetchSlices(m)
      <3>1. Present(key(m))
        BY <1>0, <2>6 DEF FetchSlices, At, MachineBacked, Present
      <3>2. \E v : Keep(m, v)
        BY <2>6 DEF FetchSlices
      <3> QED BY <2>3, <3>1, <3>2
    <2> QED BY <1>10, <2>4, <2>5, <2>6
  <1>11. CASE StoreWhole(m)
    <2>1. UNCHANGED <<localCache, mode, unit, entry, file>> /\ key(m)' = key(m)
      BY <1>11 DEF StoreWhole, key
    <2>2. CASE Success(m) /\ key(m) \in DOMAIN item'
      <3>1. Present(key(m))' /\ pc'[m] = "publish"
        BY <1>0, <2>1, <2>2 DEF Success, Present, GoTo, ControlTypes
      <3>2. localCacheKeys'[m] = Put(localCacheKeys[m], key(m), TRUE)
        BY <1>0, <2>2 DEF Success, OtherTypes
      <3> QED BY <1>0, <1>1, <1>4, <2>1, <3>1, <3>2 DEF MachineBacked
    <2>3. CASE GoTo(m, "collect") /\ UNCHANGED localCacheKeys
      BY <1>0, <1>3, <2>1, <2>3 DEF GoTo, ControlTypes
    <2> QED BY <1>11, <2>2, <2>3 DEF StoreWhole, Put
  <1>12. CASE StoreBig(m)
    <2>1. UNCHANGED <<caches, unit, file>> /\ Descriptor(m)' = Descriptor(m)
      BY <1>12 DEF StoreBig, Descriptor
    <2>2. pc'[m] = "slices" /\ slices'[m] = Descriptor(m)
      BY <1>0, <1>12 DEF StoreBig, GoTo, ControlTypes, FileTypes
    <2> QED BY <1>0, <1>1, <2>1, <2>2 DEF MachineBacked, caches
  <1>13. CASE StoreSlice(m)
    <2>1. /\ UNCHANGED <<caches, unit, file>> /\ Descriptor(m)' = Descriptor(m)
          /\ pc[m] = "slices" /\ slices[m].hashes # <<>>
      BY <1>13 DEF StoreSlice, Descriptor, At
    <2> DEFINE s == slices[m].hashes
    <2>2. Range(s) = {Head(s)} \cup Range(Tail(s))
      <3>1. s \in Seq(Stored)
        BY <1>0 DEF FileTypes
      <3> QED BY <2>1, <3>1, RangeHeadTail
    <2>3. CASE /\ item' = Put(item, Head(s), Head(s))
               /\ slices' = [slices EXCEPT ![m].hashes = Tail(s)] /\ UNCHANGED pc
      <3>1. slices'[m].hashes = Tail(s) /\ Head(s) \in DOMAIN item'
        BY <1>0, <2>3 DEF FileTypes, Put
      <3> QED BY <1>0, <1>1, <2>1, <2>2, <2>3, <3>1 DEF MachineBacked, caches
    <2>4. CASE OrFails(bad[m]) /\ pipelined
      <3>1. faults = 0 /\ faults' = 0 /\ ~bad[m]
        BY <2>4, ReliableBefore DEF BackedInv, SoundInv, RefusedIsFault
      <3> QED BY <2>4, <3>1 DEF OrFails, Fails
    <2>5. CASE GoTo(m, "collect")
      BY <1>0, <1>3, <2>1, <2>5 DEF GoTo, ControlTypes, caches
    <2> QED BY <1>13, <2>3, <2>4, <2>5 DEF StoreSlice
  <1>14. CASE StoreDescriptor(m)
    <2>1. UNCHANGED <<localCache, mode, unit, entry, file>> /\ key(m)' = key(m)
      BY <1>14 DEF StoreDescriptor, key
    <2>2. CASE Success(m) /\ key(m) \in DOMAIN desc'
      <3>1. Present(key(m))' /\ pc'[m] = "publish"
        BY <1>0, <2>1, <2>2 DEF Success, Present, GoTo, ControlTypes
      <3>2. localCacheKeys'[m] = Put(localCacheKeys[m], key(m), TRUE)
        BY <1>0, <2>2 DEF Success, OtherTypes
      <3> QED BY <1>0, <1>1, <1>4, <2>1, <3>1, <3>2 DEF MachineBacked
    <2>3. CASE GoTo(m, "collect") /\ UNCHANGED localCacheKeys
      BY <1>0, <1>3, <2>1, <2>3 DEF GoTo, ControlTypes
    <2> QED BY <1>14, <2>2, <2>3 DEF StoreDescriptor, Put
  <1>15. CASE PubRead(m)
    <2>1. UNCHANGED <<caches, mode, unit, entry, file>> /\ key(m)' = key(m)
      BY <1>15 DEF PubRead, key
    <2>2. pc[m] = "publish" /\ pc'[m] = "write" /\ copy'[m] \in {manifest[unit[m]], {}}
      BY <1>0, <1>15 DEF PubRead, At, GoTo, ControlTypes, FileTypes
    <2>3. Present(key(m)) /\ \A e \in copy'[m] : Present(e.output)
      BY <1>0, <1>2, <2>2 DEF MachineBacked, ServerBacked
    <2> QED BY <1>0, <1>1, <2>1, <2>2, <2>3 DEF MachineBacked, caches
  <1> QED
    BY <1>5, <1>6, <1>7, <1>8, <1>9, <1>10, <1>11, <1>12, <1>13, <1>14, <1>15 DEF Step

LEMMA BackedStep == BackedInv /\ [Next]_vars => BackedInv'
  <1> SUFFICES ASSUME BackedInv, [Next]_vars PROVE BackedInv'
    OBVIOUS
  <1>0. SoundInv' /\ Types
    BY SoundStep DEF BackedInv, SoundInv
  <1>1. ASSUME NEW m \in Machine, Step(m) PROVE BackedInv'
    <2>1. RefusedIsFault'
      BY <1>0, <1>1, RefusedStep DEF BackedInv
    <2>2. ASSUME Reliable' PROVE Backed'
      <3>1. Reliable /\ Backed
        BY <1>0, <1>1, <2>2, ReliableBefore DEF BackedInv
      <3>2. ServerBacked'
        BY <1>1, <3>1, ServerBackedStep DEF BackedInv
      <3>3. MachineBacked(m)'
        BY <1>1, <2>2, <3>1, MachineBackedStep
      <3>4. ASSUME NEW n \in Machine, n # m PROVE MachineBacked(n)'
        <4>1. Same(n) /\ MachineBacked(n)
          BY <1>0, <1>1, <3>1, <3>4, OthersAreSame DEF Backed
        <4>2. /\ DOMAIN item \subseteq DOMAIN item' /\ DOMAIN desc \subseteq DOMAIN desc'
              /\ \A k : Present(k) => Present(k)'
          BY <1>1, ServerGrows
        <4>3. key(n)' = key(n) /\ Descriptor(n)' = Descriptor(n)
          BY <4>1 DEF Same, key, Descriptor
        <4>4. /\ pc'[n] = pc[n] /\ copy'[n] = copy[n] /\ slices'[n] = slices[n]
              /\ localCacheKeys'[n] = localCacheKeys[n] /\ localCache'[n] = localCache[n]
          BY <4>1 DEF Same
        <4>5. Present(key(n)) => Present(key(n))'
          BY <4>2, <4>3 DEF Present
        <4> QED BY <4>1, <4>2, <4>3, <4>4, <4>5 DEF MachineBacked
      <3> QED BY <3>2, <3>3, <3>4 DEF Backed
    <2> QED BY <1>0, <2>1, <2>2 DEF BackedInv
  <1>2. CASE Evict \/ Clear
    <2>1. lost' = lost + 1 /\ UNCHANGED <<bad, pipelined, faults>> /\ lost \in Nat
      BY <1>0, <1>2 DEF Evict, Clear, Types, OtherTypes
    <2>2. ~Reliable'
      BY <2>1 DEF Reliable
    <2> QED BY <1>0, <2>1, <2>2 DEF BackedInv, RefusedIsFault
  <1>3. CASE UNCHANGED vars
    <2>1. Backed => Backed'
      BY <1>3 DEF vars, server, caches, Backed, ServerBacked, MachineBacked, Present, key,
                  Descriptor
    <2>2. Reliable' => Reliable
      BY <1>3 DEF vars, server, counts, Reliable
    <2>3. RefusedIsFault'
      BY <1>3 DEF vars, server, counts, RefusedIsFault, BackedInv
    <2> QED BY <1>0, <2>1, <2>2, <2>3 DEF BackedInv
  <1> QED
    BY <1>1, <1>2, <1>3, NextIsStep

LEMMA BackedInit == Init => BackedInv
  <1> SUFFICES ASSUME Init PROVE BackedInv
    OBVIOUS
  <1>1. ServerBacked
    BY DEF Init, ServerBacked
  <1>2. ASSUME NEW m \in Machine PROVE MachineBacked(m)
    BY DEF Init, MachineBacked
  <1>3. RefusedIsFault
    BY DEF Init, RefusedIsFault
  <1> QED
    BY <1>1, <1>2, <1>3, SoundInit DEF BackedInv, Backed

\* What is on the server, as an item or as a descriptor, can be fetched.
LEMMA PresentIsRetrievable ==
    ASSUME BackedInv, Reliable, NEW k, Present(k)
    PROVE  Retrievable(k)
  <1>1. CASE k \in DOMAIN item
    BY <1>1 DEF Retrievable
  <1>2. CASE k \in DOMAIN desc
    <2>1. k \in File /\ desc[k] \in Descs(k) /\ Range(desc[k].hashes) \subseteq DOMAIN item
      BY <1>2 DEF BackedInv, SoundInv, ServerInv, Backed, ServerBacked
    <2>2. Join(desc[k]) = k
      BY <2>1, JoinIs DEF BackedInv, SoundInv
    <2> QED BY <1>2, <2>2 DEF Retrievable
  <1> QED BY <1>1, <1>2 DEF Present

\* As long as the server forgets nothing, every entry names an object that can be
\* fetched, for any number of machines with any slice sizes, whatever calls fail
\* and processes end between two slices: with several servers (store_multi stops
\* at the first slice that is refused and stores the descriptor last).
THEOREM EntriesKeepObjects == Spec => []EntriesAreBacked
<1>1. BackedInv => EntriesAreBacked
  <2> SUFFICES ASSUME BackedInv, lost = 0, ~pipelined, NEW u \in Unit, NEW e \in manifest[u]
               PROVE  Retrievable(e.output)
    BY DEF EntriesAreBacked
  <2>1. Reliable
    BY DEF Reliable
  <2>2. Present(e.output)
    BY <2>1 DEF BackedInv, Backed, ServerBacked
  <2> QED BY <2>1, <2>2, PresentIsRetrievable
<1> QED
  BY <1>1, BackedInit, BackedStep, PTL DEF Spec

-----------------------------------------------------------------------------
(* What a machine builds alone ends up in the cache.                       *)

\* The machine n has begun a build at some time
Begun(n) == pc[n] # "idle" \/ mode[n] = "add"
Lone(m) == \A n \in Machine \ {m} : ~Begun(n)

Clean == faults = 0 /\ lost = 0

\* The manifest of u has an entry for the headers of m and the object k
Listed(m, u, k) == \E e \in manifest[u] : e.dependency = hdr[m] /\ e.output = k

\* What was found is in the manifests, and what was made is there or is still to
\* be put there
Progress(m) ==
    /\ mode[m] = "get" /\ pc[m] # "idle" =>
        /\ \A u \in Unit : entry[m][u] # None => Listed(m, u, entry[m][u])
        /\ \A u \in hits[m] : file[m][u] = entry[m][u]
    /\ mode[m] = "add" =>
        \A u \in Unit :
            \/ Listed(m, u, file[m][u])
            \/ u \in todo[m]
            \/ pc[m] \in AtUnit /\ u = unit[m]
    /\ mode[m] = "add" /\ pc[m] = "idle" => todo[m] = {}
    /\ pc[m] = "write" => copy[m] = manifest[unit[m]]

LoneInv ==
    /\ BackedInv
    /\ builds > 0 => \E n \in Machine : Begun(n)
    /\ \A m \in Machine : Lone(m) /\ Clean => Progress(m)

\* A machine that takes a step has begun.
LEMMA StepIsBegun ==
    ASSUME SoundInv, NEW m \in Machine, Step(m)
    PROVE  Begun(m)'
  <1>0. ControlTypes /\ Getting(m)
    BY DEF SoundInv, Types, MachineInv
  <1>1. \/ /\ pc[m] # "idle" /\ mode'[m] = mode[m]
           /\ pc'[m] # "idle" \/ mode[m] = "add"
        \/ pc'[m] # "idle"
    <2>1. CASE Begin(m) \/ Compile(m) \/ LookedUp(m) \/ PreCrash(m)
      BY <1>0, <2>1 DEF Begin, Compile, LookedUp, PreCrash, GoTo, ControlTypes
    <2>2. ASSUME NEW u \in Unit, Lookup(m, u) \/ Get(m, u) \/ Collect(m, u)
          PROVE  pc'[m] # "idle"
      BY <1>0, <2>2 DEF Lookup, Get, Collect, GoTo, At, ControlTypes
    <2>3. CASE HasKnown(m) \/ HasItem(m) \/ HasDescriptor(m) \/ HasSlice(m)
      <3>1. \A r : AfterHas(m, r) # "idle"
        BY DEF AfterHas
      <3> QED
        BY <1>0, <2>3, <3>1
        DEF HasKnown, HasItem, HasDescriptor, HasSlice, Answer, GoTo, At, ControlTypes
    <2>4. CASE Fetch(m) \/ FetchDescriptor(m) \/ FetchSlices(m)
      BY <1>0, <2>4 DEF Fetch, FetchDescriptor, FetchSlices, Keep, GoTo, ControlTypes
    <2>5. CASE Collected(m) \/ PostCrash(m)
      BY <1>0, <2>5 DEF Collected, PostCrash, At, Getting
    <2>6. CASE StoreWhole(m) \/ StoreBig(m) \/ StoreSlice(m) \/ StoreDescriptor(m)
      BY <1>0, <2>6
      DEF StoreWhole, StoreBig, StoreSlice, StoreDescriptor, Success, GoTo, At, ControlTypes
    <2>7. CASE PubRead(m) \/ PubWrite(m)
      BY <1>0, <2>7 DEF PubRead, PubWrite, GoTo, ControlTypes
    <2> QED BY <2>1, <2>2, <2>3, <2>4, <2>5, <2>6, <2>7 DEF Step
  <1> QED BY <1>1 DEF Begun

\* Only publishing changes a manifest.
LEMMA ManifestsStay ==
    ASSUME NEW m \in Machine, Step(m), ~PubWrite(m)
    PROVE  UNCHANGED manifest
BY DEF Step, Begin, LookedUp, Lookup, Get, Collect, HasKnown, HasItem, HasDescriptor,
       HasSlice, Fetch, FetchDescriptor, FetchSlices, Compile, Collected, StoreWhole,
       StoreBig, StoreSlice, StoreDescriptor, PubRead, PreCrash, PostCrash, server

\* Alone and without faults, a machine loses nothing of what it has made.
LEMMA ProgressStep ==
    ASSUME BackedInv, NEW m \in Machine, Progress(m), Step(m), faults = 0, faults' = 0
    PROVE  Progress(m)'
  <1>0. /\ SoundInv /\ Types /\ ControlTypes /\ FileTypes /\ OtherTypes /\ MachineInv(m)
        /\ Getting(m) /\ Made(m)
    BY DEF BackedInv, SoundInv, Types, MachineInv
  <1>1. ~Fails /\ ~bad[m]
    BY DEF Fails, BackedInv, RefusedIsFault
  <1>2. unit[m] \in Unit /\ mode[m] \in {"get", "add"}
    BY <1>0 DEF ControlTypes
  \* A step of the post-invoke process that stays with the unit at hand
  <1>3. ASSUME UNCHANGED <<manifest, hdr, file, mode, todo, unit, entry, hits>>,
               mode[m] = "add", pc[m] \in AtUnit, pc'[m] \in AtUnit \ {"write"}
        PROVE  Progress(m)'
    BY <1>3 DEF Progress, Listed, AtUnit
  <1>4. CASE Begin(m)
    <2>1. /\ pc'[m] = "lookup" /\ mode'[m] = "get" /\ hits'[m] = {}
          /\ \A u \in Unit : entry'[m][u] = None
      BY <1>0, <1>4 DEF Begin, GoTo, ControlTypes, FileTypes
    <2> QED BY <2>1 DEF Progress
  <1>5. ASSUME NEW u \in Unit, Lookup(m, u) PROVE Progress(m)'
    <2>1. pc[m] = "lookup" /\ mode[m] = "get" /\ UNCHANGED <<manifest, hdr, file, pc, mode, hits>>
      BY <1>0, <1>5 DEF Lookup, At, Getting, server
    <2>2. \/ UNCHANGED entry
          \/ \E e \in manifest[u] : /\ e.dependency = hdr[m]
                                    /\ entry' = [entry EXCEPT ![m][u] = e.output]
      BY <1>1, <1>5 DEF Lookup
    <2>3. hits[m] = {}
      BY <1>0, <2>1 DEF Getting
    <2>4. \A w \in Unit : entry'[m][w] # None => Listed(m, w, entry'[m][w])
      <3>1. entry \in [Machine -> [Unit -> File \cup {None}]]
        BY <1>0 DEF FileTypes
      <3>2. \A w \in Unit : entry[m][w] # None => Listed(m, w, entry[m][w])
        BY <2>1 DEF Progress
      <3>3. ASSUME NEW e \in manifest[u], e.dependency = hdr[m],
                   entry' = [entry EXCEPT ![m][u] = e.output]
            PROVE  \A w \in Unit : entry'[m][w] # None => Listed(m, w, entry'[m][w])
        <4>1. entry'[m][u] = e.output /\ Listed(m, u, e.output)
          BY <3>1, <3>3 DEF Listed
        <4>2. \A w \in Unit \ {u} : entry'[m][w] = entry[m][w]
          BY <3>1, <3>3
        <4> QED BY <3>2, <4>1, <4>2
      <3> QED BY <2>2, <3>2, <3>3
    <2> QED BY <2>1, <2>3, <2>4 DEF Progress, Listed
  <1>6. CASE LookedUp(m)
    <2>1. /\ pc'[m] = "get" /\ mode[m] = "get" /\ pc[m] = "lookup"
          /\ UNCHANGED <<manifest, hdr, file, mode, entry, hits>>
      BY <1>0, <1>6 DEF LookedUp, At, GoTo, Getting, server, ControlTypes
    <2> QED BY <2>1 DEF Progress, Listed
  <1>7. ASSUME NEW u \in Unit, Get(m, u) PROVE Progress(m)'
    <2>1. /\ pc'[m] = "has" /\ mode[m] = "get" /\ pc[m] = "get"
          /\ UNCHANGED <<manifest, hdr, file, mode, entry, hits>>
      BY <1>0, <1>7 DEF Get, At, GoTo, Getting, server, ControlTypes
    <2> QED BY <2>1 DEF Progress, Listed
  <1>8. ASSUME NEW u \in Unit, Collect(m, u) PROVE Progress(m)'
    <2>1. /\ pc'[m] = "has" /\ mode[m] = "add" /\ pc[m] = "collect"
          /\ todo'[m] = todo[m] \ {u} /\ unit'[m] = u
          /\ UNCHANGED <<manifest, hdr, file, mode>>
      BY <1>0, <1>8 DEF Collect, At, GoTo, Getting, server, ControlTypes
    <2> QED BY <2>1 DEF Progress, Listed, AtUnit
  <1>9. CASE HasKnown(m) \/ HasItem(m) \/ HasDescriptor(m) \/ HasSlice(m)
    <2>1. /\ UNCHANGED <<manifest, hdr, file, mode, todo, unit, entry, hits>>
          /\ pc[m] \in {"has", "hasbig", "hasslices"}
      BY <1>9 DEF HasKnown, HasItem, HasDescriptor, HasSlice, server, At
    <2>2. \A r : AfterHas(m, r) \in IF mode[m] = "get" THEN {"fetch", "get"}
                                                       ELSE {"publish", "store"}
      BY DEF AfterHas
    <2>3. pc'[m] \in {"hasbig", "hasslices"} \cup
                       IF mode[m] = "get" THEN {"fetch", "get"} ELSE {"publish", "store"}
      <3>1. pc \in [Machine -> Phases]
        BY <1>0 DEF ControlTypes
      <3>2. CASE HasKnown(m)
        BY <2>2, <3>1, <3>2 DEF HasKnown, GoTo
      <3>3. CASE HasItem(m)
        BY <2>2, <3>1, <3>3 DEF HasItem, Answer, GoTo
      <3>4. CASE HasDescriptor(m)
        BY <2>2, <3>1, <3>4 DEF HasDescriptor, Answer, GoTo
      <3>5. CASE HasSlice(m)
        <4>1. \/ UNCHANGED pc /\ pc[m] = "hasslices"
              \/ \E r : GoTo(m, AfterHas(m, r))
          BY <3>5 DEF HasSlice, Answer, At
        <4> QED BY <2>2, <3>1, <4>1 DEF GoTo
      <3> QED BY <1>9, <3>2, <3>3, <3>4, <3>5
    <2>4. CASE mode[m] = "add"
      BY <1>3, <2>1, <2>3, <2>4 DEF AtUnit
    <2>5. CASE mode[m] = "get"
      BY <2>1, <2>3, <2>5 DEF Progress, Listed
    <2> QED BY <1>2, <2>4, <2>5
  <1>10. CASE Fetch(m) \/ FetchDescriptor(m) \/ FetchSlices(m)
    <2>1. /\ UNCHANGED <<manifest, hdr, mode, todo, unit, entry>>
          /\ pc[m] \in {"fetch", "fetchbig", "fetchslices"}
      BY <1>10 DEF Fetch, FetchDescriptor, FetchSlices, server, At
    <2>2. mode[m] = "get"
      BY <1>0, <2>1 DEF Getting
    <2>3. CASE pc'[m] = "get"
      <3>1. PICK v \in {key(m), None} : Keep(m, v)
        BY <1>0, <1>10, <2>3, FetchedIs
      <3>2. /\ file'[m] = [file[m] EXCEPT ![unit[m]] = v]
            /\ hits'[m] = IF v = None THEN hits[m] ELSE hits[m] \cup {unit[m]}
        BY <1>0, <3>1 DEF Keep, ControlTypes, FileTypes
      <3>3. key(m) = entry[m][unit[m]] /\ unit[m] \notin hits[m]
        BY <1>0, <2>1, <2>2 DEF key, Getting, AtUnit
      <3>4. \A u \in hits[m] : file[m][u] = entry[m][u] /\ u \in Unit
        BY <1>0, <2>1, <2>2 DEF Progress, ControlTypes
      <3>5. file[m] \in [Unit -> File \cup {None}]
        BY <1>0 DEF FileTypes
      <3>6. \A u \in hits'[m] : file'[m][u] = entry[m][u]
        BY <1>2, <3>1, <3>2, <3>3, <3>4, <3>5
      <3> QED BY <2>1, <2>2, <2>3, <3>6 DEF Progress, Listed
    <2>4. CASE pc'[m] # "get"
      <3>1. \A v : ~Keep(m, v)
        BY <1>0, <2>4 DEF Keep, GoTo, ControlTypes
      <3>2. UNCHANGED <<file, hits>>
        BY <1>10, <3>1 DEF Fetch, FetchDescriptor, FetchSlices
      <3>3. pc'[m] \in {"fetchbig", "fetchslices"}
        <4>1. GoTo(m, "fetchbig") \/ GoTo(m, "fetchslices")
          BY <1>10, <3>1 DEF Fetch, FetchDescriptor, FetchSlices
        <4> QED BY <1>0, <4>1 DEF GoTo, ControlTypes
      <3> QED BY <2>1, <2>2, <3>2, <3>3 DEF Progress, Listed
    <2> QED BY <2>3, <2>4
  <1>11. CASE Compile(m)
    <2>1. /\ pc[m] = "get" /\ mode[m] = "get" /\ UNCHANGED <<manifest, hdr, hits>>
      BY <1>0, <1>11 DEF Compile, At, Getting, server
    <2>2. pc'[m] = "collect" /\ mode'[m] = "add" /\ todo'[m] = Unit \ hits[m]
      BY <1>0, <1>11 DEF Compile, GoTo, ControlTypes
    <2>3. \A u \in hits[m] \cap Unit : file'[m][u] = file[m][u]
      BY <1>0, <1>11 DEF Compile, FileTypes
    <2>4. \A u \in hits[m] \cap Unit : Listed(m, u, file[m][u])
      <3> SUFFICES ASSUME NEW u \in hits[m] \cap Unit PROVE Listed(m, u, file[m][u])
        OBVIOUS
      <3>1. file[m][u] = entry[m][u]
        BY <2>1 DEF Progress
      <3>2. file[m][u] \in File
        BY <1>0 DEF Made, File, OtherTypes
      <3>3. None \notin File
        BY StoreAssumption DEF Stored
      <3> QED BY <2>1, <3>1, <3>2, <3>3 DEF Progress
    <2>5. ASSUME NEW u \in Unit PROVE Listed(m, u, file[m][u])' \/ u \in todo'[m]
      <3>1. CASE u \in hits[m]
        <4>1. file'[m][u] = file[m][u] /\ Listed(m, u, file[m][u])
          BY <2>3, <2>4, <3>1
        <4> QED BY <2>1, <4>1 DEF Listed
      <3>2. CASE u \notin hits[m]
        BY <2>2, <3>2
      <3> QED BY <3>1, <3>2
    <2> QED BY <2>2, <2>5 DEF Progress
  <1>12. CASE Collected(m)
    <2>1. /\ pc[m] = "collect" /\ mode[m] = "add" /\ todo[m] = {} /\ pc'[m] = "idle"
          /\ UNCHANGED <<manifest, hdr, file, mode, todo, unit>>
      BY <1>0, <1>12 DEF Collected, At, GoTo, Getting, server, ControlTypes
    <2> QED BY <2>1 DEF Progress, Listed, AtUnit
  <1>13. CASE StoreWhole(m) \/ StoreBig(m) \/ StoreSlice(m) \/ StoreDescriptor(m)
    <2>1. /\ UNCHANGED <<manifest, hdr, file, mode, todo, unit, entry, hits>>
          /\ pc[m] \in {"store", "slices"}
      BY <1>13 DEF StoreWhole, StoreBig, StoreSlice, StoreDescriptor, server, At
    <2>2. mode[m] = "add"
      BY <1>0, <2>1 DEF Getting
    <2>3. pc'[m] \in {"slices", "publish"}
      <3>1. pc \in [Machine -> Phases]
        BY <1>0 DEF ControlTypes
      <3>2. CASE StoreWhole(m)
        BY <1>1, <3>1, <3>2 DEF StoreWhole, Success, GoTo
      <3>3. CASE StoreBig(m)
        BY <3>1, <3>3 DEF StoreBig, GoTo
      <3>4. CASE StoreSlice(m)
        BY <1>1, <3>1, <3>4 DEF StoreSlice, OrFails, At
      <3>5. CASE StoreDescriptor(m)
        BY <1>1, <3>1, <3>5 DEF StoreDescriptor, OrFails, Success, GoTo
      <3> QED BY <1>13, <3>2, <3>3, <3>4, <3>5
    <2> QED BY <1>3, <2>1, <2>2, <2>3 DEF AtUnit
  <1>14. CASE PubRead(m)
    <2>1. /\ pc[m] = "publish" /\ mode[m] = "add" /\ pc'[m] = "write"
          /\ copy'[m] = manifest[unit[m]]
          /\ UNCHANGED <<manifest, hdr, file, mode, todo, unit>>
      BY <1>0, <1>1, <1>14 DEF PubRead, At, GoTo, Getting, server, ControlTypes, FileTypes
    <2> QED BY <2>1 DEF Progress, Listed, AtUnit
  <1>15. CASE PubWrite(m)
    <2>1. /\ pc[m] = "write" /\ mode[m] = "add" /\ pc'[m] = "collect"
          /\ UNCHANGED <<hdr, file, mode, todo, unit>>
      BY <1>0, <1>15 DEF PubWrite, At, GoTo, Getting, ControlTypes
    <2>2. manifest' = [manifest EXCEPT ![unit[m]] = Published(m)]
      <3>1. \/ manifest' = [manifest EXCEPT ![unit[m]] = Published(m)]
            \/ Published(m) = copy[m] /\ UNCHANGED manifest
        BY <1>1, <1>15 DEF PubWrite
      <3>2. copy[m] = manifest[unit[m]]
        BY <2>1 DEF Progress
      <3> QED BY <1>0, <1>2, <3>1, <3>2 DEF FileTypes
    <2>3. Listed(m, unit[m], file[m][unit[m]])'
      <3> DEFINE e == [dependency |-> hdr[m], output |-> file[m][unit[m]]]
      <3>1. e \in Published(m)
        BY DEF Published
      <3>2. manifest'[unit[m]] = Published(m)
        BY <1>0, <1>2, <2>2 DEF FileTypes
      <3>3. e.dependency = hdr[m] /\ e.output = file[m][unit[m]]
        OBVIOUS
      <3> HIDE DEF e
      <3> QED BY <2>1, <3>1, <3>2, <3>3 DEF Listed
    <2>4. \A u \in Unit \ {unit[m]} : manifest'[u] = manifest[u]
      BY <1>0, <2>2 DEF FileTypes
    <2>5. \A u \in Unit : Listed(m, u, file[m][u])' \/ u \in todo[m]
      BY <2>1, <2>3, <2>4 DEF Progress, Listed
    <2> QED BY <2>1, <2>5 DEF Progress
  <1>16. CASE PreCrash(m) \/ PostCrash(m)
    BY <1>1, <1>16 DEF PreCrash, PostCrash
  <1> QED
    BY <1>4, <1>5, <1>6, <1>7, <1>8, <1>9, <1>10, <1>11, <1>12, <1>13, <1>14, <1>15, <1>16
    DEF Step

LEMMA LoneInit == Init => LoneInv
  <1> SUFFICES ASSUME Init PROVE LoneInv
    OBVIOUS
  <1>1. builds = 0
    BY DEF Init
  <1>2. ASSUME NEW m \in Machine PROVE Progress(m)
    BY DEF Init, Progress
  <1> QED
    BY <1>1, <1>2, BackedInit DEF LoneInv

LEMMA LoneStep == LoneInv /\ [Next]_vars => LoneInv'
  <1> SUFFICES ASSUME LoneInv, [Next]_vars PROVE LoneInv'
    OBVIOUS
  <1>0. BackedInv /\ BackedInv' /\ SoundInv /\ Types
    BY BackedStep DEF LoneInv, BackedInv, SoundInv
  <1>1. ASSUME NEW m \in Machine, Step(m) PROVE LoneInv'
    <2>1. Begun(m)'
      BY <1>0, <1>1, StepIsBegun
    <2>2. ASSUME NEW n \in Machine, Lone(n)', Clean' PROVE Progress(n)'
      <3>1. n = m
        BY <2>1, <2>2 DEF Lone, Begun
      <3>2. Lone(m)
        <4>1. \A k \in Machine \ {m} : Same(k)
          BY <1>0, <1>1, OthersAreSame
        <4>2. \A k \in Machine \ {m} : Begun(k)' <=> Begun(k)
          BY <4>1 DEF Same, Begun
        <4>3. \A k \in Machine \ {m} : ~Begun(k)'
          BY <2>2, <3>1 DEF Lone
        <4> QED BY <4>2, <4>3 DEF Lone
      <3>3. Clean
        <4>1. Reliable'
          BY <2>2 DEF Clean, Reliable
        <4>2. Reliable
          BY <1>0, <1>1, <4>1, ReliableBefore
        <4>3. faults = 0
          <5>1. faults' \in {faults, faults + 1} /\ faults \in Nat
            BY <1>0, <1>1
            DEF Step, Begin, LookedUp, Lookup, Get, Collect, HasKnown, HasItem, HasDescriptor,
                HasSlice, Fetch, FetchDescriptor, FetchSlices, Compile, Collected, StoreWhole,
                StoreBig, StoreSlice, StoreDescriptor, PubRead, PubWrite, PreCrash, PostCrash,
                counts, OrFails, Fails, Types, OtherTypes
          <5> QED BY <2>2, <5>1 DEF Clean
        <4> QED BY <4>2, <4>3 DEF Clean, Reliable
      <3>4. Progress(m)
        BY <3>2, <3>3 DEF LoneInv
      <3> QED
        BY <1>0, <1>1, <2>2, <3>1, <3>3, <3>4, ProgressStep DEF Clean
    <2> QED
      BY <1>0, <2>1, <2>2 DEF LoneInv
  <1>2. CASE Evict \/ Clear
    <2>1. lost' = lost + 1 /\ lost \in Nat /\ UNCHANGED <<pc, mode, builds>>
      BY <1>0, <1>2 DEF Evict, Clear, Types, OtherTypes
    <2>2. ~Clean'
      BY <2>1 DEF Clean
    <2> QED BY <1>0, <2>1, <2>2 DEF LoneInv, Begun
  <1>3. CASE UNCHANGED vars
    <2>1. UNCHANGED <<manifest, hdr, file, pc, mode, todo, unit, entry, hits, copy, builds,
                      faults, lost>>
      BY <1>3 DEF vars, server, counts
    <2>2. \A m \in Machine : (Lone(m)' <=> Lone(m)) /\ (Progress(m)' <=> Progress(m))
      BY <2>1 DEF Lone, Begun, Progress, Listed
    <2>3. Clean' <=> Clean
      BY <2>1 DEF Clean
    <2>4. \A m \in Machine : Begun(m)' <=> Begun(m)
      BY <2>1 DEF Begun
    <2> QED BY <1>0, <2>1, <2>2, <2>3, <2>4 DEF LoneInv
  <1> QED
    BY <1>1, <1>2, <1>3, NextIsStep

\* Everything that a machine has built while no other built anything is a hit the
\* next time, as a whole file or in slices, however many builds it has done, if
\* no call has failed and the server has forgotten nothing (ensure_output).
THEOREM BuildsGetCached == Spec => []BuildIsCached
<1>1. LoneInv => BuildIsCached
  <2> SUFFICES ASSUME LoneInv, NEW m \in Machine, At(m, "idle"), builds > 0, Alone(m),
                      faults = 0, lost = 0, NEW u \in Unit
               PROVE  \E e \in manifest[u] : e.dependency = hdr[m] /\ e.output = file[m][u]
                                             /\ Retrievable(e.output)
    BY DEF BuildIsCached
  <2>1. SoundInv /\ BackedInv /\ Reliable /\ Clean
    BY DEF LoneInv, BackedInv, Reliable, Clean
  <2>2. ASSUME NEW n \in Machine, n # m PROVE ~Begun(n)
    <3>1. pc[n] = "idle" /\ \A w \in Unit : file[n][w] = None
      BY <2>2 DEF Alone, At
    <3>2. ASSUME mode[n] = "add" PROVE FALSE
      <4>1. file[n][u] \in Object[u][hdr[n]]
        BY <2>1, <3>2 DEF SoundInv, MachineInv, Made
      <4>2. file[n][u] \in File /\ None \notin File
        BY <2>1, <4>1, StoreAssumption DEF File, Stored, SoundInv, Types, OtherTypes
      <4> QED BY <3>1, <4>2
    <3> QED BY <3>1, <3>2 DEF Begun
  <2>3. Lone(m) /\ Begun(m)
    BY <2>2 DEF Lone, LoneInv
  <2>4. mode[m] = "add" /\ pc[m] = "idle" /\ Progress(m)
    BY <2>1, <2>3 DEF At, Begun, LoneInv
  <2>5. Listed(m, u, file[m][u])
    BY <2>4 DEF Progress, AtUnit
  <2>6. PICK e \in manifest[u] : e.dependency = hdr[m] /\ e.output = file[m][u]
    BY <2>5 DEF Listed
  <2>7. Retrievable(e.output)
    <3>1. Present(e.output)
      BY <2>1 DEF BackedInv, Backed, ServerBacked
    <3> QED BY <2>1, <3>1, PresentIsRetrievable
  <2> QED BY <2>6, <2>7
<1> QED
  BY <1>1, LoneInit, LoneStep, PTL DEF Spec

-----------------------------------------------------------------------------
(* The clients below the store keep the promise of KeyValueCalls.          *)

\* The servers that the keys are shared out among never change: a server that
\* is taken for dead keeps its node.
NodesInv ==
    /\ servers \in Configured
    /\ nodes = {servers[i].host : i \in DOMAIN servers}
    /\ \A s \in DOMAIN dead : s.host \in nodes

\* A request has one server, also when it is about several keys.
Proper(r) ==
    /\ r \in Request
    /\ r.op # "get" => \E k \in Key : r.keys = {k}
    /\ r.op = "set" => r.value \in Value
    /\ \A k \in r.keys : Home(k) = Asked(r)

CallInv ==
    /\ phase \in {"idle", "run", "read"}
    /\ queue \in Seq(Request) /\ IsInjective(queue)
    /\ \A r \in Range(queue) : Proper(r)
    /\ call \subseteq Request /\ Range(queue) \subseteq call
    /\ DOMAIN results \subseteq call \ Range(queue)
    /\ results = [r \in DOMAIN results |-> results[r]]
    /\ phase = "idle" <=> call = {}
    /\ phase = "read" => queue # <<>>

Lines == {"END", "STORED", "NOT_STORED", "TOUCHED", "NOT_FOUND", "ERROR"}

Reply == [line : Lines, values : UNION {[K -> Value] : K \in SUBSET Key},
          to : Request \cup {Nothing}]

\* What the messages on a connection are about: c are the answers that the client
\* has not read, t what the server has not dealt with.
About(c, t, i) == IF i <= Len(c) THEN c[i].to ELSE t[i - Len(c)]

\* The connection holds the requests of e, in their order and each once, or the
\* first of them, and nothing else but empty lines.
Carries(c, t, e) ==
    \E n \in Nat : \A i \in 1..(Len(c) + Len(t)) :
        About(c, t, i) = IF i > n /\ i <= n + Len(e) THEN e[i - n] ELSE Nothing

\* The answers that the client waits for
Expected(s) == IF phase = "read" /\ s = Target THEN Batch ELSE <<>>

NetInv ==
    /\ memory \in [Server -> [Key -> Value \cup {Nothing}]]
    /\ toServer \in [Server -> Seq(Request \cup {Nothing})]
    /\ toClient \in [Server -> Seq(Reply)]
    /\ late \in [Server -> SUBSET Request]

\* A server has what the client has sent to it, over this connection or an earlier
\* one.  What comes late was sent to nobody else, and is nowhere else.
WireAt(s) ==
    /\ Carries(toClient[s], toServer[s], Expected(s))
    /\ \A a \in Range(toClient[s]) : a.to = Nothing => a.line = "ERROR"
    /\ \A r \in late[s] : Proper(r) /\ Asked(r) = s
    /\ late[s] \cap (Unsent \cup Range(toServer[s])) = {}

WireInv == \A s \in Server : WireAt(s)

ClientInv == NodesInv /\ CallInv /\ NetInv /\ WireInv

-----------------------------------------------------------------------------
\* The servers and the keys.

\* A sequence of numbers has a greatest.
LEMMA Greatest ==
    ASSUME NEW N \in Nat \ {0}, NEW f, \A i \in 1..N : f[i] \in Nat
    PROVE  \E i \in 1..N : \A j \in 1..N : f[j] <= f[i]
  <1> DEFINE Has(m) == \E i \in 1..m : \A j \in 1..m : f[j] <= f[i]
             failing == {m \in 1..N : ~Has(m)}
  <1>1. SUFFICES ASSUME ~Has(N) PROVE FALSE
    OBVIOUS
  <1> HIDE DEF Has
  <1>0. N \in failing /\ failing \subseteq Nat
    BY <1>1
  <1>2. PICK m \in failing : \A k \in failing : m <= k
    <2> HIDE DEF failing
    <2> QED BY <1>0, LeastElement
  <1>3. CASE m = 1
    <2>1. Has(1)
      BY DEF Has
    <2> QED BY <1>2, <1>3, <2>1
  <1>4. CASE m # 1
    <2>1. m - 1 \in 1..N /\ Has(m - 1)
      BY <1>2, <1>4
    <2>2. PICK i \in 1..(m - 1) : \A j \in 1..(m - 1) : f[j] <= f[i]
      BY <2>1 DEF Has
    <2>3. CASE f[m] <= f[i]
      BY <1>2, <2>1, <2>2, <2>3 DEF Has
    <2>4. CASE ~(f[m] <= f[i])
      <3>1. \A j \in 1..m : f[j] <= f[m]
        BY <2>1, <2>2, <2>4
      <3> QED BY <1>2, <2>1, <3>1 DEF Has
    <2> QED BY <2>3, <2>4
  <1> QED BY <1>3, <1>4

\* The client of a node is the last server that is configured on it.
LEMMA ClientOf ==
    ASSUME NodesInv, NEW n \in nodes
    PROVE  clients(n) \in Server /\ clients(n).host = n /\ n \in Host
  <1>1. servers \in Seq(Server) /\ servers # <<>>
    BY ClientAssumption DEF NodesInv
  <1> DEFINE f == [i \in 1..Len(servers) |-> IF servers[i].host = n THEN i ELSE 0]
             last(i) == /\ servers[i].host = n
                        /\ \A j \in DOMAIN servers : servers[j].host = n => j <= i
  <1>2. Len(servers) \in Nat \ {0} /\ DOMAIN servers = 1..Len(servers)
    BY <1>1
  <1>3. \A i \in 1..Len(servers) : f[i] \in Nat
    OBVIOUS
  <1> HIDE DEF f
  <1>4. PICK i \in 1..Len(servers) : \A j \in 1..Len(servers) : f[j] <= f[i]
    BY <1>2, <1>3, Greatest
  <1>5. PICK h \in 1..Len(servers) : servers[h].host = n
    BY <1>2 DEF NodesInv
  <1>6. last(i)
    BY <1>2, <1>4, <1>5 DEF f
  <1>7. \E x \in DOMAIN servers : last(x)
    BY <1>2, <1>6
  <1>8. PICK x \in DOMAIN servers : last(x) /\ clients(n) = servers[x]
    BY <1>7 DEF clients
  <1>9. servers[x] \in Server
    BY <1>1, <1>2, <1>8
  <1> QED BY <1>8, <1>9 DEF Server

\* Rendezvous hashing finds a node for each key.
LEMMA HomeOf ==
    ASSUME NodesInv, NEW k \in Key
    PROVE  get_node(k) \in nodes /\ Home(k) \in Server /\ Home(k).host \in nodes
  <1>1. servers \in Seq(Server) /\ servers # <<>>
    BY ClientAssumption DEF NodesInv
  <1> DEFINE f == [i \in 1..Len(servers) |-> Score[servers[i].host][k]]
  <1>2. Len(servers) \in Nat \ {0} /\ DOMAIN servers = 1..Len(servers)
    BY <1>1
  <1>3. ASSUME NEW i \in 1..Len(servers) PROVE servers[i].host \in Host
    <2>1. servers[i] \in Server
      BY <1>1, <1>2
    <2> QED BY <2>1 DEF Server
  <1>4. \A i \in 1..Len(servers) : f[i] \in Nat
    BY <1>3, ClientAssumption
  <1> HIDE DEF f
  <1>5. PICK i \in 1..Len(servers) : \A j \in 1..Len(servers) : f[j] <= f[i]
    BY <1>2, <1>4, Greatest
  <1>6. servers[i].host \in nodes
    BY <1>2 DEF NodesInv
  <1>7. \A o \in nodes : Score[o][k] <= Score[servers[i].host][k]
    BY <1>2, <1>5 DEF NodesInv, f
  <1>8. get_node(k) \in nodes
    BY <1>6, <1>7 DEF get_node
  <1> QED BY <1>8, ClientOf DEF Home

\* As long as the nodes stay, every key and every request keeps its server.
LEMMA HomesStay ==
    ASSUME UNCHANGED <<servers, nodes>>
    PROVE  /\ Hashed' = Hashed
           /\ \A n : clients(n)' = clients(n)
           /\ \A k : Home(k)' = Home(k)
           /\ \A r : Asked(r)' = Asked(r) /\ Proper(r)' = Proper(r)
  <1>1. \A n : clients(n)' = clients(n)
    BY DEF clients
  <1>2. \A k : get_node(k)' = get_node(k)
    BY DEF get_node
  <1>3. \A k : Home(k)' = Home(k)
    BY <1>1, <1>2 DEF Home
  <1>4. \A r : Asked(r)' = Asked(r)
    BY <1>3 DEF Asked
  <1> QED BY <1>1, <1>3, <1>4 DEF Hashed, Proper

\* A request is for the server of one of its keys.
LEMMA AskedOf ==
    ASSUME NodesInv, NEW r \in Request
    PROVE  /\ \E k \in r.keys : k \in Key /\ Asked(r) = Home(k)
           /\ Asked(r) \in Server /\ Asked(r).host \in nodes
  <1> DEFINE k == CHOOSE x \in r.keys : TRUE
  <1>1. r.keys # {} /\ r.keys \subseteq Key
    BY DEF Request
  <1>2. k \in r.keys
    BY <1>1
  <1>3. Asked(r) = Home(k)
    BY DEF Asked
  <1> HIDE DEF k
  <1>4. Home(k) \in Server /\ Home(k).host \in nodes
    BY <1>1, <1>2, HomeOf
  <1> QED BY <1>1, <1>2, <1>3, <1>4

\* The request at the head of the queue and the server it is for
LEMMA AtHead ==
    ASSUME NodesInv, CallInv, queue # <<>>
    PROVE  /\ Head(queue) \in Request /\ Head(queue) \in Range(queue)
           /\ Proper(Head(queue)) /\ Head(queue) = queue[1] /\ Len(queue) \in Nat \ {0}
           /\ Target \in Server /\ Target.host \in nodes
  <1>1. /\ queue \in Seq(Request) /\ Len(queue) \in Nat \ {0} /\ Head(queue) = queue[1]
        /\ DOMAIN queue = 1..Len(queue)
    BY DEF CallInv
  <1>2. Head(queue) \in Range(queue) /\ Head(queue) \in Request
    BY <1>1 DEF Range
  <1>3. Target \in Server /\ Target.host \in nodes
    BY <1>2, AskedOf DEF Target
  <1> QED BY <1>1, <1>2, <1>3 DEF CallInv

\* What is sent at once is for one server.
LEMMA BatchFacts ==
    ASSUME NodesInv, CallInv, queue # <<>>
    PROVE  /\ Batch \in Seq(Request) /\ Len(Batch) \in Nat \ {0}
           /\ Batch[1] = Head(queue) /\ IsInjective(Batch)
           /\ Range(Batch) \subseteq Range(queue)
           /\ \A r \in Range(Batch) : Asked(r) = Target
           /\ \A i \in 1..Len(Batch) : Batch[i] \in Range(Batch)
  <1>0. /\ queue \in Seq(Request) /\ Len(queue) \in Nat \ {0} /\ Head(queue) = queue[1]
        /\ Head(queue) \in Request /\ Head(queue) \in Range(queue) /\ IsInjective(queue)
        /\ Target = Asked(Head(queue))
    BY AtHead DEF CallInv, Target
  <1>1. CASE Hashed
    <2>1. /\ Batch = <<Head(queue)>> /\ Batch \in Seq(Request) /\ Len(Batch) = 1
          /\ Range(Batch) = {Head(queue)}
      BY <1>0, <1>1 DEF Batch, Range
    <2> QED BY <1>0, <2>1 DEF IsInjective
  <1>2. CASE ~Hashed
    <2>1. Batch = queue
      BY <1>2 DEF Batch
    <2>2. \A i \in 1..Len(queue) : queue[i] \in Range(queue)
      BY <1>0 DEF Range
    <2>3. servers \in Seq(Server) /\ Len(servers) = 1
      <3>1. servers \in Seq(Server) /\ servers # <<>> /\ ~(Len(servers) > 1)
        BY <1>2, ClientAssumption DEF NodesInv, Hashed
      <3>2. Len(servers) \in Nat
        BY <3>1
      <3>3. Len(servers) # 0
        BY <3>1
      <3> DEFINE m == Len(servers)
      <3>4. m \in Nat /\ m # 0 /\ ~(m > 1)
        BY <3>1, <3>2, <3>3
      <3> HIDE DEF m
      <3>5. m = 1
        BY <3>4
      <3> QED BY <3>1, <3>5 DEF m
    <2>4. \A n, o \in nodes : n = o
      BY <2>3 DEF NodesInv
    <2>5. \A k, l \in Key : Home(k) = Home(l)
      BY <2>4, HomeOf DEF Home
    <2>6. ASSUME NEW r \in Request PROVE \E k \in Key : Asked(r) = Home(k)
      BY AskedOf
    <2>7. \A r \in Range(queue) : r \in Request
      BY <1>0 DEF Range
    <2> QED BY <1>0, <2>1, <2>2, <2>5, <2>6, <2>7
  <1> QED BY <1>1, <1>2

\* A call is made of requests that differ in their keys, with one server each.
LEMMA PartsFacts ==
    ASSUME NodesInv, NEW keys \in KeyList, NEW op
    PROVE  LET part == Parts(op, keys)
           IN  \E n \in Nat \ {0} :
                 /\ DOMAIN part = 1..n
                 /\ \A i, j \in 1..n : part[i] = part[j] => i = j
                 /\ \A i \in 1..n : /\ part[i] \in (SUBSET Key) \ {{}}
                                    /\ op # "get" => \E k \in Key : part[i] = {k}
                                    /\ \A k, l \in part[i] : Home(k) = Home(l)
  <1>0. /\ keys \in Seq(Key) /\ IsInjective(keys) /\ Len(keys) \in Nat \ {0}
        /\ DOMAIN keys = 1..Len(keys) /\ \A i \in 1..Len(keys) : keys[i] \in Key
    BY ClientAssumption
  <1> DEFINE part == Parts(op, keys)
  <1>1. CASE op # "get"
    <2>1. part = [i \in 1..Len(keys) |-> {keys[i]}]
      BY <1>0, <1>1 DEF Parts
    <2> HIDE DEF part
    <2>2. \A i, j \in 1..Len(keys) : part[i] = part[j] => i = j
      BY <1>0, <2>1 DEF IsInjective
    <2>3. ASSUME NEW i \in 1..Len(keys)
          PROVE  /\ part[i] \in (SUBSET Key) \ {{}}
                 /\ \E k \in Key : part[i] = {k}
                 /\ \A k, l \in part[i] : Home(k) = Home(l)
      <3>1. part[i] = {keys[i]} /\ keys[i] \in Key
        BY <1>0, <2>1
      <3> QED BY <3>1
    <2> QED BY <1>0, <2>1, <2>2, <2>3 DEF part
  <1>2. CASE op = "get"
    <2> DEFINE share(n) == {k \in Range(keys) : get_node(k) = n}
               T == {share(n) : n \in nodes}
               S == T \ {{}}
    <2>1. part = SetToSeq(S)
      BY <1>2 DEF Parts
    <2>2. servers \in Seq(Server) /\ Len(servers) \in Nat /\ DOMAIN servers = 1..Len(servers)
      BY ClientAssumption DEF NodesInv
    <2>3. IsFiniteSet(S)
      <3> DEFINE f == [i \in 1..Len(servers) |-> share(servers[i].host)]
      <3>1. \A i \in 1..Len(servers) : servers[i].host \in nodes
        BY <2>2 DEF NodesInv
      <3>2. \A t \in T : \E i \in 1..Len(servers) : f[i] = t
        BY <2>2 DEF NodesInv
      <3>3. f \in Surjection(1..Len(servers), T)
        <4>1. f \in [1..Len(servers) -> T]
          BY <3>1
        <4> HIDE DEF f, T
        <4> QED BY <4>1, <3>2 DEF Surjection
      <3>4. IsFiniteSet(1..Len(servers))
        BY <2>2, FS_Interval
      <3>5. IsFiniteSet(T)
        <4> HIDE DEF f, T
        <4> QED BY <3>3, <3>4, FS_Surjection
      <3> HIDE DEF T
      <3> QED BY <3>5, FS_Subset
    <2>4. keys[1] \in Key /\ keys[1] \in Range(keys)
      BY <1>0 DEF Range
    <2>5. S # {}
      <3>1. get_node(keys[1]) \in nodes
        BY <2>4, HomeOf
      <3>2. share(get_node(keys[1])) \in S
        BY <2>4, <3>1
      <3> QED BY <3>2
    <2>6. \A s \in S : /\ s \in (SUBSET Key) \ {{}}
                       /\ \A k, l \in s : Home(k) = Home(l)
      <3>1. Range(keys) \subseteq Key
        BY <1>0 DEF Range
      <3>2. ASSUME NEW s \in S
            PROVE  s \in (SUBSET Key) \ {{}} /\ \A k, l \in s : Home(k) = Home(l)
        <4>1. PICK n \in nodes : s = share(n)
          OBVIOUS
        <4>2. s \subseteq Key /\ s # {}
          BY <3>1, <4>1
        <4>3. \A k \in s : Home(k) = clients(n)
          BY <4>1 DEF Home
        <4> QED BY <4>2, <4>3
      <3> HIDE DEF S
      <3> QED BY <3>2
    <2> HIDE DEF S
    <2>7. Cardinality(S) \in Nat \ {0} /\ ExistsBijection(1..Cardinality(S), S)
      BY <2>3, <2>5, FS_CardinalityType, FS_EmptySet
    <2>8. \E f \in [1..Cardinality(S) -> S] : IsInjective(f)
      BY <2>7 DEF ExistsBijection, Bijection, Injection
    <2>9. part \in [1..Cardinality(S) -> S] /\ IsInjective(part)
      BY <2>1, <2>8 DEF SetToSeq
    <2> HIDE DEF part
    <2>10. /\ DOMAIN part = 1..Cardinality(S)
           /\ \A i, j \in 1..Cardinality(S) : part[i] = part[j] => i = j
           /\ \A i \in 1..Cardinality(S) : part[i] \in S
      BY <2>9 DEF IsInjective
    <2> QED BY <1>2, <2>6, <2>7, <2>10 DEF part
  <1> QED BY <1>1, <1>2

\* The requests of a new call are under way nowhere.
LEMMA Beginning ==
    ASSUME NodesInv, NEW keys \in KeyList,
           NEW op \in {"get", "set", "append", "touch"}, NEW x \in Value \cup {Nothing},
           op = "set" => x \in Value, BeginCall(op, keys, x)
    PROVE  /\ queue' \in Seq(Request) /\ IsInjective(queue') /\ Range(queue') # {}
           /\ \A r \in Range(queue') : Proper(r) /\ r \in Request /\ r \notin OnTheWay
           /\ call' = Range(queue')
  <1> DEFINE part == Parts(op, keys)
             same(c, K) == [op |-> op, keys |-> K, value |-> x, copy |-> c]
             free(K) == {c \in 1..MaxCopies : same(c, K) \notin OnTheWay}
             least(K) == CHOOSE c \in free(K) : \A d \in free(K) : c <= d
  <1>1. PICK n \in Nat \ {0} :
          /\ DOMAIN part = 1..n
          /\ \A i, j \in 1..n : part[i] = part[j] => i = j
          /\ \A i \in 1..n : /\ part[i] \in (SUBSET Key) \ {{}}
                             /\ op # "get" => \E k \in Key : part[i] = {k}
                             /\ \A k, l \in part[i] : Home(k) = Home(l)
    BY PartsFacts
  <1>2. /\ \A i \in DOMAIN part : free(part[i]) # {}
        /\ queue' = [i \in DOMAIN part |-> same(least(part[i]), part[i])]
        /\ call' = Range(queue')
    BY DEF BeginCall
  <1> HIDE DEF part
  <1>3. ASSUME NEW i \in 1..n PROVE least(part[i]) \in free(part[i])
    <2>0. i \in DOMAIN part
      BY <1>1
    <2>1. free(part[i]) # {} /\ free(part[i]) \subseteq Nat
      BY <1>2, <2>0
    <2> HIDE DEF free
    <2>2. \E c \in free(part[i]) : \A d \in free(part[i]) : c <= d
      BY <2>1, LeastElement
    <2> QED BY <2>2
  <1>4. ASSUME NEW i \in 1..n
        PROVE  LET r == same(least(part[i]), part[i])
               IN  r \in Request /\ Proper(r) /\ r \notin OnTheWay
    <2> DEFINE r == same(least(part[i]), part[i])
    <2>1. least(part[i]) \in 1..MaxCopies /\ r \notin OnTheWay
      BY <1>3
    <2> HIDE DEF least
    <2>2. r \in Request
      BY <1>1, <2>1 DEF Request
    <2>3. r.keys = part[i] /\ r.op = op /\ r.value = x
      OBVIOUS
    <2> HIDE DEF r
    <2>4. Proper(r)
      <3>1. PICK k \in part[i] : Asked(r) = Home(k)
        BY <2>2, <2>3, AskedOf
      <3>2. \A l \in part[i] : Home(l) = Home(k)
        BY <1>1
      <3> QED BY <1>1, <2>2, <2>3, <3>1, <3>2 DEF Proper
    <2>5. r \in Request /\ Proper(r) /\ r \notin OnTheWay
      BY <2>1, <2>2, <2>4
    <2> QED BY <2>5 DEF r
  <1> HIDE DEF least
  <1>5. queue' = [i \in 1..n |-> same(least(part[i]), part[i])]
    BY <1>1, <1>2
  <1>6. queue' \in Seq(Request) /\ Len(queue') = n /\ DOMAIN queue' = 1..n
    BY <1>4, <1>5
  <1>7. IsInjective(queue')
    BY <1>1, <1>5 DEF IsInjective
  <1>8. \A r \in Range(queue') : \E i \in 1..n : r = same(least(part[i]), part[i])
    BY <1>5 DEF Range
  <1>9. queue'[1] \in Range(queue')
    BY <1>6 DEF Range
  <1> QED BY <1>2, <1>4, <1>6, <1>7, <1>8, <1>9

-----------------------------------------------------------------------------
\* What happens on a connection.

Message == Request \cup {Nothing}

\* A connection without messages carries the first of everything.
LEMMA Quiet ==
    ASSUME NEW e
    PROVE  Carries(<<>>, <<>>, e)
  BY DEF Carries

\* After e was sent, the server has w to deal with instead of t.
Follows(c, t, w, e) ==
    /\ Carries(c, w, e) /\ Carries(c, t, e)
    /\ w \in Seq(Message)
    /\ Range(w) \ {Nothing} = (Range(t) \cup Range(e)) \ {Nothing}

\* What is sent comes after what is there.
LEMMA Sending ==
    ASSUME NEW c \in Seq(Reply), NEW t \in Seq(Message), NEW e \in Seq(Request),
           NEW pad \in {<<>>, <<Nothing>>}, NEW w, w = t \o e \o pad, Carries(c, t, <<>>)
    PROVE  Follows(c, t, w, e)
  <1> DEFINE n == Len(c) + Len(t)
             u == t \o e
  <1>1. /\ Len(c) \in Nat /\ Len(t) \in Nat /\ Len(e) \in Nat /\ n \in Nat
        /\ e \in Seq(Message) /\ pad \in Seq(Message)
    <2>1. Len(c) \in Nat /\ Len(t) \in Nat /\ Len(e) \in Nat
      OBVIOUS
    <2>2. Request \subseteq Message /\ Nothing \in Message
      BY DEF Message
    <2> HIDE DEF Message
    <2>3. e \in Seq(Message)
      BY <2>2
    <2>4. pad \in Seq(Message)
      <3>1. <<>> \in Seq(Message)
        BY EmptySeq
      <3>2. <<Nothing>> \in Seq(Message)
        BY <2>2
      <3> QED BY <3>1, <3>2
    <2> QED BY <2>1, <2>3, <2>4
  <1>2. \A i \in 1..n : About(c, t, i) = Nothing
    BY DEF Carries
  <1>3. /\ u \in Seq(Message) /\ Len(u) = Len(t) + Len(e)
        /\ \A i \in 1..(Len(t) + Len(e)) : u[i] = IF i <= Len(t) THEN t[i] ELSE e[i - Len(t)]
    BY <1>1, ConcatProperties
  <1> HIDE DEF u
  <1>4. /\ w \in Seq(Message) /\ Len(w) = Len(u) + Len(pad)
        /\ \A i \in 1..(Len(u) + Len(pad)) : w[i] = IF i <= Len(u) THEN u[i] ELSE pad[i - Len(u)]
    <2>1. u \in Seq(Message) /\ pad \in Seq(Message) /\ w = u \o pad
      BY <1>1, <1>3 DEF u
    <2> HIDE DEF Message
    <2> QED BY <2>1, ConcatProperties
  <1>5. Len(pad) \in {0, 1} /\ \A i \in 1..Len(pad) : pad[i] = Nothing
    OBVIOUS
  <1>9. /\ Len(w) \in Nat /\ Len(t) + Len(e) <= Len(w)
        /\ \A j \in 1..Len(t) : w[j] = t[j]
        /\ \A j \in 1..Len(e) : w[Len(t) + j] = e[j]
        /\ \A j \in 1..Len(w) : j > Len(t) + Len(e) => w[j] = Nothing
    <2>0. PICK lt \in Nat, le \in Nat, lp \in Nat :
            lt = Len(t) /\ le = Len(e) /\ lp = Len(pad) /\ Len(u) = lt + le /\ Len(w) = lt + le + lp
      BY <1>1, <1>3, <1>4, <1>5
    <2>1. Len(w) = Len(t) + Len(e) + Len(pad) /\ Len(pad) \in Nat
      BY <2>0
    <2>2. ASSUME NEW j \in 1..Len(t) PROVE w[j] = t[j]
      <3>1. j \in 1..((lt + le) + lp) /\ j <= lt + le /\ j \in 1..(lt + le) /\ j <= lt
        BY <2>0
      <3> QED BY <1>3, <1>4, <2>0, <3>1
    <2>3. ASSUME NEW j \in 1..Len(e) PROVE w[Len(t) + j] = e[j]
      <3> DEFINE k == lt + j
      <3>1. k \in 1..((lt + le) + lp) /\ k <= lt + le /\ k \in 1..(lt + le) /\ ~(k <= lt)
            /\ k - lt = j
        BY <2>0
      <3> HIDE DEF k
      <3>2. w[k] = u[k] /\ u[k] = e[k - lt]
        BY <1>3, <1>4, <2>0, <3>1
      <3>3. w[k] = e[j]
        BY <3>1, <3>2
      <3> QED BY <2>0, <3>3 DEF k
    <2>4. ASSUME NEW j \in 1..Len(w), j > Len(t) + Len(e) PROVE w[j] = Nothing
      <3>1. j \in 1..(Len(u) + Len(pad)) /\ ~(j <= Len(u)) /\ j - Len(u) \in 1..Len(pad)
        BY <1>1, <1>3, <2>1, <2>4
      <3> QED BY <1>4, <1>5, <3>1
    <2> QED BY <1>1, <2>1, <2>2, <2>3, <2>4
  <1>6. Carries(c, t, e)
    <2>1. \A i \in 1..(Len(c) + Len(t)) :
            About(c, t, i) = IF i > n /\ i <= n + Len(e) THEN e[i - n] ELSE Nothing
      BY <1>1, <1>2
    <2> QED BY <1>1, <2>1 DEF Carries
  <1>7. Carries(c, w, e)
    <2>1. ASSUME NEW i \in 1..(Len(c) + Len(w))
          PROVE  About(c, w, i) = IF i > n /\ i <= n + Len(e) THEN e[i - n] ELSE Nothing
      <3>1. CASE i <= Len(c)
        BY <1>1, <1>2, <3>1 DEF About
      <3>2. CASE i > Len(c) /\ i <= n
        <4>0. i - Len(c) \in 1..Len(t)
          BY <1>1, <3>2
        <4>1. w[i - Len(c)] = t[i - Len(c)]
          BY <1>9, <4>0
        <4> QED BY <1>1, <1>2, <3>2, <4>1 DEF About
      <3>3. CASE i > n /\ i <= n + Len(e)
        <4>0. i - n \in 1..Len(e) /\ Len(t) + (i - n) = i - Len(c)
          BY <1>1, <3>3
        <4>1. w[i - Len(c)] = e[i - n]
          BY <1>9, <4>0
        <4> QED BY <1>1, <3>3, <4>1 DEF About
      <3>4. CASE i > n + Len(e)
        <4>1. w[i - Len(c)] = Nothing
          BY <1>1, <1>9, <3>4
        <4> QED BY <1>1, <3>4, <4>1 DEF About
      <3> QED BY <1>1, <3>1, <3>2, <3>3, <3>4
    <2> QED BY <1>1, <2>1 DEF Carries
  <1>8. Range(w) \ {Nothing} = (Range(t) \cup Range(e)) \ {Nothing}
    <2>1. DOMAIN w = 1..Len(w) /\ DOMAIN t = 1..Len(t) /\ DOMAIN e = 1..Len(e)
      BY <1>1, <1>4
    <2>2. ASSUME NEW i \in 1..Len(w), w[i] # Nothing
          PROVE  w[i] \in Range(t) \cup Range(e)
      <3>1. CASE i <= Len(t)
        BY <1>1, <1>9, <2>1, <3>1 DEF Range
      <3>2. CASE i > Len(t) /\ i <= Len(t) + Len(e)
        <4>1. i - Len(t) \in 1..Len(e) /\ Len(t) + (i - Len(t)) = i
          BY <1>1, <1>9, <3>2
        <4>2. w[i] = e[i - Len(t)]
          BY <1>9, <4>1
        <4> QED BY <2>1, <4>1, <4>2 DEF Range
      <3>3. CASE i > Len(t) + Len(e)
        BY <1>9, <2>2, <3>3
      <3> QED BY <1>1, <1>9, <3>1, <3>2, <3>3
    <2>3. ASSUME NEW i \in 1..Len(t) PROVE t[i] \in Range(w)
      <3>1. w[i] = t[i] /\ i \in 1..Len(w)
        BY <1>1, <1>9
      <3> QED BY <2>1, <3>1 DEF Range
    <2>4. ASSUME NEW i \in 1..Len(e) PROVE e[i] \in Range(w)
      <3>1. w[Len(t) + i] = e[i] /\ Len(t) + i \in 1..Len(w)
        BY <1>1, <1>9
      <3> QED BY <2>1, <3>1 DEF Range
    <2>5. \A m \in Range(w) : m # Nothing => m \in Range(t) \cup Range(e)
      BY <2>1, <2>2 DEF Range
    <2>6. \A m \in Range(t) \cup Range(e) : m \in Range(w)
      BY <2>1, <2>3, <2>4 DEF Range
    <2> QED BY <2>5, <2>6
  <1> QED BY <1>4, <1>6, <1>7, <1>8 DEF Follows

\* A message that is dealt with is answered in its turn.
LEMMA Serving ==
    ASSUME NEW c \in Seq(Reply), NEW t \in Seq(Message), NEW e, t # <<>>, Carries(c, t, e),
           NEW a \in Reply, a.to = Head(t)
    PROVE  /\ Carries(Append(c, a), Tail(t), e)
           /\ Append(c, a) \in Seq(Reply) /\ Tail(t) \in Seq(Message)
           /\ Range(Append(c, a)) = Range(c) \cup {a}
  <1>1. /\ Len(c) \in Nat /\ Len(t) \in Nat \ {0} /\ Head(t) = t[1]
        /\ DOMAIN c = 1..Len(c) /\ DOMAIN Append(c, a) = 1..(Len(c) + 1)
    <2>1. Append(c, a) \in Seq(Reply) /\ Len(Append(c, a)) = Len(c) + 1
      BY AppendProperties
    <2> QED BY <2>1, LenProperties, EmptySeq
  <1>2. /\ Append(c, a) \in Seq(Reply) /\ Len(Append(c, a)) = Len(c) + 1
        /\ \A i \in 1..Len(c) : Append(c, a)[i] = c[i]
        /\ Append(c, a)[Len(c) + 1] = a
    BY AppendProperties
  <1>3. /\ Tail(t) \in Seq(Message) /\ Len(Tail(t)) = Len(t) - 1
        /\ \A i \in 1..Len(Tail(t)) : Tail(t)[i] = t[i + 1]
    BY HeadTailProperties
  <1>4. ASSUME NEW i \in 1..(Len(c) + Len(t))
        PROVE  About(Append(c, a), Tail(t), i) = About(c, t, i)
    <2>1. CASE i <= Len(c)
      BY <1>1, <1>2, <2>1 DEF About
    <2>2. CASE i = Len(c) + 1
      BY <1>1, <1>2, <2>2 DEF About
    <2>3. CASE i > Len(c) + 1
      BY <1>1, <1>2, <1>3, <2>3 DEF About
    <2> QED BY <1>1, <2>1, <2>2, <2>3
  <1>5. Len(Append(c, a)) + Len(Tail(t)) = Len(c) + Len(t)
    BY <1>1, <1>2, <1>3
  <1>6. Carries(Append(c, a), Tail(t), e)
    BY <1>4, <1>5 DEF Carries
  <1>7. Range(Append(c, a)) = Range(c) \cup {a}
    <2>1. \A i \in 1..(Len(c) + 1) : Append(c, a)[i] \in Range(c) \cup {a}
      BY <1>1, <1>2 DEF Range
    <2>2. \A i \in 1..Len(c) : c[i] \in Range(Append(c, a))
      BY <1>1, <1>2 DEF Range
    <2>3. a \in Range(Append(c, a))
      BY <1>1, <1>2 DEF Range
    <2> QED BY <1>1, <2>1, <2>2, <2>3 DEF Range
  <1> QED BY <1>2, <1>3, <1>6, <1>7

\* What was sent is lost, and so may be the answers.
LEMMA Losing ==
    ASSUME NEW c \in Seq(Reply), NEW t \in Seq(Message), NEW e, Carries(c, t, e),
           NEW d \in {<<>>, c}
    PROVE  Carries(d, <<>>, e)
  <1>1. CASE d = <<>>
    BY <1>1, Quiet
  <1>2. CASE d = c
    <2>1. Len(c) \in Nat /\ Len(t) \in Nat
      OBVIOUS
    <2>2. \A i \in 1..(Len(c) + Len(<<>>)) : i \in 1..(Len(c) + Len(t)) /\ About(c, <<>>, i) = About(c, t, i)
      BY <2>1 DEF About
    <2>3. Carries(c, <<>>, e)
      BY <2>2 DEF Carries
    <2> QED BY <1>2, <2>3
  <1> QED BY <1>1, <1>2

\* The first answer that is no error is the one to the first request.
LEMMA Answering ==
    ASSUME NEW c \in Seq(Reply), NEW t \in Seq(Message), NEW e \in Seq(Request),
           c # <<>>, e # <<>>, Carries(c, t, e), Head(c).to # Nothing
    PROVE  /\ Head(c) \in Reply /\ Head(c) \in Range(c) /\ Head(c).to = Head(e)
           /\ Carries(Tail(c), t, Tail(e))
           /\ Tail(c) \in Seq(Reply) /\ Range(Tail(c)) \subseteq Range(c)
  <1>1. /\ Len(c) \in Nat \ {0} /\ Len(t) \in Nat /\ Len(e) \in Nat \ {0}
        /\ Head(c) = c[1] /\ Head(e) = e[1] /\ DOMAIN c = 1..Len(c)
    BY LenProperties, EmptySeq
  <1>2. /\ Head(c) \in Reply /\ Tail(c) \in Seq(Reply) /\ Len(Tail(c)) = Len(c) - 1
        /\ \A i \in 1..Len(Tail(c)) : Tail(c)[i] = c[i + 1]
    BY HeadTailProperties
  <1>3. /\ Len(Tail(e)) = Len(e) - 1
        /\ \A i \in 1..Len(Tail(e)) : Tail(e)[i] = e[i + 1]
    BY HeadTailProperties
  <1>4. PICK n \in Nat : \A i \in 1..(Len(c) + Len(t)) :
           About(c, t, i) = IF i > n /\ i <= n + Len(e) THEN e[i - n] ELSE Nothing
    BY DEF Carries
  <1>5. n = 0 /\ Head(c).to = Head(e)
    <2>1. About(c, t, 1) = Head(c).to
      BY <1>1 DEF About
    <2>2. 1 > n /\ 1 <= n + Len(e) /\ Head(c).to = e[1 - n]
      BY <1>1, <1>4, <2>1
    <2> QED BY <1>1, <2>2
  <1>6. ASSUME NEW i \in 1..(Len(Tail(c)) + Len(t))
        PROVE  About(Tail(c), t, i) = IF i > 0 /\ i <= 0 + Len(Tail(e)) THEN Tail(e)[i - 0] ELSE Nothing
    <2>1. About(Tail(c), t, i) = About(c, t, i + 1)
      BY <1>1, <1>2 DEF About
    <2>2. About(c, t, i + 1) = IF i + 1 <= Len(e) THEN e[i + 1] ELSE Nothing
      BY <1>1, <1>2, <1>4, <1>5
    <2> QED BY <1>1, <1>3, <2>1, <2>2
  <1>7. Carries(Tail(c), t, Tail(e))
    BY <1>6 DEF Carries
  <1>8. Head(c) \in Range(c)
    BY <1>1 DEF Range
  <1>9. Range(Tail(c)) \subseteq Range(c)
    <2>1. DOMAIN Tail(c) = 1..Len(Tail(c))
      BY <1>2
    <2>2. \A i \in 1..Len(Tail(c)) : Tail(c)[i] \in Range(c)
      BY <1>1, <1>2 DEF Range
    <2> QED BY <2>1, <2>2 DEF Range
  <1> QED BY <1>2, <1>5, <1>7, <1>8, <1>9

\* Part of what was received is thrown away, when nothing more is expected.
LEMMA Dropping ==
    ASSUME NEW c \in Seq(Reply), NEW t \in Seq(Message), Carries(c, t, <<>>),
           NEW n \in 0..Len(c)
    PROVE  LET d == SubSeq(c, n + 1, Len(c))
           IN  d \in Seq(Reply) /\ Range(d) \subseteq Range(c) /\ Carries(d, t, <<>>)
  <1> DEFINE d == SubSeq(c, n + 1, Len(c))
  <1>1. Len(c) \in Nat /\ Len(t) \in Nat /\ DOMAIN c = 1..Len(c)
    OBVIOUS
  <1>2. \A i \in (n + 1)..Len(c) : c[i] \in Reply
    BY <1>1, ElementOfSeq
  <1>3. /\ d \in Seq(Reply) /\ Len(d) = Len(c) - n
        /\ \A i \in 1..(Len(c) - n) : d[i] = c[n + i]
    <2>1. /\ d \in Seq(Reply) /\ Len(d) = IF n + 1 <= Len(c) THEN Len(c) - (n + 1) + 1 ELSE 0
          /\ \A i \in 1..(Len(c) - (n + 1) + 1) : d[i] = c[(n + 1) + i - 1]
      BY <1>1, <1>2, SubSeqProperties
    <2> HIDE DEF d
    <2>2. Len(d) = Len(c) - n
      <3> DEFINE m == Len(c)
      <3>1. m \in Nat /\ n \in 0..m /\ Len(d) = IF n + 1 <= m THEN m - (n + 1) + 1 ELSE 0
        BY <1>1, <2>1
      <3> HIDE DEF m
      <3>2. Len(d) = m - n
        BY <3>1
      <3> QED BY <3>2 DEF m
    <2>3. ASSUME NEW i \in 1..(Len(c) - n) PROVE d[i] = c[n + i]
      <3>1. (n + 1) + i - 1 = n + i /\ i \in 1..(Len(c) - (n + 1) + 1)
        BY <1>1
      <3> QED BY <2>1, <3>1
    <2> QED BY <2>1, <2>2, <2>3
  <1> HIDE DEF d
  <1>4. \A i \in 1..(Len(c) + Len(t)) : About(c, t, i) = Nothing
    BY DEF Carries
  <1>5. ASSUME NEW i \in 1..(Len(d) + Len(t)) PROVE About(d, t, i) = Nothing
    <2>1. About(d, t, i) = About(c, t, i + n)
      BY <1>1, <1>3 DEF About
    <2>2. i + n \in 1..(Len(c) + Len(t))
      BY <1>1, <1>3
    <2> QED BY <1>4, <2>1, <2>2
  <1>6. Carries(d, t, <<>>)
    BY <1>5 DEF Carries
  <1>7. Range(d) \subseteq Range(c)
    <2>1. DOMAIN d = 1..Len(d)
      BY <1>3
    <2>2. ASSUME NEW i \in 1..Len(d) PROVE d[i] \in Range(c)
      <3>1. n + i \in 1..Len(c) /\ d[i] = c[n + i]
        BY <1>1, <1>3
      <3> QED BY <1>1, <3>1 DEF Range
    <2> QED BY <2>1, <2>2 DEF Range
  <1> QED BY <1>3, <1>6, <1>7 DEF d

\* What a connection carries is among what is expected, and no two of its
\* messages are about the same request.
LEMMA Carried ==
    ASSUME NEW c \in Seq(Reply), NEW t \in Seq(Message), NEW e \in Seq(Request),
           IsInjective(e), Carries(c, t, e)
    PROVE  /\ \A m \in Range(t) : m # Nothing => m \in Range(e)
           /\ \A a \in Range(c) : a.to # Nothing => a.to \in Range(e)
           /\ \A a, b \in Range(c) : a.to # Nothing /\ a.to = b.to => a = b
           /\ t # <<>> /\ Head(t) # Nothing =>
                /\ Head(t) \notin Range(Tail(t)) /\ Head(t) \in Range(t)
                /\ \A a \in Range(c) : a.to # Head(t)
                /\ Range(t) = Range(Tail(t)) \cup {Head(t)}
  <1>1. /\ Len(c) \in Nat /\ Len(t) \in Nat /\ Len(e) \in Nat
        /\ DOMAIN c = 1..Len(c) /\ DOMAIN t = 1..Len(t) /\ DOMAIN e = 1..Len(e)
    OBVIOUS
  <1>2. PICK n \in Nat : \A i \in 1..(Len(c) + Len(t)) :
           About(c, t, i) = IF i > n /\ i <= n + Len(e) THEN e[i - n] ELSE Nothing
    BY DEF Carries
  <1>3. ASSUME NEW i \in 1..(Len(c) + Len(t)), About(c, t, i) # Nothing
        PROVE  i - n \in 1..Len(e) /\ About(c, t, i) = e[i - n] /\ About(c, t, i) \in Range(e)
    BY <1>1, <1>2, <1>3 DEF Range
  <1>4. ASSUME NEW i \in 1..(Len(c) + Len(t)), NEW j \in 1..(Len(c) + Len(t)),
               About(c, t, i) # Nothing, About(c, t, i) = About(c, t, j)
        PROVE  i = j
    <2>1. i - n \in DOMAIN e /\ j - n \in DOMAIN e /\ e[i - n] = e[j - n]
      BY <1>1, <1>3, <1>4
    <2>2. i - n = j - n
      BY <2>1 DEF IsInjective
    <2> QED BY <1>1, <2>2
  <1>5. \A i \in 1..Len(c) : i \in 1..(Len(c) + Len(t)) /\ About(c, t, i) = c[i].to
    BY <1>1 DEF About
  <1>6. \A i \in 1..Len(t) : i + Len(c) \in 1..(Len(c) + Len(t)) /\ About(c, t, i + Len(c)) = t[i]
    BY <1>1 DEF About
  <1>7. \A m \in Range(t) : m # Nothing => m \in Range(e)
    BY <1>1, <1>3, <1>6 DEF Range
  <1>8. \A a \in Range(c) : a.to # Nothing => a.to \in Range(e)
    BY <1>1, <1>3, <1>5 DEF Range
  <1>9. \A a, b \in Range(c) : a.to # Nothing /\ a.to = b.to => a = b
    <2>1. ASSUME NEW i \in 1..Len(c), NEW j \in 1..Len(c), c[i].to # Nothing, c[i].to = c[j].to
          PROVE  i = j
      BY <1>4, <1>5, <2>1
    <2> QED BY <1>1, <2>1 DEF Range
  <1>10. ASSUME t # <<>>, Head(t) # Nothing
         PROVE  /\ Head(t) \notin Range(Tail(t)) /\ Head(t) \in Range(t)
                /\ \A a \in Range(c) : a.to # Head(t)
                /\ Range(t) = Range(Tail(t)) \cup {Head(t)}
    <2>1. 1 \in 1..Len(t) /\ Head(t) = t[1]
      BY <1>1, <1>10
    <2>2. /\ DOMAIN Tail(t) = 1..(Len(t) - 1)
          /\ \A i \in 1..(Len(t) - 1) : Tail(t)[i] = t[i + 1]
      <3>1. Tail(t) \in Seq(Message) /\ Len(Tail(t)) = Len(t) - 1
            /\ \A i \in 1..Len(Tail(t)) : Tail(t)[i] = t[i + 1]
        BY <1>10, HeadTailProperties
      <3>2. DOMAIN Tail(t) = 1..Len(Tail(t))
        BY <3>1, LenProperties
      <3> QED BY <3>1, <3>2
    <2>3. ASSUME NEW i \in 1..(Len(t) - 1) PROVE Tail(t)[i] # Head(t)
      <3>1. i + 1 \in 1..Len(t) /\ Tail(t)[i] = t[i + 1] /\ i + 1 + Len(c) # 1 + Len(c)
        BY <1>1, <2>2
      <3> QED BY <1>4, <1>6, <1>10, <2>1, <3>1
    <2>4. ASSUME NEW i \in 1..Len(c) PROVE c[i].to # Head(t)
      <3>1. i # 1 + Len(c)
        BY <1>1
      <3> QED BY <1>4, <1>5, <1>6, <1>10, <2>1, <3>1
    <2>5. \A i \in 1..Len(t) : t[i] \in Range(Tail(t)) \cup {Head(t)}
      <3>1. ASSUME NEW i \in 1..Len(t), i # 1 PROVE t[i] \in Range(Tail(t))
        <4>1. i - 1 \in 1..(Len(t) - 1) /\ Tail(t)[i - 1] = t[i]
          BY <1>1, <2>2, <3>1
        <4> QED BY <2>2, <4>1 DEF Range
      <3> QED BY <2>1, <3>1
    <2>6. \A i \in 1..(Len(t) - 1) : Tail(t)[i] \in Range(t)
      BY <1>1, <2>2 DEF Range
    <2>7. Head(t) \in Range(t)
      BY <1>1, <2>1 DEF Range
    <2>8. Head(t) \notin Range(Tail(t))
      BY <2>2, <2>3 DEF Range
    <2>9. \A a \in Range(c) : a.to # Head(t)
      BY <1>1, <2>4 DEF Range
    <2>10. Range(t) \subseteq Range(Tail(t)) \cup {Head(t)}
      BY <1>1, <2>5 DEF Range
    <2>11. Range(Tail(t)) \subseteq Range(t)
      BY <2>2, <2>6 DEF Range
    <2> QED BY <2>7, <2>8, <2>9, <2>10, <2>11
  <1> QED BY <1>7, <1>8, <1>9, <1>10

-----------------------------------------------------------------------------
\* The invariant is kept.

\* No step changes the servers, nor the nodes.
LEMMA NodesStep ==
    ASSUME NodesInv, CallInv, [ClientNext]_clientVars
    PROVE  NodesInv' /\ UNCHANGED <<servers, nodes>>
  <1>1. UNCHANGED <<servers, nodes>> /\ DOMAIN dead' \subseteq DOMAIN dead
        => NodesInv' /\ UNCHANGED <<servers, nodes>>
    BY DEF NodesInv
  <1>2. CASE UNCHANGED clientVars
    BY <1>1, <1>2 DEF clientVars, state
  <1>3. CASE Call
    BY <1>1, <1>3 DEF Call, BeginCall, state
  <1>4. CASE RetryDead
    <2>1. UNCHANGED servers /\ DOMAIN dead' \subseteq DOMAIN dead
      BY <1>4 DEF RetryDead
    <2>2. PICK back \in SUBSET DOMAIN dead : nodes' = nodes \cup {s.host : s \in back}
      BY <1>4 DEF RetryDead
    <2>3. nodes' = nodes
      BY <2>2 DEF NodesInv
    <2> QED BY <1>1, <2>1, <2>3
  <1>5. CASE Skip
    BY <1>1, <1>5 DEF Skip, state
  <1>6. CASE GiveUp
    <2>1. queue # <<>> /\ UNCHANGED servers
      BY <1>6 DEF GiveUp, Proceeds, Running
    <2>2. Target \in Server /\ Target.host \in nodes
      BY <2>1, AtHead
    <2>3. NodeName(Target) \notin Host
      BY <2>2, ClientAssumption DEF NodeName, Server
    <2>4. \A n \in nodes : n \in Host
      BY ClientOf
    <2>5. nodes' = nodes
      BY <1>6, <2>3, <2>4 DEF GiveUp
    <2>6. DOMAIN dead' = DOMAIN dead \cup {Target}
      BY <1>6 DEF GiveUp, With
    <2> QED BY <2>1, <2>2, <2>5, <2>6 DEF NodesInv
  <1>7. CASE ConnectFails
    BY <1>1, <1>7 DEF ConnectFails, MarkFailed
  <1>8. CASE Send
    BY <1>1, <1>8 DEF Send, state
  <1>9. CASE SendFails
    BY <1>1, <1>9 DEF SendFails, MarkFailed
  <1>10. CASE Read
    BY <1>1, <1>10 DEF Read
  <1>11. CASE ReadFails
    BY <1>1, <1>11 DEF ReadFails, state
  <1>12. CASE ReadTimesOut
    BY <1>1, <1>12 DEF ReadTimesOut, MarkFailed
  <1>13. CASE Return
    BY <1>1, <1>13 DEF Return, state
  <1>14. CASE DeadTimeout
    BY <1>1, <1>14 DEF DeadTimeout
  <1>15. ASSUME NEW s, Environment(s) PROVE UNCHANGED <<servers, nodes, dead>>
    BY <1>15 DEF Environment, Serve, ServeLate, ForgetKey, Restart, Disconnect, RetryTimeout, state
  <1> QED BY <1>1, <1>2, <1>3, <1>4, <1>5, <1>6, <1>7, <1>8, <1>9, <1>10, <1>11, <1>12, <1>13,
             <1>14, <1>15 DEF ClientNext, Client

\* The answers that are expected are those to the head of the queue.
LEMMA Expecting ==
    ASSUME NodesInv, CallInv, NEW s
    PROVE  /\ Expected(s) \in Seq(Request) /\ IsInjective(Expected(s))
           /\ Range(Expected(s)) \subseteq Range(queue)
           /\ Expected(s) # <<>> => phase = "read" /\ s = Target
           /\ \A r \in Range(Expected(s)) : Proper(r) /\ Asked(r) = s
  <1>1. CASE phase = "read" /\ s = Target
    <2>1. queue # <<>> /\ Expected(s) = Batch
      BY <1>1 DEF CallInv, Expected
    <2> QED BY <1>1, <2>1, BatchFacts DEF CallInv
  <1>2. CASE ~(phase = "read" /\ s = Target)
    <2>1. Expected(s) = <<>>
      BY <1>2 DEF Expected
    <2>2. <<>> \in Seq(Request) /\ IsInjective(<<>>) /\ Range(<<>>) = {}
      BY DEF IsInjective, Range
    <2> QED BY <2>1, <2>2
  <1> QED BY <1>1, <1>2

\* The requests that are not sent are in the queue, and none of them was sent.
LEMMA NotSent ==
    ASSUME NodesInv, CallInv
    PROVE  /\ Unsent \subseteq Range(queue)
           /\ \A s : Range(Expected(s)) \cap Unsent = {}
           /\ phase = "run" => Unsent = Range(queue)
  <1>1. CASE phase = "read" /\ Hashed
    <2>1. queue # <<>> /\ Unsent = Range(Tail(queue)) /\ Batch = <<Head(queue)>>
      BY <1>1 DEF CallInv, Unsent, Batch
    <2>2. /\ queue \in Seq(Request) /\ Len(queue) \in Nat \ {0} /\ Head(queue) = queue[1]
          /\ DOMAIN queue = 1..Len(queue)
      BY <2>1, AtHead DEF CallInv
    <2>3. /\ DOMAIN Tail(queue) = 1..(Len(queue) - 1)
          /\ \A i \in 1..(Len(queue) - 1) : Tail(queue)[i] = queue[i + 1]
      <3>1. Tail(queue) \in Seq(Request) /\ Len(Tail(queue)) = Len(queue) - 1
            /\ \A i \in 1..Len(Tail(queue)) : Tail(queue)[i] = queue[i + 1]
        BY <2>1, <2>2, HeadTailProperties
      <3>2. DOMAIN Tail(queue) = 1..Len(Tail(queue))
        BY <3>1, LenProperties
      <3> QED BY <3>1, <3>2
    <2>4. ASSUME NEW i \in 1..(Len(queue) - 1)
          PROVE  Tail(queue)[i] \in Range(queue) /\ Tail(queue)[i] # Head(queue)
      <3>1. i + 1 \in DOMAIN queue /\ 1 \in DOMAIN queue /\ i + 1 # 1
        BY <2>2
      <3>2. queue[i + 1] # queue[1]
        BY <3>1 DEF CallInv, IsInjective
      <3> QED BY <2>2, <2>3, <3>1, <3>2 DEF Range
    <2>5. Range(Tail(queue)) \subseteq Range(queue) /\ Head(queue) \notin Range(Tail(queue))
      BY <2>3, <2>4 DEF Range
    <2>6. \A s : Range(Expected(s)) \subseteq {Head(queue)}
      BY <1>1, <2>1 DEF Expected, Range
    <2> QED BY <1>1, <2>1, <2>5, <2>6
  <1>2. CASE phase = "read" /\ ~Hashed
    BY <1>2 DEF Unsent
  <1>3. CASE phase # "read"
    <2>1. \A s : Expected(s) = <<>>
      BY <1>3 DEF Expected
    <2>2. Range(<<>>) = {}
      BY DEF Range
    <2>3. Unsent \in {Range(queue), {}}
      BY <1>3 DEF Unsent
    <2> QED BY <1>3, <2>1, <2>2, <2>3 DEF Unsent
  <1> QED BY <1>1, <1>2, <1>3

\* Steps that do not concern the calls
LEMMA SameCalls ==
    ASSUME NodesInv, CallInv, UNCHANGED <<servers, nodes, calls>>
    PROVE  /\ CallInv' /\ Unsent' = Unsent
           /\ \A s : Expected(s)' = Expected(s)
  <1>1. /\ UNCHANGED <<phase, call, queue, results, reply>> /\ Hashed' = Hashed
        /\ \A r : Asked(r)' = Asked(r) /\ Proper(r)' = Proper(r)
    BY HomesStay DEF calls
  <1>2. CallInv'
    BY <1>1 DEF CallInv
  <1>3. Target' = Target
    BY <1>1 DEF Target
  <1> QED BY <1>1, <1>2, <1>3 DEF Unsent, Expected, Batch

\* Steps that end the call
LEMMA Ending ==
    ASSUME NodesInv, CallInv, UNCHANGED <<servers, nodes, call, results>>, phase # "idle",
           queue' = <<>>, phase' = "run"
    PROVE  /\ CallInv' /\ Unsent' = {}
           /\ \A s : Expected(s)' = <<>>
  <1>1. <<>> \in Seq(Request) /\ IsInjective(<<>>) /\ Range(<<>>) = {}
    BY DEF IsInjective, Range
  <1>2. CallInv'
    BY <1>1 DEF CallInv
  <1> QED BY <1>1, <1>2 DEF Unsent, Expected

\* A connection that nothing happens on
LEMMA SameWire ==
    ASSUME NEW s, WireAt(s), UNCHANGED <<servers, nodes>>,
           toClient'[s] = toClient[s], toServer'[s] = toServer[s], late'[s] \subseteq late[s],
           Expected(s)' = Expected(s), Unsent' \subseteq Unsent
    PROVE  WireAt(s)'
  <1>1. \A r : Asked(r)' = Asked(r) /\ Proper(r)' = Proper(r)
    BY HomesStay
  <1> QED BY <1>1 DEF WireAt

\* A connection that is gone, at either end
LEMMA GoneWire ==
    ASSUME NEW s, WireAt(s), UNCHANGED <<servers, nodes>>,
           toClient[s] \in Seq(Reply), toServer[s] \in Seq(Message),
           toClient'[s] \in {<<>>, toClient[s]}, toServer'[s] = <<>>,
           toClient'[s] = <<>> \/ Expected(s)' = Expected(s),
           \A r \in late'[s] \ late[s] : Proper(r) /\ Asked(r) = s,
           late'[s] \cap Unsent' = {}
    PROVE  WireAt(s)'
  <1>1. \A r : Asked(r)' = Asked(r) /\ Proper(r)' = Proper(r)
    BY HomesStay
  <1>2. Carries(toClient'[s], toServer'[s], Expected(s)')
    <2>1. CASE toClient'[s] = <<>>
      BY <2>1, Quiet
    <2>2. CASE Expected(s)' = Expected(s)
      <3>1. Carries(toClient[s], toServer[s], Expected(s))
        BY DEF WireAt
      <3> HIDE DEF Message, Reply
      <3> QED BY <2>2, <3>1, Losing
    <2> QED BY <2>1, <2>2
  <1>3. Range(<<>>) = {}
    BY DEF Range
  <1> QED BY <1>1, <1>2, <1>3 DEF WireAt

\* What a server finds is on the connection or late.
LEMMA Finding ==
    ASSUME ClientInv, NEW s \in Server
    PROVE  /\ toServer[s] \in Seq(Message) /\ toClient[s] \in Seq(Reply)
           /\ \A r \in Range(toServer[s]) : r # Nothing =>
                r \in Range(Expected(s)) /\ r \in Request /\ Proper(r) /\ Asked(r) = s
           /\ \A a \in Range(toClient[s]) : a.to # Nothing => a.to \in Range(Expected(s))
  <1>1. toServer[s] \in Seq(Message) /\ toClient[s] \in Seq(Reply)
    BY DEF ClientInv, NetInv, Message
  <1>2. /\ Expected(s) \in Seq(Request) /\ IsInjective(Expected(s))
        /\ \A r \in Range(Expected(s)) : Proper(r) /\ Asked(r) = s
    BY Expecting DEF ClientInv
  <1>3. Carries(toClient[s], toServer[s], Expected(s))
    BY DEF ClientInv, WireInv, WireAt
  <1>4. /\ \A m \in Range(toServer[s]) : m # Nothing => m \in Range(Expected(s))
        /\ \A a \in Range(toClient[s]) : a.to # Nothing => a.to \in Range(Expected(s))
    BY <1>1, <1>2, <1>3, Carried
  <1>5. \A r : Proper(r) => r \in Request
    BY DEF Proper
  <1> QED BY <1>1, <1>2, <1>4, <1>5

\* Requests, answers and what is stored are lost, and nothing else happens.
Fades ==
    /\ UNCHANGED <<servers, nodes, call, reply, results>>
    /\ OnTheWay' \cup Unsent' \subseteq OnTheWay \cup Unsent
    /\ \A s \in Server : \A a \in Range(toClient'[s]) :
           a.line = "ERROR" \/ a \in Range(toClient[s])
    /\ \A s \in Server : \A k \in Key : memory'[s][k] \in {memory[s][k], Nothing}

\* What is on its way to one server
LEMMA OnTheWayIs ==
    /\ \A x : x \in OnTheWay <=>
         /\ x # Nothing
         /\ \E s \in Server : x \in late[s] \/ x \in Range(toServer[s])
    /\ \A x : x \in OnTheWay' <=>
         /\ x # Nothing
         /\ \E s \in Server : x \in late'[s] \/ x \in Range(toServer'[s])
  BY DEF OnTheWay

\* The queue without its head
LEMMA TailOfQueue ==
    ASSUME NodesInv, CallInv, queue # <<>>
    PROVE  /\ Tail(queue) \in Seq(Request) /\ IsInjective(Tail(queue))
           /\ Range(Tail(queue)) \subseteq Range(queue) /\ Head(queue) \notin Range(Tail(queue))
           /\ Len(Tail(queue)) = Len(queue) - 1
  <1>1. /\ queue \in Seq(Request) /\ Len(queue) \in Nat \ {0} /\ Head(queue) = queue[1]
        /\ DOMAIN queue = 1..Len(queue)
    BY AtHead DEF CallInv
  <1>2. /\ Tail(queue) \in Seq(Request) /\ Len(Tail(queue)) = Len(queue) - 1
        /\ DOMAIN Tail(queue) = 1..(Len(queue) - 1)
        /\ \A i \in 1..(Len(queue) - 1) : Tail(queue)[i] = queue[i + 1]
    <2>1. Tail(queue) \in Seq(Request) /\ Len(Tail(queue)) = Len(queue) - 1
          /\ \A i \in 1..Len(Tail(queue)) : Tail(queue)[i] = queue[i + 1]
      BY <1>1, HeadTailProperties
    <2>2. DOMAIN Tail(queue) = 1..Len(Tail(queue))
      BY <2>1, LenProperties
    <2> QED BY <2>1, <2>2
  <1>3. ASSUME NEW i \in 1..(Len(queue) - 1)
        PROVE  Tail(queue)[i] \in Range(queue) /\ Tail(queue)[i] # Head(queue)
    <2>1. i + 1 \in DOMAIN queue /\ 1 \in DOMAIN queue /\ i + 1 # 1
      BY <1>1
    <2>2. queue[i + 1] # queue[1]
      BY <2>1 DEF CallInv, IsInjective
    <2> QED BY <1>1, <1>2, <2>1, <2>2 DEF Range
  <1>4. IsInjective(Tail(queue))
    <2>1. ASSUME NEW i \in 1..(Len(queue) - 1), NEW j \in 1..(Len(queue) - 1),
                 Tail(queue)[i] = Tail(queue)[j]
          PROVE  i = j
      <3>1. i + 1 \in DOMAIN queue /\ j + 1 \in DOMAIN queue /\ queue[i + 1] = queue[j + 1]
        BY <1>1, <1>2, <2>1
      <3>2. i + 1 = j + 1
        BY <3>1 DEF CallInv, IsInjective
      <3> QED BY <1>1, <3>2
    <2> QED BY <1>2, <2>1 DEF IsInjective
  <1>5. Range(Tail(queue)) \subseteq Range(queue) /\ Head(queue) \notin Range(Tail(queue))
    BY <1>2, <1>3 DEF Range
  <1> QED BY <1>2, <1>4, <1>5

\* Dead servers are tried again, over new connections.
LEMMA RetryDeadStep ==
    ASSUME ClientInv, NodesInv', UNCHANGED <<servers, nodes>>, RetryDead
    PROVE  ClientInv' /\ Fades
  <1>1. UNCHANGED <<memory, late, calls>>
    BY DEF RetryDead
  <1>2. CallInv' /\ Unsent' = Unsent /\ \A s : Expected(s)' = Expected(s)
    BY <1>1, SameCalls DEF ClientInv
  <1>3. /\ toServer' \in [Server -> Seq(Request \cup {Nothing})]
        /\ toClient' \in [Server -> Seq(Reply)]
        /\ \A s \in Server : \/ toServer'[s] = <<>> /\ toClient'[s] = <<>>
                             \/ toServer'[s] = toServer[s] /\ toClient'[s] = toClient[s]
    <2>1. PICK back :
            /\ toServer' = [s \in Server |-> IF s \in back THEN <<>> ELSE toServer[s]]
            /\ toClient' = [s \in Server |-> IF s \in back THEN <<>> ELSE toClient[s]]
      BY DEF RetryDead
    <2>2. <<>> \in Seq(Request \cup {Nothing}) /\ <<>> \in Seq(Reply)
      OBVIOUS
    <2>3. toServer \in [Server -> Seq(Request \cup {Nothing})] /\ toClient \in [Server -> Seq(Reply)]
      BY DEF ClientInv, NetInv
    <2> HIDE DEF Request, Reply, Server
    <2> QED BY <2>1, <2>2, <2>3
  <1>4. NetInv'
    BY <1>1, <1>3 DEF ClientInv, NetInv
  <1>5. ASSUME NEW s \in Server PROVE WireAt(s)'
    <2>1. WireAt(s) /\ toServer[s] \in Seq(Message) /\ toClient[s] \in Seq(Reply)
      BY Finding DEF ClientInv, WireInv
    <2>2. CASE toServer'[s] = <<>> /\ toClient'[s] = <<>>
      <3>1. late'[s] \cap Unsent' = {} /\ late'[s] \ late[s] = {}
        BY <1>1, <1>2, <2>1 DEF WireAt
      <3> QED BY <2>1, <2>2, <3>1, GoneWire
    <2>3. CASE toServer'[s] = toServer[s] /\ toClient'[s] = toClient[s]
      BY <1>1, <1>2, <2>1, <2>3, SameWire
    <2> QED BY <1>3, <2>2, <2>3
  <1>6. Fades
    <2>1. Range(<<>>) = {}
      BY DEF Range
    <2>2. \A x : x \in OnTheWay' => x \in OnTheWay
      BY <1>1, <1>3, <2>1, OnTheWayIs
    <2>3. \A s \in Server : Range(toClient'[s]) \subseteq Range(toClient[s])
      BY <1>3, <2>1
    <2> QED BY <1>1, <1>2, <2>2, <2>3 DEF Fades, calls
  <1> QED BY <1>2, <1>4, <1>5, <1>6 DEF ClientInv, WireInv

\* The server at hand is left alone.
LEMMA SkipStep ==
    ASSUME ClientInv, NodesInv', UNCHANGED <<servers, nodes>>, Skip
    PROVE  ClientInv' /\ Fades
  <1>1. /\ UNCHANGED <<memory, net, phase, call, results, reply>>
        /\ queue' \in {Tail(queue), <<>>} /\ phase = "run" /\ queue # <<>>
    BY DEF Skip, Proceeds, Running
  <1>2. /\ queue' \in Seq(Request) /\ IsInjective(queue') /\ Range(queue') \subseteq Range(queue)
    <2>1. <<>> \in Seq(Request) /\ IsInjective(<<>>) /\ Range(<<>>) = {}
      BY DEF IsInjective, Range
    <2> QED BY <1>1, <2>1, TailOfQueue DEF ClientInv
  <1>3. \A r : Asked(r)' = Asked(r) /\ Proper(r)' = Proper(r)
    BY HomesStay
  <1>4. CallInv'
    BY <1>1, <1>2, <1>3 DEF ClientInv, CallInv
  <1>5. Unsent' \subseteq Unsent /\ \A s : Expected(s)' = Expected(s)
    BY <1>1, <1>2 DEF Unsent, Expected
  <1>6. NetInv'
    BY <1>1 DEF ClientInv, NetInv, net
  <1>7. ASSUME NEW s \in Server PROVE WireAt(s)'
    BY <1>1, <1>5, SameWire DEF ClientInv, WireInv, net
  <1>8. Fades
    <2>1. OnTheWay' = OnTheWay
      BY <1>1 DEF OnTheWay, net
    <2> QED BY <1>1, <1>5, <2>1 DEF Fades, net
  <1> QED BY <1>4, <1>6, <1>7, <1>8 DEF ClientInv, WireInv

\* The call ends, and the connections stay as they are.
LEMMA RaiseStep ==
    ASSUME ClientInv, NodesInv', UNCHANGED <<servers, nodes, memory, net>>,
           phase = "run", Raise
    PROVE  ClientInv' /\ Fades
  <1>1. CallInv' /\ Unsent' = {} /\ \A s : Expected(s)' = <<>>
    BY Ending DEF ClientInv, Raise
  <1>2. \A s : Expected(s) = <<>>
    BY DEF Expected
  <1>3. NetInv'
    BY DEF ClientInv, NetInv, net
  <1>4. ASSUME NEW s \in Server PROVE WireAt(s)'
    BY <1>1, <1>2, SameWire DEF ClientInv, WireInv, net
  <1>5. OnTheWay' = OnTheWay
    BY DEF OnTheWay, net
  <1>6. Fades
    BY <1>1, <1>5 DEF Fades, net, Raise
  <1> QED BY <1>1, <1>3, <1>4, <1>6 DEF ClientInv, WireInv

\* The call ends, and its connection is closed.
LEMMA CloseStep ==
    ASSUME ClientInv, NodesInv', UNCHANGED <<servers, nodes, memory>>, phase # "idle", queue # <<>>,
           NEW sent, Close(Target, sent), Raise,
           \A r \in Stores(sent) : r \in Range(Batch) /\ r \in OnTheWay \cup Unsent
    PROVE  ClientInv' /\ Fades
  <1>1. CallInv' /\ Unsent' = {} /\ \A s : Expected(s)' = <<>>
    BY Ending DEF ClientInv, Raise
  <1>2. Target \in Server
    BY AtHead DEF ClientInv
  <1>3. /\ toServer \in [Server -> Seq(Message)] /\ toClient \in [Server -> Seq(Reply)]
        /\ late \in [Server -> SUBSET Request]
    BY DEF ClientInv, NetInv, Message
  <1>4. /\ late' = [late EXCEPT ![Target] = @ \cup Stores(sent)]
        /\ toServer' = [toServer EXCEPT ![Target] = <<>>]
        /\ toClient' = [toClient EXCEPT ![Target] = <<>>]
    BY DEF Close
  <1>5. \A r \in Stores(sent) : r \in Request /\ Proper(r) /\ Asked(r) = Target
    <2>1. \A r \in Range(Batch) : r \in Range(queue) /\ Asked(r) = Target
      BY BatchFacts DEF ClientInv
    <2>2. \A r \in Range(queue) : Proper(r) /\ r \in Request
      BY DEF ClientInv, CallInv, Proper
    <2> QED BY <2>1, <2>2
  <1>6. NetInv'
    <2>1. late' \in [Server -> SUBSET Request]
      <3> HIDE DEF Server, Request
      <3> QED BY <1>3, <1>4, <1>5
    <2>2. toServer' \in [Server -> Seq(Message)] /\ toClient' \in [Server -> Seq(Reply)]
      <3>1. <<>> \in Seq(Message) /\ <<>> \in Seq(Reply)
        OBVIOUS
      <3> HIDE DEF Server, Message, Reply
      <3> QED BY <1>3, <1>4, <3>1
    <2> QED BY <2>1, <2>2 DEF ClientInv, NetInv, Message
  <1>7. ASSUME NEW s \in Server PROVE WireAt(s)'
    <2>1. WireAt(s) /\ toServer[s] \in Seq(Message) /\ toClient[s] \in Seq(Reply)
      BY Finding DEF ClientInv, WireInv
    <2>2. CASE s = Target
      <3>1. toServer'[s] = <<>> /\ toClient'[s] = <<>> /\ late'[s] = late[s] \cup Stores(sent)
        BY <1>2, <1>3, <1>4, <2>2
      <3>2. \A r \in late'[s] \ late[s] : Proper(r) /\ Asked(r) = s
        BY <1>5, <2>2, <3>1
      <3> QED BY <1>1, <2>1, <3>1, <3>2, GoneWire
    <2>3. CASE s # Target
      <3>1. toServer'[s] = toServer[s] /\ toClient'[s] = toClient[s] /\ late'[s] = late[s]
        BY <1>3, <1>4, <2>3
      <3>2. Expected(s) = <<>>
        BY <2>3 DEF Expected
      <3> QED BY <1>1, <2>1, <3>1, <3>2, SameWire
    <2> QED BY <2>2, <2>3
  <1>8. Fades
    <2>1. Range(<<>>) = {}
      BY DEF Range
    <2>2. ASSUME NEW s \in Server
          PROVE  /\ late'[s] \subseteq late[s] \cup Stores(sent)
                 /\ Range(toServer'[s]) \subseteq Range(toServer[s])
                 /\ Range(toClient'[s]) \subseteq Range(toClient[s])
      <3>1. CASE s = Target
        BY <1>2, <1>3, <1>4, <2>1, <3>1
      <3>2. CASE s # Target
        BY <1>3, <1>4, <3>2
      <3> QED BY <3>1, <3>2
    <2>3. \A x : x \in OnTheWay' => x \in OnTheWay \cup Unsent
      BY <2>2, OnTheWayIs
    <2> QED BY <1>1, <2>2, <2>3 DEF Fades, Raise
  <1> QED BY <1>1, <1>6, <1>7, <1>8 DEF ClientInv, WireInv

\* The three ways in which a connection is given up
LEMMA ClosingSteps ==
    ASSUME ClientInv, NodesInv', UNCHANGED <<servers, nodes>>,
           SendFails \/ ReadFails \/ ReadTimesOut
    PROVE  ClientInv' /\ Fades
  <1>1. ASSUME phase = "read"
        PROVE  /\ queue # <<>> /\ Target \in Server
               /\ \A r \in Stores(toServer[Target]) : r \in Range(Batch) /\ r \in OnTheWay
    <2>1. queue # <<>>
      BY <1>1 DEF ClientInv, CallInv
    <2>2. Target \in Server
      BY <2>1, AtHead DEF ClientInv
    <2>3. Expected(Target) = Batch
      BY <1>1 DEF Expected
    <2>4. \A r \in Range(toServer[Target]) : r # Nothing => r \in Range(Batch)
      BY <2>2, <2>3, Finding
    <2>5. \A r \in Range(toServer[Target]) : r # Nothing => r \in OnTheWay
      BY <2>2, OnTheWayIs
    <2> QED BY <2>1, <2>2, <2>4, <2>5 DEF Stores
  <1>2. CASE SendFails
    <2>1. phase = "run" /\ queue # <<>> /\ UNCHANGED memory /\ Raise
      BY <1>2 DEF SendFails, Asks, Proceeds, Running
    <2>2. PICK n \in 0..Len(Batch) :
            Close(Target, IF Target \in cut THEN <<>> ELSE SubSeq(Batch, 1, n))
      BY <1>2 DEF SendFails
    <2> DEFINE sent == IF Target \in cut THEN <<>> ELSE SubSeq(Batch, 1, n)
    <2>3. Range(sent) \subseteq Range(Batch)
      <3>1. /\ Batch \in Seq(Request) /\ Len(Batch) \in Nat
            /\ \A i \in 1..Len(Batch) : Batch[i] \in Range(Batch)
        BY <2>1, BatchFacts DEF ClientInv
      <3>2. /\ SubSeq(Batch, 1, n) \in Seq(Request) /\ Len(SubSeq(Batch, 1, n)) = n
            /\ \A i \in 1..n : SubSeq(Batch, 1, n)[i] = Batch[i]
        BY <3>1, SubSeqProperties
      <3>3. DOMAIN SubSeq(Batch, 1, n) = 1..n
        BY <3>2, LenProperties
      <3>4. Range(SubSeq(Batch, 1, n)) \subseteq Range(Batch)
        BY <3>1, <3>2, <3>3 DEF Range
      <3>5. Range(<<>>) = {}
        BY DEF Range
      <3> QED BY <3>4, <3>5
    <2> HIDE DEF sent
    <2>4. Range(Batch) \subseteq Unsent
      BY <2>1, BatchFacts, NotSent DEF ClientInv
    <2>5. \A r \in Stores(sent) : r \in Range(Batch) /\ r \in OnTheWay \cup Unsent
      BY <2>3, <2>4 DEF Stores
    <2>6. Close(Target, sent)
      BY <2>2 DEF sent
    <2> QED BY <2>1, <2>5, <2>6, CloseStep
  <1>3. CASE ReadFails
    <2>1. phase = "read" /\ UNCHANGED memory /\ Raise /\ Close(Target, toServer[Target])
      BY <1>3 DEF ReadFails
    <2> QED BY <1>1, <2>1, CloseStep
  <1>4. CASE ReadTimesOut
    <2>1. phase = "read" /\ UNCHANGED memory /\ Raise /\ Close(Target, toServer[Target])
      BY <1>4 DEF ReadTimesOut
    <2> QED BY <1>1, <2>1, CloseStep
  <1> QED BY <1>2, <1>3, <1>4

\* What is sent at once goes out after what is on its way.
LEMMA SendStep ==
    ASSUME ClientInv, NodesInv', UNCHANGED <<servers, nodes>>, Send
    PROVE  ClientInv' /\ Fades
  <1>1. /\ phase = "run" /\ queue # <<>> /\ phase' = "read"
        /\ UNCHANGED <<memory, late, toClient, call, queue, results, reply>>
    BY DEF Send, Asks, Proceeds, Running
  <1>2. Hashed' = Hashed /\ \A r : Asked(r)' = Asked(r) /\ Proper(r)' = Proper(r)
    BY HomesStay
  <1>3. CallInv'
    BY <1>1, <1>2 DEF ClientInv, CallInv
  <1>4. Target' = Target /\ Batch' = Batch
    BY <1>1, <1>2 DEF Target, Batch
  <1>5. /\ \A s : Expected(s) = <<>>
        /\ \A s : Expected(s)' = IF s = Target THEN Batch ELSE <<>>
    BY <1>1, <1>4 DEF Expected
  <1>6. Unsent' \subseteq Unsent /\ Range(Batch) \subseteq Unsent
    <2>1. Unsent = Range(queue) /\ Range(Batch) \subseteq Range(queue)
      BY <1>1, NotSent, BatchFacts DEF ClientInv
    <2>2. Unsent' \subseteq Range(queue)
      <3>1. Range(Tail(queue)) \subseteq Range(queue)
        BY <1>1, TailOfQueue DEF ClientInv
      <3> QED BY <1>1, <3>1 DEF Unsent
    <2> QED BY <2>1, <2>2
  <1>7. /\ Target \in Server
        /\ toServer \in [Server -> Seq(Message)] /\ toClient \in [Server -> Seq(Reply)]
    BY <1>1, AtHead DEF ClientInv, NetInv, Message
  <1>8. /\ Batch \in Seq(Request)
        /\ \A r \in Range(Batch) : r \in Request
    <2>1. Batch \in Seq(Request) /\ Range(Batch) \subseteq Range(queue)
      BY <1>1, BatchFacts DEF ClientInv
    <2>2. \A r \in Range(queue) : r \in Request
      BY DEF ClientInv, CallInv, Proper
    <2> QED BY <2>1, <2>2
  <1>9. PICK pad \in {<<>>, <<Nothing>>} :
          toServer' = IF Target \in cut THEN toServer
                      ELSE [toServer EXCEPT ![Target] = @ \o Batch \o pad]
    BY DEF Send
  <1>10. ASSUME NEW s \in Server
         PROVE  /\ toServer'[s] \in Seq(Message)
                /\ Carries(toClient[s], toServer'[s], Expected(s)')
                /\ Range(toServer'[s]) \ {Nothing} \subseteq Range(toServer[s]) \cup Range(Batch)
    <2>1. /\ toServer[s] \in Seq(Message) /\ toClient[s] \in Seq(Reply)
          /\ Carries(toClient[s], toServer[s], <<>>)
      BY <1>5, Finding DEF ClientInv, WireInv, WireAt
    <2> DEFINE sent == toServer[s] \o Batch \o pad
    <2>2. /\ Carries(toClient[s], sent, Batch) /\ Carries(toClient[s], toServer[s], Batch)
          /\ sent \in Seq(Message)
          /\ Range(sent) \ {Nothing} = (Range(toServer[s]) \cup Range(Batch)) \ {Nothing}
      <3>1. /\ Batch \in Seq(Request) /\ sent = toServer[s] \o Batch \o pad
            /\ pad \in {<<>>, <<Nothing>>}
        BY <1>8, <1>9
      <3> HIDE DEF sent
      <3>2. Follows(toClient[s], toServer[s], sent, Batch)
        BY <2>1, <3>1, Sending
      <3> QED BY <3>2 DEF Follows
    <2>3. CASE s # Target
      BY <1>5, <1>7, <1>9, <2>1, <2>3
    <2>4. CASE s = Target /\ Target \in cut
      BY <1>5, <1>9, <2>1, <2>2, <2>4
    <2>5. CASE s = Target /\ Target \notin cut
      <3>1. toServer'[s] = sent
        <4> HIDE DEF Server, Message
        <4> QED BY <1>7, <1>9, <2>5
      <3> HIDE DEF sent
      <3> QED BY <1>5, <2>2, <2>5, <3>1
    <2> QED BY <2>3, <2>4, <2>5
  <1>11. NetInv'
    <2>1. toServer' \in [Server -> Seq(Message)]
      <3>1. DOMAIN toServer' = Server /\ toServer' = [s \in Server |-> toServer'[s]]
        <4> HIDE DEF Server, Message
        <4> QED BY <1>7, <1>9
      <3> HIDE DEF Server, Message
      <3> QED BY <1>10, <3>1
    <2> QED BY <1>1, <2>1 DEF ClientInv, NetInv, Message
  <1>12. ASSUME NEW s \in Server PROVE WireAt(s)'
    <2>1. WireAt(s)
      BY DEF ClientInv, WireInv
    <2>2. late[s] \cap (Unsent' \cup Range(toServer'[s])) = {}
      <3>1. Nothing \notin late[s]
        BY <2>1, ClientAssumption DEF WireAt, Proper
      <3> QED BY <1>6, <1>10, <2>1, <3>1 DEF WireAt
    <2> QED BY <1>1, <1>2, <1>10, <2>1, <2>2 DEF WireAt
  <1>13. Fades
    <2>1. \A x : x \in OnTheWay' => x \in OnTheWay \cup Unsent
      BY <1>1, <1>6, <1>10, OnTheWayIs
    <2> QED BY <1>1, <1>6, <2>1 DEF Fades, ClientInv, NetInv
  <1> QED BY <1>3, <1>11, <1>12, <1>13 DEF ClientInv, WireInv

\* The client reads the answer to the request at the head of the queue.
LEMMA ReadStep ==
    ASSUME ClientInv, NodesInv', UNCHANGED <<servers, nodes>>, Read
    PROVE  /\ ClientInv'
           /\ OnTheWay' = OnTheWay /\ Unsent' \subseteq Unsent
           /\ UNCHANGED <<memory, call, reply>>
           /\ \A s \in Server : Range(toClient'[s]) \subseteq Range(toClient[s])
           /\ \E s \in Server : \E a \in Range(toClient[s]) :
                /\ a.line # "ERROR" /\ a.to \in call
                /\ results' = With(results, a.to, Found(a.to, a))
  <1> DEFINE r == Head(queue)
             a == Head(toClient[Target])
             rest == Tail(toClient[Target])
             last == Hashed \/ Len(queue) = 1
  <1>1. /\ phase = "read" /\ queue # <<>> /\ toClient[Target] # <<>>
        /\ a.line # "ERROR" /\ results' = With(results, r, Found(r, a))
        /\ queue' \in {<<>>, Tail(queue)} /\ (~Hashed => queue' = Tail(queue))
        /\ UNCHANGED <<memory, late, sock, cut, toServer, call, reply>>
    <2>1. queue # <<>>
      BY DEF Read, ClientInv, CallInv
    <2> QED BY <2>1 DEF Read, Understood
  <1>2. /\ last => /\ phase' = "run"
                   /\ \E n \in 0..Len(rest) :
                        toClient' = [toClient EXCEPT ![Target] = SubSeq(rest, n + 1, Len(rest))]
        /\ ~last => toClient' = [toClient EXCEPT ![Target] = rest] /\ phase' = "read"
    BY <1>1 DEF Read
  <1>3. /\ Target \in Server /\ r \in Range(queue) /\ r = queue[1]
        /\ queue \in Seq(Request) /\ Len(queue) \in Nat \ {0}
        /\ toServer \in [Server -> Seq(Message)] /\ toClient \in [Server -> Seq(Reply)]
    BY <1>1, AtHead DEF ClientInv, NetInv, Message, CallInv
  <1>4. /\ Batch \in Seq(Request) /\ Batch # <<>> /\ Head(Batch) = r
        /\ \A q \in Range(Batch) : Asked(q) = Target
    <2>1. Batch \in Seq(Request) /\ Len(Batch) \in Nat \ {0} /\ Batch[1] = r
          /\ \A q \in Range(Batch) : Asked(q) = Target
      BY <1>1, BatchFacts DEF ClientInv
    <2> QED BY <2>1
  <1>5. /\ Tail(queue) \in Seq(Request) /\ IsInjective(Tail(queue))
        /\ Range(Tail(queue)) \subseteq Range(queue) /\ r \notin Range(Tail(queue))
        /\ Len(Tail(queue)) = Len(queue) - 1
    BY <1>1, TailOfQueue DEF ClientInv
  <1>6. /\ toServer[Target] \in Seq(Message) /\ toClient[Target] \in Seq(Reply)
        /\ Carries(toClient[Target], toServer[Target], Batch)
    BY <1>1, <1>3 DEF ClientInv, WireInv, WireAt, Expected
  <1>7. a.to # Nothing
    <2>1. a \in Range(toClient[Target])
      <3>1. a = toClient[Target][1] /\ 1 \in DOMAIN toClient[Target]
        BY <1>1, <1>6
      <3> QED BY <3>1 DEF Range
    <2> QED BY <1>1, <1>3, <2>1 DEF ClientInv, WireInv, WireAt
  <1>8. /\ a \in Reply /\ a \in Range(toClient[Target]) /\ a.to = r
        /\ Carries(rest, toServer[Target], Tail(Batch))
        /\ rest \in Seq(Reply) /\ Range(rest) \subseteq Range(toClient[Target])
    BY <1>1, <1>4, <1>6, <1>7, Answering
  <1> HIDE DEF a, rest
  <1>9. Hashed' = Hashed /\ \A q : Asked(q)' = Asked(q) /\ Proper(q)' = Proper(q)
    BY HomesStay
  <1>10. /\ queue' \in Seq(Request) /\ IsInjective(queue') /\ Range(queue') \subseteq Range(Tail(queue))
    <2>1. <<>> \in Seq(Request) /\ IsInjective(<<>>) /\ Range(<<>>) = {}
      BY DEF IsInjective, Range
    <2> QED BY <1>1, <1>5, <2>1
  <1>11. ASSUME ~last
         PROVE  /\ phase' = "read" /\ queue' = Tail(queue) /\ queue' # <<>> /\ Tail(Batch) = queue'
                /\ Target' = Target /\ Batch' = queue' /\ ~Hashed
    <2>1. phase' = "read" /\ ~Hashed /\ Batch = queue /\ queue' = Tail(queue)
      BY <1>1, <1>2, <1>11 DEF Batch
    <2>2. Len(queue') \in Nat \ {0}
      <3> DEFINE m == Len(queue)
      <3>1. m \in Nat \ {0} /\ m # 1 /\ Len(queue') = m - 1
        BY <1>3, <1>5, <1>11, <2>1
      <3> HIDE DEF m
      <3> QED BY <3>1
    <2>3. queue' # <<>>
      BY <2>2
    <2>4. Head(queue') \in Range(queue')
      <3>1. Head(queue') = queue'[1] /\ 1 \in DOMAIN queue'
        BY <1>10, <2>2
      <3> QED BY <3>1 DEF Range
    <2>5. Asked(Head(queue')) = Target
      BY <1>4, <1>5, <2>1, <2>4
    <2>6. Target' = Target
      BY <1>9, <2>5 DEF Target
    <2>7. Batch' = queue'
      BY <1>9, <2>1 DEF Batch
    <2> QED BY <2>1, <2>3, <2>6, <2>7
  <1>12. last => Tail(Batch) = <<>>
    <2>1. Tail(Batch) \in Seq(Request) /\ Len(Tail(Batch)) = Len(Batch) - 1
      BY <1>4, HeadTailProperties
    <2>2. last => Len(Batch) = 1
      BY DEF Batch
    <2>3. last => Len(Tail(Batch)) = 0
      BY <2>1, <2>2
    <2> HIDE DEF last
    <2> QED BY <2>1, <2>3, EmptySeq
  <1> QED
    <2>1. CallInv'
      <3>1. /\ DOMAIN results' = DOMAIN results \cup {r}
            /\ results' = [q \in DOMAIN results' |-> results'[q]]
        BY <1>1 DEF With
      <3>2. phase' \in {"run", "read"} /\ (phase' = "read" => queue' # <<>>)
        BY <1>2, <1>11
      <3>3. r \in call /\ call # {}
        BY <1>3 DEF ClientInv, CallInv
      <3>4. \A q \in Range(queue') : Proper(q)'
        BY <1>5, <1>9, <1>10 DEF ClientInv, CallInv
      <3>5. DOMAIN results' \subseteq call \ Range(queue') /\ Range(queue') \subseteq call
        BY <1>5, <1>10, <3>1, <3>3 DEF ClientInv, CallInv
      <3>6. call' = call /\ call \subseteq Request
        BY <1>1 DEF ClientInv, CallInv
      <3> HIDE DEF last, r
      <3> QED BY <1>10, <3>1, <3>2, <3>3, <3>4, <3>5, <3>6 DEF CallInv
    <2>2. Unsent' \subseteq Unsent
      <3>1. CASE last /\ Hashed
        <4>1. Unsent = Range(Tail(queue)) /\ Unsent' = Range(queue')
          BY <1>1, <1>2, <3>1 DEF Unsent
        <4> QED BY <1>10, <4>1
      <3>2. CASE last /\ ~Hashed
        <4>1. Unsent' = Range(Tail(queue)) /\ Batch = queue
          BY <1>1, <1>2, <3>2 DEF Unsent, Batch
        <4>2. Range(<<>>) = {}
          BY DEF Range
        <4> QED BY <1>12, <3>2, <4>1, <4>2
      <3>3. CASE ~last
        <4>1. phase' = "read" /\ ~Hashed'
          BY <1>9, <1>11, <3>3
        <4>2. Unsent' = {}
          BY <4>1 DEF Unsent
        <4> QED BY <4>2
      <3> QED BY <3>1, <3>2, <3>3
    <2>3. ASSUME NEW s \in Server
          PROVE  /\ toClient'[s] \in Seq(Reply) /\ Range(toClient'[s]) \subseteq Range(toClient[s])
                 /\ Carries(toClient'[s], toServer[s], Expected(s)')
      <3>1. CASE s # Target
        <4>1. toClient'[s] = toClient[s] /\ toClient[s] \in Seq(Reply)
          BY <1>2, <1>3, <3>1
        <4>2. Expected(s) = <<>>
          BY <3>1 DEF Expected
        <4>3. Expected(s)' = <<>>
          BY <1>2, <1>11, <3>1 DEF Expected
        <4>4. Carries(toClient[s], toServer[s], Expected(s))
          BY DEF ClientInv, WireInv, WireAt
        <4> QED BY <4>1, <4>2, <4>3, <4>4
      <3>2. CASE s = Target /\ last
        <4>1. PICK n \in 0..Len(rest) : toClient'[s] = SubSeq(rest, n + 1, Len(rest))
          <5> HIDE DEF last
          <5> QED BY <1>2, <1>3, <3>2
        <4>2. Carries(rest, toServer[s], <<>>) /\ rest \in Seq(Reply) /\ toServer[s] \in Seq(Message)
          BY <1>6, <1>8, <1>12, <3>2
        <4>3. /\ toClient'[s] \in Seq(Reply) /\ Range(toClient'[s]) \subseteq Range(rest)
              /\ Carries(toClient'[s], toServer[s], <<>>)
          BY <4>1, <4>2, Dropping
        <4>4. Expected(s)' = <<>>
          BY <1>2, <3>2 DEF Expected
        <4> QED BY <1>8, <3>2, <4>3, <4>4
      <3>3. CASE s = Target /\ ~last
        <4>1. toClient'[s] = rest
          <5> HIDE DEF last
          <5> QED BY <1>2, <1>3, <3>3
        <4>2. Expected(s)' = Tail(Batch)
          BY <1>11, <3>3 DEF Expected
        <4> QED BY <1>8, <3>3, <4>1, <4>2
      <3> QED BY <3>1, <3>2, <3>3
    <2>4. NetInv'
      <3>1. DOMAIN toClient' = Server /\ toClient' = [s \in Server |-> toClient'[s]]
        BY <1>2, <1>3
      <3>2. toClient' \in [Server -> Seq(Reply)]
        BY <2>3, <3>1
      <3> QED BY <1>1, <3>2 DEF ClientInv, NetInv
    <2>5. ASSUME NEW s \in Server PROVE WireAt(s)'
      <3>1. WireAt(s)
        BY DEF ClientInv, WireInv
      <3> QED BY <1>1, <1>9, <2>2, <2>3, <3>1 DEF WireAt
    <2>6. OnTheWay' = OnTheWay
      BY <1>1 DEF OnTheWay
    <2>7. /\ a.line # "ERROR" /\ a.to \in call /\ a \in Range(toClient[Target])
          /\ results' = With(results, a.to, Found(a.to, a))
      BY <1>1, <1>3, <1>8 DEF ClientInv, CallInv
    <2> QED BY <1>1, <1>3, <2>1, <2>2, <2>3, <2>4, <2>5, <2>6, <2>7 DEF ClientInv, WireInv

\* The call is over.
LEMMA ReturnStep ==
    ASSUME ClientInv, NodesInv', UNCHANGED <<servers, nodes>>, Return
    PROVE  /\ ClientInv' /\ phase = "run" /\ call # {} /\ call' = {} /\ results' = <<>>
           /\ OnTheWay' = OnTheWay /\ Unsent' = Unsent
           /\ UNCHANGED memory
           /\ \/ reply' = Nothing
              \/ /\ DOMAIN results = call /\ reply' = results
                 /\ \A r \in call : DOMAIN results[r] = r.keys
  <1>1. /\ phase = "run" /\ queue = <<>> /\ phase' = "idle" /\ call' = {} /\ results' = <<>>
        /\ UNCHANGED <<memory, net, queue>>
    BY DEF Return
  <1>2. /\ IsInjective(queue') /\ queue' \in Seq(Request) /\ Range(queue') = {}
        /\ results' = [r \in DOMAIN results' |-> results'[r]] /\ DOMAIN results' = {}
    BY <1>1 DEF IsInjective, Range
  <1>3. CallInv'
    BY <1>1, <1>2 DEF CallInv
  <1>4. NetInv'
    BY <1>1 DEF ClientInv, NetInv, net
  <1>5. Unsent' = Unsent /\ \A s : Expected(s)' = Expected(s)
    BY <1>1, <1>2 DEF Unsent, Expected
  <1>6. ASSUME NEW s \in Server PROVE WireAt(s)'
    BY <1>1, <1>5, SameWire DEF ClientInv, WireInv, net
  <1>7. OnTheWay' = OnTheWay
    BY <1>1 DEF OnTheWay, net
  <1>8. call # {}
    BY <1>1 DEF ClientInv, CallInv
  <1>9. \/ reply' = Nothing
        \/ /\ DOMAIN results = call /\ reply' = results
           /\ \A r \in call : DOMAIN results[r] = r.keys
    BY DEF Return
  <1> QED BY <1>1, <1>3, <1>4, <1>5, <1>6, <1>7, <1>8, <1>9 DEF ClientInv, WireInv

\* A call begins with requests that are under way nowhere.
LEMMA CallStep ==
    ASSUME ClientInv, NodesInv', UNCHANGED <<servers, nodes>>, Call
    PROVE  /\ ClientInv' /\ phase = "idle" /\ phase' = "run" /\ results' = <<>> /\ reply' = Nothing
           /\ call = {} /\ call' # {} /\ call' \subseteq Request \ (OnTheWay \cup Unsent)
           /\ OnTheWay' = OnTheWay /\ Unsent = {} /\ Unsent' = call'
           /\ UNCHANGED <<memory, toClient>>
  <1>1. PICK keys \in KeyList, op \in {"get", "set", "append", "touch"}, x \in Value \cup {Nothing} :
          (op = "set" => x \in Value) /\ BeginCall(op, keys, x)
    BY DEF Call
  <1>2. /\ queue' \in Seq(Request) /\ IsInjective(queue') /\ Range(queue') # {}
        /\ \A r \in Range(queue') : Proper(r) /\ r \in Request /\ r \notin OnTheWay
        /\ call' = Range(queue')
    BY <1>1, Beginning DEF ClientInv
  <1>3. /\ phase = "idle" /\ phase' = "run" /\ results' = <<>> /\ reply' = Nothing
        /\ UNCHANGED <<memory, net>>
    BY <1>1 DEF BeginCall
  <1>4. \A r : Proper(r)' = Proper(r)
    BY HomesStay
  <1>5. results' = [r \in DOMAIN results' |-> results'[r]] /\ DOMAIN results' = {}
    BY <1>3
  <1>6. CallInv'
    BY <1>2, <1>3, <1>4, <1>5 DEF CallInv
  <1>7. call = {} /\ Range(queue) = {}
    BY <1>3 DEF ClientInv, CallInv
  <1>8. Unsent = {} /\ Unsent' = call' /\ \A s : Expected(s)' = Expected(s)
    BY <1>2, <1>3 DEF Unsent, Expected
  <1>9. NetInv'
    BY <1>3 DEF ClientInv, NetInv, net
  <1>10. ASSUME NEW s \in Server PROVE WireAt(s)'
    <2>1. WireAt(s)
      BY DEF ClientInv, WireInv
    <2>2. late[s] \cap Unsent' = {}
      BY <1>2, <1>8, <2>1, ClientAssumption, OnTheWayIs
    <2> QED BY <1>3, <1>4, <1>8, <2>1, <2>2, HomesStay DEF WireAt, net
  <1>11. OnTheWay' = OnTheWay
    BY <1>3 DEF OnTheWay, net
  <1> QED BY <1>2, <1>3, <1>6, <1>7, <1>8, <1>9, <1>10, <1>11 DEF ClientInv, WireInv, net

\* A request, once it has taken effect
LEMMA AfterType ==
    ASSUME NEW r \in Request, NEW d \in [Key -> Value \cup {Nothing}]
    PROVE  After(r, d) \in [Key -> Value \cup {Nothing}] /\ AnswerTo(r, d) \in Reply
  <1>1. After(r, d) \in [Key -> Value \cup {Nothing}]
    BY DEF After, Request
  <1>2. Line(r, d) \in Lines
    BY DEF Line, Lines, Request
  <1>3. Values(r, d) \in UNION {[K -> Value] : K \in SUBSET Key}
    <2>1. CASE r.op = "get"
      <3> DEFINE K == {x \in r.keys : d[x] # Nothing}
      <3>1. K \in SUBSET Key
        BY DEF Request
      <3>2. Values(r, d) \in [K -> Value]
        BY <2>1, <3>1 DEF Values
      <3> HIDE DEF K
      <3> QED BY <3>1, <3>2
    <2>2. CASE r.op # "get"
      <3>1. Values(r, d) \in [{} -> Value]
        BY <2>2 DEF Values
      <3> QED BY <3>1
    <2> QED BY <2>1, <2>2
  <1>4. AnswerTo(r, d) \in Reply
    BY <1>2, <1>3 DEF AnswerTo, Reply
  <1> QED BY <1>1, <1>4

LEMMA ErrorType ==
    ASSUME NEW m \in Message
    PROVE  Error(m) \in Reply
  <1>1. <<>> \in [{} -> Value]
    OBVIOUS
  <1>2. <<>> \in UNION {[K -> Value] : K \in SUBSET Key}
    BY <1>1
  <1>3. "ERROR" \in Lines
    BY DEF Lines
  <1> QED BY <1>2, <1>3 DEF Error, Reply, Message

\* What a server does with the first message on its connection
Answered(s) ==
    LET m == Head(toServer[s])
    IN  /\ m \in Request
        /\ memory' = [memory EXCEPT ![s] = After(m, @)]
        /\ toClient' = [toClient EXCEPT ![s] = Append(@, AnswerTo(m, memory[s]))]

Refused(s) ==
    /\ toClient' = [toClient EXCEPT ![s] = Append(@, Error(Head(toServer[s])))]
    /\ UNCHANGED memory

LEMMA ServeStep ==
    ASSUME ClientInv, NodesInv', UNCHANGED <<servers, nodes>>, NEW s \in Server, Serve(s)
    PROVE  /\ ClientInv' /\ UNCHANGED calls /\ Unsent' = Unsent
           /\ OnTheWay' \subseteq OnTheWay
           /\ \/ Answered(s) /\ OnTheWay' = OnTheWay \ {Head(toServer[s])}
                             /\ Head(toServer[s]) \in OnTheWay \ Unsent
              \/ Refused(s)
           /\ \A x \in Server \ {s} : toClient'[x] = toClient[x]
           /\ \E a \in Reply : /\ Range(toClient'[s]) = Range(toClient[s]) \cup {a}
                               /\ \/ Answered(s) /\ a = AnswerTo(Head(toServer[s]), memory[s])
                                  \/ Refused(s) /\ a.line = "ERROR"
  <1> DEFINE m == Head(toServer[s])
  <1>1. /\ toServer \in [Server -> Seq(Message)] /\ toClient \in [Server -> Seq(Reply)]
        /\ memory \in [Server -> [Key -> Value \cup {Nothing}]]
        /\ toServer[s] \in Seq(Message) /\ toServer[s] # <<>> /\ m \in Message
    BY DEF Serve, ClientInv, NetInv, Message
  <1>2. /\ toServer' = [toServer EXCEPT ![s] = Tail(@)] /\ UNCHANGED <<late, calls>>
    BY DEF Serve
  <1>3. Answered(s) \/ Refused(s)
    BY <1>1 DEF Serve, Answered, Refused, Message
  <1>4. CallInv' /\ Unsent' = Unsent /\ \A x : Expected(x)' = Expected(x)
    BY <1>2, SameCalls DEF ClientInv
  <1>5. PICK a \in Reply : /\ toClient' = [toClient EXCEPT ![s] = Append(@, a)] /\ a.to = m
                           /\ \/ Answered(s) /\ a = AnswerTo(m, memory[s])
                              \/ Refused(s) /\ a.line = "ERROR"
    <2>1. CASE Answered(s)
      <3>1. AnswerTo(m, memory[s]) \in Reply
        BY <1>1, <2>1, AfterType DEF Answered
      <3>2. AnswerTo(m, memory[s]).to = m
        BY DEF AnswerTo
      <3> HIDE DEF Reply
      <3> QED BY <2>1, <3>1, <3>2 DEF Answered
    <2>2. CASE Refused(s)
      <3>1. Error(m) \in Reply
        BY <1>1, ErrorType
      <3>2. Error(m).to = m /\ Error(m).line = "ERROR"
        BY DEF Error
      <3> HIDE DEF Reply
      <3> QED BY <2>2, <3>1, <3>2 DEF Refused
    <2> QED BY <1>3, <2>1, <2>2
  <1>6. /\ Carries(toClient[s], toServer[s], Expected(s)) /\ toClient[s] \in Seq(Reply)
        /\ Expected(s) \in Seq(Request) /\ IsInjective(Expected(s))
    BY <1>1, Expecting DEF ClientInv, WireInv, WireAt
  <1>7. /\ Carries(Append(toClient[s], a), Tail(toServer[s]), Expected(s))
        /\ Append(toClient[s], a) \in Seq(Reply) /\ Tail(toServer[s]) \in Seq(Message)
        /\ Range(Append(toClient[s], a)) = Range(toClient[s]) \cup {a}
    BY <1>1, <1>5, <1>6, Serving
  <1>8. /\ toClient'[s] = Append(toClient[s], a) /\ toServer'[s] = Tail(toServer[s])
        /\ \A x \in Server \ {s} : toClient'[x] = toClient[x] /\ toServer'[x] = toServer[x]
    <2> HIDE DEF Server, Message, Reply
    <2> QED BY <1>1, <1>2, <1>5
  <1>9. NetInv'
    <2>1. toServer' \in [Server -> Seq(Message)] /\ toClient' \in [Server -> Seq(Reply)]
      <3> HIDE DEF Server, Message, Reply
      <3> QED BY <1>1, <1>2, <1>5, <1>7
    <2>2. memory' \in [Server -> [Key -> Value \cup {Nothing}]]
      <3>1. CASE Answered(s)
        <4>1. After(m, memory[s]) \in [Key -> Value \cup {Nothing}]
          BY <1>1, <3>1, AfterType DEF Answered
        <4> HIDE DEF Server
        <4> QED BY <1>1, <3>1, <4>1 DEF Answered
      <3>2. CASE Refused(s)
        BY <1>1, <3>2 DEF Refused
      <3> QED BY <1>3, <3>1, <3>2
    <2> QED BY <1>2, <2>1, <2>2 DEF ClientInv, NetInv, Message
  <1>10. m # Nothing => /\ m \notin Range(Tail(toServer[s])) /\ m \in Range(toServer[s])
                        /\ Range(toServer[s]) = Range(Tail(toServer[s])) \cup {m}
    BY <1>1, <1>6, Carried
  <1>11. Range(Tail(toServer[s])) \subseteq Range(toServer[s])
    <2>1. /\ Tail(toServer[s]) \in Seq(Message) /\ Len(Tail(toServer[s])) = Len(toServer[s]) - 1
          /\ \A i \in 1..Len(Tail(toServer[s])) : Tail(toServer[s])[i] = toServer[s][i + 1]
      BY <1>1, HeadTailProperties
    <2>2. /\ Len(toServer[s]) \in Nat /\ DOMAIN toServer[s] = 1..Len(toServer[s])
          /\ DOMAIN Tail(toServer[s]) = 1..Len(Tail(toServer[s]))
      BY <1>1, <2>1, LenProperties
    <2>3. \A i \in 1..Len(Tail(toServer[s])) : Tail(toServer[s])[i] \in Range(toServer[s])
      BY <2>1, <2>2 DEF Range
    <2> QED BY <2>2, <2>3 DEF Range
  <1>12. ASSUME NEW x \in Server PROVE WireAt(x)'
    <2>1. WireAt(x)
      BY DEF ClientInv, WireInv
    <2>2. CASE x # s
      BY <1>2, <1>4, <1>8, <2>1, <2>2, SameWire
    <2>3. CASE x = s
      <3>1. \A r : Asked(r)' = Asked(r) /\ Proper(r)' = Proper(r)
        BY HomesStay
      <3>2. \A b \in Range(toClient'[s]) : b.to = Nothing => b.line = "ERROR"
        <4>1. m = Nothing => a.line = "ERROR"
          BY <1>5, ClientAssumption DEF Answered
        <4> QED BY <1>5, <1>7, <1>8, <2>1, <2>3, <4>1 DEF WireAt
      <3> QED BY <1>2, <1>4, <1>7, <1>8, <1>11, <2>1, <2>3, <3>1, <3>2 DEF WireAt
    <2> QED BY <2>2, <2>3
  <1>13. OnTheWay' \subseteq OnTheWay
    BY <1>2, <1>8, <1>11, OnTheWayIs
  <1>14. ASSUME m \in Request
         PROVE  OnTheWay' = OnTheWay \ {m} /\ m \in OnTheWay \ Unsent
    <2>1. m # Nothing /\ m \in Range(toServer[s])
      BY <1>10, <1>14, ClientAssumption
    <2>2. m \in Range(Expected(s)) /\ Asked(m) = s
      BY <2>1, Finding
    <2>3. m \in OnTheWay /\ m \notin Unsent
      BY <2>1, <2>2, OnTheWayIs, NotSent DEF ClientInv
    <2>4. ASSUME NEW x \in Server PROVE m \notin late[x]
      <3>1. m \in late[x] => x = s
        BY <2>2 DEF ClientInv, WireInv, WireAt
      <3> QED BY <2>1, <3>1 DEF ClientInv, WireInv, WireAt
    <2>5. ASSUME NEW x \in Server PROVE m \notin Range(toServer'[x])
      <3>1. CASE x = s
        BY <1>8, <1>10, <2>1, <3>1
      <3>2. CASE x # s
        <4>1. m \in Range(toServer[x]) => Asked(m) = x
          BY <2>1, Finding
        <4> QED BY <1>8, <2>2, <3>2, <4>1
      <3> QED BY <3>1, <3>2
    <2>6. m \notin OnTheWay'
      BY <1>2, <2>4, <2>5, OnTheWayIs
    <2>7. \A x \in OnTheWay \ {m} : x \in OnTheWay'
      <3>1. Range(toServer[s]) \subseteq Range(toServer'[s]) \cup {m}
        BY <1>8, <1>10, <2>1
      <3>2. \A x \in Server \ {s} : Range(toServer'[x]) = Range(toServer[x])
        BY <1>8
      <3> QED BY <1>2, <3>1, <3>2, OnTheWayIs
    <2> QED BY <1>13, <2>3, <2>6, <2>7
  <1>15. \A x \in Server \ {s} : toClient'[x] = toClient[x]
    BY <1>8
  <1>16. Range(toClient'[s]) = Range(toClient[s]) \cup {a}
    BY <1>7, <1>8
  <1>17. Answered(s) => m \in Request
    BY DEF Answered
  <1> HIDE DEF Reply
  <1> QED BY <1>2, <1>3, <1>4, <1>5, <1>9, <1>12, <1>13, <1>14, <1>15, <1>16, <1>17
          DEF ClientInv, WireInv

\* A store that comes late takes effect, or does not.
LEMMA ServeLateStep ==
    ASSUME ClientInv, NodesInv', UNCHANGED <<servers, nodes>>,
           NEW s \in Server, NEW r \in late[s], ServeLate(s, r)
    PROVE  /\ ClientInv' /\ UNCHANGED <<toClient, calls>> /\ Unsent' = Unsent
           /\ r \in Request /\ Proper(r) /\ Asked(r) = s
           /\ OnTheWay' = OnTheWay \ {r} /\ r \in OnTheWay \ Unsent
           /\ \/ memory' = [memory EXCEPT ![s] = After(r, @)]
              \/ UNCHANGED memory
  <1>1. /\ late' = [late EXCEPT ![s] = @ \ {r}]
        /\ \/ memory' = [memory EXCEPT ![s] = After(r, @)]
           \/ UNCHANGED memory
        /\ UNCHANGED <<toServer, toClient, calls>>
    BY DEF ServeLate
  <1>2. /\ late \in [Server -> SUBSET Request]
        /\ memory \in [Server -> [Key -> Value \cup {Nothing}]]
    BY DEF ClientInv, NetInv
  <1>3. CallInv' /\ Unsent' = Unsent /\ \A x : Expected(x)' = Expected(x)
    BY <1>1, SameCalls DEF ClientInv
  <1>4. r \in Request /\ Proper(r) /\ Asked(r) = s
    BY <1>2 DEF ClientInv, WireInv, WireAt
  <1>5. NetInv'
    <2>1. After(r, memory[s]) \in [Key -> Value \cup {Nothing}]
      BY <1>2, <1>4, AfterType
    <2> HIDE DEF Server, Request
    <2>2. memory' \in [Server -> [Key -> Value \cup {Nothing}]]
      BY <1>1, <1>2, <2>1
    <2>3. late' \in [Server -> SUBSET Request]
      BY <1>1, <1>2
    <2> QED BY <1>1, <2>2, <2>3 DEF ClientInv, NetInv
  <1>6. late'[s] = late[s] \ {r} /\ \A x \in Server \ {s} : late'[x] = late[x]
    BY <1>1, <1>2
  <1>7. ASSUME NEW x \in Server PROVE WireAt(x)'
    <2>1. late'[x] \subseteq late[x]
      BY <1>6
    <2> QED BY <1>1, <1>3, <2>1, SameWire DEF ClientInv, WireInv
  <1>8. r # Nothing /\ r \in OnTheWay /\ r \notin Unsent
    <2>1. r # Nothing /\ r \notin Unsent
      BY <1>4, ClientAssumption DEF ClientInv, WireInv, WireAt
    <2> QED BY <2>1, OnTheWayIs
  <1>9. OnTheWay' = OnTheWay \ {r}
    <2>1. ASSUME NEW x \in Server PROVE r \notin late'[x] /\ r \notin Range(toServer[x])
      <3>1. r \in late[x] => x = s
        BY <1>4 DEF ClientInv, WireInv, WireAt
      <3>2. r \in Range(toServer[x]) => x = s
        BY <1>4, <1>8, Finding
      <3>3. r \notin Range(toServer[s])
        BY DEF ClientInv, WireInv, WireAt
      <3> QED BY <1>6, <3>1, <3>2, <3>3
    <2>2. \A x : x \in OnTheWay' => x \in OnTheWay /\ x # r
      BY <1>1, <1>6, <2>1, OnTheWayIs
    <2>3. \A x : x \in OnTheWay /\ x # r => x \in OnTheWay'
      BY <1>1, <1>6, OnTheWayIs
    <2> QED BY <2>2, <2>3
  <1> QED BY <1>1, <1>3, <1>4, <1>5, <1>7, <1>8, <1>9 DEF ClientInv, WireInv

\* A server forgets, restarts or closes the connection.
LEMMA ForgetKeyStep ==
    ASSUME ClientInv, NodesInv', UNCHANGED <<servers, nodes>>,
           NEW s \in Server, NEW k \in Key, ForgetKey(s, k)
    PROVE  ClientInv' /\ Fades
  <1>1. memory' = [memory EXCEPT ![s][k] = Nothing] /\ UNCHANGED <<net, calls>>
    BY DEF ForgetKey
  <1>2. CallInv' /\ Unsent' = Unsent /\ \A x : Expected(x)' = Expected(x)
    BY <1>1, SameCalls DEF ClientInv
  <1>3. memory \in [Server -> [Key -> Value \cup {Nothing}]]
    BY DEF ClientInv, NetInv
  <1>4. /\ memory' \in [Server -> [Key -> Value \cup {Nothing}]]
        /\ \A x \in Server : \A y \in Key : memory'[x][y] \in {memory[x][y], Nothing}
    <2> HIDE DEF Server
    <2> QED BY <1>1, <1>3
  <1>5. NetInv'
    BY <1>1, <1>4 DEF ClientInv, NetInv, net
  <1>6. ASSUME NEW x \in Server PROVE WireAt(x)'
    BY <1>1, <1>2, SameWire DEF ClientInv, WireInv, net
  <1>7. OnTheWay' = OnTheWay
    BY <1>1 DEF OnTheWay, net
  <1>8. Fades
    BY <1>1, <1>2, <1>4, <1>7 DEF Fades, net, calls
  <1> QED BY <1>2, <1>5, <1>6, <1>8 DEF ClientInv, WireInv

LEMMA HangupStep ==
    ASSUME ClientInv, NodesInv', UNCHANGED <<servers, nodes>>,
           NEW s \in Server, Restart(s) \/ Disconnect(s)
    PROVE  ClientInv' /\ Fades
  <1>1. /\ toServer \in [Server -> Seq(Message)] /\ toClient \in [Server -> Seq(Reply)]
        /\ late \in [Server -> SUBSET Request]
        /\ memory \in [Server -> [Key -> Value \cup {Nothing}]]
    BY DEF ClientInv, NetInv, Message
  <1>2. /\ UNCHANGED calls /\ toServer' = [toServer EXCEPT ![s] = <<>>]
        /\ \E q \in {<<>>, toClient[s]} : toClient' = [toClient EXCEPT ![s] = q]
    BY DEF Restart, Disconnect, Hangup
  <1>3. CallInv' /\ Unsent' = Unsent /\ \A x : Expected(x)' = Expected(x)
    BY <1>2, SameCalls DEF ClientInv
  <1>4. Stores(toServer[s]) \subseteq Range(toServer[s]) \ {Nothing}
    BY DEF Stores
  <1>5. \A r \in Stores(toServer[s]) : r \in Request /\ Proper(r) /\ Asked(r) = s
                                       /\ r \in Range(Expected(s))
    BY <1>4, Finding
  <1>6. /\ late' \in [Server -> SUBSET Request]
        /\ late'[s] \subseteq late[s] \cup Stores(toServer[s])
        /\ \A x \in Server \ {s} : late'[x] = late[x]
    <2>1. late' \in {[late EXCEPT ![s] = {}], [late EXCEPT ![s] = @ \cup Stores(toServer[s])]}
      BY DEF Restart, Disconnect
    <2> HIDE DEF Server, Request
    <2> QED BY <1>1, <1>5, <2>1
  <1>7. /\ memory' \in [Server -> [Key -> Value \cup {Nothing}]]
        /\ \A x \in Server : \A k \in Key : memory'[x][k] \in {memory[x][k], Nothing}
    <2>1. memory' \in {memory, [memory EXCEPT ![s] = [k \in Key |-> Nothing]]}
      BY DEF Restart, Disconnect
    <2> HIDE DEF Server
    <2> QED BY <1>1, <2>1
  <1>8. /\ toServer'[s] = <<>> /\ toClient'[s] \in {<<>>, toClient[s]}
        /\ \A x \in Server \ {s} : toClient'[x] = toClient[x] /\ toServer'[x] = toServer[x]
    <2> HIDE DEF Server, Message, Reply
    <2> QED BY <1>1, <1>2
  <1>9. NetInv'
    <2>1. <<>> \in Seq(Message) /\ <<>> \in Seq(Reply)
      OBVIOUS
    <2>2. toServer' \in [Server -> Seq(Message)] /\ toClient' \in [Server -> Seq(Reply)]
      <3> HIDE DEF Server, Message, Reply
      <3> QED BY <1>1, <1>2, <2>1
    <2> QED BY <1>6, <1>7, <2>2 DEF NetInv, Message
  <1>10. ASSUME NEW x \in Server PROVE WireAt(x)'
    <2>1. WireAt(x) /\ toServer[x] \in Seq(Message) /\ toClient[x] \in Seq(Reply)
      BY <1>1 DEF ClientInv, WireInv
    <2>2. CASE x = s
      <3>1. late'[s] \cap Unsent' = {}
        <4>1. Range(Expected(s)) \cap Unsent = {}
          BY NotSent DEF ClientInv
        <4> QED BY <1>3, <1>5, <1>6, <2>1, <2>2, <4>1 DEF WireAt
      <3>2. \A r \in late'[s] \ late[s] : Proper(r) /\ Asked(r) = s
        BY <1>5, <1>6
      <3> QED BY <1>3, <1>8, <2>1, <2>2, <3>1, <3>2, GoneWire
    <2>3. CASE x # s
      BY <1>3, <1>6, <1>8, <2>1, <2>3, SameWire
    <2> QED BY <2>2, <2>3
  <1>11. Fades
    <2>1. Range(<<>>) = {}
      BY DEF Range
    <2>2. \A x \in Server : Range(toClient'[x]) \subseteq Range(toClient[x])
      BY <1>8, <2>1
    <2>3. \A x : x \in OnTheWay' => x \in OnTheWay
      <3>1. \A x \in Server : /\ Range(toServer'[x]) \subseteq Range(toServer[x])
                              /\ late'[x] \subseteq late[x] \cup Range(toServer[x])
        BY <1>4, <1>6, <1>8, <2>1
      <3> QED BY <3>1, OnTheWayIs
    <2> QED BY <1>2, <1>3, <1>7, <2>2, <2>3 DEF Fades, calls
  <1> QED BY <1>3, <1>9, <1>10, <1>11 DEF ClientInv, WireInv

\* Time passes, or nothing happens.
LEMMA TimeStep ==
    ASSUME ClientInv, NodesInv', UNCHANGED <<servers, nodes, memory, net, calls>>
    PROVE  ClientInv' /\ Fades
  <1>1. CallInv' /\ Unsent' = Unsent /\ \A s : Expected(s)' = Expected(s)
    BY SameCalls DEF ClientInv
  <1>2. NetInv'
    BY DEF ClientInv, NetInv, net
  <1>3. ASSUME NEW s \in Server PROVE WireAt(s)'
    BY <1>1, SameWire DEF ClientInv, WireInv, net
  <1>4. OnTheWay' = OnTheWay
    BY DEF OnTheWay, net
  <1>5. Fades
    BY <1>1, <1>4 DEF Fades, net, calls
  <1> QED BY <1>1, <1>2, <1>3, <1>5 DEF ClientInv, WireInv

\* Nothing is stored and nothing asked at first.
LEMMA ClientStart ==
    ASSUME ClientInit
    PROVE  ClientInv
  <1>1. Range(<<>>) = {} /\ IsInjective(<<>>) /\ DOMAIN <<>> = {}
    BY DEF Range, IsInjective
  <1>2. NodesInv
    BY DEF ClientInit, NodesInv
  <1>3. CallInv
    BY <1>1 DEF ClientInit, CallInv
  <1>4. NetInv
    BY DEF ClientInit, NetInv
  <1>5. ASSUME NEW s \in Server PROVE WireAt(s)
    <2>1. toClient[s] = <<>> /\ toServer[s] = <<>> /\ late[s] = {}
      BY DEF ClientInit
    <2>2. Carries(<<>>, <<>>, Expected(s))
      BY Quiet
    <2> QED BY <1>1, <2>1, <2>2 DEF WireAt
  <1> QED BY <1>2, <1>3, <1>4, <1>5 DEF ClientInv, WireInv

-----------------------------------------------------------------------------
\* The promise is kept.

\* The client waits for one server, and no two answers are to the same request.
HeardFacts ==
    /\ \A a : a \in Coming <=>
         /\ a.line # "ERROR" /\ a.to \in call
         /\ \E s \in Server : a \in Range(toClient[s])
    /\ phase # "read" => Coming = {} /\ Heard = results
    /\ DOMAIN Heard = DOMAIN results \cup {a.to : a \in Coming}
    /\ Heard = [r \in DOMAIN Heard |-> Heard[r]]
    /\ \A r \in DOMAIN results : Heard[r] = results[r]
    /\ \A a \in Coming : a.to \notin DOMAIN results /\ Heard[a.to] = Found(a.to, a)

LEMMA HeardIs == ClientInv => HeardFacts
  <1> SUFFICES ASSUME ClientInv PROVE HeardFacts
    OBVIOUS
  <1>1. \A a : a \in Coming <=> /\ a.line # "ERROR" /\ a.to \in call
                                /\ \E s \in Server : a \in Range(toClient[s])
    BY DEF Coming
  <1>2. ASSUME NEW s \in Server, NEW a \in Range(toClient[s]), a.to \in call
        PROVE  a.to \in Range(Expected(s))
    <2>1. a.to # Nothing
      BY <1>2, ClientAssumption DEF ClientInv, CallInv
    <2> QED BY <2>1, Finding
  <1>3. \A s : Expected(s) # <<>> => phase = "read" /\ s = Target
    BY Expecting DEF ClientInv
  <1>4. Range(<<>>) = {}
    BY DEF Range
  <1>5. ASSUME NEW a \in Coming, NEW b \in Coming, a.to = b.to PROVE a = b
    <2>1. a \in Range(toClient[Target]) /\ b \in Range(toClient[Target]) /\ Target \in Server
      BY <1>1, <1>2, <1>3, <1>4
    <2>2. /\ toServer[Target] \in Seq(Message) /\ toClient[Target] \in Seq(Reply)
          /\ Expected(Target) \in Seq(Request) /\ IsInjective(Expected(Target))
          /\ Carries(toClient[Target], toServer[Target], Expected(Target))
      BY <2>1, Finding, Expecting DEF ClientInv, WireInv, WireAt
    <2>3. a.to # Nothing
      BY <1>1, ClientAssumption DEF ClientInv, CallInv
    <2> QED BY <1>5, <2>1, <2>2, <2>3, Carried
  <1>6. ASSUME NEW a \in Coming PROVE a.to \notin DOMAIN results
    <2>1. PICK s \in Server : a.to \in Range(Expected(s))
      BY <1>1, <1>2
    <2>2. a.to \in Range(queue)
      BY <2>1, Expecting DEF ClientInv
    <2> QED BY <2>2 DEF ClientInv, CallInv
  <1>7. DOMAIN Heard = DOMAIN results \cup {a.to : a \in Coming}
    BY DEF Heard
  <1>8. Heard = [r \in DOMAIN Heard |-> Heard[r]]
    BY DEF Heard
  <1>9. \A r \in DOMAIN results : Heard[r] = results[r]
    BY DEF Heard
  <1>10. ASSUME NEW a \in Coming PROVE Heard[a.to] = Found(a.to, a)
    <2>1. Heard[a.to] = Found(a.to, CHOOSE b \in Coming : b.to = a.to)
      BY <1>6 DEF Heard
    <2>2. (CHOOSE b \in Coming : b.to = a.to) = a
      BY <1>5
    <2> QED BY <2>1, <2>2
  <1>11. phase # "read" => Coming = {} /\ Heard = results
    <2>1. SUFFICES ASSUME phase # "read" PROVE Coming = {} /\ Heard = results
      OBVIOUS
    <2>2. Coming = {}
      BY <1>1, <1>2, <1>3, <1>4, <2>1
    <2>3. results = [r \in DOMAIN results |-> results[r]]
      BY DEF ClientInv, CallInv
    <2> HIDE DEF Heard
    <2>4. DOMAIN Heard = DOMAIN results
      BY <1>7, <2>2
    <2> QED BY <1>8, <1>9, <2>2, <2>3, <2>4
  <1> QED BY <1>1, <1>6, <1>7, <1>8, <1>9, <1>10, <1>11 DEF HeardFacts

\* Steps in which nothing is asked, stored or heard
LEMMA LosingIs ==
    ASSUME ClientInv, ClientInv', UNCHANGED <<servers, nodes, call, reply>>,
           OnTheWay' \cup Unsent' \subseteq OnTheWay \cup Unsent,
           \A s \in Server : \A k \in Key : memory'[s][k] \in {memory[s][k], Nothing},
           DOMAIN Heard' \subseteq DOMAIN Heard,
           \A r \in DOMAIN Heard' : Heard'[r] = Heard[r]
    PROVE  Promise!Lose
  <1>1. \A k : Home(k)' = Home(k)
    BY HomesStay
  <1>2. Heard' = [r \in DOMAIN Heard' |-> Heard'[r]]
    <2>1. HeardFacts'
      BY HeardIs, PTL
    <2> QED BY <2>1 DEF HeardFacts
  <1>3. Heard' = Promise!Restrict(Heard, DOMAIN Heard')
    BY <1>2 DEF Promise!Restrict
  <1>4. \E K \in SUBSET Key : [k \in Key |-> memory'[Home(k)'][k]]
            = [k \in Key |-> IF k \in K THEN Nothing ELSE [x \in Key |-> memory[Home(x)][x]][k]]
    <2> DEFINE K == {k \in Key : memory'[Home(k)][k] # memory[Home(k)][k]}
    <2>1. ASSUME NEW k \in Key
          PROVE  memory'[Home(k)][k] = IF k \in K THEN Nothing ELSE memory[Home(k)][k]
      <3>1. Home(k) \in Server
        BY HomeOf DEF ClientInv
      <3> QED BY <3>1
    <2> QED BY <1>1, <2>1
  <1> QED BY <1>3, <1>4 DEF Promise!Lose

LEMMA FadingIsLosing ==
    ASSUME ClientInv, ClientInv', Fades
    PROVE  Promise!Lose
  <1>1. UNCHANGED <<call, reply, results>> /\ OnTheWay' \cup Unsent' \subseteq OnTheWay \cup Unsent
    BY DEF Fades
  <1>2. HeardFacts /\ HeardFacts'
    BY HeardIs, PTL
  <1>3. /\ DOMAIN Heard = DOMAIN results \cup {a.to : a \in Coming}
        /\ \A r \in DOMAIN results : Heard[r] = results[r]
        /\ \A a \in Coming : a.to \notin DOMAIN results /\ Heard[a.to] = Found(a.to, a)
    BY <1>2 DEF HeardFacts
  <1>4. /\ DOMAIN Heard' = DOMAIN results \cup {a.to : a \in Coming'}
        /\ \A r \in DOMAIN results : Heard'[r] = results[r]
        /\ \A a \in Coming' : a.to \notin DOMAIN results /\ Heard'[a.to] = Found(a.to, a)
    BY <1>1, <1>2 DEF HeardFacts
  <1>5. Coming' \subseteq Coming
    BY <1>1 DEF Fades, Coming
  <1>6. DOMAIN Heard' \subseteq DOMAIN Heard
    BY <1>3, <1>4, <1>5
  <1>7. \A r \in DOMAIN Heard' : Heard'[r] = Heard[r]
    BY <1>3, <1>4, <1>5
  <1> QED BY <1>1, <1>6, <1>7, LosingIs DEF Fades

\* An answer is about what is stored, under its keys.
LEMMA FoundIs ==
    ASSUME ClientInv, NEW s \in Server, NEW r, Proper(r), Asked(r) = s
    PROVE  LET d == [k \in Key |-> memory[Home(k)][k]]
           IN  /\ Found(r, AnswerTo(r, memory[s])) = Promise!Outcome(r, d)
               /\ \A k \in Key : After(r, memory[s])[k] =
                      IF r.op = "set" /\ k \in r.keys THEN r.value ELSE memory[s][k]
               /\ AnswerTo(r, memory[s]).line # "ERROR" /\ AnswerTo(r, memory[s]).to = r
  <1> DEFINE d == [k \in Key |-> memory[Home(k)][k]]
             m == memory[s]
  <1>1. /\ r \in Request /\ r.keys \subseteq Key /\ \A k \in r.keys : Home(k) = s
        /\ r.op \in {"get", "set", "append", "touch"}
    BY DEF Proper, Request
  <1>2. \A k \in r.keys : d[k] = m[k]
    BY <1>1
  <1>3. DOMAIN d = Key
    OBVIOUS
  <1> HIDE DEF d, m
  <1>4. AnswerTo(r, m) = [line |-> Line(r, m), values |-> Values(r, m), to |-> r]
    BY DEF AnswerTo
  <1>5. Line(r, m) # "ERROR"
    BY <1>1 DEF Line
  <1>6. ASSUME r.op = "get"
        PROVE  Found(r, AnswerTo(r, m)) = Promise!Outcome(r, d)
    <2>1. Found(r, AnswerTo(r, m)) = [k \in {x \in r.keys : m[x] # Nothing} |-> m[k]]
      BY <1>4, <1>6 DEF Found, Values
    <2>2. \A k \in r.keys : Promise!After(r, d)[k] = d[k]
      BY <1>1, <1>3, <1>6 DEF Promise!After
    <2>3. Promise!Outcome(r, d) = [k \in {x \in r.keys : d[x] # Nothing} |-> d[k]]
      BY <1>6, <2>2 DEF Promise!Outcome
    <2> QED BY <1>2, <2>1, <2>3
  <1>7. ASSUME r.op = "set"
        PROVE  Found(r, AnswerTo(r, m)) = Promise!Outcome(r, d)
    <2>1. Line(r, m) = "STORED"
      BY <1>7 DEF Line
    <2>2. Found(r, AnswerTo(r, m)) = [k \in r.keys |-> TRUE]
      BY <1>4, <1>7, <2>1 DEF Found
    <2>3. \A k \in r.keys : Promise!After(r, d)[k] # Nothing
      BY <1>1, <1>3, <1>7, ClientAssumption DEF Promise!After, Proper
    <2>4. Promise!Outcome(r, d) = [k \in r.keys |-> TRUE]
      BY <1>7, <2>3 DEF Promise!Outcome
    <2> QED BY <2>2, <2>4
  <1>8. ASSUME r.op \in {"append", "touch"}
        PROVE  Found(r, AnswerTo(r, m)) = Promise!Outcome(r, d)
    <2>1. PICK k \in Key : r.keys = {k}
      BY <1>8 DEF Proper
    <2>2. Promise!After(r, d)[k] = m[k]
      BY <1>2, <1>3, <1>8, <2>1 DEF Promise!After
    <2>3. Promise!Outcome(r, d) = [x \in {y \in {k} : m[k] # Nothing} |-> TRUE]
      BY <1>8, <2>1, <2>2 DEF Promise!Outcome
    <2>4. Found(r, AnswerTo(r, m)) = [x \in {y \in {k} : m[k] # Nothing} |-> TRUE]
      <3>1. CASE r.op = "append"
        BY <1>4, <2>1, <3>1 DEF Found, Line
      <3>2. CASE r.op = "touch"
        BY <1>4, <2>1, <3>2 DEF Found, Line
      <3> QED BY <1>8, <3>1, <3>2
    <2> QED BY <2>3, <2>4
  <1>9. Found(r, AnswerTo(r, m)) = Promise!Outcome(r, d)
    BY <1>1, <1>6, <1>7, <1>8
  <1>10. \A k \in Key : After(r, m)[k] = IF r.op = "set" /\ k \in r.keys THEN r.value ELSE m[k]
    BY DEF After
  <1> QED BY <1>4, <1>5, <1>9, <1>10 DEF d, m

\* A store that takes effect at one server is one that takes effect.
LEMMA StoredIs ==
    ASSUME ClientInv, UNCHANGED <<servers, nodes>>, NEW s \in Server, NEW r, Proper(r), Asked(r) = s,
           memory' = [memory EXCEPT ![s] = After(r, @)]
    PROVE  [k \in Key |-> memory'[Home(k)'][k]]
             = Promise!After(r, [k \in Key |-> memory[Home(k)][k]])
  <1>1. \A k : Home(k)' = Home(k)
    BY HomesStay
  <1>2. memory \in [Server -> [Key -> Value \cup {Nothing}]]
    BY DEF ClientInv, NetInv
  <1>3. /\ memory'[s] = After(r, memory[s])
        /\ \A x \in Server \ {s} : memory'[x] = memory[x]
    <2> HIDE DEF Server
    <2> QED BY <1>2
  <1>4. \A k \in r.keys : Home(k) = s
    BY DEF Proper
  <1>5. ASSUME NEW k \in Key
        PROVE  memory'[Home(k)][k] = IF r.op = "set" /\ k \in r.keys THEN r.value ELSE memory[Home(k)][k]
    <2>1. Home(k) \in Server
      BY HomeOf DEF ClientInv
    <2>2. CASE Home(k) = s
      BY <1>3, <2>2 DEF After
    <2>3. CASE Home(k) # s
      BY <1>3, <1>4, <2>1, <2>3
    <2> QED BY <2>2, <2>3
  <1> QED BY <1>1, <1>5 DEF Promise!After

\* The servers
LEMMA ServingIsServing ==
    ASSUME ClientInv, NodesInv', UNCHANGED <<servers, nodes>>, NEW s \in Server, Serve(s)
    PROVE  (\E r \in OnTheWay \cup Unsent : Promise!Serve(r)) \/ Promise!Lose
  <1>1. /\ ClientInv' /\ UNCHANGED <<phase, call, queue, results, reply>> /\ Unsent' = Unsent
        /\ OnTheWay' \subseteq OnTheWay
        /\ \A x \in Server \ {s} : toClient'[x] = toClient[x]
    BY ServeStep DEF calls
  <1>2. PICK a \in Reply :
          /\ Range(toClient'[s]) = Range(toClient[s]) \cup {a}
          /\ \/ Answered(s) /\ a = AnswerTo(Head(toServer[s]), memory[s])
             \/ Refused(s) /\ a.line = "ERROR"
    BY ServeStep
  <1>3. CASE Refused(s) /\ a.line = "ERROR"
    <2>1. Fades
      BY <1>1, <1>2, <1>3 DEF Fades, Refused
    <2> QED BY <1>1, <2>1, FadingIsLosing
  <1>4. CASE Answered(s) /\ a = AnswerTo(Head(toServer[s]), memory[s])
    <2> DEFINE d == [k \in Key |-> memory[Home(k)][k]]
    <2>0. PICK r : r = Head(toServer[s])
      OBVIOUS
    <2>1. /\ r \in Request /\ r # Nothing /\ r \in Range(toServer[s])
          /\ memory' = [memory EXCEPT ![s] = After(r, @)]
      <3>1. r \in Request /\ memory' = [memory EXCEPT ![s] = After(r, @)]
        BY <1>4, <2>0 DEF Answered
      <3>2. r \in Range(toServer[s])
        <4>1. toServer[s] \in Seq(Message) /\ toServer[s] # <<>>
          BY Finding DEF Serve
        <4>2. r = toServer[s][1] /\ 1 \in DOMAIN toServer[s]
          BY <2>0, <4>1
        <4> QED BY <4>2 DEF Range
      <3> QED BY <3>1, <3>2, ClientAssumption
    <2>2. Proper(r) /\ Asked(r) = s
      BY <2>1, Finding
    <2>3. /\ a.line # "ERROR" /\ a.to = r /\ Found(r, a) = Promise!Outcome(r, d)
      BY <1>4, <2>0, <2>2, FoundIs
    <2>4. [k \in Key |-> memory'[Home(k)'][k]] = Promise!After(r, d)
      BY <2>1, <2>2, StoredIs
    <2> HIDE DEF d
    <2>5. OnTheWay' = OnTheWay \ {r} /\ r \in OnTheWay \ Unsent
      <3>1. CASE Answered(s) /\ OnTheWay' = OnTheWay \ {Head(toServer[s])}
                             /\ Head(toServer[s]) \in OnTheWay \ Unsent
        BY <2>0, <3>1
      <3>2. CASE Refused(s)
        <4>1. toClient'[s] = Append(toClient[s], Error(r)) /\ toClient'[s] = Append(toClient[s], a)
          <5>1. toClient \in [Server -> Seq(Reply)]
            BY DEF ClientInv, NetInv
          <5> HIDE DEF Server, Reply
          <5> QED BY <1>4, <2>0, <3>2, <5>1 DEF Answered, Refused
        <4> QED BY <2>3, <4>1 DEF Error
      <3> QED BY <3>1, <3>2, ServeStep
    <2>6. HeardFacts /\ HeardFacts'
      BY <1>1, HeardIs, PTL
    <2>7. CASE r \in call
      <3>1. Coming' = Coming \cup {a}
        <4>1. \A x : x \in Coming' => x \in Coming \cup {a}
          BY <1>1, <1>2, <2>6 DEF HeardFacts
        <4>2. \A x \in Coming \cup {a} : x \in Coming'
          BY <1>1, <1>2, <2>3, <2>6, <2>7 DEF HeardFacts
        <4> QED BY <4>1, <4>2
      <3>2. DOMAIN Heard' = DOMAIN Heard \cup {r}
        BY <1>1, <2>3, <2>6, <3>1 DEF HeardFacts
      <3>3. Heard'[r] = Promise!Outcome(r, d)
        BY <2>3, <2>6, <3>1 DEF HeardFacts
      <3>4. \A q \in DOMAIN Heard \ {r} : Heard'[q] = Heard[q]
        BY <1>1, <2>6, <3>1 DEF HeardFacts
      <3>5. Heard' = [q \in DOMAIN Heard \cup {r} |->
                        IF q = r THEN Promise!Outcome(r, d) ELSE Heard[q]]
        <4>1. Heard' = [q \in DOMAIN Heard' |-> Heard'[q]]
          BY <2>6 DEF HeardFacts
        <4> QED BY <3>2, <3>3, <3>4, <4>1
      <3>6. Promise!Serve(r)
        BY <1>1, <2>4, <2>5, <2>7, <3>5 DEF Promise!Serve, d
      <3> QED BY <2>5, <3>6
    <2>8. CASE r \notin call
      <3>1. Coming' = Coming
        <4>1. \A x : x \in Coming' => x \in Coming
          BY <1>1, <1>2, <2>3, <2>6, <2>8 DEF HeardFacts
        <4>2. \A x : x \in Coming => x \in Coming'
          BY <1>1, <1>2, <2>6 DEF HeardFacts
        <4> QED BY <4>1, <4>2
      <3>2. Heard' = Heard
        BY <1>1, <3>1 DEF Heard
      <3>3. Promise!Serve(r)
        BY <1>1, <2>4, <2>5, <3>2 DEF Promise!Serve, d
      <3> QED BY <2>5, <3>3
    <2> QED BY <2>7, <2>8
  <1> QED BY <1>2, <1>3, <1>4

LEMMA ServingLateIsServing ==
    ASSUME ClientInv, NodesInv', UNCHANGED <<servers, nodes>>,
           NEW s \in Server, NEW r \in late[s], ServeLate(s, r)
    PROVE  (\E q \in OnTheWay \cup Unsent : Promise!Serve(q)) \/ Promise!Lose
  <1>1. /\ ClientInv' /\ UNCHANGED <<toClient, phase, call, queue, results, reply>>
        /\ Unsent' = Unsent /\ Proper(r) /\ Asked(r) = s
        /\ OnTheWay' = OnTheWay \ {r} /\ r \in OnTheWay \ Unsent
        /\ \/ memory' = [memory EXCEPT ![s] = After(r, @)]
           \/ UNCHANGED memory
    BY ServeLateStep DEF calls
  <1>2. Heard' = Heard
    BY <1>1 DEF Heard, Coming
  <1>3. CASE memory' = [memory EXCEPT ![s] = After(r, @)]
    <2>1. [k \in Key |-> memory'[Home(k)'][k]] = Promise!After(r, [k \in Key |-> memory[Home(k)][k]])
      BY <1>1, <1>3, StoredIs
    <2>2. Promise!Serve(r)
      BY <1>1, <1>2, <2>1 DEF Promise!Serve
    <2> QED BY <1>1, <2>2
  <1>4. CASE UNCHANGED memory
    <2>1. Fades
      BY <1>1, <1>4 DEF Fades
    <2> QED BY <1>1, <2>1, FadingIsLosing
  <1> QED BY <1>1, <1>3, <1>4

\* The client
LEMMA ReadingIsLosing ==
    ASSUME ClientInv, NodesInv', UNCHANGED <<servers, nodes>>, Read
    PROVE  Promise!Lose
  <1>1. /\ ClientInv' /\ OnTheWay' = OnTheWay /\ Unsent' \subseteq Unsent
        /\ UNCHANGED <<memory, call, reply>>
        /\ \A s \in Server : Range(toClient'[s]) \subseteq Range(toClient[s])
    BY ReadStep
  <1>2. PICK s \in Server : \E a \in Range(toClient[s]) :
          a.line # "ERROR" /\ a.to \in call /\ results' = With(results, a.to, Found(a.to, a))
    BY ReadStep
  <1>3. PICK a \in Range(toClient[s]) :
          a.line # "ERROR" /\ a.to \in call /\ results' = With(results, a.to, Found(a.to, a))
    BY <1>2
  <1>4. HeardFacts /\ HeardFacts'
    BY <1>1, HeardIs, PTL
  <1>5. a \in Coming /\ Coming' \subseteq Coming
    BY <1>1, <1>3, <1>4 DEF HeardFacts
  <1>6. /\ DOMAIN results' = DOMAIN results \cup {a.to}
        /\ \A q \in DOMAIN results' : results'[q] = IF q = a.to THEN Found(a.to, a) ELSE results[q]
    BY <1>3 DEF With
  <1>7. DOMAIN Heard' \subseteq DOMAIN Heard
    BY <1>4, <1>5, <1>6 DEF HeardFacts
  <1>8. ASSUME NEW q \in DOMAIN Heard' PROVE Heard'[q] = Heard[q]
    <2>1. CASE q \in DOMAIN results'
      BY <1>4, <1>5, <1>6, <2>1 DEF HeardFacts
    <2>2. CASE q \notin DOMAIN results'
      BY <1>4, <1>5, <1>6, <2>2 DEF HeardFacts
    <2> QED BY <2>1, <2>2
  <1> QED BY <1>1, <1>7, <1>8, LosingIs

LEMMA ReturningIsReturning ==
    ASSUME ClientInv, NodesInv', UNCHANGED <<servers, nodes>>, Return
    PROVE  Promise!Return
  <1>1. /\ ClientInv' /\ phase = "run" /\ call # {} /\ call' = {} /\ results' = <<>>
        /\ OnTheWay' = OnTheWay /\ Unsent' = Unsent /\ UNCHANGED memory
        /\ \/ reply' = Nothing
           \/ /\ DOMAIN results = call /\ reply' = results
              /\ \A r \in call : DOMAIN results[r] = r.keys
    BY ReturnStep
  <1>2. HeardFacts /\ HeardFacts'
    BY <1>1, HeardIs, PTL
  <1>3. Heard = results /\ Heard' = <<>>
    <2>1. phase' = "idle"
      BY DEF Return
    <2> QED BY <1>1, <1>2, <2>1 DEF HeardFacts
  <1>4. \A k : Home(k)' = Home(k)
    BY HomesStay
  <1>5. [k \in Key |-> memory'[Home(k)'][k]] = [k \in Key |-> memory[Home(k)][k]]
    BY <1>1, <1>4
  <1> QED BY <1>1, <1>3, <1>5 DEF Promise!Return, Promise!Succeeded

LEMMA CallingIsAsking ==
    ASSUME ClientInv, NodesInv', UNCHANGED <<servers, nodes>>, Call
    PROVE  Promise!Ask
  <1>1. /\ ClientInv' /\ phase = "idle" /\ phase' = "run" /\ results' = <<>> /\ reply' = Nothing
        /\ call = {} /\ call' # {} /\ call' \subseteq Request \ (OnTheWay \cup Unsent)
        /\ OnTheWay' = OnTheWay /\ Unsent = {} /\ Unsent' = call' /\ UNCHANGED memory
    BY CallStep
  <1>2. HeardFacts /\ HeardFacts'
    BY <1>1, HeardIs, PTL
  <1>3. Heard = <<>> /\ Heard' = <<>>
    <2>1. results = <<>>
      <3>1. DOMAIN results = {} /\ results = [r \in DOMAIN results |-> results[r]]
        BY <1>1 DEF ClientInv, CallInv
      <3> QED BY <3>1
    <2> QED BY <1>1, <1>2, <2>1 DEF HeardFacts
  <1>4. \A k : Home(k)' = Home(k)
    BY HomesStay
  <1>5. [k \in Key |-> memory'[Home(k)'][k]] = [k \in Key |-> memory[Home(k)][k]]
    BY <1>1, <1>4
  <1>6. call' \subseteq Promise!Request \ (OnTheWay \cup Unsent)
    BY <1>1 DEF Request, Promise!Request
  <1> QED BY <1>1, <1>3, <1>5, <1>6 DEF Promise!Ask

\* Every step of the clients is one of the promise.
LEMMA ClientStep ==
    ASSUME ClientInv, [ClientNext]_clientVars
    PROVE  ClientInv' /\ Promise!Next
  <1>1. NodesInv' /\ UNCHANGED <<servers, nodes>>
    BY NodesStep DEF ClientInv
  <1>2. ClientInv' /\ Fades => ClientInv' /\ Promise!Next
    BY FadingIsLosing DEF Promise!Next
  <1>3. CASE UNCHANGED clientVars
    BY <1>1, <1>2, <1>3, TimeStep DEF clientVars
  <1>4. CASE Call
    BY <1>1, <1>4, CallStep, CallingIsAsking DEF Promise!Next
  <1>5. CASE RetryDead
    BY <1>1, <1>2, <1>5, RetryDeadStep
  <1>6. CASE Skip
    BY <1>1, <1>2, <1>6, SkipStep
  <1>7. CASE GiveUp
    BY <1>1, <1>2, <1>7, RaiseStep DEF GiveUp, Proceeds, Running
  <1>8. CASE ConnectFails
    BY <1>1, <1>2, <1>8, RaiseStep DEF ConnectFails, Asks, Proceeds, Running
  <1>9. CASE Send
    BY <1>1, <1>2, <1>9, SendStep
  <1>10. CASE SendFails \/ ReadFails \/ ReadTimesOut
    BY <1>1, <1>2, <1>10, ClosingSteps
  <1>11. CASE Read
    BY <1>1, <1>11, ReadStep, ReadingIsLosing DEF Promise!Next
  <1>12. CASE Return
    BY <1>1, <1>12, ReturnStep, ReturningIsReturning DEF Promise!Next
  <1>13. CASE DeadTimeout
    BY <1>1, <1>2, <1>13, TimeStep DEF DeadTimeout
  <1>14. ASSUME NEW n \in nodes, Environment(clients(n)) PROVE ClientInv' /\ Promise!Next
    <2> DEFINE s == clients(n)
    <2>1. s \in Server
      BY ClientOf DEF ClientInv
    <2> HIDE DEF s
    <2>2. CASE Serve(s)
      BY <1>1, <2>1, <2>2, ServeStep, ServingIsServing DEF Promise!Next
    <2>3. ASSUME NEW r \in late[s], ServeLate(s, r) PROVE ClientInv' /\ Promise!Next
      BY <1>1, <2>1, <2>3, ServeLateStep, ServingLateIsServing DEF Promise!Next
    <2>4. ASSUME NEW k \in Key, ForgetKey(s, k) PROVE ClientInv' /\ Promise!Next
      BY <1>1, <1>2, <2>1, <2>4, ForgetKeyStep
    <2>5. CASE Restart(s) \/ Disconnect(s)
      BY <1>1, <1>2, <2>1, <2>5, HangupStep
    <2>6. CASE RetryTimeout(s)
      BY <1>1, <1>2, <2>6, TimeStep DEF RetryTimeout
    <2>7. Environment(s)
      BY <1>14 DEF s
    <2> QED BY <2>2, <2>3, <2>4, <2>5, <2>6, <2>7 DEF Environment
  <1> QED BY <1>3, <1>4, <1>5, <1>6, <1>7, <1>8, <1>9, <1>10, <1>11, <1>12, <1>13, <1>14
          DEF ClientNext, Client

LEMMA PromiseStart ==
    ASSUME ClientInit
    PROVE  Promise!Init
  <1>1. ClientInv
    BY ClientStart
  <1>2. \A k \in Key : memory[Home(k)][k] = Nothing
    BY <1>1, HomeOf DEF ClientInit, ClientInv
  <1>3. OnTheWay \cup Unsent = {}
    <2>1. Range(<<>>) = {}
      BY DEF Range
    <2>2. \A s \in Server : late[s] = {} /\ toServer[s] = <<>>
      BY DEF ClientInit
    <2>3. OnTheWay = {}
      BY <2>1, <2>2, OnTheWayIs
    <2> QED BY <2>1, <2>3 DEF Unsent, ClientInit
  <1>4. Heard = <<>>
    BY <1>1, HeardIs DEF HeardFacts, ClientInit
  <1> QED BY <1>2, <1>3, <1>4 DEF Promise!Init, ClientInit

(* The clients keep the promise of KeyValueCalls, KeepsPromise: whatever the *)
(* servers, the network and the clock do, a request of HashClient and Client *)
(* takes effect at most once, and what a call returns was said of its own    *)
(* keys, by their server, after the call began.                              *)
THEOREM PromiseIsKept == ClientSpec => KeepsPromise
  <1>1. ClientInit => ClientInv /\ Promise!Init
    BY ClientStart, PromiseStart
  <1>2. ClientInv /\ [ClientNext]_clientVars => ClientInv' /\ [Promise!Next]_(Promise!vars)
    BY ClientStep
  <1> QED BY <1>1, <1>2, PTL DEF ClientSpec, KeepsPromise, Promise!Spec
=============================================================================
