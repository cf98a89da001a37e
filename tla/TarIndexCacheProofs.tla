-------------------------- MODULE TarIndexCacheProofs --------------------------
(***************************************************************************)
(* What TarIndexCache promises, for any number of objects, callers, HEADs   *)
(* and indexes.                                                             *)
(***************************************************************************)
EXTENDS TarIndexCache, FiniteSetTheorems, TLAPS

Holders(i, l) == {c \in Openers : l[c] = i}
Leased(l) == {l[c] : c \in Openers}

\* What a map, the indexes and the leases say of each other: the map finds an
\* index under its own key, `leases` counts the holders, and open is what is
\* found or held.
Coherent(map, x, l) ==
    /\ map \in [Objects -> Indexes \cup {NoIndex}]
    /\ x \in [Indexes -> CachedIndex \cup {Closed}]
    /\ l \in [Openers -> Indexes \cup {NoIndex}]
    /\ \A k \in Objects : map[k] # NoIndex => x[map[k]] # Closed /\ x[map[k]].key = k
    /\ \A i \in Indexes : x[i] # Closed => x[i].leases = Cardinality(Holders(i, l))
    /\ LiveIndexes(x) = (Cached(map) \cup Leased(l)) \ {NoIndex}

-----------------------------------------------------------------------------
(* The operations on the three of them.                                     *)

\* Nobody holds an index of which no lease is counted.
LEMMA UncountedIsUnheld ==
    ASSUME NEW map, NEW x, NEW l, Coherent(map, x, l),
           NEW i \in Indexes, x[i] # Closed
    PROVE  x[i].leases = 0 <=> Holders(i, l) = {}
<1>1. IsFiniteSet(Holders(i, l))
  BY TarIndexAssumption, FS_Subset DEF Holders
<1>2. Cardinality(Holders(i, l)) = 0 <=> Holders(i, l) = {}
  BY <1>1, FS_EmptySet
<1> QED BY <1>2 DEF Coherent

\* Whatever unleased indexes prune() takes out of the map and closes.
LEMMA PruneIsCoherent ==
    ASSUME NEW map, NEW x, NEW l, Coherent(map, x, l),
           NEW gone \in SUBSET Unleased(map, x)
    PROVE  Coherent(Without(map, gone), Closing(x, gone), l)
<1> DEFINE m == Without(map, gone)
           y == Closing(x, gone)
<1>1. gone \subseteq Indexes /\ \A i \in gone : x[i] # Closed /\ Holders(i, l) = {}
  <2> SUFFICES ASSUME NEW i \in gone
               PROVE  i \in Indexes /\ x[i] # Closed /\ Holders(i, l) = {}
    OBVIOUS
  <2>1. PICK k \in Objects : map[k] = i /\ i # NoIndex
    BY DEF Unleased, Cached
  <2>2. i \in Indexes /\ x[i] # Closed
    BY <2>1 DEF Coherent
  <2>3. x[i].leases = 0
    BY DEF Unleased
  <2> QED BY <2>2, <2>3, UncountedIsUnheld
<1>2. m \in [Objects -> Indexes \cup {NoIndex}] /\ y \in [Indexes -> CachedIndex \cup {Closed}]
  BY DEF Coherent, Without, Closing
<1>3. \A k \in Objects : m[k] # NoIndex => m[k] = map[k] /\ map[k] \notin gone
  BY DEF Without
<1>4. \A i \in Indexes : y[i] # Closed => y[i] = x[i] /\ i \notin gone
  BY DEF Closing
<1>5. \A k \in Objects : m[k] # NoIndex => y[m[k]] # Closed /\ y[m[k]].key = k
  BY <1>3 DEF Coherent, Closing
<1>6. LiveIndexes(y) = LiveIndexes(x) \ gone
  BY DEF LiveIndexes, Closing
<1>7. Cached(m) = Cached(map) \ gone
  <2>1. \A k \in Objects : m[k] = IF map[k] \in gone THEN NoIndex ELSE map[k]
    BY DEF Without
  <2> QED BY <2>1, <1>1, TarIndexAssumption DEF Cached
<1>8. Leased(l) \cap gone = {}
  BY <1>1 DEF Leased, Holders
<1>9. LiveIndexes(y) = (Cached(m) \cup Leased(l)) \ {NoIndex}
  BY <1>6, <1>7, <1>8 DEF Coherent
<1> QED BY <1>2, <1>4, <1>5, <1>9 DEF Coherent

\* What any other field of an index says does not matter.
Keeps(x, y) ==
    /\ y \in [Indexes -> CachedIndex \cup {Closed}]
    /\ \A i \in Indexes :
          /\ y[i] = Closed <=> x[i] = Closed
          /\ x[i] # Closed => y[i].key = x[i].key /\ y[i].leases = x[i].leases

LEMMA KeptIsCoherent ==
    ASSUME NEW map, NEW x, NEW y, NEW l, Coherent(map, x, l), Keeps(x, y)
    PROVE  Coherent(map, y, l)
<1>1. \A k \in Objects : map[k] # NoIndex => map[k] \in Indexes
  BY DEF Coherent
<1>2. LiveIndexes(y) = LiveIndexes(x)
  BY DEF Keeps, LiveIndexes
<1>3. \A k \in Objects : map[k] # NoIndex => y[map[k]] # Closed /\ y[map[k]].key = k
  BY <1>1 DEF Coherent, Keeps
<1>4. \A i \in Indexes : y[i] # Closed => y[i].leases = Cardinality(Holders(i, l))
  BY DEF Coherent, Keeps
<1> QED BY <1>2, <1>3, <1>4 DEF Coherent, Keeps

\* A caller who holds nothing leases an index of the map.
LEMMA LeaseIsCoherent ==
    ASSUME NEW map, NEW x, NEW y, NEW l, Coherent(map, x, l),
           NEW c \in Openers, l[c] = NoIndex,
           NEW i \in Cached(map), i # NoIndex,
           y \in [Indexes -> CachedIndex \cup {Closed}],
           y[i] # Closed, y[i].key = x[i].key, y[i].leases = x[i].leases + 1,
           \A j \in Indexes \ {i} : y[j] = x[j]
    PROVE  Coherent(map, y, [l EXCEPT ![c] = i])
<1> DEFINE n == [l EXCEPT ![c] = i]
<1>1. i \in Indexes /\ x[i] # Closed
  BY DEF Coherent, Cached
<1>2. n \in [Openers -> Indexes \cup {NoIndex}] /\ c \in DOMAIN l
  BY <1>1 DEF Coherent
<1>3. LiveIndexes(y) = LiveIndexes(x)
  BY <1>1 DEF LiveIndexes
<1>4. \A k \in Objects : map[k] # NoIndex => y[map[k]] # Closed /\ y[map[k]].key = k
  BY <1>1 DEF Coherent
<1>5. Leased(n) \cup {NoIndex} = Leased(l) \cup {i, NoIndex}
  <2>1. n[c] = i /\ \A d \in Openers \ {c} : n[d] = l[d]
    BY <1>2
  <2> QED BY <2>1 DEF Leased
<1>6. LiveIndexes(y) = (Cached(map) \cup Leased(n)) \ {NoIndex}
  <2>1. LiveIndexes(x) = (Cached(map) \cup Leased(l)) \ {NoIndex}
    BY DEF Coherent
  <2> QED BY <1>3, <1>5, <2>1
<1>7. ASSUME NEW j \in Indexes, y[j] # Closed PROVE y[j].leases = Cardinality(Holders(j, n))
  <2>1. IsFiniteSet(Holders(j, l))
    BY TarIndexAssumption, FS_Subset DEF Holders
  <2>2. CASE j = i
    <3>1. Holders(j, n) = Holders(j, l) \cup {c} /\ c \notin Holders(j, l)
      BY <1>1, <1>2, <2>2, TarIndexAssumption DEF Holders
    <3>2. Cardinality(Holders(j, n)) = Cardinality(Holders(j, l)) + 1
      BY <2>1, <3>1, FS_AddElement
    <3> QED BY <1>1, <2>2, <3>2 DEF Coherent
  <2>3. CASE j # i
    <3>1. Holders(j, n) = Holders(j, l)
      BY <1>2, <2>3, TarIndexAssumption DEF Holders
    <3> QED BY <1>7, <2>3, <3>1 DEF Coherent
  <2> QED BY <2>2, <2>3
<1> QED BY <1>2, <1>4, <1>6, <1>7 DEF Coherent

\* A new index takes the place of a closed one, and of none in the map.
LEMMA NewIsCoherent ==
    ASSUME NEW map, NEW x, NEW l, Coherent(map, x, l),
           NEW c \in Openers, l[c] = NoIndex,
           NEW k \in Objects, map[k] = NoIndex,
           NEW i \in Indexes, x[i] = Closed,
           NEW rec \in CachedIndex, rec.key = k, rec.leases = 1
    PROVE  Coherent([map EXCEPT ![k] = i], [x EXCEPT ![i] = rec], [l EXCEPT ![c] = i])
<1> DEFINE m == [map EXCEPT ![k] = i]
           y == [x EXCEPT ![i] = rec]
           n == [l EXCEPT ![c] = i]
<1>1. /\ m \in [Objects -> Indexes \cup {NoIndex}]
      /\ y \in [Indexes -> CachedIndex \cup {Closed}]
      /\ n \in [Openers -> Indexes \cup {NoIndex}]
  BY DEF Coherent
<1>2. /\ y[i] = rec /\ rec # Closed /\ \A j \in Indexes \ {i} : y[j] = x[j]
      /\ m[k] = i /\ \A q \in Objects \ {k} : m[q] = map[q]
      /\ n[c] = i /\ \A d \in Openers \ {c} : n[d] = l[d]
  BY ClosedAssumption DEF Coherent
<1>3. \A q \in Objects : map[q] # i
  BY TarIndexAssumption DEF Coherent
<1>4. \A q \in Objects : m[q] # NoIndex => y[m[q]] # Closed /\ y[m[q]].key = q
  BY <1>2, <1>3 DEF Coherent
<1>5. LiveIndexes(y) = LiveIndexes(x) \cup {i}
  BY <1>2 DEF LiveIndexes
<1>6. /\ Cached(m) = Cached(map) \cup {i}
      /\ Leased(n) \cup {NoIndex} = Leased(l) \cup {i, NoIndex}
  BY <1>2, TarIndexAssumption DEF Cached, Leased
<1>7. LiveIndexes(y) = (Cached(m) \cup Leased(n)) \ {NoIndex}
  BY <1>5, <1>6, TarIndexAssumption DEF Coherent
<1>8. Holders(i, l) = {}
  <2>1. i \notin Leased(l)
    BY TarIndexAssumption DEF Coherent, LiveIndexes
  <2> QED BY <2>1 DEF Holders, Leased
<1>9. ASSUME NEW j \in Indexes, y[j] # Closed PROVE y[j].leases = Cardinality(Holders(j, n))
  <2>1. CASE j = i
    <3>1. Holders(j, n) = {c}
      BY <1>2, <1>8, <2>1 DEF Holders
    <3> QED BY <1>2, <2>1, <3>1, FS_Singleton
  <2>2. CASE j # i
    <3>1. Holders(j, n) = Holders(j, l)
      BY <1>2, <2>2, TarIndexAssumption DEF Holders
    <3> QED BY <1>2, <1>9, <2>2, <3>1 DEF Coherent
  <2> QED BY <2>1, <2>2
<1> QED BY <1>1, <1>4, <1>7, <1>9 DEF Coherent

\* The index of a key leaves the map, and is closed unless it is leased.
LEMMA RetireIsCoherent ==
    ASSUME NEW map, NEW x, NEW l, Coherent(map, x, l),
           NEW k \in Objects, map[k] # NoIndex
    PROVE  Coherent(Without(map, {map[k]}), Retired(map[k], x), l)
<1> DEFINE i == map[k]
           m == Without(map, {i})
           y == Retired(i, x)
<1>1. i \in Indexes /\ x[i] # Closed /\ x[i].key = k
  BY DEF Coherent
<1>2. x[i].leases \in Nat /\ (x[i].leases = 0 <=> i \notin Leased(l))
  <2>1. x[i] \in CachedIndex
    BY <1>1 DEF Coherent
  <2>2. Holders(i, l) = {} <=> i \notin Leased(l)
    BY DEF Holders, Leased
  <2> QED BY <1>1, <2>1, <2>2, UncountedIsUnheld DEF CachedIndex
<1>3. m \in [Objects -> Indexes \cup {NoIndex}] /\ y \in [Indexes -> CachedIndex \cup {Closed}]
  BY DEF Coherent, Without, Retired
<1>4. \A q \in Objects : m[q] # NoIndex => m[q] = map[q] /\ map[q] # i
  BY DEF Without
<1>5. \A j \in Indexes : y[j] = IF j = i /\ i \notin Leased(l) THEN Closed ELSE x[j]
  BY <1>1, <1>2 DEF Coherent, Retired
<1>6. \A q \in Objects : m[q] # NoIndex => y[m[q]] # Closed /\ y[m[q]].key = q
  <2> SUFFICES ASSUME NEW q \in Objects, m[q] # NoIndex
               PROVE  y[m[q]] # Closed /\ y[m[q]].key = q
    OBVIOUS
  <2>1. map[q] \in Indexes /\ x[map[q]] # Closed /\ x[map[q]].key = q
    BY <1>4 DEF Coherent
  <2>2. y[map[q]] = x[map[q]]
    BY <1>4, <1>5, <2>1
  <2> QED BY <1>4, <2>1, <2>2
<1>7. LiveIndexes(y) = (Cached(m) \cup Leased(l)) \ {NoIndex}
  <2>1. Cached(m) = Cached(map) \ {i}
    <3>1. \A q \in Objects : m[q] = IF map[q] = i THEN NoIndex ELSE map[q]
      BY DEF Without
    <3> QED BY <1>1, <3>1, TarIndexAssumption DEF Cached
  <2>2. LiveIndexes(y) = IF i \in Leased(l) THEN LiveIndexes(x) ELSE LiveIndexes(x) \ {i}
    BY <1>1, <1>5 DEF LiveIndexes
  <2>3. LiveIndexes(x) = (Cached(map) \cup Leased(l)) \ {NoIndex}
    BY DEF Coherent
  <2>4. i # NoIndex /\ i \in Cached(map)
    BY DEF Cached
  <2> QED BY <2>1, <2>2, <2>3, <2>4
<1> QED BY <1>3, <1>5, <1>6, <1>7 DEF Coherent

\* The release of a lease, which retires an index that is not in the map.
Released(i, map, x) ==
    LET less == [x EXCEPT ![i].leases = @ - 1]
    IN IF map[x[i].key] # i THEN Retired(i, less) ELSE less

LEMMA ReleaseIsCoherent ==
    ASSUME NEW map, NEW x, NEW l, Coherent(map, x, l),
           NEW c \in Openers, l[c] # NoIndex
    PROVE  Coherent(map, Released(l[c], map, x), [l EXCEPT ![c] = NoIndex])
<1> DEFINE i == l[c]
           less == [x EXCEPT ![i].leases = @ - 1]
           y == IF map[x[i].key] # i THEN Retired(i, less) ELSE less
           n == [l EXCEPT ![c] = NoIndex]
<1>1. i \in Indexes /\ x[i] \in CachedIndex /\ x[i] # Closed
  <2>1. i \in Leased(l) /\ i # NoIndex
    BY DEF Leased
  <2>2. i \in LiveIndexes(x)
    BY <2>1 DEF Coherent
  <2> QED BY <2>2 DEF Coherent, LiveIndexes
<1>2. /\ n \in [Openers -> Indexes \cup {NoIndex}]
      /\ n[c] = NoIndex /\ \A d \in Openers \ {c} : n[d] = l[d]
  BY DEF Coherent
<1>3. /\ IsFiniteSet(Holders(i, n)) /\ Cardinality(Holders(i, n)) \in Nat
      /\ x[i].leases = Cardinality(Holders(i, n)) + 1
  <2>1. Holders(i, l) = Holders(i, n) \cup {c} /\ c \notin Holders(i, n)
    BY <1>1, <1>2, TarIndexAssumption DEF Holders
  <2>2. IsFiniteSet(Holders(i, n))
    BY TarIndexAssumption, FS_Subset DEF Holders
  <2>3. Cardinality(Holders(i, l)) = Cardinality(Holders(i, n)) + 1
    BY <2>1, <2>2, FS_AddElement
  <2> QED BY <1>1, <2>2, <2>3, FS_CardinalityType DEF Coherent
<1>4. /\ less \in [Indexes -> CachedIndex \cup {Closed}]
      /\ less[i] \in CachedIndex /\ less[i].key = x[i].key
      /\ less[i].leases = Cardinality(Holders(i, n))
      /\ \A j \in Indexes \ {i} : less[j] = x[j]
  <2>1. less = [x EXCEPT ![i] = [x[i] EXCEPT !.leases = @ - 1]]
    OBVIOUS
  <2>2. [x[i] EXCEPT !.leases = @ - 1] \in CachedIndex
    BY <1>1, <1>3 DEF CachedIndex
  <2>3. /\ [x[i] EXCEPT !.leases = @ - 1].key = x[i].key
        /\ [x[i] EXCEPT !.leases = @ - 1].leases = Cardinality(Holders(i, n))
    BY <1>1, <1>3 DEF CachedIndex
  <2>4. less[i] = [x[i] EXCEPT !.leases = @ - 1] /\ \A j \in Indexes \ {i} : less[j] = x[j]
    BY <1>1, <2>1 DEF Coherent
  <2> QED BY <2>1, <2>2, <2>3, <2>4 DEF Coherent
<1>5. Holders(i, n) = {} <=> less[i].leases = 0
  BY <1>3, <1>4, FS_EmptySet
<1>6. i \in Cached(map) <=> map[x[i].key] = i
  BY <1>1, TarIndexAssumption DEF Cached, Coherent, CachedIndex
<1>7. /\ \A j \in Indexes \ {i} : y[j] = x[j]
      /\ y \in [Indexes -> CachedIndex \cup {Closed}]
      /\ y[i] = IF i \notin Cached(map) /\ Holders(i, n) = {} THEN Closed ELSE less[i]
  <2>1. less[i].leases > 0 <=> Holders(i, n) # {}
    <3>1. less[i].leases \in Nat
      BY <1>3, <1>4
    <3>2. \A k \in Nat : k > 0 <=> k # 0
      OBVIOUS
    <3> QED BY <1>5, <3>1, <3>2, Zenon
  <2> QED BY <1>1, <1>4, <1>6, <2>1 DEF Retired
<1> HIDE DEF y, less
<1>8. \A k \in Objects : map[k] # NoIndex => y[map[k]] # Closed /\ y[map[k]].key = k
  <2> SUFFICES ASSUME NEW k \in Objects, map[k] # NoIndex
               PROVE  y[map[k]] # Closed /\ y[map[k]].key = k
    OBVIOUS
  <2>1. map[k] \in Indexes /\ x[map[k]] # Closed /\ x[map[k]].key = k /\ map[k] \in Cached(map)
    BY DEF Coherent, Cached
  <2> QED BY <1>4, <1>7, <2>1, ClosedAssumption
<1>9. LiveIndexes(y) = (Cached(map) \cup Leased(n)) \ {NoIndex}
  <2>1. LiveIndexes(y) = IF i \notin Cached(map) /\ Holders(i, n) = {}
                         THEN LiveIndexes(x) \ {i} ELSE LiveIndexes(x)
    <3>1. \A j \in Indexes \ {i} : y[j] # Closed <=> x[j] # Closed
      BY <1>7
    <3>2. y[i] # Closed <=> ~(i \notin Cached(map) /\ Holders(i, n) = {})
      BY <1>4, <1>7, ClosedAssumption
    <3> QED BY <1>1, <3>1, <3>2 DEF LiveIndexes
  <2>2. Holders(i, n) = {} <=> i \notin Leased(n)
    BY DEF Holders, Leased
  <2>3. Leased(l) \cup {NoIndex} = Leased(n) \cup {i, NoIndex}
    BY <1>2 DEF Leased
  <2>4. LiveIndexes(x) = (Cached(map) \cup Leased(l)) \ {NoIndex}
    BY DEF Coherent
  <2> QED BY <2>1, <2>2, <2>3, <2>4
<1>10. ASSUME NEW j \in Indexes, y[j] # Closed PROVE y[j].leases = Cardinality(Holders(j, n))
  <2>1. CASE j = i
    BY <1>4, <1>7, <1>10, <2>1
  <2>2. CASE j # i
    <3>1. Holders(j, n) = Holders(j, l)
      BY <1>2, <2>2, TarIndexAssumption DEF Holders
    <3> QED BY <1>7, <1>10, <2>2, <3>1 DEF Coherent
  <2> QED BY <2>1, <2>2
<1>11. map \in [Objects -> Indexes \cup {NoIndex}]
  BY DEF Coherent
<1>12. Coherent(map, y, n)
  BY <1>2, <1>7, <1>8, <1>9, <1>10, <1>11 DEF Coherent
<1> QED BY <1>12 DEF Released, y, less

\* close() empties the map and leaves open what is leased.
LEMMA CloseIsCoherent ==
    ASSUME NEW map, NEW x, NEW l, Coherent(map, x, l)
    PROVE  Coherent([k \in Objects |-> NoIndex], Closing(x, Unleased(map, x)), l)
<1> DEFINE m == [k \in Objects |-> NoIndex]
           y == Closing(x, Unleased(map, x))
<1>1. y \in [Indexes -> CachedIndex \cup {Closed}]
  BY DEF Coherent, Closing
<1>2. \A i \in Indexes : y[i] # Closed => y[i] = x[i]
  BY DEF Closing
<1>3. Cached(m) = {}
  BY DEF Cached
<1>4. LiveIndexes(y) = LiveIndexes(x) \ Unleased(map, x)
  BY DEF LiveIndexes, Closing
<1>5. \A i \in LiveIndexes(x) : i \in Unleased(map, x) <=> i \in Cached(map) /\ i \notin Leased(l)
  <2> SUFFICES ASSUME NEW i \in Indexes, x[i] # Closed
               PROVE  i \in Unleased(map, x) <=> i \in Cached(map) /\ i \notin Leased(l)
    BY DEF LiveIndexes
  <2>1. x[i].leases = 0 <=> Holders(i, l) = {}
    BY UncountedIsUnheld
  <2> QED BY <2>1 DEF Unleased, Holders, Leased
<1>6. LiveIndexes(y) = (Cached(m) \cup Leased(l)) \ {NoIndex}
  <2>1. LiveIndexes(x) = (Cached(map) \cup Leased(l)) \ {NoIndex}
    BY DEF Coherent
  <2> QED BY <1>3, <1>4, <1>5, <2>1
<1> QED BY <1>1, <1>2, <1>6 DEF Coherent

-----------------------------------------------------------------------------
(* The invariant.                                                           *)

\* A caller waits for one HEAD at most, and holds nothing meanwhile.
AskInv ==
    /\ \A c \in Openers, r, s \in Heads : c \in headSubs[r] /\ c \in headSubs[s] => r = s
    /\ \A c \in Openers, r \in Heads : c \in headSubs[r] => lease[c] = NoIndex

\* A HEAD has an answer while it is settled or somebody is to get it, and the
\* object has changed since then only at this very moment.
HeadInv ==
    \A r \in Heads : head[r] # 0 =>
       /\ headState[r] # "loading"
       /\ headState[r] = "done" => headSubs[r] # {}
       /\ head[r] # version[HeadOf[r]] => since[HeadOf[r]] = 0

\* What an index says of the HEAD it came from, and how old its version may be:
\* of the states and answers of the HEADs, the versions and since when they are.
Knows(rec, hs, h, v, s) ==
    /\ rec.from \in Heads => /\ hs[rec.from] # "loading"
                             /\ h[rec.from] # 0 => rec.ver = h[rec.from]
    /\ rec.ver # v[rec.key] => s[rec.key] <= rec.age

AllKnow(x, hs, h, v, s) == \A i \in Indexes : x[i] # Closed => Knows(x[i], hs, h, v, s)

TarInv ==
    /\ TarTypeOK
    /\ Coherent(at, index, lease)
    /\ LimitsHold
    /\ AskInv
    /\ HeadInv
    /\ AllKnow(index, headState, head, version, since)

\* The part of the state that is not the cache's.
HeadTypeOK ==
    /\ Shared!SharedOK
    /\ version \in [Objects -> 1 .. MaxVersion]
    /\ etags \in BOOLEAN
    /\ since \in [Objects -> 0 .. HeadTTL]
    /\ head \in [Heads -> 0 .. MaxVersion]

LEMMA HeadTypeStep ==
    ASSUME TarTypeOK, [TarNext]_tarVars
    PROVE  HeadTypeOK'
<1> USE TarIndexAssumption DEF TarTypeOK, HeadTypeOK, Shared!SharedOK
<1> DEFINE HeadsOK == /\ pendingHeads' \in [Objects -> Heads \cup {NoHead}]
                      /\ headState' \in [Heads -> {"loading", "settled", "done"}]
                      /\ headSubs' \in [Heads -> SUBSET Openers]
                      /\ headAborted' \in [Heads -> BOOLEAN]
<1>1. ASSUME NEW c \in Openers, NEW k \in Objects, OpenTar(c, k) PROVE HeadTypeOK'
  <2>1. UNCHANGED <<version, etags, since, head>>
    BY <1>1 DEF OpenTar, storageVars
  <2>2. \/ UNCHANGED headVars
        \/ Shared!Join(c, k)
        \/ \E r \in Heads : Shared!Create(c, k, r)
    BY <1>1 DEF OpenTar
  <2>3. CASE UNCHANGED headVars
    BY <2>1, <2>3 DEF headVars
  <2>4. CASE Shared!Join(c, k)
    BY <2>1, <2>4 DEF Shared!Join
  <2>5. ASSUME NEW r \in Heads, Shared!Create(c, k, r) PROVE HeadsOK
    <3>1. pendingHeads' \in [Objects -> Heads \cup {NoHead}] /\ headAborted' \in [Heads -> BOOLEAN]
      BY <2>5 DEF Shared!Create
    <3>2. headState' \in [Heads -> {"loading", "settled", "done"}] /\ headSubs' \in [Heads -> SUBSET Openers]
      BY <2>5 DEF Shared!Create
    <3> QED BY <3>1, <3>2
  <2> QED BY <2>1, <2>2, <2>3, <2>4, <2>5
<1>2. ASSUME NEW c \in Openers, NEW r \in Heads, Resume(c, r) PROVE HeadTypeOK'
  <2>1. UNCHANGED <<version, etags, since, pendingHeads, headState, headAborted>>
    BY <1>2 DEF Resume, storageVars, Shared!Deliver
  <2>2. headSubs' \in [Heads -> SUBSET Openers]
    BY <1>2 DEF Resume, Shared!Deliver
  <2>3. head' \in [Heads -> 0 .. MaxVersion]
    BY <1>2 DEF Resume, Forgotten
  <2> QED BY <2>1, <2>2, <2>3
<1>3. ASSUME NEW c \in Openers, LeaveHead(c) PROVE HeadTypeOK'
  <2>1. PICK r \in Heads : Shared!Abort(c, r) /\ head' = Forgotten(r, headSubs[r] \ {c})
    BY <1>3 DEF LeaveHead
  <2>2. UNCHANGED <<version, etags, since, headState>>
    BY <1>3 DEF LeaveHead, storageVars
  <2>3. head' \in [Heads -> 0 .. MaxVersion]
    BY <2>1 DEF Forgotten
  <2>4. headSubs' \in [Heads -> SUBSET Openers]
    BY <2>1 DEF Shared!Abort
  <2>5. headAborted' \in [Heads -> BOOLEAN]
    BY <2>1 DEF Shared!Abort
  <2>6. pendingHeads' \in [Objects -> Heads \cup {NoHead}]
    BY <2>1 DEF Shared!Abort, Shared!Deleted
  <2> QED BY <2>2, <2>3, <2>4, <2>5, <2>6
<1>4. ASSUME NEW c \in Openers, ReleaseLease(c) \/ Grows(c) PROVE HeadTypeOK'
  BY <1>4 DEF ReleaseLease, Grows, headVars, storageVars
<1>5. ASSUME NEW r \in Heads, HeadEnds(r) PROVE HeadTypeOK'
  <2>1. UNCHANGED <<version, etags, since, pendingHeads, headSubs, headAborted>>
    BY <1>5 DEF HeadEnds, storageVars
  <2>2. headState' \in [Heads -> {"loading", "settled", "done"}]
    BY <1>5 DEF HeadEnds
  <2>3. head' \in [Heads -> 0 .. MaxVersion]
    <3>1. PICK v \in {0, version[HeadOf[r]]} : head' = [head EXCEPT ![r] = v]
      BY <1>5 DEF HeadEnds
    <3>2. v \in 0 .. MaxVersion
      BY <3>1
    <3> QED BY <3>1, <3>2
  <2> QED BY <2>1, <2>2, <2>3
<1>6. ASSUME NEW r \in Heads, HeadOver(r) PROVE HeadTypeOK'
  <2>1. UNCHANGED <<version, etags, since, headSubs>>
    BY <1>6 DEF HeadOver, storageVars, Shared!Finally
  <2>2. headState' \in [Heads -> {"loading", "settled", "done"}] /\ headAborted' \in [Heads -> BOOLEAN]
    BY <1>6 DEF HeadOver, Shared!Finally
  <2>3. pendingHeads' \in [Objects -> Heads \cup {NoHead}]
    BY <1>6 DEF HeadOver, Shared!Finally, Shared!Deleted
  <2>4. head' \in [Heads -> 0 .. MaxVersion]
    BY <1>6 DEF HeadOver, Forgotten
  <2> QED BY <2>1, <2>2, <2>3, <2>4
<1>7. ASSUME NEW k \in Objects, Changes(k) PROVE HeadTypeOK'
  BY <1>7 DEF Changes, headVars, HeadTTL
<1>8. ASSUME NEW i \in Indexes, GoesIdle(i) PROVE HeadTypeOK'
  BY <1>8 DEF GoesIdle, headVars, storageVars
<1>9. CASE Ticks
  BY <1>9 DEF Ticks, Older, headVars, HeadTTL
<1>10. CASE CloseCache
  BY <1>10 DEF CloseCache, headVars, storageVars
<1>11. CASE UNCHANGED tarVars
  BY <1>11 DEF tarVars, headVars, storageVars
<1> QED BY <1>1, <1>2, <1>3, <1>4, <1>5, <1>6, <1>7, <1>8, <1>9, <1>10, <1>11 DEF TarNext

\* Only the lease of the caller that acts changes.
LEMMA LeaseOfOne ==
    ASSUME TarTypeOK, NEW c \in Openers,
           \/ \E k \in Objects : OpenTar(c, k)
           \/ \E r \in Heads : Resume(c, r)
           \/ ReleaseLease(c)
    PROVE  \A d \in Openers \ {c} : lease'[d] = lease[d]
<1> USE DEF TarTypeOK
<1>1. ASSUME NEW k \in Objects, OpenTar(c, k) PROVE \A d \in Openers \ {c} : lease'[d] = lease[d]
  <2>1. lease' = lease \/ \E i : lease' = [lease EXCEPT ![c] = i]
    BY <1>1 DEF OpenTar
  <2> QED BY <2>1
<1>2. ASSUME NEW r \in Heads, Resume(c, r) PROVE \A d \in Openers \ {c} : lease'[d] = lease[d]
  <2>1. lease' = lease \/ \E i : lease' = [lease EXCEPT ![c] = i]
    BY <1>2 DEF Resume, Replace, cacheVars
  <2> QED BY <2>1
<1>3. CASE ReleaseLease(c)
  BY <1>3 DEF ReleaseLease
<1> QED BY <1>1, <1>2, <1>3

LEMMA AskStep ==
    ASSUME TarTypeOK, AskInv, [TarNext]_tarVars
    PROVE  AskInv'
<1> USE DEF AskInv, TarTypeOK, Shared!SharedOK
<1>1. ASSUME NEW c \in Openers, NEW k \in Objects, OpenTar(c, k) PROVE AskInv'
  <2>1. lease[c] = NoIndex /\ \A r \in Heads : c \notin headSubs[r]
    BY <1>1 DEF OpenTar, Shared!Asking
  <2>2. CASE UNCHANGED headVars
    <3>1. headSubs' = headSubs
      BY <2>2 DEF headVars
    <3>2. \A d \in Openers \ {c} : lease'[d] = lease[d]
      BY <1>1, LeaseOfOne
    <3> QED BY <2>1, <3>1, <3>2
  <2>3. ASSUME UNCHANGED lease, Shared!Join(c, k) PROVE AskInv'
    <3>1. PICK r \in Heads : headSubs' = [headSubs EXCEPT ![r] = @ \cup {c}]
      BY <2>3 DEF Shared!Join
    <3> QED BY <2>1, <2>3, <3>1
  <2>4. ASSUME UNCHANGED lease, NEW r \in Heads, Shared!Create(c, k, r) PROVE AskInv'
    <3>1. headSubs' = [headSubs EXCEPT ![r] = {c}]
      BY <2>4 DEF Shared!Create
    <3> QED BY <2>1, <2>4, <3>1
  <2> QED BY <1>1, <2>2, <2>3, <2>4 DEF OpenTar
<1>2. ASSUME NEW c \in Openers, NEW r \in Heads, Resume(c, r) PROVE AskInv'
  <2>1. /\ c \in headSubs[r]
        /\ headSubs' = [headSubs EXCEPT ![r] = @ \ {c}]
    BY <1>2 DEF Resume, Shared!Deliver
  <2>2. \A s \in Heads : c \notin headSubs'[s]
    BY <2>1
  <2>3. \A d \in Openers \ {c} : lease'[d] = lease[d]
    BY <1>2, LeaseOfOne
  <2>4. \A d \in Openers, s \in Heads : d \in headSubs'[s] => d \in headSubs[s]
    BY <2>1
  <2> QED BY <2>2, <2>3, <2>4
<1>3. ASSUME NEW c \in Openers, LeaveHead(c) PROVE AskInv'
  <2>1. PICK r \in Heads : headSubs' = [headSubs EXCEPT ![r] = @ \ {c}]
    BY <1>3 DEF LeaveHead, Shared!Abort
  <2>2. lease' = lease
    BY <1>3 DEF LeaveHead, cacheVars
  <2> QED BY <2>1, <2>2
<1>4. ASSUME NEW c \in Openers, ReleaseLease(c) PROVE AskInv'
  <2>1. headSubs' = headSubs /\ lease' = [lease EXCEPT ![c] = NoIndex]
    BY <1>4 DEF ReleaseLease, headVars
  <2> QED BY <2>1
<1>5. CASE UNCHANGED <<headSubs, lease>>
  BY <1>5
<1>6. ASSUME TarNext PROVE AskInv'
  <2>1. ASSUME NEW c \in Openers, Grows(c) PROVE AskInv'
    BY <1>5, <2>1 DEF Grows, headVars
  <2>2. ASSUME NEW r \in Heads, HeadEnds(r) \/ HeadOver(r) PROVE AskInv'
    BY <1>5, <2>2 DEF HeadEnds, HeadOver, Shared!Finally, cacheVars
  <2>3. ASSUME NEW k \in Objects, Changes(k) PROVE AskInv'
    BY <1>5, <2>3 DEF Changes, headVars, cacheVars
  <2>4. ASSUME NEW i \in Indexes, GoesIdle(i) PROVE AskInv'
    BY <1>5, <2>4 DEF GoesIdle, headVars
  <2>5. ASSUME Ticks \/ CloseCache PROVE AskInv'
    BY <1>5, <2>5 DEF Ticks, CloseCache, headVars
  <2> QED BY <1>1, <1>2, <1>3, <1>4, <1>6, <2>1, <2>2, <2>3, <2>4, <2>5 DEF TarNext
<1>7. CASE UNCHANGED tarVars
  BY <1>5, <1>7 DEF tarVars, headVars, cacheVars
<1> QED BY <1>6, <1>7

LEMMA HeadStep ==
    ASSUME TarTypeOK, HeadInv, [TarNext]_tarVars
    PROVE  HeadInv'
<1> USE TarIndexAssumption DEF HeadInv, TarTypeOK, Shared!SharedOK
<1>1. ASSUME NEW c \in Openers, NEW k \in Objects, OpenTar(c, k) PROVE HeadInv'
  <2>1. UNCHANGED <<version, since, head>>
    BY <1>1 DEF OpenTar, storageVars
  <2>2. CASE UNCHANGED headVars
    BY <2>1, <2>2 DEF headVars
  <2>3. ASSUME Shared!Join(c, k) PROVE HeadInv'
    <3>1. headState' = headState /\ \A r \in Heads : headSubs[r] \subseteq headSubs'[r]
      BY <2>3 DEF Shared!Join
    <3> QED BY <2>1, <3>1
  <2>4. ASSUME NEW r \in Heads, Shared!Create(c, k, r) PROVE HeadInv'
    <3>1. headState[r] = "done" /\ headSubs[r] = {}
      BY <2>4 DEF Shared!Create
    <3>2. head[r] = 0
      BY <3>1
    <3>3. \A q \in Heads \ {r} : headState'[q] = headState[q] /\ headSubs'[q] = headSubs[q]
      BY <2>4 DEF Shared!Create
    <3> QED BY <2>1, <3>2, <3>3
  <2> QED BY <1>1, <2>2, <2>3, <2>4 DEF OpenTar
\* A caller goes, and with the last one the answer.
<1>2. ASSUME NEW c \in Openers, NEW r \in Heads,
             headSubs' = [headSubs EXCEPT ![r] = @ \ {c}],
             head' = Forgotten(r, headSubs[r] \ {c}),
             UNCHANGED <<headState, version, since>>
      PROVE  HeadInv'
  <2>1. \A q \in Heads \ {r} : head'[q] = head[q] /\ headSubs'[q] = headSubs[q]
    BY <1>2 DEF Forgotten
  <2>2. head'[r] # 0 => head'[r] = head[r] /\ headSubs'[r] # {}
    BY <1>2 DEF Forgotten
  <2> QED BY <1>2, <2>1, <2>2
<1>3. ASSUME NEW c \in Openers, NEW r \in Heads, Resume(c, r) PROVE HeadInv'
  BY <1>2, <1>3 DEF Resume, Shared!Deliver, storageVars
<1>4. ASSUME NEW c \in Openers, LeaveHead(c) PROVE HeadInv'
  BY <1>2, <1>4 DEF LeaveHead, Shared!Abort, storageVars
<1>5. ASSUME NEW r \in Heads, HeadEnds(r) PROVE HeadInv'
  <2>1. UNCHANGED <<version, since, headSubs>>
    BY <1>5 DEF HeadEnds, storageVars
  <2>2. headState' = [headState EXCEPT ![r] = "settled"]
    BY <1>5 DEF HeadEnds
  <2>3. PICK v \in {0, version[HeadOf[r]]} : head' = [head EXCEPT ![r] = v]
    BY <1>5 DEF HeadEnds
  <2>4. head'[r] = v /\ headState'[r] = "settled"
    BY <2>2, <2>3
  <2>5. \A q \in Heads \ {r} : head'[q] = head[q] /\ headState'[q] = headState[q]
    BY <2>2, <2>3
  <2> QED BY <2>1, <2>4, <2>5
<1>6. ASSUME NEW r \in Heads, HeadOver(r) PROVE HeadInv'
  <2>1. UNCHANGED <<version, since, headSubs>>
    BY <1>6 DEF HeadOver, storageVars, Shared!Finally
  <2>2. headState' = [headState EXCEPT ![r] = "done"]
    BY <1>6 DEF HeadOver, Shared!Finally
  <2>3. \A q \in Heads \ {r} : head'[q] = head[q]
    BY <1>6 DEF HeadOver, Forgotten
  <2>4. head'[r] # 0 => head'[r] = head[r] /\ headSubs[r] # {}
    BY <1>6 DEF HeadOver, Forgotten
  <2> QED BY <2>1, <2>2, <2>3, <2>4
<1>7. ASSUME NEW k \in Objects, Changes(k) PROVE HeadInv'
  <2>1. UNCHANGED <<head, headState, headSubs>>
    BY <1>7 DEF Changes, headVars
  <2>2. \A q \in Objects : (version'[q] = version[q] /\ since'[q] = since[q]) \/ since'[q] = 0
    BY <1>7 DEF Changes
  <2> QED BY <2>1, <2>2
<1>8. CASE Ticks
  <2>1. UNCHANGED head /\ CallbacksDone
    BY <1>8 DEF Ticks
  <2>2. \A r \in Heads : head[r] = 0
    BY <2>1 DEF CallbacksDone
  <2> QED BY <2>1, <2>2
<1>9. CASE UNCHANGED <<headVars, version, since, head>>
  BY <1>9 DEF headVars
<1>10. ASSUME TarNext PROVE HeadInv'
  <2>1. ASSUME NEW c \in Openers, ReleaseLease(c) \/ Grows(c) PROVE HeadInv'
    BY <1>9, <2>1 DEF ReleaseLease, Grows, storageVars
  <2>2. ASSUME NEW i \in Indexes, GoesIdle(i) PROVE HeadInv'
    BY <1>9, <2>2 DEF GoesIdle, storageVars
  <2>3. ASSUME CloseCache PROVE HeadInv'
    BY <1>9, <2>3 DEF CloseCache, storageVars
  <2> QED BY <1>1, <1>3, <1>4, <1>5, <1>6, <1>7, <1>8, <1>10, <2>1, <2>2, <2>3 DEF TarNext
<1>11. CASE UNCHANGED tarVars
  BY <1>9, <1>11 DEF tarVars, storageVars
<1> QED BY <1>10, <1>11

-----------------------------------------------------------------------------
(* Coherence.                                                               *)

LEMMA OpenIsCoherent ==
    ASSUME TarTypeOK, Coherent(at, index, lease),
           NEW c \in Openers, NEW k \in Objects, OpenTar(c, k)
    PROVE  Coherent(at', index', lease')
<1>1. PICK gone \in Pruned(at, index, 0) :
         LET kept == Closing(index, gone)
             i == Without(at, gone)[k]
         IN /\ at' = Without(at, gone)
            /\ \/ /\ Young(i, kept)
                  /\ index' = Touched(i, kept)
                  /\ lease' = [lease EXCEPT ![c] = i]
               \/ /\ index' = kept \/ \E r \in Heads : index' = Renewed(r, kept)
                  /\ UNCHANGED lease
  BY DEF OpenTar
<1> DEFINE map == Without(at, gone)
           kept == Closing(index, gone)
           i == map[k]
<1>2. Coherent(map, kept, lease)
  BY PruneIsCoherent DEF Pruned
<1> HIDE DEF map, kept
<1>3. CASE Young(i, kept) /\ index' = Touched(i, kept) /\ lease' = [lease EXCEPT ![c] = i]
  <2>1. i \in Cached(map) /\ i # NoIndex /\ i \in Indexes /\ kept[i] \in CachedIndex
    BY <1>2, <1>3 DEF Young, Cached, Coherent
  <2>2. index' = [kept EXCEPT ![i] = [kept[i] EXCEPT !.idle = FALSE, !.leases = @ + 1]]
    BY <1>2, <1>3, <2>1 DEF Touched, Coherent
  <2>3. [kept[i] EXCEPT !.idle = FALSE, !.leases = @ + 1] \in CachedIndex
    <3>1. ASSUME NEW rec \in CachedIndex
          PROVE  [rec EXCEPT !.idle = FALSE, !.leases = @ + 1] \in CachedIndex
      <4>1. [rec EXCEPT !.idle = FALSE] \in CachedIndex
        BY DEF CachedIndex
      <4>2. \A other \in CachedIndex : [other EXCEPT !.leases = @ + 1] \in CachedIndex
        BY DEF CachedIndex
      <4> QED BY <4>1, <4>2
    <3> QED BY <2>1, <3>1
  <2>4. /\ index' \in [Indexes -> CachedIndex \cup {Closed}]
        /\ index'[i] \in CachedIndex /\ \A j \in Indexes \ {i} : index'[j] = kept[j]
        /\ index'[i].key = kept[i].key /\ index'[i].leases = kept[i].leases + 1
    BY <1>2, <2>1, <2>2, <2>3 DEF Coherent, CachedIndex
  <2>5. lease[c] = NoIndex
    BY DEF OpenTar
  <2>6. index'[i] # Closed
    BY <2>4, ClosedAssumption
  <2>7. Coherent(map, index', [lease EXCEPT ![c] = i])
    BY <1>2, <2>1, <2>4, <2>5, <2>6, LeaseIsCoherent
  <2> QED BY <1>1, <1>3, <2>7 DEF map
<1>4. CASE index' = kept /\ UNCHANGED lease
  BY <1>1, <1>2, <1>4 DEF map
<1>5. ASSUME NEW r \in Heads, index' = Renewed(r, kept), UNCHANGED lease
      PROVE  Coherent(at', index', lease')
  <2>1. \A j \in Indexes : kept[j] # Closed => kept[j] \in CachedIndex
    BY <1>2 DEF Coherent
  <2>2. ASSUME NEW rec \in CachedIndex
        PROVE  /\ [rec EXCEPT !.from = NoHead] \in CachedIndex
               /\ [rec EXCEPT !.from = NoHead].key = rec.key
               /\ [rec EXCEPT !.from = NoHead].leases = rec.leases
    BY DEF CachedIndex
  <2>3. \A j \in Indexes : index'[j] = IF kept[j] # Closed /\ kept[j].from = r
                                       THEN [kept[j] EXCEPT !.from = NoHead] ELSE kept[j]
    BY <1>5 DEF Renewed
  <2>4. index' \in [Indexes -> CachedIndex \cup {Closed}]
    <3>1. \A j \in Indexes : index'[j] \in CachedIndex \cup {Closed}
      <4> SUFFICES ASSUME NEW j \in Indexes PROVE index'[j] \in CachedIndex \cup {Closed}
        OBVIOUS
      <4>1. CASE kept[j] = Closed
        BY <2>3, <4>1
      <4>2. CASE kept[j] # Closed
        BY <2>1, <2>2, <2>3, <4>2
      <4> QED BY <4>1, <4>2
    <3> QED BY <1>5, <3>1 DEF Renewed
  <2>5. Keeps(kept, index')
    BY <2>1, <2>2, <2>3, <2>4, ClosedAssumption DEF Keeps
  <2> QED BY <1>1, <1>2, <1>5, <2>5, KeptIsCoherent DEF map
<1> QED BY <1>1, <1>3, <1>4, <1>5 DEF map, kept

\* Room for a new index is room in `Indexes`.
LEMMA RoomIsThere ==
    ASSUME NEW x \in [Indexes -> CachedIndex \cup {Closed}],
           Cardinality(LiveIndexes(x)) < MaxArchives
    PROVE  \E i \in Indexes : x[i] = Closed
<1> SUFFICES ASSUME \A i \in Indexes : x[i] # Closed PROVE FALSE
  OBVIOUS
<1>1. LiveIndexes(x) = Indexes
  BY DEF LiveIndexes
<1> QED BY <1>1, TarIndexAssumption, FS_CardinalityType

\* What Replace does, in terms of coherent caches: what is left, and what it adds.
LEMMA ReplaceIs ==
    ASSUME TarTypeOK, Coherent(at, index, lease), head \in [Heads -> 0 .. MaxVersion],
           NEW c \in Openers, NEW r \in Heads, lease[c] = NoIndex, head[r] # 0,
           Replace(c, HeadOf[r], r)
    PROVE  \E m, kept :
              /\ Coherent(m, kept, lease) /\ m[HeadOf[r]] = NoIndex
              /\ \A j \in Indexes : kept[j] # Closed => kept[j] = index[j]
              /\ \/ /\ Cardinality(LiveIndexes(kept)) < MaxArchives
                    /\ New(HeadOf[r], r) \in CachedIndex
                    /\ \E i \in Indexes :
                          /\ kept[i] = Closed
                          /\ at' = [m EXCEPT ![HeadOf[r]] = i]
                          /\ index' = [kept EXCEPT ![i] = New(HeadOf[r], r)]
                          /\ lease' = [lease EXCEPT ![c] = i]
                 \/ at' = m /\ index' = kept /\ UNCHANGED lease
<1> DEFINE k == HeadOf[r]
           rest == Without(at, {at[k]})
           x == IF at[k] = NoIndex THEN index ELSE Retired(at[k], index)
<1>1. k \in Objects
  BY TarIndexAssumption
<1>2. Coherent(rest, x, lease)
  <2>1. CASE at[k] = NoIndex
    <3>1. rest = at
      BY <2>1 DEF Without, Coherent
    <3> QED BY <2>1, <3>1
  <2>2. CASE at[k] # NoIndex
    BY <1>1, <2>2, RetireIsCoherent
  <2> QED BY <2>1, <2>2
<1>3. rest[k] = NoIndex
  BY <1>1 DEF Without
<1>4. \A j \in Indexes : x[j] # Closed => x[j] = index[j]
  <2>1. CASE at[k] = NoIndex
    BY <2>1
  <2>2. CASE at[k] # NoIndex
    BY <1>1, <2>2 DEF Retired, Coherent
  <2> QED BY <2>1, <2>2
<1>5. PICK gone \in Pruned(rest, x, 1) :
         LET kept == Closing(x, gone)
         IN \/ /\ Cardinality(LiveIndexes(kept)) < MaxArchives
               /\ LET i == CHOOSE i \in Indexes : kept[i] = Closed
                  IN /\ at' = [Without(rest, gone) EXCEPT ![k] = i]
                     /\ index' = [kept EXCEPT ![i] = New(k, r)]
                     /\ lease' = [lease EXCEPT ![c] = i]
            \/ at' = Without(rest, gone) /\ index' = kept /\ UNCHANGED lease
  BY DEF Replace
<1> HIDE DEF rest, x
<1> DEFINE m == Without(rest, gone)
           kept == Closing(x, gone)
<1>6. Coherent(m, kept, lease)
  BY <1>2, PruneIsCoherent DEF Pruned
<1>7. m[k] = NoIndex
  BY <1>1, <1>3 DEF Without
<1>8. \A j \in Indexes : kept[j] # Closed => kept[j] = index[j]
  BY <1>4 DEF Closing
<1>9. New(k, r) \in CachedIndex
  <2>1. head[r] \in 1 .. MaxVersion
    <3>1. head[r] \in 0 .. MaxVersion
      OBVIOUS
    <3> QED BY <3>1, TarIndexAssumption
  <2> QED BY <1>1, <2>1 DEF New, CachedIndex, Source, HeadTTL
<1>10. Cardinality(LiveIndexes(kept)) < MaxArchives =>
          /\ (CHOOSE i \in Indexes : kept[i] = Closed) \in Indexes
          /\ kept[CHOOSE i \in Indexes : kept[i] = Closed] = Closed
  BY <1>6, RoomIsThere DEF Coherent
<1> HIDE DEF m, kept
<1>11. \/ at' = m /\ index' = kept /\ UNCHANGED lease
       \/ /\ Cardinality(LiveIndexes(kept)) < MaxArchives
          /\ \E i \in Indexes : /\ kept[i] = Closed
                                /\ at' = [m EXCEPT ![k] = i]
                                /\ index' = [kept EXCEPT ![i] = New(k, r)]
                                /\ lease' = [lease EXCEPT ![c] = i]
  BY <1>5, <1>10 DEF m, kept
<1> QED BY <1>6, <1>7, <1>8, <1>9, <1>11

\* What a hit after a HEAD makes of the index.
Hit(i, x, r) == [Touched(i, x) EXCEPT ![i].from = Source(r), ![i].age = 0]

LEMMA HitIs ==
    ASSUME NEW x \in [Indexes -> CachedIndex \cup {Closed}],
           NEW i \in Indexes, x[i] \in CachedIndex, NEW r \in Heads
    PROVE  LET y == Hit(i, x, r)
           IN /\ y \in [Indexes -> CachedIndex \cup {Closed}]
              /\ y[i] # Closed
              /\ y[i].key = x[i].key /\ y[i].ver = x[i].ver
              /\ y[i].from = Source(r) /\ y[i].age = 0
              /\ y[i].leases = x[i].leases + 1
              /\ \A j \in Indexes \ {i} : y[j] = x[j]
<1> DEFINE rec == [x[i] EXCEPT !.idle = FALSE, !.leases = @ + 1, !.from = Source(r), !.age = 0]
           y == Hit(i, x, r)
<1>1. /\ rec \in CachedIndex
      /\ rec.key = x[i].key /\ rec.ver = x[i].ver
      /\ rec.from = Source(r) /\ rec.age = 0 /\ rec.leases = x[i].leases + 1
  <2>1. ASSUME NEW a \in CachedIndex
        PROVE  /\ [a EXCEPT !.idle = FALSE] \in CachedIndex
               /\ [a EXCEPT !.idle = FALSE].key = a.key
               /\ [a EXCEPT !.idle = FALSE].ver = a.ver
               /\ [a EXCEPT !.idle = FALSE].leases = a.leases
    BY DEF CachedIndex
  <2>2. ASSUME NEW a \in CachedIndex
        PROVE  /\ [a EXCEPT !.leases = @ + 1] \in CachedIndex
               /\ [a EXCEPT !.leases = @ + 1].key = a.key
               /\ [a EXCEPT !.leases = @ + 1].ver = a.ver
               /\ [a EXCEPT !.leases = @ + 1].leases = a.leases + 1
    BY DEF CachedIndex
  <2>3. ASSUME NEW a \in CachedIndex
        PROVE  /\ [a EXCEPT !.from = Source(r)] \in CachedIndex
               /\ [a EXCEPT !.from = Source(r)].key = a.key
               /\ [a EXCEPT !.from = Source(r)].ver = a.ver
               /\ [a EXCEPT !.from = Source(r)].from = Source(r)
               /\ [a EXCEPT !.from = Source(r)].leases = a.leases
    BY DEF CachedIndex, Source
  <2>4. ASSUME NEW a \in CachedIndex
        PROVE  /\ [a EXCEPT !.age = 0] \in CachedIndex
               /\ [a EXCEPT !.age = 0].key = a.key
               /\ [a EXCEPT !.age = 0].ver = a.ver
               /\ [a EXCEPT !.age = 0].from = a.from
               /\ [a EXCEPT !.age = 0].age = 0
               /\ [a EXCEPT !.age = 0].leases = a.leases
    BY DEF CachedIndex, HeadTTL
  <2> DEFINE a1 == [x[i] EXCEPT !.idle = FALSE]
             a2 == [a1 EXCEPT !.leases = @ + 1]
             a3 == [a2 EXCEPT !.from = Source(r)]
             a4 == [a3 EXCEPT !.age = 0]
  <2>5. /\ a1 \in CachedIndex /\ a1.key = x[i].key /\ a1.ver = x[i].ver
        /\ a1.leases = x[i].leases
    BY <2>1
  <2>6. a4 = rec
    OBVIOUS
  <2> HIDE DEF a1
  <2>7. /\ a2 \in CachedIndex /\ a2.key = x[i].key /\ a2.ver = x[i].ver
        /\ a2.leases = x[i].leases + 1
    BY <2>2, <2>5
  <2> HIDE DEF a2
  <2>8. /\ a3 \in CachedIndex /\ a3.key = x[i].key /\ a3.ver = x[i].ver
        /\ a3.from = Source(r) /\ a3.leases = x[i].leases + 1
    BY <2>3, <2>7
  <2> HIDE DEF a3
  <2>9. /\ a4 \in CachedIndex /\ a4.key = x[i].key /\ a4.ver = x[i].ver
        /\ a4.from = Source(r) /\ a4.age = 0 /\ a4.leases = x[i].leases + 1
    BY <2>4, <2>8
  <2> HIDE DEF a4
  <2> QED BY <2>6, <2>9
<1>2. y = [x EXCEPT ![i] = rec]
  <2>1. Touched(i, x) = [x EXCEPT ![i] = [x[i] EXCEPT !.idle = FALSE, !.leases = @ + 1]]
    BY DEF Touched
  <2> QED BY <2>1 DEF Hit
<1> HIDE DEF rec
<1>3. y[i] = rec /\ \A j \in Indexes \ {i} : y[j] = x[j]
  BY <1>2
<1>4. y \in [Indexes -> CachedIndex \cup {Closed}]
  BY <1>1, <1>2
<1> QED BY <1>1, <1>3, <1>4, ClosedAssumption

\* open() after its await.
LEMMA ResumeIsCoherent ==
    ASSUME TarTypeOK, Coherent(at, index, lease), AskInv,
           NEW c \in Openers, NEW r \in Heads, Resume(c, r)
    PROVE  Coherent(at', index', lease')
<1>1. lease[c] = NoIndex /\ HeadOf[r] \in Objects
  BY TarIndexAssumption DEF Resume, Shared!Deliver, AskInv
<1>2. CASE UNCHANGED cacheVars
  BY <1>2 DEF cacheVars
<1>3. ASSUME head[r] # 0, Matches(at[HeadOf[r]], r),
             index' = [Touched(at[HeadOf[r]], index)
                          EXCEPT ![at[HeadOf[r]]].from = Source(r), ![at[HeadOf[r]]].age = 0],
             lease' = [lease EXCEPT ![c] = at[HeadOf[r]]],
             UNCHANGED at
      PROVE  Coherent(at', index', lease')
  <2> DEFINE i == at[HeadOf[r]]
  <2>1. /\ i \in Cached(at) /\ i # NoIndex /\ i \in Indexes /\ index[i] \in CachedIndex
        /\ index \in [Indexes -> CachedIndex \cup {Closed}]
    BY <1>1, <1>3 DEF Matches, Cached, Coherent
  <2>3. index' = Hit(i, index, r) /\ lease' = [lease EXCEPT ![c] = i] /\ at' = at
    BY <1>3 DEF Hit
  <2> HIDE DEF i
  <2>2. /\ index' \in [Indexes -> CachedIndex \cup {Closed}]
        /\ index'[i] # Closed /\ index'[i].key = index[i].key
        /\ index'[i].leases = index[i].leases + 1
        /\ \A j \in Indexes \ {i} : index'[j] = index[j]
    BY <2>1, <2>3, HitIs
  <2>4. Coherent(at, index', [lease EXCEPT ![c] = i])
    BY <1>1, <2>1, <2>2, LeaseIsCoherent
  <2> QED BY <2>3, <2>4
<1>4. ASSUME head[r] # 0, Replace(c, HeadOf[r], r) PROVE Coherent(at', index', lease')
  <2>1. head \in [Heads -> 0 .. MaxVersion]
    BY DEF TarTypeOK
  <2>2. PICK m, kept :
              /\ Coherent(m, kept, lease) /\ m[HeadOf[r]] = NoIndex
              /\ \/ /\ New(HeadOf[r], r) \in CachedIndex
                    /\ \E i \in Indexes :
                          /\ kept[i] = Closed
                          /\ at' = [m EXCEPT ![HeadOf[r]] = i]
                          /\ index' = [kept EXCEPT ![i] = New(HeadOf[r], r)]
                          /\ lease' = [lease EXCEPT ![c] = i]
                 \/ at' = m /\ index' = kept /\ UNCHANGED lease
    BY <1>1, <1>4, <2>1, ReplaceIs
  <2>3. CASE at' = m /\ index' = kept /\ UNCHANGED lease
    BY <2>2, <2>3
  <2>4. ASSUME New(HeadOf[r], r) \in CachedIndex, NEW i \in Indexes, kept[i] = Closed,
               at' = [m EXCEPT ![HeadOf[r]] = i],
               index' = [kept EXCEPT ![i] = New(HeadOf[r], r)],
               lease' = [lease EXCEPT ![c] = i]
        PROVE  Coherent(at', index', lease')
    <3>1. New(HeadOf[r], r).key = HeadOf[r] /\ New(HeadOf[r], r).leases = 1
      BY DEF New
    <3> QED BY <1>1, <2>2, <2>4, <3>1, NewIsCoherent
  <2> QED BY <2>2, <2>3, <2>4
<1> QED BY <1>2, <1>3, <1>4 DEF Resume

\* The actions that change no more than what a CachedIndex says of itself.
LEMMA OthersAreKept ==
    ASSUME TarTypeOK, Coherent(at, index, lease),
           \/ \E c \in Openers : Grows(c)
           \/ \E i \in Indexes : GoesIdle(i)
           \/ Ticks
    PROVE  UNCHANGED <<at, lease>> /\ Keeps(index, index')
<1>1. \A i \in Indexes : index[i] # Closed => index[i] \in CachedIndex
  BY DEF Coherent
<1>2. \A a \in CachedIndex :
         /\ [a EXCEPT !.big = TRUE] \in CachedIndex
         /\ [a EXCEPT !.big = TRUE].key = a.key
         /\ [a EXCEPT !.big = TRUE].leases = a.leases
  BY DEF CachedIndex
<1>3. \A a \in CachedIndex :
         /\ [a EXCEPT !.idle = TRUE] \in CachedIndex
         /\ [a EXCEPT !.idle = TRUE].key = a.key
         /\ [a EXCEPT !.idle = TRUE].leases = a.leases
  BY DEF CachedIndex
<1>4. \A a \in CachedIndex :
         /\ [a EXCEPT !.age = Older(@)] \in CachedIndex
         /\ [a EXCEPT !.age = Older(@)].key = a.key
         /\ [a EXCEPT !.age = Older(@)].leases = a.leases
  BY DEF CachedIndex, Older, HeadTTL
<1>5. ASSUME NEW i \in Indexes, NEW a \in CachedIndex, index[i] # Closed,
             index' = [index EXCEPT ![i] = a], a.key = index[i].key, a.leases = index[i].leases
      PROVE  Keeps(index, index')
  <2>1. index \in [Indexes -> CachedIndex \cup {Closed}] /\ a # Closed
    BY ClosedAssumption DEF Coherent
  <2> QED BY <1>5, <2>1 DEF Keeps
<1>6. ASSUME NEW c \in Openers, Grows(c) PROVE UNCHANGED <<at, lease>> /\ Keeps(index, index')
  <2> DEFINE i == lease[c]
  <2>1. i \in Indexes /\ index[i] # Closed
    BY <1>6 DEF Grows, Coherent, LiveIndexes, Leased
  <2>2. index' = [index EXCEPT ![i] = [index[i] EXCEPT !.big = TRUE]]
    BY <1>6 DEF Grows
  <2> HIDE DEF i
  <2>3. Keeps(index, index')
    BY <1>1, <1>2, <1>5, <2>1, <2>2
  <2> QED BY <1>6, <2>3 DEF Grows
<1>7. ASSUME NEW i \in Indexes, GoesIdle(i) PROVE UNCHANGED <<at, lease>> /\ Keeps(index, index')
  <2>1. index[i] # Closed /\ index' = [index EXCEPT ![i] = [index[i] EXCEPT !.idle = TRUE]]
    BY <1>7 DEF GoesIdle
  <2>2. Keeps(index, index')
    BY <1>1, <1>3, <1>5, <2>1
  <2> QED BY <1>7, <2>2 DEF GoesIdle
<1>8. CASE Ticks
  <2>1. index' = [i \in Indexes |->
                    IF index[i] = Closed THEN Closed ELSE [index[i] EXCEPT !.age = Older(@)]]
    BY <1>8 DEF Ticks
  <2>2. \A i \in Indexes : /\ index[i] = Closed => index'[i] = Closed
                           /\ index[i] # Closed => /\ index'[i] \in CachedIndex
                                                   /\ index'[i].key = index[i].key
                                                   /\ index'[i].leases = index[i].leases
    BY <1>1, <1>4, <2>1
  <2>3. index' \in [Indexes -> CachedIndex \cup {Closed}]
    BY <2>1, <2>2
  <2> HIDE <2>1
  <2>4. Keeps(index, index')
    BY <2>2, <2>3, ClosedAssumption DEF Keeps
  <2> QED BY <1>8, <2>4 DEF Ticks
<1> QED BY <1>6, <1>7, <1>8

LEMMA ReleaseLeaseIs ==
    ASSUME NEW c \in Openers, ReleaseLease(c)
    PROVE  LET x == Released(lease[c], at, index)
           IN /\ lease[c] # NoIndex /\ lease' = [lease EXCEPT ![c] = NoIndex]
              /\ \E gone \in Pruned(at, x, 0) : at' = Without(at, gone) /\ index' = Closing(x, gone)
BY DEF ReleaseLease, Released

LEMMA CoherentStep ==
    ASSUME TarTypeOK, Coherent(at, index, lease), AskInv, [TarNext]_tarVars
    PROVE  Coherent(at', index', lease')
<1>1. ASSUME NEW c \in Openers, NEW k \in Objects, OpenTar(c, k) PROVE Coherent(at', index', lease')
  BY <1>1, OpenIsCoherent
<1>2. ASSUME NEW c \in Openers, NEW r \in Heads, Resume(c, r) PROVE Coherent(at', index', lease')
  BY <1>2, ResumeIsCoherent
<1>3. ASSUME NEW c \in Openers, ReleaseLease(c) PROVE Coherent(at', index', lease')
  <2> DEFINE x == Released(lease[c], at, index)
  <2>1. /\ lease[c] # NoIndex /\ lease' = [lease EXCEPT ![c] = NoIndex]
        /\ \E gone \in Pruned(at, x, 0) : at' = Without(at, gone) /\ index' = Closing(x, gone)
    BY <1>3, ReleaseLeaseIs
  <2>2. Coherent(at, x, lease')
    BY <2>1, ReleaseIsCoherent
  <2> HIDE DEF x
  <2>3. PICK gone \in SUBSET Unleased(at, x) : at' = Without(at, gone) /\ index' = Closing(x, gone)
    BY <2>1 DEF Pruned
  <2> QED BY <2>2, <2>3, PruneIsCoherent
<1>4. ASSUME Ticks \/ (\E c \in Openers : Grows(c)) \/ (\E i \in Indexes : GoesIdle(i))
      PROVE  Coherent(at', index', lease')
  <2>1. UNCHANGED <<at, lease>> /\ Keeps(index, index')
    BY <1>4, OthersAreKept
  <2> QED BY <2>1, KeptIsCoherent
<1>5. CASE CloseCache
  <2>1. /\ at' = [k \in Objects |-> NoIndex] /\ index' = Closing(index, Unleased(at, index))
        /\ lease' = lease
    BY <1>5 DEF CloseCache
  <2> QED BY <2>1, CloseIsCoherent
<1>6. CASE UNCHANGED cacheVars
  BY <1>6 DEF cacheVars
<1>7. ASSUME TarNext PROVE Coherent(at', index', lease')
  <2>1. ASSUME NEW c \in Openers, LeaveHead(c) PROVE UNCHANGED cacheVars
    BY <2>1 DEF LeaveHead
  <2>2. ASSUME NEW r \in Heads, HeadEnds(r) \/ HeadOver(r) PROVE UNCHANGED cacheVars
    BY <2>2 DEF HeadEnds, HeadOver
  <2>3. ASSUME NEW k \in Objects, Changes(k) PROVE UNCHANGED cacheVars
    BY <2>3 DEF Changes
  <2> QED BY <1>1, <1>2, <1>3, <1>4, <1>5, <1>6, <1>7, <2>1, <2>2, <2>3 DEF TarNext
<1>8. CASE UNCHANGED tarVars
  BY <1>6, <1>8 DEF tarVars
<1> QED BY <1>7, <1>8

-----------------------------------------------------------------------------
(* The limits.                                                              *)

BigOnes(x) == {i \in LiveIndexes(x) : x[i].big}

LEMMA LiveIsFinite ==
    ASSUME NEW x
    PROVE  /\ IsFiniteSet(LiveIndexes(x)) /\ IsFiniteSet(BigOnes(x))
           /\ Cardinality(LiveIndexes(x)) \in Nat /\ Cardinality(BigOnes(x)) \in Nat
<1>1. LiveIndexes(x) \subseteq Indexes /\ BigOnes(x) \subseteq Indexes
  BY DEF LiveIndexes, BigOnes
<1>2. IsFiniteSet(LiveIndexes(x))
  BY <1>1, TarIndexAssumption, FS_Subset
<1>3. IsFiniteSet(BigOnes(x))
  BY <1>1, TarIndexAssumption, FS_Subset
<1> QED BY <1>2, <1>3, FS_CardinalityType

\* Nothing is opened, no file grows and nobody takes or releases a lease.
LEMMA FewerIsWithin ==
    ASSUME LimitsHold, LiveIndexes(index') \subseteq LiveIndexes(index),
           \A i \in LiveIndexes(index') : index'[i].big = index[i].big,
           UNCHANGED lease
    PROVE  LimitsHold'
<1>1. BigOnes(index') \subseteq BigOnes(index)
  BY DEF BigOnes
<1>2. /\ Cardinality(LiveIndexes(index')) <= Cardinality(LiveIndexes(index))
      /\ Cardinality(BigOnes(index')) <= Cardinality(BigOnes(index))
  BY <1>1, LiveIsFinite, FS_Subset
<1>3. LimitsHold <=> /\ Cardinality(LiveIndexes(index)) <= MaxArchives
                     /\ Cardinality(BigOnes(index)) <= MaxBig \/ \E c \in Openers : lease[c] # NoIndex
  BY DEF LimitsHold, BigOnes
<1>4. LimitsHold' <=> /\ Cardinality(LiveIndexes(index')) <= MaxArchives
                      /\ Cardinality(BigOnes(index')) <= MaxBig \/ \E c \in Openers : lease'[c] # NoIndex
  BY DEF LimitsHold, BigOnes
<1> QED BY <1>2, <1>3, <1>4, LiveIsFinite, TarIndexAssumption

\* While somebody holds a lease only the number counts.
LEMMA LeasedIsWithin ==
    ASSUME Cardinality(LiveIndexes(index')) <= MaxArchives,
           NEW c \in Openers, lease'[c] # NoIndex
    PROVE  LimitsHold'
BY DEF LimitsHold

\* With the last lease gone, prune() finds everything that is open.
LEMMA PruneIsWithin ==
    ASSUME NEW map, NEW x, NEW l, Coherent(map, x, l), \A c \in Openers : l[c] = NoIndex,
           NEW gone \in Pruned(map, x, 0)
    PROVE  Cardinality(BigOnes(Closing(x, gone))) <= MaxBig
<1> DEFINE y == Closing(x, gone)
<1>1. \A i \in LiveIndexes(x) : i \in Unleased(map, x)
  <2> SUFFICES ASSUME NEW i \in Indexes, x[i] # Closed PROVE i \in Unleased(map, x)
    BY DEF LiveIndexes
  <2>1. i # NoIndex
    BY TarIndexAssumption
  <2>2. i \in Cached(map)
    BY <2>1 DEF Coherent, LiveIndexes, Leased
  <2>3. Holders(i, l) = {}
    BY <2>1 DEF Holders
  <2> QED BY <2>2, <2>3, UncountedIsUnheld DEF Unleased
<1>2. LiveIndexes(y) = LiveIndexes(x) \ gone
  BY DEF LiveIndexes, Closing
<1>3. BigOnes(y) = {i \in LiveIndexes(x) \ gone : x[i].big}
  <2>1. \A i \in LiveIndexes(x) \ gone : y[i] = x[i]
    BY DEF LiveIndexes, Closing
  <2> QED BY <1>2, <2>1 DEF BigOnes
<1>4. CASE gone = Unleased(map, x)
  <2>1. BigOnes(y) = {}
    BY <1>1, <1>3, <1>4
  <2> QED BY <2>1, FS_EmptySet, TarIndexAssumption
<1>5. CASE Fits(x, LiveIndexes(x) \ gone, 0)
  BY <1>3, <1>5 DEF Fits
<1> QED BY <1>4, <1>5 DEF Pruned

LEMMA LimitsStep ==
    ASSUME TarInv, [TarNext]_tarVars
    PROVE  LimitsHold'
<1> USE DEF TarInv
<1>1. ASSUME NEW c \in Openers, NEW k \in Objects, OpenTar(c, k) PROVE LimitsHold'
  <2>1. PICK gone \in Pruned(at, index, 0) :
          LET kept == Closing(index, gone)
              i == Without(at, gone)[k]
          IN \/ /\ i # NoIndex
                /\ index' = Touched(i, kept)
                /\ lease' = [lease EXCEPT ![c] = i]
             \/ /\ index' = kept \/ \E r \in Heads : index' = Renewed(r, kept)
                /\ UNCHANGED lease
    BY <1>1 DEF OpenTar, Young
  <2> DEFINE kept == Closing(index, gone)
             i == Without(at, gone)[k]
  <2>2. LiveIndexes(kept) \subseteq LiveIndexes(index) /\ \A j \in LiveIndexes(kept) : kept[j] = index[j]
    BY DEF LiveIndexes, Closing
  <2>3. Coherent(Without(at, gone), kept, lease)
    BY PruneIsCoherent DEF Pruned
  <2>4. kept \in [Indexes -> CachedIndex \cup {Closed}] /\ (i # NoIndex => i \in LiveIndexes(kept))
    BY <2>3 DEF Coherent, LiveIndexes
  <2> HIDE DEF kept, i
  <2>5. CASE i # NoIndex /\ index' = Touched(i, kept) /\ lease' = [lease EXCEPT ![c] = i]
    <3>1. LiveIndexes(index') \subseteq LiveIndexes(kept)
      BY <2>4, <2>5 DEF Touched, LiveIndexes
    <3>2. Cardinality(LiveIndexes(index')) <= Cardinality(LiveIndexes(index))
      BY <2>2, <3>1, LiveIsFinite, FS_Subset
    <3>3. Cardinality(LiveIndexes(index')) <= MaxArchives
      BY <3>2, LiveIsFinite, TarIndexAssumption DEF LimitsHold
    <3>4. lease'[c] # NoIndex
      BY <2>5 DEF TarTypeOK
    <3> QED BY <3>3, <3>4, LeasedIsWithin
  <2>6. CASE index' = kept /\ UNCHANGED lease
    BY <2>2, <2>6, FewerIsWithin
  <2>7. ASSUME NEW r \in Heads, index' = Renewed(r, kept), UNCHANGED lease PROVE LimitsHold'
    <3>1. \A j \in LiveIndexes(kept) : kept[j] \in CachedIndex
      BY <2>4 DEF LiveIndexes
    <3>2. \A a \in CachedIndex : [a EXCEPT !.from = NoHead].big = a.big
      BY DEF CachedIndex
    <3>3. \A j \in Indexes : index'[j] = IF kept[j] # Closed /\ kept[j].from = r
                                         THEN [kept[j] EXCEPT !.from = NoHead] ELSE kept[j]
      BY <2>7 DEF Renewed
    <3>4. LiveIndexes(index') \subseteq LiveIndexes(kept)
      BY <3>3 DEF LiveIndexes
    <3>5. \A j \in LiveIndexes(index') : index'[j].big = kept[j].big
      BY <3>1, <3>2, <3>3, <3>4 DEF LiveIndexes
    <3> QED BY <2>2, <2>7, <3>4, <3>5, FewerIsWithin
  <2> QED BY <2>1, <2>5, <2>6, <2>7 DEF kept, i
<1>2. ASSUME NEW c \in Openers, NEW r \in Heads, Resume(c, r) PROVE LimitsHold'
  <2>1. lease[c] = NoIndex /\ HeadOf[r] \in Objects
    BY <1>2, TarIndexAssumption DEF Resume, Shared!Deliver, AskInv
  <2>2. CASE UNCHANGED cacheVars
    BY <2>2, FewerIsWithin DEF cacheVars
  <2>3. ASSUME Matches(at[HeadOf[r]], r), index' = Hit(at[HeadOf[r]], index, r),
               lease' = [lease EXCEPT ![c] = at[HeadOf[r]]]
        PROVE  LimitsHold'
    <3> DEFINE i == at[HeadOf[r]]
    <3>1. /\ i # NoIndex /\ i \in Indexes /\ index[i] \in CachedIndex /\ index[i] # Closed
          /\ index \in [Indexes -> CachedIndex \cup {Closed}]
      BY <2>1, <2>3 DEF Matches, Coherent
    <3> HIDE DEF i
    <3>2. \A j \in Indexes \ {i} : index'[j] = index[j]
      BY <2>3, <3>1, HitIs DEF i
    <3>3. LiveIndexes(index') \subseteq LiveIndexes(index)
      BY <3>1, <3>2 DEF LiveIndexes
    <3>4. Cardinality(LiveIndexes(index')) <= Cardinality(LiveIndexes(index))
      BY <3>3, LiveIsFinite, FS_Subset
    <3>5. Cardinality(LiveIndexes(index')) <= MaxArchives
      BY <3>4, LiveIsFinite, TarIndexAssumption DEF LimitsHold
    <3>6. lease'[c] # NoIndex
      BY <2>3, <3>1 DEF TarTypeOK, i
    <3> QED BY <3>5, <3>6, LeasedIsWithin
  <2>4. ASSUME head[r] # 0, Replace(c, HeadOf[r], r) PROVE LimitsHold'
    <3>1. head \in [Heads -> 0 .. MaxVersion]
      BY DEF TarTypeOK
    <3>2. PICK m, kept :
              /\ Coherent(m, kept, lease)
              /\ \A j \in Indexes : kept[j] # Closed => kept[j] = index[j]
              /\ \/ /\ Cardinality(LiveIndexes(kept)) < MaxArchives
                    /\ \E i \in Indexes :
                          /\ kept[i] = Closed
                          /\ index' = [kept EXCEPT ![i] = New(HeadOf[r], r)]
                          /\ lease' = [lease EXCEPT ![c] = i]
                 \/ index' = kept /\ UNCHANGED lease
      BY <2>1, <2>4, <3>1, ReplaceIs
    <3>3. LiveIndexes(kept) \subseteq LiveIndexes(index) /\ \A j \in LiveIndexes(kept) : kept[j] = index[j]
      BY <3>2 DEF LiveIndexes
    <3>4. CASE index' = kept /\ UNCHANGED lease
      BY <3>3, <3>4, FewerIsWithin
    <3>5. ASSUME Cardinality(LiveIndexes(kept)) < MaxArchives, NEW i \in Indexes, kept[i] = Closed,
                 index' = [kept EXCEPT ![i] = New(HeadOf[r], r)], lease' = [lease EXCEPT ![c] = i]
          PROVE  LimitsHold'
      <4>1. kept \in [Indexes -> CachedIndex \cup {Closed}]
        BY <3>2 DEF Coherent
      <4>2. LiveIndexes(index') \subseteq LiveIndexes(kept) \cup {i} /\ i \notin LiveIndexes(kept)
        BY <3>5, <4>1 DEF LiveIndexes
      <4>3. /\ IsFiniteSet(LiveIndexes(kept) \cup {i})
            /\ Cardinality(LiveIndexes(kept) \cup {i}) = Cardinality(LiveIndexes(kept)) + 1
        BY <4>2, LiveIsFinite, FS_AddElement
      <4>4. Cardinality(LiveIndexes(index')) <= Cardinality(LiveIndexes(kept)) + 1
        BY <4>2, <4>3, FS_Subset
      <4>5. Cardinality(LiveIndexes(index')) <= MaxArchives
        BY <3>5, <4>4, LiveIsFinite, TarIndexAssumption
      <4>6. lease'[c] # NoIndex
        BY <3>5, TarIndexAssumption DEF TarTypeOK
      <4> QED BY <4>5, <4>6, LeasedIsWithin
    <3> QED BY <3>2, <3>4, <3>5
  <2> QED BY <1>2, <2>2, <2>3, <2>4 DEF Resume, Hit
<1>3. ASSUME NEW c \in Openers, ReleaseLease(c) PROVE LimitsHold'
  <2> DEFINE x == Released(lease[c], at, index)
  <2>1. /\ lease[c] # NoIndex /\ lease' = [lease EXCEPT ![c] = NoIndex]
        /\ \E gone \in Pruned(at, x, 0) : at' = Without(at, gone) /\ index' = Closing(x, gone)
    BY <1>3, ReleaseLeaseIs
  <2>2. Coherent(at, x, lease')
    BY <2>1, ReleaseIsCoherent
  <2>3. LiveIndexes(x) \subseteq LiveIndexes(index)
    <3>1. lease[c] \in LiveIndexes(index)
      BY <2>1 DEF Coherent, Leased
    <3> QED BY <3>1 DEF Released, Retired, LiveIndexes, Coherent
  <2> HIDE DEF x
  <2>4. PICK gone \in Pruned(at, x, 0) : index' = Closing(x, gone)
    BY <2>1
  <2>5. LiveIndexes(index') \subseteq LiveIndexes(index)
    BY <2>3, <2>4 DEF LiveIndexes, Closing
  <2>6. Cardinality(LiveIndexes(index')) <= Cardinality(LiveIndexes(index))
    BY <2>5, LiveIsFinite, FS_Subset
  <2>7. Cardinality(LiveIndexes(index')) <= MaxArchives
    BY <2>6, LiveIsFinite, TarIndexAssumption DEF LimitsHold
  <2>8. CASE \E d \in Openers : lease'[d] # NoIndex
    BY <2>7, <2>8, LeasedIsWithin
  <2>9. CASE \A d \in Openers : lease'[d] = NoIndex
    <3>1. Cardinality(BigOnes(index')) <= MaxBig
      BY <2>2, <2>4, <2>9, PruneIsWithin
    <3> QED BY <2>7, <3>1 DEF LimitsHold, BigOnes
  <2> QED BY <2>8, <2>9
<1>4. ASSUME NEW c \in Openers, Grows(c) PROVE LimitsHold'
  <2>1. UNCHANGED lease /\ Keeps(index, index') /\ lease[c] # NoIndex
    BY <1>4, OthersAreKept DEF Grows
  <2>2. LiveIndexes(index') = LiveIndexes(index)
    BY <2>1 DEF Keeps, LiveIndexes
  <2> QED BY <2>1, <2>2, LeasedIsWithin DEF LimitsHold
<1>5. ASSUME NEW i \in Indexes, GoesIdle(i) PROVE LimitsHold'
  <2>1. UNCHANGED lease /\ index' = [index EXCEPT ![i] = [index[i] EXCEPT !.idle = TRUE]]
    BY <1>5 DEF GoesIdle
  <2>2. index[i] \in CachedIndex /\ index \in [Indexes -> CachedIndex \cup {Closed}]
    BY <1>5 DEF GoesIdle, Coherent
  <2>3. [index[i] EXCEPT !.idle = TRUE].big = index[i].big
    BY <2>2 DEF CachedIndex
  <2>4. LiveIndexes(index') \subseteq LiveIndexes(index)
    BY <1>5, <2>1, <2>2 DEF LiveIndexes, GoesIdle
  <2>5. \A j \in LiveIndexes(index') : index'[j].big = index[j].big
    BY <2>1, <2>2, <2>3 DEF LiveIndexes
  <2> QED BY <2>1, <2>4, <2>5, FewerIsWithin
<1>6. CASE Ticks
  <2>1. UNCHANGED lease /\ \A j \in Indexes :
           index'[j] = IF index[j] = Closed THEN Closed ELSE [index[j] EXCEPT !.age = Older(@)]
    BY <1>6 DEF Ticks
  <2>2. ASSUME NEW a \in CachedIndex PROVE [a EXCEPT !.age = Older(a.age)].big = a.big
    BY DEF CachedIndex
  <2>3. LiveIndexes(index') \subseteq LiveIndexes(index)
    BY <2>1 DEF LiveIndexes
  <2>4. ASSUME NEW j \in LiveIndexes(index') PROVE index'[j].big = index[j].big
    <3>1. j \in Indexes /\ index[j] \in CachedIndex /\ index[j] # Closed
      BY <2>3 DEF LiveIndexes, Coherent
    <3>2. index'[j] = [index[j] EXCEPT !.age = Older(index[j].age)]
      BY <2>1, <3>1
    <3> QED BY <2>2, <3>1, <3>2
  <2> QED BY <2>1, <2>3, <2>4, FewerIsWithin
<1>7. CASE CloseCache
  <2>1. UNCHANGED lease /\ index' = Closing(index, Unleased(at, index))
    BY <1>7 DEF CloseCache
  <2>2. LiveIndexes(index') \subseteq LiveIndexes(index) /\ \A j \in LiveIndexes(index') : index'[j] = index[j]
    BY <2>1 DEF LiveIndexes, Closing
  <2> QED BY <2>1, <2>2, FewerIsWithin
<1>8. CASE UNCHANGED cacheVars
  BY <1>8, FewerIsWithin DEF cacheVars
<1>9. ASSUME TarNext PROVE LimitsHold'
  <2>1. ASSUME NEW c \in Openers, LeaveHead(c) PROVE UNCHANGED cacheVars
    BY <2>1 DEF LeaveHead
  <2>2. ASSUME NEW r \in Heads, HeadEnds(r) \/ HeadOver(r) PROVE UNCHANGED cacheVars
    BY <2>2 DEF HeadEnds, HeadOver
  <2>3. ASSUME NEW k \in Objects, Changes(k) PROVE UNCHANGED cacheVars
    BY <2>3 DEF Changes
  <2> QED BY <1>1, <1>2, <1>3, <1>4, <1>5, <1>6, <1>7, <1>8, <1>9, <2>1, <2>2, <2>3 DEF TarNext
<1>10. CASE UNCHANGED tarVars
  BY <1>8, <1>10 DEF tarVars
<1> QED BY <1>9, <1>10

-----------------------------------------------------------------------------
(* What the indexes know.                                                   *)

\* The storage and the HEADs stand still, but for answers nobody will get and
\* promises that are over; the indexes are as they were.
LEMMA KnowsOn ==
    ASSUME AllKnow(index, headState, head, version, since),
           \A i \in Indexes : index'[i] # Closed =>
              /\ index[i] # Closed
              /\ index'[i].key = index[i].key /\ index'[i].ver = index[i].ver
              /\ index'[i].age = index[i].age
              /\ index'[i].from \in Heads => index'[i].from = index[i].from,
           UNCHANGED <<version, since>>,
           \A r \in Heads : head'[r] # 0 => head'[r] = head[r],
           \A r \in Heads : headState'[r] = "loading" =>
              headState[r] = "loading" \/ \A i \in Indexes : index'[i] # Closed => index'[i].from # r
    PROVE  AllKnow(index', headState', head', version', since')
BY DEF AllKnow, Knows

LEMMA CloseFewer ==
    ASSUME NEW x, NEW gone, NEW i \in Indexes, Closing(x, gone)[i] # Closed
    PROVE  x[i] # Closed /\ Closing(x, gone)[i] = x[i]
BY DEF Closing

LEMMA ReleasedSays ==
    ASSUME NEW map, NEW x \in [Indexes -> CachedIndex \cup {Closed}], NEW i \in Indexes,
           NEW j \in Indexes, x[i] # Closed, Released(i, map, x)[j] # Closed
    PROVE  /\ x[j] # Closed
           /\ Released(i, map, x)[j].key = x[j].key /\ Released(i, map, x)[j].ver = x[j].ver
           /\ Released(i, map, x)[j].age = x[j].age /\ Released(i, map, x)[j].from = x[j].from
<1> DEFINE rec == [x[i] EXCEPT !.leases = @ - 1]
           less == [x EXCEPT ![i].leases = @ - 1]
<1>1. x[i] \in CachedIndex
  OBVIOUS
<1>2. rec.key = x[i].key /\ rec.ver = x[i].ver /\ rec.age = x[i].age /\ rec.from = x[i].from
  BY <1>1 DEF CachedIndex
<1>3. less[i] = rec /\ \A k \in Indexes \ {i} : less[k] = x[k]
  OBVIOUS
<1>4. Released(i, map, x)[j] = less[j]
  BY DEF Released, Retired
<1> HIDE DEF rec, less
<1> QED BY <1>2, <1>3, <1>4

LEMMA KnowStep ==
    ASSUME TarInv, [TarNext]_tarVars
    PROVE  AllKnow(index', headState', head', version', since')
<1> DEFINE Goal == AllKnow(index', headState', head', version', since')
<1> HIDE DEF Goal
<1> USE DEF TarInv
<1>1. ASSUME NEW c \in Openers, NEW k \in Objects, OpenTar(c, k) PROVE Goal
  <2>1. PICK gone \in Pruned(at, index, 0) :
          LET kept == Closing(index, gone)
              i == Without(at, gone)[k]
          IN \/ i # NoIndex /\ index' = Touched(i, kept) /\ UNCHANGED headVars
             \/ index' = kept /\ (Shared!Join(c, k) \/ UNCHANGED headVars)
             \/ \E r \in Heads : index' = Renewed(r, kept) /\ Shared!Create(c, k, r)
    BY <1>1 DEF OpenTar, Young
  <2> DEFINE kept == Closing(index, gone)
             i == Without(at, gone)[k]
  <2>2. UNCHANGED <<version, since, head>>
    BY <1>1 DEF OpenTar, storageVars
  <2>3. \A j \in Indexes : kept[j] # Closed => index[j] # Closed /\ kept[j] = index[j]
    BY CloseFewer
  <2>4. Coherent(Without(at, gone), kept, lease)
    BY PruneIsCoherent DEF Pruned
  <2>5. /\ kept \in [Indexes -> CachedIndex \cup {Closed}]
        /\ i # NoIndex => i \in Indexes /\ kept[i] # Closed
    BY <2>4 DEF Coherent
  <2> HIDE DEF kept, i
  <2>6. CASE i # NoIndex /\ index' = Touched(i, kept) /\ UNCHANGED headVars
    <3> DEFINE rec == [kept[i] EXCEPT !.idle = FALSE, !.leases = @ + 1]
    <3>1. kept[i] \in CachedIndex
      BY <2>5, <2>6
    <3>2. /\ rec.key = kept[i].key /\ rec.ver = kept[i].ver
          /\ rec.age = kept[i].age /\ rec.from = kept[i].from
      BY <3>1 DEF CachedIndex
    <3>3. index'[i] = rec /\ \A j \in Indexes \ {i} : index'[j] = kept[j]
      BY <2>5, <2>6 DEF Touched
    <3> HIDE DEF rec
    <3>4. \A j \in Indexes : index'[j] # Closed =>
             /\ index[j] # Closed
             /\ index'[j].key = index[j].key /\ index'[j].ver = index[j].ver
             /\ index'[j].age = index[j].age /\ index'[j].from = index[j].from
      BY <2>3, <2>5, <2>6, <3>2, <3>3
    <3> QED BY <2>2, <2>6, <3>4, KnowsOn DEF Goal, headVars
  <2>7. CASE index' = kept /\ (Shared!Join(c, k) \/ UNCHANGED headVars)
    <3>1. headState' = headState
      BY <2>7 DEF Shared!Join, headVars
    <3> QED BY <2>2, <2>3, <2>7, <3>1, KnowsOn DEF Goal
  <2>8. ASSUME NEW r \in Heads, index' = Renewed(r, kept), Shared!Create(c, k, r) PROVE Goal
    <3>1. \A j \in Indexes : index'[j] = IF kept[j] # Closed /\ kept[j].from = r
                                         THEN [kept[j] EXCEPT !.from = NoHead] ELSE kept[j]
      BY <2>8 DEF Renewed
    <3>2. ASSUME NEW a \in CachedIndex
          PROVE  /\ [a EXCEPT !.from = NoHead].key = a.key
                 /\ [a EXCEPT !.from = NoHead].ver = a.ver
                 /\ [a EXCEPT !.from = NoHead].age = a.age
                 /\ [a EXCEPT !.from = NoHead].from = NoHead
      BY DEF CachedIndex
    <3>3. \A j \in Indexes : index'[j] # Closed =>
             /\ index[j] # Closed /\ index'[j].from # r
             /\ index'[j].key = index[j].key /\ index'[j].ver = index[j].ver
             /\ index'[j].age = index[j].age
             /\ index'[j].from \in Heads => index'[j].from = index[j].from
      <4> SUFFICES ASSUME NEW j \in Indexes, index'[j] # Closed
                   PROVE  /\ index[j] # Closed /\ index'[j].from # r
                          /\ index'[j].key = index[j].key /\ index'[j].ver = index[j].ver
                          /\ index'[j].age = index[j].age
                          /\ index'[j].from \in Heads => index'[j].from = index[j].from
        OBVIOUS
      <4>1. kept[j] # Closed
        BY <3>1
      <4>2. kept[j] \in CachedIndex /\ kept[j] = index[j] /\ index[j] # Closed
        BY <2>3, <2>5, <4>1
      <4>3. CASE kept[j].from = r
        BY <3>1, <3>2, <4>1, <4>2, <4>3, TarIndexAssumption
      <4>4. CASE kept[j].from # r
        BY <3>1, <4>2, <4>4
      <4> QED BY <4>3, <4>4
    <3>4. \A q \in Heads \ {r} : headState'[q] = headState[q]
      BY <2>8 DEF Shared!Create, TarTypeOK, Shared!SharedOK
    <3> QED BY <2>2, <3>3, <3>4, KnowsOn DEF Goal
  <2> QED BY <2>1, <2>6, <2>7, <2>8 DEF kept, i
<1>2. ASSUME NEW c \in Openers, NEW r \in Heads, Resume(c, r) PROVE Goal
  <2>1. /\ UNCHANGED <<version, since, headState>>
        /\ headState[r] = "done"
        /\ \A q \in Heads : head'[q] # 0 => head'[q] = head[q]
    BY <1>2 DEF Resume, Shared!Deliver, storageVars, Forgotten, TarTypeOK
  <2>2. lease[c] = NoIndex /\ HeadOf[r] \in Objects
    BY <1>2, TarIndexAssumption DEF Resume, Shared!Deliver, AskInv
  <2>3. CASE UNCHANGED cacheVars
    BY <2>1, <2>3, KnowsOn DEF Goal, cacheVars
  \* An index made or confirmed just now.
  <2>4. ASSUME NEW rec, head[r] # 0, rec.key = HeadOf[r], rec.from = Source(r), rec.age = 0,
               rec.ver = head[r]
        PROVE  Knows(rec, headState', head', version', since')
    <3>1. rec.ver # version[rec.key] => since[rec.key] = 0
      BY <2>4 DEF HeadInv
    <3>2. rec.from \in Heads => rec.from = r
      BY <2>4, TarIndexAssumption DEF Source
    <3> QED BY <2>1, <2>4, <3>1, <3>2 DEF Knows
  <2>5. ASSUME head[r] # 0, Matches(at[HeadOf[r]], r), index' = Hit(at[HeadOf[r]], index, r)
        PROVE  Goal
    <3> DEFINE i == at[HeadOf[r]]
    <3>1. /\ i # NoIndex /\ i \in Indexes /\ index[i] \in CachedIndex /\ index[i] # Closed
          /\ index[i].key = HeadOf[r]
          /\ index \in [Indexes -> CachedIndex \cup {Closed}]
      BY <2>2, <2>5 DEF Matches, Coherent
    <3>2. index[i].ver = head[r]
      <4>1. CASE etags
        BY <2>5, <4>1 DEF Matches
      <4>2. CASE ~etags
        <5>1. index[i].from = r
          BY <2>5, <4>2 DEF Matches
        <5> QED BY <2>5, <3>1, <5>1 DEF AllKnow, Knows
      <4> QED BY <4>1, <4>2
    <3>3. index' = Hit(i, index, r)
      BY <2>5
    <3> HIDE DEF i
    <3>4. /\ \A j \in Indexes \ {i} : index'[j] = index[j]
          /\ index'[i].key = index[i].key /\ index'[i].ver = index[i].ver
          /\ index'[i].from = Source(r) /\ index'[i].age = 0
      BY <3>1, <3>3, HitIs
    <3>5. Knows(index'[i], headState', head', version', since')
      BY <2>4, <2>5, <3>1, <3>2, <3>4
    <3>6. \A j \in Indexes \ {i} : index'[j] # Closed =>
             Knows(index'[j], headState', head', version', since')
      BY <2>1, <3>4 DEF AllKnow, Knows
    <3> QED BY <3>5, <3>6 DEF Goal, AllKnow
  <2>6. ASSUME head[r] # 0, Replace(c, HeadOf[r], r) PROVE Goal
    <3>1. head \in [Heads -> 0 .. MaxVersion]
      BY DEF TarTypeOK
    <3>2. PICK m, kept :
              /\ Coherent(m, kept, lease)
              /\ \A j \in Indexes : kept[j] # Closed => kept[j] = index[j]
              /\ \/ \E i \in Indexes :
                       /\ kept[i] = Closed
                       /\ index' = [kept EXCEPT ![i] = New(HeadOf[r], r)]
                 \/ index' = kept
      BY <2>2, <2>6, <3>1, ReplaceIs
    <3>3. \A j \in Indexes : kept[j] # Closed =>
             Knows(kept[j], headState', head', version', since')
      BY <2>1, <3>2 DEF AllKnow, Knows
    <3>4. CASE index' = kept
      BY <3>3, <3>4 DEF Goal, AllKnow
    <3>5. ASSUME NEW i \in Indexes, kept[i] = Closed,
                 index' = [kept EXCEPT ![i] = New(HeadOf[r], r)]
          PROVE  Goal
      <4>1. \A j \in Indexes : index'[j] = IF j = i THEN New(HeadOf[r], r) ELSE kept[j]
        BY <3>2, <3>5 DEF Coherent
      <4>2. Knows(New(HeadOf[r], r), headState', head', version', since')
        BY <2>4, <2>6 DEF New
      <4> QED BY <3>3, <4>1, <4>2 DEF Goal, AllKnow
    <3> QED BY <3>2, <3>4, <3>5
  <2> QED BY <1>2, <2>3, <2>5, <2>6 DEF Resume, Hit
<1>3. ASSUME NEW c \in Openers, ReleaseLease(c) PROVE Goal
  <2> DEFINE i == lease[c]
             x == Released(i, at, index)
  <2>1. UNCHANGED <<version, since, head, headState>>
    BY <1>3 DEF ReleaseLease, headVars, storageVars
  <2>2. /\ lease[c] # NoIndex
        /\ \E gone \in Pruned(at, x, 0) : index' = Closing(x, gone)
    BY <1>3, ReleaseLeaseIs
  <2>3. i \in Indexes /\ index[i] # Closed /\ index \in [Indexes -> CachedIndex \cup {Closed}]
    BY <2>2 DEF Coherent, Leased, LiveIndexes
  <2> HIDE DEF i
  <2>4. \A j \in Indexes : x[j] # Closed =>
             /\ index[j] # Closed
             /\ x[j].key = index[j].key /\ x[j].ver = index[j].ver
             /\ x[j].age = index[j].age /\ x[j].from = index[j].from
    BY <2>3, ReleasedSays
  <2> HIDE DEF x
  <2>5. \A j \in Indexes : index'[j] # Closed => x[j] # Closed /\ index'[j] = x[j]
    BY <2>2, CloseFewer
  <2> QED BY <2>1, <2>4, <2>5, KnowsOn DEF Goal
<1>4. CASE CloseCache
  <2>1. UNCHANGED <<version, since, head, headState>> /\ index' = Closing(index, Unleased(at, index))
    BY <1>4 DEF CloseCache, headVars, storageVars
  <2> QED BY <2>1, CloseFewer, KnowsOn DEF Goal
<1>5. ASSUME NEW c \in Openers, Grows(c) PROVE Goal
  <2> DEFINE i == lease[c]
  <2>1. UNCHANGED <<version, since, head, headState>>
    BY <1>5 DEF Grows, headVars, storageVars
  <2>2. /\ i \in Indexes /\ index[i] # Closed
        /\ index \in [Indexes -> CachedIndex \cup {Closed}]
    BY <1>5 DEF Grows, Coherent, LiveIndexes, Leased
  <2>3. index' = [index EXCEPT ![i] = [index[i] EXCEPT !.big = TRUE]]
    BY <1>5 DEF Grows
  <2> HIDE DEF i
  <2>4. \A a \in CachedIndex : /\ [a EXCEPT !.big = TRUE].key = a.key
                              /\ [a EXCEPT !.big = TRUE].ver = a.ver
                              /\ [a EXCEPT !.big = TRUE].age = a.age
                              /\ [a EXCEPT !.big = TRUE].from = a.from
    BY DEF CachedIndex
  <2>5. \A j \in Indexes : index'[j] # Closed =>
             /\ index[j] # Closed
             /\ index'[j].key = index[j].key /\ index'[j].ver = index[j].ver
             /\ index'[j].age = index[j].age /\ index'[j].from = index[j].from
    BY <2>2, <2>3, <2>4
  <2> QED BY <2>1, <2>5, KnowsOn DEF Goal
<1>6. ASSUME NEW i \in Indexes, GoesIdle(i) PROVE Goal
  <2>1. UNCHANGED <<version, since, head, headState>>
    BY <1>6 DEF GoesIdle, headVars, storageVars
  <2>2. /\ index[i] # Closed /\ index \in [Indexes -> CachedIndex \cup {Closed}]
        /\ index' = [index EXCEPT ![i] = [index[i] EXCEPT !.idle = TRUE]]
    BY <1>6 DEF GoesIdle, Coherent
  <2>3. \A a \in CachedIndex : /\ [a EXCEPT !.idle = TRUE].key = a.key
                              /\ [a EXCEPT !.idle = TRUE].ver = a.ver
                              /\ [a EXCEPT !.idle = TRUE].age = a.age
                              /\ [a EXCEPT !.idle = TRUE].from = a.from
    BY DEF CachedIndex
  <2>4. \A j \in Indexes : index'[j] # Closed =>
             /\ index[j] # Closed
             /\ index'[j].key = index[j].key /\ index'[j].ver = index[j].ver
             /\ index'[j].age = index[j].age /\ index'[j].from = index[j].from
    BY <2>2, <2>3
  <2> QED BY <2>1, <2>4, KnowsOn DEF Goal
<1>7. CASE Ticks
  <2>1. /\ UNCHANGED <<version, head, headState>>
        /\ \A k \in Objects : since'[k] = Older(since[k])
        /\ \A j \in Indexes :
              index'[j] = IF index[j] = Closed THEN Closed ELSE [index[j] EXCEPT !.age = Older(@)]
    BY <1>7 DEF Ticks, headVars
  <2> SUFFICES ASSUME NEW j \in Indexes, index'[j] # Closed
               PROVE  Knows(index'[j], headState', head', version', since')
    BY DEF Goal, AllKnow
  <2>2. index[j] # Closed /\ index[j] \in CachedIndex /\ index'[j] = [index[j] EXCEPT !.age = Older(@)]
    BY <2>1 DEF Coherent
  <2>3. /\ index'[j].key = index[j].key /\ index'[j].ver = index[j].ver
        /\ index'[j].age = Older(index[j].age) /\ index'[j].from = index[j].from
    BY <2>2 DEF CachedIndex
  <2>4. Knows(index[j], headState, head, version, since)
    BY <2>2 DEF AllKnow
  <2>5. index[j].key \in Objects /\ index[j].age \in 0 .. HeadTTL
    BY <2>2 DEF CachedIndex
  <2>6. since[index[j].key] \in 0 .. HeadTTL
    BY <2>5 DEF TarTypeOK
  <2>7. since[index[j].key] <= index[j].age => Older(since[index[j].key]) <= Older(index[j].age)
    BY <2>5, <2>6 DEF Older, HeadTTL
  <2> QED BY <2>1, <2>3, <2>4, <2>5, <2>7 DEF Knows
<1>8. ASSUME NEW k \in Objects, Changes(k) PROVE Goal
  <2>1. /\ UNCHANGED <<index, head, headState>>
        /\ since'[k] = 0 /\ \A q \in Objects \ {k} : version'[q] = version[q] /\ since'[q] = since[q]
    BY <1>8 DEF Changes, headVars, cacheVars, TarTypeOK
  <2>2. \A j \in Indexes : index[j] # Closed => index[j].key \in Objects /\ index[j].age >= 0
    BY DEF Coherent, CachedIndex, HeadTTL
  <2> QED BY <2>1, <2>2 DEF Goal, AllKnow, Knows
<1>9. ASSUME NEW r \in Heads, HeadEnds(r) PROVE Goal
  <2>1. UNCHANGED <<version, since, index>> /\ headState[r] = "loading"
    BY <1>9 DEF HeadEnds, storageVars, cacheVars
  <2>2. headState' = [headState EXCEPT ![r] = "settled"]
    BY <1>9 DEF HeadEnds
  <2>3. \A q \in Heads \ {r} : head'[q] = head[q]
    BY <1>9 DEF HeadEnds, TarTypeOK
  <2>4. \A q \in Heads \ {r} : headState'[q] = headState[q]
    BY <2>2 DEF TarTypeOK, Shared!SharedOK
  <2>5. \A j \in Indexes : index[j] # Closed => index[j].from # r
    BY <2>1 DEF AllKnow, Knows
  <2> QED BY <2>1, <2>3, <2>4, <2>5 DEF Goal, AllKnow, Knows
<1>10. ASSUME NEW r \in Heads, HeadOver(r) \/ \E c \in Openers : LeaveHead(c) PROVE Goal
  <2>1. /\ UNCHANGED <<version, since, index>>
        /\ \A q \in Heads : headState'[q] = "loading" => headState[q] = "loading"
    BY <1>10 DEF HeadOver, LeaveHead, Shared!Finally, storageVars, cacheVars, TarTypeOK, Shared!SharedOK
  <2>2. PICK q \in Heads : \E callers : head' = Forgotten(q, callers)
    BY <1>10 DEF HeadOver, LeaveHead
  <2>3. \A q2 \in Heads : head'[q2] # 0 => head'[q2] = head[q2]
    BY <2>2 DEF Forgotten, TarTypeOK
  <2> QED BY <2>1, <2>3, KnowsOn DEF Goal
<1>11. ASSUME TarNext PROVE Goal
  <2>1. ASSUME NEW c \in Openers, LeaveHead(c) PROVE Goal
    BY <1>10, <2>1 DEF LeaveHead
  <2> QED BY <1>1, <1>2, <1>3, <1>4, <1>5, <1>6, <1>7, <1>8, <1>9, <1>10, <1>11, <2>1 DEF TarNext, Goal
<1>12. CASE UNCHANGED tarVars
  BY <1>12, KnowsOn DEF Goal, tarVars, headVars, storageVars, cacheVars
<1> QED BY <1>11, <1>12 DEF Goal

-----------------------------------------------------------------------------
(* The theorems.                                                            *)

LEMMA TarInvInit == TarInit => TarInv
<1> SUFFICES ASSUME TarInit PROVE TarInv
  OBVIOUS
<1> USE DEF TarInit
<1>1. LiveIndexes(index) = {} /\ BigOnes(index) = {} /\ Cached(at) = {}
  BY DEF LiveIndexes, BigOnes, Cached
<1>2. Coherent(at, index, lease)
  BY <1>1 DEF Coherent, Leased
<1>3. LimitsHold
  <2>1. Cardinality({}) = 0
    BY FS_EmptySet
  <2>2. {i \in LiveIndexes(index) : index[i].big} = {}
    BY <1>1
  <2> HIDE DEF TarInit
  <2> QED BY <1>1, <2>1, <2>2, TarIndexAssumption DEF LimitsHold
<1>4. Shared!SharedOK
  BY TarIndexAssumption DEF Shared!SharedInit, Shared!SharedOK
<1>5. TarTypeOK
  <2>1. version \in [Objects -> 1 .. MaxVersion] /\ head \in [Heads -> 0 .. MaxVersion]
    BY TarIndexAssumption
  <2>2. since \in [Objects -> 0 .. HeadTTL]
    BY DEF HeadTTL
  <2> QED BY <1>2, <1>4, <2>1, <2>2 DEF TarTypeOK, Coherent
<1>6. AskInv /\ HeadInv
  BY DEF AskInv, HeadInv, Shared!SharedInit
<1>7. AllKnow(index, headState, head, version, since)
  BY DEF AllKnow
<1> QED BY <1>2, <1>3, <1>5, <1>6, <1>7 DEF TarInv

LEMMA TarInvStep == TarInv /\ [TarNext]_tarVars => TarInv'
<1> SUFFICES ASSUME TarInv, [TarNext]_tarVars PROVE TarInv'
  OBVIOUS
<1>1. TarTypeOK /\ Coherent(at, index, lease) /\ AskInv /\ HeadInv
  BY DEF TarInv
<1>2. Coherent(at', index', lease')
  BY <1>1, CoherentStep
<1>3. HeadTypeOK'
  BY <1>1, HeadTypeStep
<1>4. TarTypeOK'
  BY <1>2, <1>3 DEF TarTypeOK, HeadTypeOK, Coherent
<1>5. AskInv' /\ HeadInv'
  BY <1>1, AskStep, HeadStep
<1>6. LimitsHold'
  BY LimitsStep
<1>7. AllKnow(index', headState', head', version', since')
  BY KnowStep
<1> QED BY <1>2, <1>4, <1>5, <1>6, <1>7 DEF TarInv

\* The inductive invariant: map, leases and files agree, a HEAD's answer is at hand
\* while somebody waits for it, and no index is younger than what it knows.
THEOREM TarInvHolds == TarSpec => []TarInv
BY TarInvInit, TarInvStep, PTL DEF TarSpec

\* The variables of the index cache (archives, liveIndexes, the requests) keep their types.
THEOREM TarTypeCorrect == TarSpec => []TarTypeOK
<1>1. TarInv => TarTypeOK
  BY DEF TarInv
<1> QED BY <1>1, TarInvHolds, PTL

\* A file is open exactly as long as the cache finds it or a caller reads it, and the
\* limits on files and bytes hold, however prune(), retire(), release() and close()
\* of tar-index-cache.ts come in between.
THEOREM FilesAreHeld == TarSpec => []IndexFilesAreHeld
<1>1. TarInv => IndexFilesAreHeld
  BY DEF TarInv, IndexFilesAreHeld, OpenWhileUsed, Coherent, Leased
<1> QED BY <1>1, TarInvHolds, PTL

\* Who takes a lease, and of what.
LEMMA LeaseTaken ==
    ASSUME TarInv, TarNext, NEW c \in Openers, lease'[c] # lease[c], lease'[c] # NoIndex
    PROVE  /\ lease'[c] \in Indexes /\ index'[lease'[c]] # Closed
           /\ index'[lease'[c]].age < HeadTTL
           /\ UNCHANGED <<version, since>>
           /\ \A r \in Heads : c \in headSubs[r] => index'[lease'[c]].ver = head[r]
<1> DEFINE Goal == /\ lease'[c] \in Indexes /\ index'[lease'[c]] # Closed
                   /\ index'[lease'[c]].age < HeadTTL
                   /\ UNCHANGED <<version, since>>
                   /\ \A r \in Heads : c \in headSubs[r] => index'[lease'[c]].ver = head[r]
<1> USE DEF TarInv
<1>1. ASSUME NEW k \in Objects, OpenTar(c, k) PROVE Goal
  <2>1. \A r \in Heads : c \notin headSubs[r]
    BY <1>1 DEF OpenTar, Shared!Asking
  <2>2. UNCHANGED <<version, since>>
    BY <1>1 DEF OpenTar, storageVars
  <2>3. PICK gone \in Pruned(at, index, 0) :
          LET kept == Closing(index, gone)
              i == Without(at, gone)[k]
          IN /\ Young(i, kept)
             /\ index' = Touched(i, kept)
             /\ lease' = [lease EXCEPT ![c] = i]
    BY <1>1 DEF OpenTar
  <2> DEFINE kept == Closing(index, gone)
             i == Without(at, gone)[k]
             rec == [kept[i] EXCEPT !.idle = FALSE, !.leases = @ + 1]
  <2>4. Coherent(Without(at, gone), kept, lease)
    BY PruneIsCoherent DEF Pruned
  <2>5. /\ kept \in [Indexes -> CachedIndex \cup {Closed}]
        /\ i \in Indexes /\ kept[i] \in CachedIndex /\ kept[i].age < HeadTTL
        /\ lease'[c] = i
    BY <2>3, <2>4 DEF Coherent, Young, TarTypeOK
  <2>6. index'[i] = rec
    BY <2>3, <2>5 DEF Touched
  <2> HIDE DEF kept, i
  <2>7. rec.age = kept[i].age /\ DOMAIN rec = DOMAIN kept[i]
    BY <2>5 DEF CachedIndex
  <2>8. lease'[c] \in Indexes /\ index'[lease'[c]] # Closed
    BY <2>5, CoherentStep DEF Coherent, LiveIndexes, Leased
  <2> QED BY <2>1, <2>2, <2>5, <2>6, <2>7, <2>8
<1>2. ASSUME NEW r \in Heads, Resume(c, r) PROVE Goal
  <2>1. /\ c \in headSubs[r] /\ lease[c] = NoIndex /\ HeadOf[r] \in Objects
        /\ UNCHANGED <<version, since>>
    BY <1>2, TarIndexAssumption DEF Resume, Shared!Deliver, AskInv, storageVars
  <2>2. \A s \in Heads : c \in headSubs[s] => s = r
    BY <2>1 DEF AskInv
  <2>3. ASSUME head[r] # 0, Matches(at[HeadOf[r]], r), index' = Hit(at[HeadOf[r]], index, r),
               lease' = [lease EXCEPT ![c] = at[HeadOf[r]]]
        PROVE  Goal
    <3> DEFINE i == at[HeadOf[r]]
    <3>1. /\ i # NoIndex /\ i \in Indexes /\ index[i] \in CachedIndex /\ index[i] # Closed
          /\ index \in [Indexes -> CachedIndex \cup {Closed}]
      BY <2>1, <2>3 DEF Matches, Coherent
    <3>2. index[i].ver = head[r]
      <4>1. CASE etags
        BY <2>3, <4>1 DEF Matches
      <4>2. CASE ~etags
        <5>1. index[i].from = r
          BY <2>3, <4>2 DEF Matches
        <5> QED BY <2>3, <3>1, <5>1 DEF AllKnow, Knows
      <4> QED BY <4>1, <4>2
    <3>3. index' = Hit(i, index, r) /\ lease'[c] = i
      BY <2>3 DEF TarTypeOK
    <3> HIDE DEF i
    <3>4. index'[i] # Closed /\ index'[i].ver = index[i].ver /\ index'[i].age = 0
      BY <3>1, <3>3, HitIs
    <3> QED BY <2>1, <2>2, <3>1, <3>2, <3>3, <3>4 DEF HeadTTL
  <2>4. ASSUME head[r] # 0, Replace(c, HeadOf[r], r) PROVE Goal
    <3>1. head \in [Heads -> 0 .. MaxVersion]
      BY DEF TarTypeOK
    <3>2. PICK m, kept :
              /\ Coherent(m, kept, lease)
              /\ \/ /\ New(HeadOf[r], r) \in CachedIndex
                    /\ \E i \in Indexes :
                       /\ kept[i] = Closed
                       /\ index' = [kept EXCEPT ![i] = New(HeadOf[r], r)]
                       /\ lease' = [lease EXCEPT ![c] = i]
                 \/ UNCHANGED lease
      BY <2>1, <2>4, <3>1, ReplaceIs
    <3>3. PICK i \in Indexes : /\ New(HeadOf[r], r) \in CachedIndex
                              /\ index' = [kept EXCEPT ![i] = New(HeadOf[r], r)]
                              /\ lease' = [lease EXCEPT ![c] = i]
      BY <3>2
    <3>4. index'[i] = New(HeadOf[r], r) /\ lease'[c] = i
      BY <3>2, <3>3 DEF Coherent, TarTypeOK
    <3>5. New(HeadOf[r], r).ver = head[r] /\ New(HeadOf[r], r).age = 0
      BY DEF New
    <3> QED BY <2>1, <2>2, <3>3, <3>4, <3>5, ClosedAssumption DEF HeadTTL
  <2> QED BY <1>2, <2>3, <2>4 DEF Resume, Hit, cacheVars
<1>3. ASSUME NEW d \in Openers,
             \/ \E k \in Objects : OpenTar(d, k)
             \/ \E r \in Heads : Resume(d, r)
             \/ ReleaseLease(d)
      PROVE  \/ \E k \in Objects : OpenTar(c, k)
             \/ \E r \in Heads : Resume(c, r)
  <2>1. c = d
    BY <1>3, LeaseOfOne
  <2>2. ~ReleaseLease(c)
    BY DEF ReleaseLease, TarTypeOK
  <2> QED BY <1>3, <2>1, <2>2
<1>4. ASSUME UNCHANGED lease PROVE FALSE
  BY <1>4
<1>5. \/ \E k \in Objects : OpenTar(c, k)
      \/ \E r \in Heads : Resume(c, r)
  <2>1. ASSUME NEW d \in Openers, LeaveHead(d) \/ Grows(d) PROVE UNCHANGED lease
    BY <2>1 DEF LeaveHead, Grows, cacheVars
  <2>2. ASSUME NEW r \in Heads, HeadEnds(r) \/ HeadOver(r) PROVE UNCHANGED lease
    BY <2>2 DEF HeadEnds, HeadOver, cacheVars
  <2>3. ASSUME NEW k \in Objects, Changes(k) PROVE UNCHANGED lease
    BY <2>3 DEF Changes, cacheVars
  <2>4. ASSUME NEW i \in Indexes, GoesIdle(i) PROVE UNCHANGED lease
    BY <2>4 DEF GoesIdle
  <2>5. ASSUME Ticks \/ CloseCache PROVE UNCHANGED lease
    BY <2>5 DEF Ticks, CloseCache
  <2> QED BY <1>3, <1>4, <2>1, <2>2, <2>3, <2>4, <2>5 DEF TarNext
<1> HIDE DEF Goal
<1>6. Goal
  BY <1>1, <1>2, <1>5
<1> QED BY <1>6 DEF Goal

\* open() gives a caller the version its HEAD saw, and within HEAD_TTL_MS of a change
\* the version the object has now: an index shared, replaced or confirmed while the
\* caller was waiting is never older.
THEOREM IndexKeepsUp == TarSpec => IndexIsCurrent
<1> DEFINE OfTheHead == \A c \in Openers, r \in Heads :
                c \in headSubs[r] /\ lease'[c] # lease[c] => index'[lease'[c]].ver = head[r]
           Seen == \A c \in Openers :
                LET i == lease'[c]
                IN i # lease[c] /\ i # NoIndex =>
                   \/ index'[i].ver = version[index'[i].key]
                   \/ since[index'[i].key] < HeadTTL
<1>1. ASSUME TarInv, [TarNext]_tarVars PROVE [OfTheHead]_tarVars
  <2> SUFFICES ASSUME TarNext PROVE OfTheHead
    BY <1>1
  <2> SUFFICES ASSUME NEW c \in Openers, NEW r \in Heads, c \in headSubs[r], lease'[c] # lease[c]
               PROVE  index'[lease'[c]].ver = head[r]
    OBVIOUS
  <2>1. lease[c] = NoIndex
    BY <1>1 DEF TarInv, AskInv
  <2> QED BY <1>1, <2>1, LeaseTaken
<1>2. ASSUME TarInv, [TarNext]_tarVars PROVE [Seen]_tarVars
  <2> SUFFICES ASSUME TarNext PROVE Seen
    BY <1>2
  <2> SUFFICES ASSUME NEW c \in Openers, lease'[c] # lease[c], lease'[c] # NoIndex
               PROVE  \/ index'[lease'[c]].ver = version[index'[lease'[c]].key]
                      \/ since[index'[lease'[c]].key] < HeadTTL
    OBVIOUS
  <2> DEFINE i == lease'[c]
             rec == index'[i]
  <2>1. i \in Indexes /\ rec # Closed /\ rec.age < HeadTTL /\ UNCHANGED <<version, since>>
    BY <1>2, LeaseTaken
  <2>2. AllKnow(index', headState', head', version', since')
    BY <1>2, KnowStep
  <2>3. rec \in CachedIndex
    BY <1>2, <2>1, CoherentStep DEF TarInv, Coherent
  <2>4. rec.ver # version[rec.key] => since[rec.key] <= rec.age
    BY <2>1, <2>2 DEF AllKnow, Knows
  <2>5. since[rec.key] \in Nat /\ rec.age \in Nat
    BY <1>2, <2>3 DEF TarInv, TarTypeOK, CachedIndex, HeadTTL
  <2> HIDE DEF rec
  <2>6. rec.ver = version[rec.key] \/ since[rec.key] < HeadTTL
    BY <2>1, <2>4, <2>5 DEF HeadTTL
  <2> QED BY <2>6 DEF rec
<1>3. IndexIsOfTheHead <=> [][OfTheHead]_tarVars
  BY DEF IndexIsOfTheHead
<1>4. ChangesAreSeen <=> [][Seen]_tarVars
  BY DEF ChangesAreSeen
<1> HIDE DEF OfTheHead, Seen
<1>5. TarSpec => [][OfTheHead]_tarVars
  BY <1>1, TarInvHolds, PTL DEF TarSpec
<1>6. TarSpec => [][Seen]_tarVars
  BY <1>2, TarInvHolds, PTL DEF TarSpec
<1> QED BY <1>3, <1>4, <1>5, <1>6 DEF IndexIsCurrent
===============================================================================
