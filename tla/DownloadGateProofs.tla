------------------------- MODULE DownloadGateProofs -------------------------
(***************************************************************************)
(* Proofs about the download gate, for every set of downloads, sources,    *)
(* limits and saved orders: its type correctness, its safety invariants    *)
(* and that it implements DownloadSlots.                                   *)
(***************************************************************************)
EXTENDS DownloadGate, FiniteSetTheorems, WellFoundedInduction, TLAPS

\* Every non-empty set of naturals has a least element.
LEMMA LeastNatural ==
    ASSUME NEW S \in SUBSET Nat, S # {}
    PROVE  \E m \in S : \A k \in S : m <= k
  <1>1. \E x \in S : \A y \in S : ~ (<<y, x>> \in OpToRel(<, Nat))
    BY NatLessThanWellFounded, WFMin
  <1>2. PICK x \in S : \A y \in S : ~ (<<y, x>> \in OpToRel(<, Nat))
    BY <1>1
  <1>3. \A y \in S : ~ (y < x)
    BY <1>2 DEF OpToRel
  <1> QED
    BY <1>3

\* Every bounded non-empty set of naturals has a greatest element.
LEMMA GreatestNatural ==
    ASSUME NEW S \in SUBSET Nat, S # {}, NEW b \in Nat, \A k \in S : k <= b
    PROVE  \E m \in S : \A k \in S : k <= m
  <1> DEFINE D == {b - k : k \in S}
  <1>0. \A k \in S : b - k \in Nat
    OBVIOUS
  <1>1. D \in SUBSET Nat /\ D # {}
    BY <1>0
  <1>2. PICK d \in D : \A e \in D : d <= e
    BY <1>1, LeastNatural
  <1>3. PICK m \in S : d = b - m
    BY DEF D
  <1>4. ASSUME NEW k \in S PROVE k <= m
    <2>1. b - k \in D
      OBVIOUS
    <2>2. b - m <= b - k
      BY <2>1, <1>2, <1>3
    <2> QED
      BY <2>2
  <1> QED
    BY <1>4

\* The element of S with the least value under f, if f ranges over naturals.
LEMMA LeastBy ==
    ASSUME NEW S, S # {}, NEW f, \A w \in S : f[w] \in Nat
    PROVE  \E w \in S : \A v \in S : f[w] <= f[v]
  <1> DEFINE T == {f[w] : w \in S}
  <1>1. T \in SUBSET Nat /\ T # {}
    OBVIOUS
  <1>2. PICK m \in T : \A k \in T : m <= k
    BY <1>1, LeastNatural
  <1> QED
    BY <1>2

\* The element of a finite S with the greatest value under f.
LEMMA GreatestBy ==
    ASSUME NEW S, S # {}, NEW f, NEW b \in Nat,
           \A w \in S : f[w] \in Nat /\ f[w] <= b
    PROVE  \E w \in S : \A v \in S : f[v] <= f[w]
  <1> DEFINE T == {f[w] : w \in S}
  <1>1. T \in SUBSET Nat /\ T # {} /\ \A k \in T : k <= b
    OBVIOUS
  <1>2. PICK m \in T : \A k \in T : k <= m
    BY <1>1, GreatestNatural
  <1> QED
    BY <1>2

\* A proper subset of a finite set has fewer elements.
LEMMA ProperSubsetSmaller ==
    ASSUME NEW S, IsFiniteSet(S), NEW T \in SUBSET S, NEW x \in S, x \notin T
    PROVE  Cardinality(T) < Cardinality(S)
  <1>1. /\ IsFiniteSet(T)
        /\ Cardinality(T) <= Cardinality(S)
        /\ Cardinality(S) = Cardinality(T) => S = T
    BY FS_Subset
  <1>2. Cardinality(S) # Cardinality(T)
    BY <1>1
  <1> QED
    BY <1>1, <1>2, FS_CardinalityType

\* Two disjoint finite sets are counted separately.
LEMMA DisjointUnionCount ==
    ASSUME NEW S, NEW T, IsFiniteSet(S), IsFiniteSet(T), S \cap T = {}
    PROVE  /\ IsFiniteSet(S \cup T)
           /\ Cardinality(S \cup T) = Cardinality(S) + Cardinality(T)
  BY FS_Union, FS_EmptySet, FS_CardinalityType

Injective(f) == \A a, b \in DOMAIN f : f[a] = f[b] => a = b

\* ListBy lists the members of S in the order of their keys: the indices are
\* distinct, lie below |S| and compare as the keys do.
LEMMA ListByOrders ==
    ASSUME NEW S, IsFiniteSet(S), NEW key,
           \A w \in S : key[w] \in Nat,
           \A v, w \in S : key[v] = key[w] => v = w
    PROVE  /\ ListBy(S, key) \in [S -> Nat]
           /\ \A v, w \in S : key[v] < key[w] => ListBy(S, key)[v] < ListBy(S, key)[w]
           /\ Injective(ListBy(S, key))
           /\ \A w \in S : ListBy(S, key)[w] < Cardinality(S)
  <1> DEFINE Below(w) == {v \in S : key[v] < key[w]}
             L == ListBy(S, key)
  <1>1. \A w \in S : L[w] = Cardinality(Below(w))
    BY DEF ListBy
  <1>2. \A w \in S : IsFiniteSet(Below(w)) /\ Cardinality(Below(w)) \in Nat
    BY FS_Subset, FS_CardinalityType
  <1>3. L \in [S -> Nat]
    BY <1>1, <1>2 DEF ListBy
  <1>4. ASSUME NEW v \in S, NEW w \in S, key[v] < key[w]
        PROVE  L[v] < L[w]
    <2>1. Below(v) \in SUBSET Below(w) /\ v \in Below(w) /\ v \notin Below(v)
      BY <1>4
    <2>2. Cardinality(Below(v)) < Cardinality(Below(w))
      BY <2>1, <1>2, ProperSubsetSmaller
    <2> QED
      BY <2>2, <1>1
  <1>5. ASSUME NEW v \in S, NEW w \in S, L[v] = L[w]
        PROVE  v = w
    <2>1. L[v] \in Nat /\ L[w] \in Nat
      BY <1>3
    <2>2. ~ (key[v] < key[w]) /\ ~ (key[w] < key[v])
      BY <2>1, <1>4, <1>5
    <2>3. key[v] = key[w]
      BY <2>2
    <2> QED
      BY <2>3
  <1>6. ASSUME NEW w \in S PROVE L[w] < Cardinality(S)
    <2>1. Below(w) \in SUBSET S /\ w \notin Below(w)
      OBVIOUS
    <2> QED
      BY <2>1, <1>1, ProperSubsetSmaller
  <1>7. DOMAIN L = S
    BY DEF ListBy
  <1> QED
    BY <1>3, <1>4, <1>5, <1>6, <1>7 DEF Injective

\* The rank of an id in a saved order is a position that holds it.
LEMMA RankIsAPosition ==
    ASSUME NEW o \in Seq(Ids), NEW w \in Ranked(o)
    PROVE  Rank(o, w) \in 1 .. Len(o) /\ o[Rank(o, w)] = w
  <1> DEFINE P == {j \in 1 .. Len(o) : o[j] = w}
  <1>1. P \in SUBSET Nat /\ P # {} /\ Len(o) \in Nat /\ \A j \in P : j <= Len(o)
    BY DEF Ranked
  <1>2. PICK m \in P : \A k \in P : k <= m
    BY <1>1, GreatestNatural
  <1>3. \A k \in (m + 1) .. Len(o) : o[k] # w
    BY <1>2
  <1> QED
    BY <1>2, <1>3 DEF Rank

\* The sort keys of a reorder are distinct numbers.
LEMMA SortKeysDiffer ==
    ASSUME NEW o \in Seq(Ids), NEW W \in SUBSET Ids, NEW pl \in [W -> Nat],
           Injective(pl)
    PROVE  LET key == SortKey(o, pl)
           IN  /\ \A w \in W : key[w] = IF w \in Ranked(o) THEN Rank(o, w)
                                         ELSE Len(o) + 1 + pl[w]
               /\ \A w \in W : key[w] \in Nat /\ (w \in Ranked(o) => key[w] <= Len(o))
               /\ \A v, w \in W : key[v] = key[w] => v = w
  <1> DEFINE key == SortKey(o, pl)
  <1>0. DOMAIN pl = W /\ Len(o) \in Nat
    OBVIOUS
  <1>1. \A w \in W : key[w] = IF w \in Ranked(o) THEN Rank(o, w) ELSE Len(o) + 1 + pl[w]
    BY <1>0 DEF SortKey
  <1>2. \A w \in W : /\ w \in Ranked(o) => Rank(o, w) \in 1 .. Len(o) /\ o[Rank(o, w)] = w
                     /\ pl[w] \in Nat
    BY RankIsAPosition
  <1>3. \A w \in W : key[w] \in Nat /\ (w \in Ranked(o) => key[w] <= Len(o))
    BY <1>0, <1>1, <1>2
  <1>4. ASSUME NEW v \in W, NEW w \in W, key[v] = key[w] PROVE v = w
    <2>1. CASE v \in Ranked(o) /\ w \in Ranked(o)
      BY <2>1, <1>1, <1>2, <1>4
    <2>2. CASE v \notin Ranked(o) /\ w \notin Ranked(o)
      <3>1. Len(o) + 1 + pl[v] = Len(o) + 1 + pl[w]
        BY <2>2, <1>1, <1>4
      <3>2. pl[v] = pl[w]
        BY <3>1, <1>0, <1>2
      <3> QED
        BY <3>2, <1>0 DEF Injective
    <2>3. CASE v \in Ranked(o) /\ w \notin Ranked(o)
      BY <2>3, <1>0, <1>1, <1>2, <1>4
    <2>4. CASE v \notin Ranked(o) /\ w \in Ranked(o)
      BY <2>4, <1>0, <1>1, <1>2, <1>4
    <2> QED
      BY <2>1, <2>2, <2>3, <2>4
  <1> HIDE DEF key
  <1> QED
    BY <1>1, <1>3, <1>4 DEF key

\* The line scanned by a dispatch lists the same waiters at distinct indices.
LEMMA LineIsAList ==
    ASSUME NEW o \in Seq(Ids), NEW W \in SUBSET Ids, NEW pl \in [W -> Nat],
           IsFiniteSet(W), Injective(pl), NEW act, NEW max
    PROVE  Line(o, pl, act, max) \in [W -> Nat] /\ Injective(Line(o, pl, act, max))
  <1> DEFINE key == SortKey(o, pl)
  <1>1. /\ \A w \in W : key[w] \in Nat
        /\ \A v, w \in W : key[v] = key[w] => v = w
    BY SortKeysDiffer
  <1>2. ListBy(W, key) \in [W -> Nat] /\ Injective(ListBy(W, key))
    BY <1>1, ListByOrders
  <1> QED
    BY <1>2 DEF Line, Reordered

\* What one dispatch grants: at most one waiter of each idle source, at most as
\* many as there are slots, and while slots are left every waiter that was
\* passed over has a busy source.
LEMMA GrantsAreRight ==
    ASSUME NEW W, IsFiniteSet(W), NEW line \in [W -> Nat], Injective(line),
           NEW src, NEW busy, NEW slots \in Int
    PROVE  LET G == Grants(line, src, busy, slots)
           IN  /\ G \subseteq W
               /\ IsFiniteSet(G)
               /\ Cardinality(G) \in Nat
               /\ \A a \in G : src[a] \notin busy
               /\ \A a, b \in G : src[a] = src[b] => a = b
               /\ G # {} => Cardinality(G) <= slots
               /\ Cardinality(G) < slots =>
                     \A w \in W : src[w] \in busy \/ \E a \in G : src[a] = src[w]
  <1> DEFINE E == Eligible(line, src, busy)
             G == Grants(line, src, busy, slots)
             Below(w) == {v \in E : line[v] < line[w]}
  <1>0. DOMAIN line = W
    OBVIOUS
  <1>1. E \subseteq W /\ \A w \in E : /\ src[w] \notin busy
                                      /\ \A v \in W : src[v] = src[w] => line[w] <= line[v]
    BY <1>0 DEF Eligible
  <1>2. G \subseteq E /\ \A w \in E : w \in G <=> Cardinality(Below(w)) < slots
    BY DEF Grants
  <1>3. IsFiniteSet(E) /\ IsFiniteSet(G)
    BY <1>1, <1>2, FS_Subset
  <1>4. \A w \in E : /\ Below(w) \in SUBSET E
                     /\ IsFiniteSet(Below(w))
                     /\ Cardinality(Below(w)) \in Nat
    BY <1>3, FS_Subset, FS_CardinalityType
  <1>5. Cardinality(G) \in Nat
    BY <1>3, FS_CardinalityType
  <1>6. ASSUME NEW a \in G, NEW b \in G, src[a] = src[b]
        PROVE  a = b
    <2>1. line[a] <= line[b] /\ line[b] <= line[a]
      BY <1>1, <1>2, <1>6
    <2>2. line[a] \in Nat /\ line[b] \in Nat
      BY <1>1, <1>2
    <2>3. line[a] = line[b]
      BY <2>1, <2>2
    <2> QED
      BY <2>3, <1>0, <1>1, <1>2 DEF Injective
  <1>7. ASSUME G # {} PROVE Cardinality(G) <= slots
    <2> DEFINE c == [w \in E |-> Cardinality(Below(w))]
    <2>0. \A w \in E : c[w] = Cardinality(Below(w))
      OBVIOUS
    <2>1. \A w \in G : c[w] \in Nat /\ c[w] <= slots
      <3> HIDE DEF E, G, Below, c
      <3> QED
        BY <2>0, <1>2, <1>4
    <2>2. slots \in Nat
      <3> HIDE DEF E, G, Below, c
      <3> QED
        BY <2>1, <1>7
    <2>3. PICK g \in G : \A v \in G : c[v] <= c[g]
      <3> HIDE DEF E, G, c
      <3> QED
        BY <2>1, <2>2, <1>7, GreatestBy
    <2>4. ASSUME NEW a \in G, a # g PROVE a \in Below(g)
      <3>1. line[a] \in Nat /\ line[g] \in Nat /\ line[a] # line[g]
        BY <2>4, <1>0, <1>1, <1>2 DEF Injective
      <3>2. ~ (line[g] < line[a])
        <4>1. SUFFICES ASSUME line[g] < line[a] PROVE FALSE
          OBVIOUS
        <4>2. Below(g) \in SUBSET Below(a) /\ g \in Below(a) /\ g \notin Below(g)
          <5>1. \A v \in E : line[v] \in Nat
            BY <1>1
          <5> QED
            BY <4>1, <5>1, <3>1, <1>2
        <4>3. Cardinality(Below(g)) < Cardinality(Below(a))
          BY <4>2, <1>2, <1>4, ProperSubsetSmaller
        <4>4. Cardinality(Below(a)) <= Cardinality(Below(g))
          BY <2>0, <2>3, <1>2
        <4> HIDE DEF E, G, Below
        <4> QED
          BY <4>3, <4>4, <1>2, <1>4
      <3> QED
        BY <3>1, <3>2, <1>2
    <2>5. G \ {g} \in SUBSET Below(g)
      BY <2>4
    <2>6. Cardinality(G \ {g}) <= Cardinality(Below(g))
      BY <2>5, <1>2, <1>4, FS_Subset
    <2>7. Cardinality(G \ {g}) = Cardinality(G) - 1
      BY <1>3, FS_RemoveElement
    <2>8. Cardinality(Below(g)) < slots /\ Cardinality(Below(g)) \in Nat
      BY <1>2, <1>4
    <2> QED
      BY <2>6, <2>7, <2>8, <1>5
  <1>8. ASSUME Cardinality(G) < slots, NEW w \in W, src[w] \notin busy
        PROVE  \E a \in G : src[a] = src[w]
    <2>1. E \subseteq G
      <3>1. SUFFICES ASSUME E \ G # {} PROVE FALSE
        OBVIOUS
      <3>2. PICK e \in E \ G : \A v \in E \ G : line[e] <= line[v]
        <4>1. \A v \in E \ G : line[v] \in Nat
          BY <1>1
        <4> QED
          BY <3>1, <4>1, LeastBy
      <3>3. Below(e) \in SUBSET G
        <4>1. \A v \in E : line[v] \in Nat
          BY <1>1
        <4> QED
          BY <3>2, <4>1
      <3>4. Cardinality(Below(e)) <= Cardinality(G)
        BY <3>3, <1>3, FS_Subset
      <3>5. ~ (Cardinality(Below(e)) < slots)
        BY <1>2
      <3> QED
        BY <3>4, <3>5, <1>4, <1>5, <1>8
    <2> DEFINE Same == {v \in W : src[v] = src[w]}
    <2>2. PICK f \in Same : \A v \in Same : line[f] <= line[v]
      <3>1. Same # {} /\ \A v \in Same : line[v] \in Nat
        OBVIOUS
      <3> QED
        BY <3>1, LeastBy
    <2>3. f \in E
      BY <2>2, <1>0, <1>8 DEF Eligible
    <2> QED
      BY <2>1, <2>2, <2>3
  <1> QED
    BY <1>1, <1>2, <1>3, <1>5, <1>6, <1>7, <1>8

-----------------------------------------------------------------------------
\* One dispatch, seen from outside: of the waiters W the set G joins the holders
\* H, and the list, the counter and the busy sources follow.
Dispatched(W, H, src, max, G) ==
    /\ starting' = starting \cup G
    /\ place' \in [W \ G -> Nat]
    /\ \A a, b \in W \ G : place'[a] = place'[b] => a = b
    /\ \A w \in W \ G : place'[w] < Cardinality(W \ G)
    /\ active' = Cardinality(H \cup G)
    /\ activeSources' = {src[h] : h \in H \cup G}
    /\ \A a, b \in H \cup G : a # b => src[a] # src[b]
    /\ G # {} => active' <= max
    /\ active' < max => \A w \in W \ G : src[w] \in activeSources'

\* A dispatch from consistent counters is such a step.
LEMMA DispatchStep ==
    ASSUME NEW W \in SUBSET Ids, NEW pl \in [W -> Nat], Injective(pl),
           order \in Seq(Ids),
           NEW H \in SUBSET Ids, H \cap W = {},
           NEW src, \A a, b \in H : a # b => src[a] # src[b],
           NEW act, act = Cardinality(H),
           NEW busy, \A k : k \in busy <=> \E h \in H : k = src[h],
           NEW max \in Nat,
           Dispatch(pl, src, act, busy, max)
    PROVE  \E G \in SUBSET W : Dispatched(W, H, src, max, G)
  <1> DEFINE line == Line(order, pl, act, max)
             G    == Grants(line, src, busy, max - act)
  <1>1. IsFiniteSet(W) /\ IsFiniteSet(H) /\ act \in Nat
    BY GateAssumption, FS_Subset, FS_CardinalityType DEF GateAssumption
  <1>2. line \in [W -> Nat] /\ Injective(line)
    BY <1>1, LineIsAList
  <1>3. /\ G \subseteq W
        /\ IsFiniteSet(G)
        /\ Cardinality(G) \in Nat
        /\ \A a \in G : src[a] \notin busy
        /\ \A a, b \in G : src[a] = src[b] => a = b
        /\ G # {} => Cardinality(G) <= max - act
        /\ Cardinality(G) < max - act =>
              \A w \in W : src[w] \in busy \/ \E a \in G : src[a] = src[w]
    <2> HIDE DEF line
    <2>1. max - act \in Int
      BY <1>1
    <2> QED
      BY <1>1, <1>2, <2>1, GrantsAreRight
  <1>4. /\ place' = ListBy(W \ G, line)
        /\ active' = act + Cardinality(G)
        /\ activeSources' = busy \cup {src[w] : w \in G}
        /\ starting' = starting \cup G
    <2>1. DOMAIN line = W
      BY <1>2
    <2> QED
      BY <2>1 DEF Dispatch
  <1> HIDE DEF line, G
  <1>5. /\ place' \in [W \ G -> Nat]
        /\ Injective(place')
        /\ \A w \in W \ G : place'[w] < Cardinality(W \ G)
    <2>1. IsFiniteSet(W \ G)
      BY <1>1, FS_Difference
    <2>2. /\ \A w \in W \ G : line[w] \in Nat
          /\ \A v, w \in W \ G : line[v] = line[w] => v = w
      BY <1>2 DEF Injective
    <2> QED
      BY <1>4, <2>1, <2>2, ListByOrders
  <1>6. active' = Cardinality(H \cup G)
    <2>1. H \cap G = {}
      BY <1>3
    <2> QED
      BY <2>1, <1>1, <1>3, <1>4, DisjointUnionCount
  <1>7. activeSources' = {src[h] : h \in H \cup G}
    BY <1>4
  <1>8. \A a, b \in H \cup G : a # b => src[a] # src[b]
    BY <1>3
  <1>9. G # {} => active' <= max
    BY <1>1, <1>3, <1>4
  <1>10. active' < max => \A w \in W \ G : src[w] \in activeSources'
    BY <1>1, <1>3, <1>4
  <1> QED
    BY <1>3, <1>4, <1>5, <1>6, <1>7, <1>8, <1>9, <1>10 DEF Injective, Dispatched

\* The gate starts with nobody waiting and nobody holding.
LEMMA InitInv == GateInit => GateInv
  <1> SUFFICES ASSUME GateInit PROVE GateInv
    OBVIOUS
  <1> USE GateAssumption DEF GateAssumption, GateInit
  <1>1. waiting = {} /\ granted = {}
    BY DEF waiting, granted
  <1>2. GateTypeOK
    BY <1>1 DEF GateTypeOK
  <1>3. QueueAndSlotsApart
    BY <1>1 DEF QueueAndSlotsApart
  <1>4. SlotsMatchHolders
    BY <1>1, FS_EmptySet DEF SlotsMatchHolders
  <1>5. SourceSerial
    BY <1>1 DEF SourceSerial
  <1>6. WorkConserving
    BY <1>1 DEF WorkConserving
  <1> QED
    BY <1>2, <1>3, <1>4, <1>5, <1>6 DEF GateInv

\* The appended list has distinct indices again.
LEMMA AppendedList ==
    ASSUME GateInv, NEW id \in Ids, id \notin waiting
    PROVE  LET pl == [w \in waiting \cup {id} |->
                         IF w = id THEN Cardinality(waiting) ELSE place[w]]
           IN  pl \in [waiting \cup {id} -> Nat] /\ Injective(pl)
  <1>1. Cardinality(waiting) \in Nat
    BY GateAssumption, FS_Subset, FS_CardinalityType
       DEF GateAssumption, GateInv, GateTypeOK
  <1>2. /\ \A w \in waiting : place[w] \in Nat /\ place[w] < Cardinality(waiting)
        /\ \A a, b \in waiting : place[a] = place[b] => a = b
    BY DEF GateInv, GateTypeOK, QueueAndSlotsApart
  <1> QED
    BY <1>1, <1>2 DEF Injective

\* What an acquire does: id joins the waiters, and of these the set G is
\* granted a slot.
LEMMA AcquireStep ==
    ASSUME GateInv, NEW id \in Ids, NEW s \in SourcesOf[id], NEW m \in Limits,
           Acquire(id, s, m)
    PROVE  \E G \in SUBSET (waiting \cup {id}) :
              /\ maxConcurrent' \in Nat \ {0}
              /\ source' = [source EXCEPT ![id] = s]
              /\ s \in Sources
              /\ holding' = holding /\ order' = order
              /\ id \notin waiting /\ id \notin granted
              /\ Dispatched(waiting \cup {id}, granted, source', maxConcurrent', G)
  <1> DEFINE pl == [w \in waiting \cup {id} |->
                       IF w = id THEN Cardinality(waiting) ELSE place[w]]
  <1>1. id \notin waiting /\ id \notin granted
    BY DEF Acquire
  <1>2. pl \in [waiting \cup {id} -> Nat] /\ Injective(pl)
    BY <1>1, AppendedList
  <1>3. m \in Nat /\ s \in Sources
    BY GateAssumption DEF GateAssumption
  <1>4. maxConcurrent' \in Nat \ {0}
    BY <1>3 DEF Acquire
  <1>5. source' = [source EXCEPT ![id] = s]
    BY DEF Acquire
  <1>6. /\ granted \in SUBSET Ids
        /\ granted \cap (waiting \cup {id}) = {}
        /\ waiting \cup {id} \in SUBSET Ids
    BY <1>1 DEF GateInv, GateTypeOK, QueueAndSlotsApart, granted
  <1>7. \A h \in granted : source'[h] = source[h]
    BY <1>1, <1>5, <1>6 DEF GateInv, GateTypeOK
  <1>8. /\ active = Cardinality(granted)
        /\ \A k : k \in activeSources <=> \E h \in granted : k = source'[h]
    BY <1>7 DEF GateInv, SlotsMatchHolders, SourceSerial
  <1>9. \A a, b \in granted : a # b => source'[a] # source'[b]
    BY <1>7 DEF GateInv, SourceSerial
  <1>10. order \in Seq(Ids)
    BY GateAssumption DEF GateAssumption, GateInv, GateTypeOK
  <1>11. Dispatch(pl, source', active, activeSources, maxConcurrent')
    BY DEF Acquire
  <1> HIDE DEF pl
  <1>12. \E G \in SUBSET (waiting \cup {id}) :
              Dispatched(waiting \cup {id}, granted, source', maxConcurrent', G)
    BY <1>2, <1>4, <1>6, <1>8, <1>9, <1>10, <1>11, DispatchStep
  <1>13. holding' = holding /\ order' = order
    BY DEF Acquire
  <1> QED
    BY <1>1, <1>3, <1>4, <1>5, <1>12, <1>13

\* What a release does: id leaves the holders H, and of the waiters the set G
\* is granted a slot.
LEMMA ReleaseStep ==
    ASSUME GateInv, NEW id \in Ids, Release(id)
    PROVE  \E G \in SUBSET waiting :
              /\ maxConcurrent' = maxConcurrent
              /\ source' = [source EXCEPT ![id] = NoSource]
              /\ holding' = holding \ {id} /\ order' = order
              /\ id \notin waiting /\ id \notin starting /\ id \in holding
              /\ Dispatched(waiting, granted \ {id}, source, maxConcurrent, G)
  <1> DEFINE H == granted \ {id}
             act == IF active > 0 THEN active - 1 ELSE active
             busy == activeSources \ {source[id]}
  <1>1. id \in holding /\ id \in granted /\ id \notin waiting /\ id \notin starting
    BY DEF Release, granted, GateInv, QueueAndSlotsApart
  <1>2. /\ waiting \in SUBSET Ids /\ place \in [waiting -> Nat] /\ Injective(place)
        /\ H \in SUBSET Ids /\ H \cap waiting = {}
        /\ maxConcurrent \in Nat
    BY DEF GateInv, GateTypeOK, QueueAndSlotsApart, granted, Injective
  <1>3. \A a, b \in H : a # b => source[a] # source[b]
    BY DEF GateInv, SourceSerial
  <1>4. IsFiniteSet(granted)
    BY GateAssumption, FS_Subset DEF GateAssumption, GateInv, GateTypeOK, granted
  <1>5. act = Cardinality(H)
    <2>1. Cardinality(H) = Cardinality(granted) - 1 /\ Cardinality(H) \in Nat
      BY <1>1, <1>4, FS_RemoveElement, FS_CardinalityType
    <2>2. active = Cardinality(granted) /\ active \in Nat
      BY DEF GateInv, GateTypeOK, SlotsMatchHolders
    <2> QED
      BY <2>1, <2>2
  <1>6. \A k : k \in busy <=> \E h \in H : k = source[h]
    BY <1>1 DEF GateInv, SourceSerial
  <1>7. order \in Seq(Ids)
    BY GateAssumption DEF GateAssumption, GateInv, GateTypeOK
  <1>8. Dispatch(place, source, act, busy, maxConcurrent)
    BY DEF Release
  <1> HIDE DEF H, act, busy
  <1>9. \E G \in SUBSET waiting : Dispatched(waiting, H, source, maxConcurrent, G)
    BY <1>2, <1>3, <1>5, <1>6, <1>7, <1>8, DispatchStep
  <1>10. /\ maxConcurrent' = maxConcurrent
         /\ source' = [source EXCEPT ![id] = NoSource]
         /\ holding' = holding \ {id} /\ order' = order
    BY DEF Release
  <1> QED
    BY <1>1, <1>9, <1>10 DEF H

-----------------------------------------------------------------------------
\* A step that dispatches the waiters W to the holders H, all of which have the
\* source src gives them, while the ids that acquire or release make W and H.
StepDispatches(W, H, src, G) ==
    /\ W \subseteq Ids /\ H \subseteq Ids /\ G \subseteq W /\ H \cap W = {}
    /\ Dispatched(W, H, src, maxConcurrent', G)
    /\ maxConcurrent' \in Nat \ {0}
    /\ order' \in Orders
    /\ holding' \subseteq Ids /\ starting \subseteq Ids
    /\ starting \cup holding' = H /\ starting \cap holding' = {}
    /\ source' \in [Ids -> Sources \cup {NoSource}]
    /\ \A k \in W \cup H : source'[k] = src[k] /\ src[k] # NoSource
    /\ \A k \in Ids \ (W \cup H) : source'[k] = NoSource

\* Such a step establishes the invariant.
LEMMA DispatchedKeepsInv ==
    ASSUME NEW W, NEW H, NEW src, NEW G, StepDispatches(W, H, src, G)
    PROVE  GateInv'
  <1> USE DEF StepDispatches
  <1> USE GateAssumption DEF GateAssumption
  <1>1. /\ waiting' = W \ G
        /\ granted' = H \cup G
        /\ starting' = starting \cup G
    BY DEF Dispatched, waiting, granted
  <1>2. \A k \in H \cup G : source'[k] = src[k]
    OBVIOUS
  <1>3. active' \in Nat /\ activeSources' \subseteq Sources
    <2>1. IsFiniteSet(H \cup G)
      BY FS_Subset
    <2>2. active' \in Nat
      BY <2>1, FS_CardinalityType DEF Dispatched
    <2>3. \A k \in H \cup G : src[k] \in Sources
      OBVIOUS
    <2> QED
      BY <2>2, <2>3 DEF Dispatched
  <1>4. GateTypeOK'
    BY <1>1, <1>3 DEF GateTypeOK, Dispatched
  <1>5. QueueAndSlotsApart'
    <2>1. \A a, b \in waiting' : place'[a] = place'[b] => a = b
      BY <1>1 DEF Dispatched
    <2>2. \A a \in waiting' : place'[a] < Cardinality(waiting')
      BY <1>1 DEF Dispatched
    <2>3. waiting' \cap granted' = {} /\ starting' \cap holding' = {}
      BY <1>1
    <2>4. \A k \in Ids : source'[k] # NoSource <=> k \in waiting' \cup granted'
      BY <1>1
    <2> QED
      BY <2>1, <2>2, <2>3, <2>4 DEF QueueAndSlotsApart
  <1>6. SlotsMatchHolders'
    BY <1>1 DEF SlotsMatchHolders, Dispatched
  <1>7. SourceSerial'
    BY <1>1, <1>2 DEF SourceSerial, Dispatched
  <1>8. WorkConserving'
    BY <1>1 DEF WorkConserving, Dispatched
  <1> QED
    BY <1>4, <1>5, <1>6, <1>7, <1>8 DEF GateInv

\* Every step of the gate keeps the invariant.
LEMMA StepKeepsInv == GateInv /\ [GateNext]_gateVars => GateInv'
  <1> SUFFICES ASSUME GateInv, [GateNext]_gateVars PROVE GateInv'
    OBVIOUS
  <1> USE GateAssumption DEF GateAssumption
  <1>0. /\ waiting \in SUBSET Ids /\ granted \in SUBSET Ids
        /\ starting \in SUBSET Ids /\ holding \in SUBSET Ids
        /\ starting \cap holding = {} /\ waiting \cap granted = {}
        /\ source \in [Ids -> Sources \cup {NoSource}]
        /\ order \in Orders /\ maxConcurrent \in Nat \ {0}
        /\ \A k \in Ids : source[k] # NoSource <=> k \in waiting \cup granted
    BY DEF GateInv, GateTypeOK, QueueAndSlotsApart, granted
  <1>1. ASSUME NEW id \in Ids, NEW s \in SourcesOf[id], NEW m \in Limits,
               Acquire(id, s, m)
        PROVE  GateInv'
    <2>1. PICK G \in SUBSET (waiting \cup {id}) :
              /\ maxConcurrent' \in Nat \ {0}
              /\ source' = [source EXCEPT ![id] = s]
              /\ s \in Sources
              /\ holding' = holding /\ order' = order
              /\ id \notin waiting /\ id \notin granted
              /\ Dispatched(waiting \cup {id}, granted, source', maxConcurrent', G)
      BY <1>1, AcquireStep
    <2>2. /\ \A k \in waiting \cup {id} \cup granted : source'[k] # NoSource
          /\ \A k \in Ids \ (waiting \cup {id} \cup granted) : source'[k] = NoSource
          /\ source' \in [Ids -> Sources \cup {NoSource}]
      BY <1>0, <2>1
    <2>3. /\ waiting \cup {id} \in SUBSET Ids
          /\ granted \cap (waiting \cup {id}) = {}
          /\ holding' \in SUBSET Ids /\ order' \in Orders
          /\ starting \cup holding' = granted /\ starting \cap holding' = {}
      BY <1>0, <2>1 DEF granted
    <2> DEFINE W == waiting \cup {id}
    <2>8. PICK src : src = source'
      OBVIOUS
    <2>4. \A k \in W \cup granted : source'[k] = src[k] /\ src[k] # NoSource
      BY <2>2, <2>8
    <2>5. \A k \in Ids \ (W \cup granted) : source'[k] = NoSource
      BY <2>2
    <2>6. Dispatched(W, granted, src, maxConcurrent', G)
      BY <2>1, <2>8
    <2>7. W \in SUBSET Ids /\ granted \cap W = {} /\ G \in SUBSET W
      BY <2>3
    <2>9. /\ maxConcurrent' \in Nat \ {0} /\ order' \in Orders
          /\ granted \in SUBSET Ids
          /\ holding' \in SUBSET Ids /\ starting \in SUBSET Ids
          /\ starting \cup holding' = granted /\ starting \cap holding' = {}
          /\ source' \in [Ids -> Sources \cup {NoSource}]
      BY <1>0, <2>1, <2>2, <2>3
    <2>10. StepDispatches(W, granted, src, G)
      <3> HIDE DEF W
      <3> QED
        BY <2>4, <2>5, <2>6, <2>7, <2>9 DEF StepDispatches
    <2> QED
      BY <2>10, DispatchedKeepsInv
  <1>2. ASSUME NEW id \in Ids, StartTimer(id) PROVE GateInv'
    <2>1. /\ id \in starting
          /\ starting' = starting \ {id} /\ holding' = holding \cup {id}
          /\ UNCHANGED <<place, source, active, activeSources, maxConcurrent, order>>
      BY <1>2 DEF StartTimer
    <2>2. waiting' = waiting /\ granted' = granted
      BY <2>1 DEF waiting, granted
    <2>3. GateTypeOK' /\ QueueAndSlotsApart'
      BY <1>0, <2>1, <2>2 DEF GateInv, GateTypeOK, QueueAndSlotsApart
    <2>4. SlotsMatchHolders' /\ SourceSerial' /\ WorkConserving'
      BY <2>1, <2>2 DEF GateInv, SlotsMatchHolders, SourceSerial, WorkConserving
    <2> QED
      BY <2>3, <2>4 DEF GateInv
  <1>3. ASSUME NEW id \in Ids, Release(id) PROVE GateInv'
    <2>1. PICK G \in SUBSET waiting :
              /\ maxConcurrent' = maxConcurrent
              /\ source' = [source EXCEPT ![id] = NoSource]
              /\ holding' = holding \ {id} /\ order' = order
              /\ id \notin waiting /\ id \notin starting /\ id \in holding
              /\ Dispatched(waiting, granted \ {id}, source, maxConcurrent, G)
      BY <1>3, ReleaseStep
    <2>2. /\ \A k \in waiting \cup (granted \ {id}) :
                source'[k] = source[k] /\ source[k] # NoSource
          /\ \A k \in Ids \ (waiting \cup (granted \ {id})) : source'[k] = NoSource
          /\ source' \in [Ids -> Sources \cup {NoSource}]
      BY <1>0, <2>1
    <2>3. /\ (granted \ {id}) \in SUBSET Ids
          /\ (granted \ {id}) \cap waiting = {}
          /\ holding' \in SUBSET Ids
          /\ starting \cup holding' = granted \ {id} /\ starting \cap holding' = {}
      BY <1>0, <2>1 DEF granted
    <2>4. StepDispatches(waiting, granted \ {id}, source, G)
      BY <1>0, <2>1, <2>2, <2>3 DEF StepDispatches
    <2> QED
      BY <2>4, DispatchedKeepsInv
  <1>4. ASSUME NEW o \in Orders, SetOrder(o) PROVE GateInv'
    BY <1>0, <1>4 DEF SetOrder, GateInv, GateTypeOK, QueueAndSlotsApart,
                      SlotsMatchHolders, SourceSerial, WorkConserving, waiting, granted
  <1>5. ASSUME UNCHANGED gateVars PROVE GateInv'
    BY <1>5 DEF gateVars, GateInv, GateTypeOK, QueueAndSlotsApart,
                SlotsMatchHolders, SourceSerial, WorkConserving, waiting, granted
  <1> QED
    BY <1>1, <1>2, <1>3, <1>4, <1>5 DEF GateNext

\* The invariant holds in every reachable state of the gate.
LEMMA InvHolds == GateSpec => []GateInv
  BY InitInv, StepKeepsInv, PTL DEF GateSpec

\* The gate's state is always well typed (all of download_gate.dart).
THEOREM TypeCorrect == GateSpec => []GateTypeOK
  <1>1. GateInv => GateTypeOK
    BY DEF GateInv
  <1> QED
    BY <1>1, InvHolds, PTL

\* No slot is leaked or forged: _active counts the downloads that hold one.
THEOREM SlotCounting == GateSpec => []SlotsMatchHolders
  <1>1. GateInv => SlotsMatchHolders
    BY DEF GateInv
  <1> QED
    BY <1>1, InvHolds, PTL

\* A source is never downloaded from twice at once, and _activeSources names
\* exactly the sources in use.
THEOREM SerialPerSource == GateSpec => []SourceSerial
  <1>1. GateInv => SourceSerial
    BY DEF GateInv
  <1> QED
    BY <1>1, InvHolds, PTL

\* No lost wake-up: acquire and release never leave a download waiting that
\* could have started.
THEOREM NoLostWakeUp == GateSpec => []WorkConserving
  <1>1. GateInv => WorkConserving
    BY DEF GateInv
  <1> QED
    BY <1>1, InvHolds, PTL

\* What is granted in a step is within the limit after it.
LEMMA StepGrantsUnderLimit ==
    ASSUME GateInv, GateNext, starting' \ starting # {}
    PROVE  active' <= maxConcurrent'
  <1>1. ASSUME NEW id \in Ids, NEW s \in SourcesOf[id], NEW m \in Limits,
               Acquire(id, s, m)
        PROVE  active' <= maxConcurrent'
    BY <1>1, AcquireStep DEF Dispatched
  <1>2. ASSUME NEW id \in Ids, StartTimer(id) PROVE FALSE
    BY <1>2 DEF StartTimer
  <1>3. ASSUME NEW id \in Ids, Release(id) PROVE active' <= maxConcurrent'
    BY <1>3, ReleaseStep DEF Dispatched
  <1>4. ASSUME NEW o \in Orders, SetOrder(o) PROVE FALSE
    BY <1>4 DEF SetOrder
  <1> QED
    BY <1>1, <1>2, <1>3, <1>4 DEF GateNext

\* No download is granted a slot above the limit, whatever the limit was when
\* the others started.
THEOREM LimitRespected == GateSpec => GrantsUnderLimit
  <1>1. GateInv /\ [GateNext]_gateVars =>
           [starting' \ starting # {} => active' <= maxConcurrent']_gateVars
    BY StepGrantsUnderLimit
  <1> QED
    BY <1>1, InvHolds, PTL DEF GateSpec, GrantsUnderLimit

-----------------------------------------------------------------------------
\* A waiter the scan grants stands in the line before every waiter it leaves
\* behind that shares its source or whose source is idle afterwards.
LEMMA GrantedStandsBefore ==
    ASSUME NEW W, IsFiniteSet(W), NEW line \in [W -> Nat], Injective(line),
           NEW src, NEW busy, NEW slots \in Int,
           NEW G, G = Grants(line, src, busy, slots),
           NEW w \in G, NEW v \in W \ G,
           src[v] = src[w] \/ src[v] \notin busy \cup {src[g] : g \in G}
    PROVE  line[w] < line[v]
  <1> DEFINE E == Eligible(line, src, busy)
             Below(x) == {y \in E : line[y] < line[x]}
             Same == {x \in W : src[x] = src[v]}
  <1>0. DOMAIN line = W /\ \A x \in W : line[x] \in Nat
    OBVIOUS
  <1>1. E \subseteq W /\ \A x \in E : \A y \in W : src[y] = src[x] => line[x] <= line[y]
    BY <1>0 DEF Eligible
  <1>2. G \subseteq E /\ \A x \in E : x \in G <=> Cardinality(Below(x)) < slots
    BY DEF Grants
  <1>3. \A x \in E : /\ Below(x) \in SUBSET E
                     /\ IsFiniteSet(Below(x))
                     /\ Cardinality(Below(x)) \in Nat
    <2>1. IsFiniteSet(E)
      BY <1>1, FS_Subset
    <2> QED
      BY <2>1, FS_Subset, FS_CardinalityType
  <1>4. CASE src[v] = src[w]
    <2>1. line[w] <= line[v]
      BY <1>1, <1>2, <1>4
    <2>2. line[w] # line[v]
      BY <1>0, <1>1, <1>2 DEF Injective
    <2> QED
      BY <2>1, <2>2, <1>0, <1>1, <1>2
  <1>5. CASE src[v] \notin busy \cup {src[g] : g \in G}
    <2>1. PICK f \in Same : \A x \in Same : line[f] <= line[x]
      <3>1. Same # {} /\ \A x \in Same : line[x] \in Nat
        BY <1>0
      <3> QED
        BY <3>1, LeastBy
    <2>2. f \in E
      BY <2>1, <1>0, <1>5 DEF Eligible
    <2>3. f \notin G
      BY <2>1, <1>5
    <2>4. line[w] < line[f]
      <3>1. SUFFICES ASSUME line[f] <= line[w] PROVE FALSE
        BY <1>0, <1>1, <1>2, <2>2
      <3>2. Below(f) \in SUBSET Below(w)
        <4>1. \A x \in E : line[x] \in Nat
          BY <1>0, <1>1
        <4> QED
          BY <3>1, <4>1, <1>2, <2>2
      <3>3. Cardinality(Below(f)) <= Cardinality(Below(w))
        BY <3>2, <1>2, <1>3, FS_Subset
      <3>4. Cardinality(Below(w)) < slots /\ ~ (Cardinality(Below(f)) < slots)
        BY <1>2, <2>2, <2>3
      <3>5. Cardinality(Below(f)) \in Nat /\ Cardinality(Below(w)) \in Nat
        BY <1>2, <1>3, <2>2
      <3> HIDE DEF Below
      <3> QED
        BY <3>3, <3>4, <3>5
    <2>5. line[f] <= line[v]
      BY <2>1
    <2> QED
      BY <2>4, <2>5, <1>0, <1>1, <1>2, <2>2
  <1> QED
    BY <1>4, <1>5

\* Who stands before another in the reordered line precedes it in the order the
\* user saved, or else in the list that was reordered.
LEMMA ReorderedPrecedes ==
    ASSUME NEW o \in Seq(Ids), NEW W \in SUBSET Ids, NEW pl \in [W -> Nat],
           IsFiniteSet(W), Injective(pl),
           NEW w \in W, NEW v \in W, Reordered(o, pl)[w] < Reordered(o, pl)[v]
    PROVE  Precedes(o, pl, w, v)
  <1> DEFINE key == SortKey(o, pl)
  <1>0. DOMAIN pl = W /\ Len(o) \in Nat /\ \A x \in W : pl[x] \in Nat
    OBVIOUS
  <1>1. CASE o = <<>>
    <2>1. Ranked(o) = {}
      BY <1>1 DEF Ranked
    <2>2. pl[w] < pl[v]
      BY <1>1 DEF Reordered
    <2> QED
      BY <2>1, <2>2, <1>0 DEF Precedes
  <1>2. CASE o # <<>>
    <2>1. /\ \A x \in W : key[x] = IF x \in Ranked(o) THEN Rank(o, x) ELSE Len(o) + 1 + pl[x]
          /\ \A x \in W : key[x] \in Nat /\ (x \in Ranked(o) => key[x] <= Len(o))
          /\ \A x, y \in W : key[x] = key[y] => x = y
      BY SortKeysDiffer
    <2>2. ~ (Cardinality(W) < 2)
      <3>1. SUFFICES ASSUME Cardinality(W) < 2 PROVE FALSE
        OBVIOUS
      <3>2. w # v
        BY <1>0, <3>1 DEF Reordered
      <3>3. Cardinality({w}) < Cardinality(W)
        BY <3>2, ProperSubsetSmaller
      <3>4. Cardinality({w}) = 1 /\ Cardinality(W) \in Nat
        BY FS_Singleton, FS_CardinalityType
      <3> HIDE DEF key
      <3> QED
        BY <3>1, <3>3, <3>4
    <2>3. ListBy(W, key)[w] < ListBy(W, key)[v]
      BY <1>0, <1>2, <2>2 DEF Reordered
    <2>4. key[w] < key[v]
      <3>1. /\ ListBy(W, key) \in [W -> Nat]
            /\ key[v] < key[w] => ListBy(W, key)[v] < ListBy(W, key)[w]
        BY <2>1, ListByOrders
      <3>2. w # v
        BY <2>3, <3>1
      <3> HIDE DEF key
      <3> QED
        BY <2>1, <2>3, <3>1, <3>2
    <2> HIDE DEF key
    <2>5. CASE {w, v} \cap Ranked(o) # {}
      <3>1. w \in Ranked(o)
        BY <2>1, <2>4, <2>5, <1>0
      <3>2. v \in Ranked(o) => Rank(o, w) < Rank(o, v)
        BY <3>1, <2>1, <2>4
      <3> QED
        BY <3>1, <3>2, <2>5 DEF Precedes
    <2>6. CASE {w, v} \cap Ranked(o) = {}
      <3>1. w \notin Ranked(o) /\ v \notin Ranked(o)
        BY <2>6
      <3>2. Len(o) + 1 + pl[w] < Len(o) + 1 + pl[v]
        BY <3>1, <2>1, <2>4
      <3>3. pl[w] < pl[v]
        BY <3>2, <1>0
      <3> QED
        BY <3>3, <2>6, <1>0 DEF Precedes
    <2> QED
      BY <2>5, <2>6
  <1> QED
    BY <1>1, <1>2

\* A dispatch grants in the order of the list and the saved order.
LEMMA DispatchInOrder ==
    ASSUME NEW W \in SUBSET Ids, NEW pl \in [W -> Nat], Injective(pl),
           order \in Seq(Ids),
           NEW src, NEW act \in Nat, NEW busy, NEW max \in Nat,
           Dispatch(pl, src, act, busy, max),
           NEW w \in starting' \ starting, NEW v \in DOMAIN place',
           src[v] = src[w] \/ src[v] \notin activeSources'
    PROVE  w \in W /\ v \in W /\ Precedes(order, pl, w, v)
  <1> DEFINE line == Line(order, pl, act, max)
             G    == Grants(line, src, busy, max - act)
  <1>1. IsFiniteSet(W)
    BY GateAssumption, FS_Subset DEF GateAssumption
  <1>2. line \in [W -> Nat] /\ Injective(line)
    BY <1>1, LineIsAList
  <1>3. /\ place' = ListBy(W \ G, line)
        /\ activeSources' = busy \cup {src[g] : g \in G}
        /\ starting' = starting \cup G
    <2>1. DOMAIN line = W
      BY <1>2
    <2> QED
      BY <2>1 DEF Dispatch
  <1>4. G \subseteq W /\ Cardinality(G) \in Nat /\ (G # {} => Cardinality(G) <= max - act) /\ IsFiniteSet(G)
    <2> HIDE DEF line
    <2>1. max - act \in Int
      OBVIOUS
    <2> QED
      BY <1>1, <1>2, <2>1, GrantsAreRight
  <1>5. w \in G /\ v \in W \ G
    BY <1>3 DEF ListBy
  <1>6. line[w] < line[v]
    <2>1. src[v] = src[w] \/ src[v] \notin busy \cup {src[g] : g \in G}
      BY <1>3
    <2>2. max - act \in Int
      OBVIOUS
    <2>3. PICK H : H = G
      OBVIOUS
    <2>4. /\ H = Grants(line, src, busy, max - act)
          /\ w \in H /\ v \in W \ H
          /\ src[v] = src[w] \/ src[v] \notin busy \cup {src[g] : g \in H}
      BY <1>5, <2>1, <2>3
    <2> HIDE DEF line, G
    <2> QED
      BY <1>1, <1>2, <2>2, <2>4, GrantedStandsBefore
  <1>7. act < max
    <2>1. Cardinality(G) # 0
      BY <1>4, <1>5, FS_EmptySet
    <2> HIDE DEF G
    <2> QED
      BY <1>4, <1>5, <2>1
  <1>8. line = Reordered(order, pl)
    BY <1>7 DEF Line
  <1> HIDE DEF line, G
  <1> QED
    BY <1>1, <1>4, <1>5, <1>6, <1>8, ReorderedPrecedes

\* Every step of the gate that grants slots grants them in order.
LEMMA StepGrantsInOrder ==
    ASSUME GateInv, GateNext,
           NEW w \in starting' \ starting, NEW v \in DOMAIN place',
           source'[v] = source'[w] \/ source'[v] \notin activeSources'
    PROVE  Precedes(order, place, w, v)
  <1>0. /\ waiting \in SUBSET Ids /\ place \in [waiting -> Nat] /\ Injective(place)
        /\ active \in Nat /\ maxConcurrent \in Nat /\ order \in Seq(Ids)
        /\ source \in [Ids -> Sources \cup {NoSource}]
    BY GateAssumption DEF GateAssumption, GateInv, GateTypeOK, QueueAndSlotsApart, Injective
  <1>1. ASSUME NEW id \in Ids, NEW s \in SourcesOf[id], NEW m \in Limits,
               Acquire(id, s, m)
        PROVE  Precedes(order, place, w, v)
    <2> DEFINE W == waiting \cup {id}
               pl == [x \in W |-> IF x = id THEN Cardinality(waiting) ELSE place[x]]
    <2>1. /\ id \notin waiting
          /\ maxConcurrent' \in Nat
          /\ Dispatch(pl, source', active, activeSources, maxConcurrent')
      BY <1>1, GateAssumption DEF GateAssumption, Acquire
    <2>2. pl \in [W -> Nat] /\ Injective(pl) /\ W \in SUBSET Ids
      BY <1>0, <2>1, AppendedList
    <2>3. PICK src, max : src = source' /\ max = maxConcurrent'
      OBVIOUS
    <2>4. /\ max \in Nat /\ Dispatch(pl, src, active, activeSources, max)
          /\ src[v] = src[w] \/ src[v] \notin activeSources'
      BY <2>1, <2>3
    <2>5. w \in W /\ v \in W /\ Precedes(order, pl, w, v)
      <3> HIDE DEF W, pl
      <3> QED
        BY <1>0, <2>2, <2>4, DispatchInOrder
    <2>6. CASE {w, v} \cap Ranked(order) # {}
      BY <2>5, <2>6 DEF Precedes
    <2>7. CASE {w, v} \cap Ranked(order) = {}
      <3>1. pl[w] < pl[v]
        BY <2>5, <2>7 DEF Precedes
      <3>2. ASSUME v \in waiting PROVE w \in waiting /\ place[w] < place[v]
        <4>1. place[v] < Cardinality(waiting) /\ place[v] \in Nat /\ pl[v] = place[v]
          BY <1>0, <2>1, <3>2 DEF GateInv, QueueAndSlotsApart
        <4>2. Cardinality(waiting) \in Nat
          BY GateAssumption, FS_Subset, FS_CardinalityType, <1>0 DEF GateAssumption
        <4>3. w # id
          BY <3>1, <4>1, <4>2, <2>5
        <4> QED
          BY <2>5, <3>1, <4>1, <4>3
      <3> QED
        BY <2>7, <3>2 DEF Precedes, waiting
    <2> QED
      BY <2>6, <2>7
  <1>2. ASSUME NEW id \in Ids, StartTimer(id) PROVE FALSE
    BY <1>2 DEF StartTimer
  <1>3. ASSUME NEW id \in Ids, Release(id) PROVE Precedes(order, place, w, v)
    <2> DEFINE act == IF active > 0 THEN active - 1 ELSE active
               busy == activeSources \ {source[id]}
    <2>1. /\ id \notin waiting /\ source' = [source EXCEPT ![id] = NoSource]
          /\ Dispatch(place, source, act, busy, maxConcurrent)
      BY <1>3 DEF Release, GateInv, QueueAndSlotsApart, granted
    <2>2. act \in Nat
      BY <1>0
    <2>3. w \in waiting /\ v \in waiting
      <3>1. PICK G \in SUBSET waiting :
                Dispatched(waiting, granted \ {id}, source, maxConcurrent, G)
        BY <1>3, ReleaseStep
      <3>2. starting' = starting \cup G /\ DOMAIN place' = waiting \ G
        BY <3>1 DEF Dispatched
      <3> QED
        BY <3>2
    <2>4. source[v] = source[w] \/ source[v] \notin activeSources'
      BY <1>0, <2>1, <2>3
    <2> HIDE DEF act, busy
    <2> QED
      BY <1>0, <2>1, <2>2, <2>4, DispatchInOrder
  <1>4. ASSUME NEW o \in Orders, SetOrder(o) PROVE FALSE
    BY <1>4 DEF SetOrder
  <1> QED
    BY <1>1, <1>2, <1>3, <1>4 DEF GateNext

\* Slots go out in the user's order: a download that gets one precedes every
\* download that could have had it and is left waiting (_dispatch and
\* _reorderWaiters), whatever the saved order, the limit and the sources are.
THEOREM GrantsFollowTheOrder == GateSpec => GrantsInQueueOrder
  <1> DEFINE A == \A w \in starting' \ starting, v \in DOMAIN place' :
                     (source'[v] = source'[w] \/ source'[v] \notin activeSources')
                     => Precedes(order, place, w, v)
  <1>1. GateInv /\ [GateNext]_gateVars => [A]_gateVars
    BY StepGrantsInOrder
  <1> QED
    BY <1>1, InvHolds, PTL DEF GateSpec, GrantsInQueueOrder

-----------------------------------------------------------------------------
\* The abstract module counts as this one does.
LEMMA SlotsCounting == \A S : Slots!Cardinality(S) = Cardinality(S)
  BY DEF Slots!Cardinality, Cardinality

\* A dispatched step fills the slots as the abstract specification allows.
LEMMA DispatchedFills ==
    ASSUME GateInv, GateInv',
           NEW W \in SUBSET Ids, NEW H \in SUBSET Ids, NEW G \in SUBSET W,
           H \cap W = {},
           NEW src, Dispatched(W, H, src, maxConcurrent', G),
           granted' = H \cup G,
           \A k \in W \cup H : source'[k] = src[k] /\ src[k] # NoSource,
           NEW w, w = [k \in Ids |-> IF k \in W THEN src[k] ELSE NoSource],
           NEW r, r = [k \in Ids |-> IF k \in H THEN src[k] ELSE NoSource]
    PROVE  Slots!Fill(w, r, G)
  <1>1. waiting' = W \ G
    BY DEF Dispatched, waiting
  <1>2. /\ SlotWants' = [k \in Ids |-> IF k \in W \ G THEN src[k] ELSE NoSource]
        /\ SlotRuns' = [k \in Ids |-> IF k \in H \cup G THEN src[k] ELSE NoSource]
    BY <1>1 DEF SlotWants, SlotRuns
  <1>3. /\ Slots!InUse(w) = W
        /\ Slots!InUse(SlotRuns') = H \cup G
        /\ Slots!InUse(SlotWants') = W \ G
    BY <1>2 DEF Slots!InUse
  <1>4. /\ SlotWants' = [k \in Ids |-> IF k \in G THEN NoSource ELSE w[k]]
        /\ SlotRuns' = [k \in Ids |-> IF k \in G THEN w[k] ELSE r[k]]
    BY <1>2
  <1>5. \A a, b \in H \cup G : a # b => SlotRuns'[a] # SlotRuns'[b]
    BY <1>2 DEF Dispatched
  <1>6. /\ G # {} => Cardinality(H \cup G) <= maxConcurrent'
        /\ Cardinality(H \cup G) < maxConcurrent' =>
              \A k \in W \ G : \E h \in H \cup G : SlotRuns'[h] = SlotWants'[k]
    BY <1>2 DEF Dispatched
  <1> QED
    BY <1>3, <1>4, <1>5, <1>6, SlotsCounting DEF Slots!Fill

\* A step of the gate is one of the slots, or changes nothing of them.
LEMMA StepKeepsSlots == GateInv /\ GateInv' /\ [GateNext]_gateVars => [Slots!Next]_(Slots!slotVars)
  <1> USE GateAssumption DEF GateAssumption
  <1> SUFFICES ASSUME GateInv, GateInv', [GateNext]_gateVars
               PROVE  [Slots!Next]_(Slots!slotVars)
    OBVIOUS
  <1>0. /\ waiting \in SUBSET Ids /\ granted \in SUBSET Ids
        /\ waiting \cap granted = {}
        /\ source \in [Ids -> Sources \cup {NoSource}]
        /\ \A k \in Ids : source[k] # NoSource <=> k \in waiting \cup granted
    BY DEF GateInv, GateTypeOK, QueueAndSlotsApart, granted
  <1>1. ASSUME NEW id \in Ids, NEW s \in SourcesOf[id], NEW m \in Limits,
               Acquire(id, s, m)
        PROVE  Slots!Next
    <2>1. PICK G \in SUBSET (waiting \cup {id}) :
              /\ maxConcurrent' \in Nat \ {0}
              /\ source' = [source EXCEPT ![id] = s]
              /\ s \in Sources
              /\ holding' = holding /\ order' = order
              /\ id \notin waiting /\ id \notin granted
              /\ Dispatched(waiting \cup {id}, granted, source', maxConcurrent', G)
      BY <1>1, AcquireStep
    <2>2. PICK src : src = source'
      OBVIOUS
    <2> DEFINE W == waiting \cup {id}
               w == [SlotWants EXCEPT ![id] = s]
    <2>3. /\ Dispatched(W, granted, src, maxConcurrent', G)
          /\ W \in SUBSET Ids /\ G \in SUBSET W /\ granted \cap W = {}
          /\ granted' = granted \cup G
      <3>1. starting' = starting \cup G
        BY <2>1 DEF Dispatched
      <3>2. granted' = granted \cup G
        BY <2>1, <3>1 DEF granted
      <3> QED
        BY <1>0, <2>1, <2>2, <3>2
    <2>4. \A k \in W \cup granted : source'[k] = src[k] /\ src[k] # NoSource
      BY <1>0, <2>1, <2>2
    <2>5. /\ w = [k \in Ids |-> IF k \in W THEN src[k] ELSE NoSource]
          /\ SlotRuns = [k \in Ids |-> IF k \in granted THEN src[k] ELSE NoSource]
      BY <1>0, <2>1, <2>2 DEF SlotWants, SlotRuns
    <2>6. Slots!Fill(w, SlotRuns, G)
      <3> HIDE DEF W, w
      <3> QED
        BY <1>0, <2>3, <2>4, <2>5, DispatchedFills
    <2>7. SlotWants[id] = NoSource /\ SlotRuns[id] = NoSource
      BY <2>1 DEF SlotWants, SlotRuns
    <2>8. Slots!Request(id, s)
      BY <2>1, <2>3, <2>6, <2>7, <1>0 DEF Slots!Request, SlotWants, SlotRuns
    <2> QED
      BY <2>1, <2>8 DEF Slots!Next
  <1>2. ASSUME NEW id \in Ids, StartTimer(id) PROVE UNCHANGED Slots!slotVars
    <2>1. /\ waiting' = waiting /\ granted' = granted
          /\ source' = source /\ maxConcurrent' = maxConcurrent
      BY <1>2 DEF StartTimer, waiting, granted
    <2> QED
      BY <2>1 DEF Slots!slotVars, SlotWants, SlotRuns
  <1>3. ASSUME NEW id \in Ids, Release(id) PROVE Slots!Next
    <2>1. PICK G \in SUBSET waiting :
              /\ maxConcurrent' = maxConcurrent
              /\ source' = [source EXCEPT ![id] = NoSource]
              /\ holding' = holding \ {id} /\ order' = order
              /\ id \notin waiting /\ id \notin starting /\ id \in holding
              /\ Dispatched(waiting, granted \ {id}, source, maxConcurrent, G)
      BY <1>3, ReleaseStep
    <2> DEFINE H == granted \ {id}
               r == [SlotRuns EXCEPT ![id] = NoSource]
    <2>2. /\ Dispatched(waiting, H, source, maxConcurrent', G)
          /\ H \in SUBSET Ids /\ H \cap waiting = {}
          /\ granted' = H \cup G
      <3>1. starting' = starting \cup G
        BY <2>1 DEF Dispatched
      <3>2. granted' = H \cup G
        BY <2>1, <3>1 DEF granted
      <3> QED
        BY <1>0, <2>1, <3>2
    <2>3. \A k \in waiting \cup H : source'[k] = source[k] /\ source[k] # NoSource
      BY <1>0, <2>1
    <2>4. /\ SlotWants = [k \in Ids |-> IF k \in waiting THEN source[k] ELSE NoSource]
          /\ r = [k \in Ids |-> IF k \in H THEN source[k] ELSE NoSource]
      BY <1>0 DEF SlotWants, SlotRuns
    <2>5. Slots!Fill(SlotWants, r, G)
      <3> HIDE DEF H, r
      <3> QED
        BY <1>0, <2>2, <2>3, <2>4, DispatchedFills
    <2>6. SlotRuns[id] # NoSource
      BY <1>0, <2>1 DEF SlotRuns, granted
    <2>7. Slots!Finish(id)
      BY <1>0, <2>1, <2>5, <2>6 DEF Slots!Finish, SlotWants, SlotRuns
    <2> QED
      BY <2>7 DEF Slots!Next
  <1>4. ASSUME NEW o \in Orders, SetOrder(o) PROVE UNCHANGED Slots!slotVars
    BY <1>4 DEF SetOrder, Slots!slotVars, SlotWants, SlotRuns, waiting, granted
  <1>5. ASSUME UNCHANGED gateVars PROVE UNCHANGED Slots!slotVars
    BY <1>5 DEF gateVars, Slots!slotVars, SlotWants, SlotRuns, waiting, granted
  <1> QED
    BY <1>1, <1>2, <1>3, <1>4, <1>5 DEF GateNext

\* The gate implements the slots it promises: every acquire and release maps to
\* one filling of the slots, timers and reorderings to none.
THEOREM GateImplementsSlots == GateSpec => ImplementsSlots
  <1> USE GateAssumption DEF GateAssumption
  <1>1. GateInit => Slots!Init
    <2> SUFFICES ASSUME GateInit PROVE Slots!Init
      OBVIOUS
    <2>1. waiting = {} /\ granted = {} /\ maxConcurrent = 1
      BY DEF GateInit, waiting, granted
    <2> QED
      BY <2>1 DEF Slots!Init, SlotWants, SlotRuns
  <1>2. GateInv /\ GateInv' /\ [GateNext]_gateVars => [Slots!Next]_(Slots!slotVars)
    BY StepKeepsSlots
  <1> QED
    BY <1>1, <1>2, InvHolds, PTL DEF GateSpec, ImplementsSlots, Slots!Spec
=============================================================================
