--------------------------- MODULE SyncClientProofs ---------------------------
(***************************************************************************)
(* Proofs about the sync client, for every set of rows, size of a request  *)
(* and number of changes: what of the library can be lost between the      *)
(* device, the requests and answers on their way, and the server.  The     *)
(* invariant is built in layers: the versions anyone holds (VersionInv),   *)
(* that one time means one value (AgreeInv), what was sent (SentInv), what *)
(* was pulled (PulledInv), and what becomes of a restore (RestoreInv).     *)
(***************************************************************************)
EXTENDS SyncClient, FiniteSetTheorems, SequenceTheorems, TLAPS

\* A proper subset of a finite set has fewer elements.
LEMMA ProperSubsetSmaller ==
    ASSUME NEW S, IsFiniteSet(S), NEW T \in SUBSET S, NEW x \in S, x \notin T
    PROVE  Cardinality(T) < Cardinality(S)
  <1>1. /\ IsFiniteSet(T)
        /\ Cardinality(T) <= Cardinality(S)
        /\ Cardinality(S) = Cardinality(T) => S = T
    BY FS_Subset
  <1>2. Cardinality(S) # Cardinality(T)
    BY <1>1
  <1> QED
    BY <1>1, <1>2, FS_CardinalityType

\* How many members of K lie below i.
RankIn(K, i) == Cardinality({j \in K : j < i})

\* The ranks of a finite set of naturals, how many of its members lie below each,
\* are the numbers below its cardinality, each taken once.
LEMMA RanksFillInterval ==
    ASSUME NEW K \in SUBSET Nat, IsFiniteSet(K)
    PROVE  /\ \A i \in K : RankIn(K, i) \in 0 .. Cardinality(K) - 1
           /\ \A i, k \in K : RankIn(K, i) = RankIn(K, k) => i = k
           /\ \A n \in 0 .. Cardinality(K) - 1 : \E i \in K : RankIn(K, i) = n
  <1> DEFINE Below(i) == {j \in K : j < i}
             rank == [i \in K |-> RankIn(K, i)]
             Ranks == 0 .. Cardinality(K) - 1
  <1>0. \A i \in K : rank[i] = Cardinality(Below(i))
    BY DEF RankIn
  <1>1. \A i \in K : IsFiniteSet(Below(i)) /\ Cardinality(Below(i)) \in Nat
    BY FS_Subset, FS_CardinalityType
  <1>2. Cardinality(K) \in Nat
    BY FS_CardinalityType
  <1>3. ASSUME NEW i \in K PROVE rank[i] \in Ranks
    <2>1. Below(i) \in SUBSET K /\ i \notin Below(i)
      OBVIOUS
    <2>2. Cardinality(Below(i)) < Cardinality(K)
      BY <2>1, ProperSubsetSmaller
    <2> QED
      BY <2>2, <1>1, <1>2, <1>0
  <1>4. ASSUME NEW i \in K, NEW k \in K, i < k PROVE rank[i] < rank[k]
    <2>0. i \in Nat /\ k \in Nat /\ \A j \in K : j \in Nat /\ (j < i => j < k)
      BY <1>4
    <2>1. \A j \in K : j < i => j < k
      BY <2>0
    <2>2. Below(i) \subseteq Below(k)
      BY <2>1
    <2>3. i \in Below(k) /\ i \notin Below(i)
      BY <2>0, <1>4
    <2> QED
      BY <2>2, <2>3, <1>1, <1>0, ProperSubsetSmaller
  <1>5. ASSUME NEW i \in K, NEW k \in K, rank[i] = rank[k] PROVE i = k
    <2>1. i \in Nat /\ k \in Nat /\ rank[i] \in Nat
      BY <1>1, <1>0
    <2>2. ~ (i < k) /\ ~ (k < i)
      BY <2>1, <1>4, <1>5
    <2> QED
      BY <2>1, <2>2
  <1>6. rank \in Injection(K, Ranks)
    BY <1>3, <1>5 DEF Injection, IsInjective
  <1>7. IsFiniteSet(Ranks) /\ Cardinality(K) = Cardinality(Ranks)
    <2>1. Cardinality(K) - 1 \in Int /\ 0 \in Int
      BY <1>2
    <2>2. IsFiniteSet(Ranks) /\ Cardinality(Ranks) =
              IF 0 > Cardinality(K) - 1 THEN 0 ELSE (Cardinality(K) - 1) - 0 + 1
      BY <2>1, FS_Interval
    <2> QED
      BY <2>2, <1>2
  <1>8. rank \in Surjection(K, Ranks)
    BY <1>6, <1>7, FS_Injection
  <1>9. \A n \in Ranks : \E i \in K : rank[i] = n
    BY <1>8 DEF Surjection
  <1> QED
    BY <1>3, <1>5, <1>9

Version == [at : Nat, val : Nat]
ServerRow == [at : Nat, val : Nat, stamp : Nat, gone : BOOLEAN]
Wires == [row : Rows, at : Nat, val : Nat]
Pages == UNION {[rs -> ServerRow] : rs \in SUBSET Rows}
SyncModes == Modes \cup {"upload"}

\* The states of a sync before its first request, and from there.
Starts == [phase : {"version"}, mode : SyncModes, bypass : BOOLEAN]
Loops ==
    [phase : {"posted", "answered", "clearing"}, mode : SyncModes, bypass : BOOLEAN,
     chunks : Seq(SUBSET Wires), deletions : SUBSET Rows, from : Nat, session : Nat,
     seen : SUBSET Rows, page : Pages, more : BOOLEAN]
Runs(s) == sync[s].phase \in {"posted", "answered", "clearing"}

SyncTypeOK ==
    /\ clock \in Nat \ {0} /\ since \in Nat
    /\ local \in [Rows -> Version] /\ backup \in [Rows -> Version]
    /\ latest \in [Rows -> Version] /\ server \in [Rows -> ServerRow]
    /\ outbox \subseteq Rows /\ deleted \subseteq Rows /\ missed \subseteq Rows
    /\ syncOn \in BOOLEAN /\ active \in BOOLEAN
    /\ sync \in [Slots -> {Off} \cup Starts \cup Loops]
    /\ restoring \in {"no", "busy", "uploading"}
    /\ restored \in [at : Nat, alone : BOOLEAN, pushed : BOOLEAN]

-----------------------------------------------------------------------------
(* The first layer: the versions of the rows.                              *)

\* No time lies ahead of the clock, and no version is newer than the newest.
TimesBounded ==
    /\ since <= clock
    /\ \A r \in Rows :
          /\ local[r].at <= latest[r].at /\ server[r].at <= latest[r].at
          /\ backup[r].at <= latest[r].at /\ latest[r].at <= clock
          /\ server[r].stamp <= clock

\* A row has a time exactly if it is there.
TimesTell ==
    \A r \in Rows :
        /\ local[r].at = 0 => local[r] = Absent
        /\ backup[r].at = 0 => backup[r] = Absent
        /\ server[r].at = 0 \/ server[r].stamp = 0 => server[r] = Unknown

\* What a sync has under way: rows for the server that were written in the past,
\* and a page from the server that the server has gone on from.
FlightOK(s) ==
    Runs(s) =>
        /\ \A i \in 1 .. Len(sync[s].chunks) :
              \A w \in sync[s].chunks[i] : 0 < w.at /\ w.at <= clock
        /\ \A r \in DOMAIN sync[s].page :
              /\ 0 < sync[s].page[r].at /\ sync[s].page[r].at <= server[r].at
              /\ sync[s].page[r].gone => server[r].gone
        /\ sync[s].session <= clock
        /\ sync[s].phase # "answered" => sync[s].page = <<>>
        /\ sync[s].phase # "posted" => sync[s].session > 0

\* Until a backup replaces the rows, the newest version of a row that nobody
\* deleted is held by the device or by the server.
HeldBy(r) == latest[r] = local[r] \/ latest[r] = [at |-> server[r].at, val |-> server[r].val]
NewestHeld ==
    \A r \in Rows : restored.at = 0 /\ r \notin deleted /\ ~server[r].gone => HeldBy(r)

VersionInv ==
    /\ SyncTypeOK /\ TimesBounded /\ TimesTell
    /\ \A s \in Slots : FlightOK(s)
    /\ NewestHeld

-----------------------------------------------------------------------------
(* Types.                                                                  *)

LEMMA NoRows == Absent \in Version /\ Unknown \in ServerRow
  BY DEF Absent, Unknown, Version, ServerRow

\* A row has the fields of its kind.
LEMMA RowFields ==
    ASSUME SyncTypeOK, NEW r \in Rows
    PROVE  /\ local[r] \in Version /\ local[r].at \in Nat /\ local[r].val \in Nat
           /\ backup[r] \in Version /\ backup[r].at \in Nat
           /\ latest[r] \in Version /\ latest[r].at \in Nat /\ latest[r].val \in Nat
           /\ server[r] \in ServerRow /\ server[r].at \in Nat /\ server[r].val \in Nat
           /\ server[r].stamp \in Nat /\ server[r].gone \in BOOLEAN
  BY DEF SyncTypeOK, Version, ServerRow

\* A sync that runs has the fields of the loop.
LEMMA LoopFields ==
    ASSUME SyncTypeOK, NEW s \in Slots, Runs(s)
    PROVE  /\ sync[s] \in Loops
           /\ sync[s].chunks \in Seq(SUBSET Wires) /\ sync[s].deletions \subseteq Rows
           /\ sync[s].from \in Nat /\ sync[s].session \in Nat /\ sync[s].seen \subseteq Rows
           /\ sync[s].more \in BOOLEAN /\ sync[s].bypass \in BOOLEAN /\ sync[s].mode \in SyncModes
           /\ DOMAIN sync[s].page \subseteq Rows /\ sync[s].page \in Pages
           /\ \A r \in DOMAIN sync[s].page : sync[s].page[r] \in ServerRow
  <1>1. sync[s] \in Loops
    BY DEF SyncTypeOK, Runs, Off, Starts
  <1>2. sync[s].page \in Pages
    BY <1>1 DEF Loops
  <1>3. PICK rs \in SUBSET Rows : sync[s].page \in [rs -> ServerRow]
    BY <1>2 DEF Pages
  <1> QED
    BY <1>1, <1>2, <1>3 DEF Loops

\* What is sent in a request is made of rows.
LEMMA ChunkFields ==
    ASSUME SyncTypeOK, NEW s \in Slots, Runs(s), NEW i \in 1 .. Len(sync[s].chunks)
    PROVE  /\ sync[s].chunks[i] \subseteq Wires
           /\ \A w \in sync[s].chunks[i] : w.row \in Rows /\ w.at \in Nat /\ w.val \in Nat
  <1>1. sync[s].chunks[i] \subseteq Wires
    BY LoopFields
  <1> QED
    BY <1>1 DEF Wires

LEMMA SlotsThen ==
    ASSUME SyncTypeOK, NEW s \in Slots, NEW k, sync' = [sync EXCEPT ![s] = k]
    PROVE  /\ sync'[s] = k /\ \A t \in Slots \ {s} : sync'[t] = sync[t]
           /\ k \in {Off} \cup Starts \cup Loops =>
                 sync' \in [Slots -> {Off} \cup Starts \cup Loops]
  BY DEF SyncTypeOK

-----------------------------------------------------------------------------
(* Requests.                                                               *)

\* A function on a finite set has finitely many values.
LEMMA FiniteRange ==
    ASSUME NEW S, IsFiniteSet(S), NEW f
    PROVE  IsFiniteSet({f[x] : x \in S})
  <1> DEFINE T == {f[x] : x \in S}
             g == [x \in S |-> f[x]]
  <1>1. g \in Surjection(S, T)
    BY DEF Surjection
  <1> QED
    BY <1>1, FS_Surjection

\* Chunks cuts what it is given.
LEMMA ChunksAreParts ==
    ASSUME NEW ws \in SUBSET Wires, IsFiniteSet(ws)
    PROVE  /\ Chunks(ws) \in Seq(SUBSET Wires)
           /\ \A i \in 1 .. Len(Chunks(ws)) : Chunks(ws)[i] \subseteq ws
  <1> DEFINE SameEntity(v, w) == Entity[v.row] = Entity[w.row]
             index(w) == (Cardinality({v \in ws : SameEntity(v, w) /\ v.row <= w.row}) - 1) \div MaxRows
             n == Cardinality({index(w) : w \in ws})
  <1>1. Chunks(ws) = [i \in 1 .. n |-> {w \in ws : index(w) = i - 1}]
    BY DEF Chunks
  <1>2. n \in Nat
    <2> DEFINE f == [w \in ws |-> index(w)]
    <2>1. {index(w) : w \in ws} = {f[w] : w \in ws}
      OBVIOUS
    <2>2. IsFiniteSet({f[w] : w \in ws})
      BY FiniteRange
    <2> HIDE DEF index
    <2> QED
      BY <2>1, <2>2, FS_CardinalityType
  <1> HIDE DEF index, n
  <1> QED
    BY <1>1, <1>2

\* What ChangedRows collects.
LEMMA CollectedRows ==
    ASSUME SyncTypeOK, NEW R \in SUBSET Rows, NEW f \in [Rows -> Nat]
    PROVE  /\ {WireRow(r, f[r]) : r \in R} \subseteq Wires
           /\ IsFiniteSet({WireRow(r, f[r]) : r \in R})
  <1> DEFINE g == [r \in R |-> WireRow(r, f[r])]
  <1>1. \A r \in R : WireRow(r, f[r]) \in Wires
    BY RowFields DEF WireRow, Wires
  <1>2. IsFiniteSet(R)
    BY SyncAssumption, FS_Subset
  <1>3. IsFiniteSet({g[r] : r \in R})
    BY <1>2, FiniteRange
  <1>4. {g[r] : r \in R} = {WireRow(r, f[r]) : r \in R}
    OBVIOUS
  <1> QED
    BY <1>1, <1>3, <1>4

-----------------------------------------------------------------------------
(* The server.                                                             *)

\* A row after an upsert: as it was, or as the newest wire has it.
LEMMA UpsertedRow ==
    ASSUME NEW sv, NEW ws, NEW t, NEW r \in Rows
    PROVE  LET new == {w \in ws : w.row = r /\ w.at > sv[r].at /\ ~sv[r].gone}
           IN  \/ new = {} /\ Upserted(sv, ws, t)[r] = sv[r]
               \/ \E w \in new :
                     Upserted(sv, ws, t)[r] = [at |-> w.at, val |-> w.val, stamp |-> t, gone |-> FALSE]
  <1> DEFINE new == {w \in ws : w.row = r /\ w.at > sv[r].at /\ ~sv[r].gone}
             w0 == CHOOSE w \in new : TRUE
  <1>1. CASE new = {}
    BY <1>1 DEF Upserted
  <1>2. CASE new # {}
    <2>1. w0 \in new
      BY <1>2
    <2>2. Upserted(sv, ws, t)[r] = [at |-> w0.at, val |-> w0.val, stamp |-> t, gone |-> FALSE]
      BY <1>2 DEF Upserted
    <2> QED
      BY <2>1, <2>2
  <1> QED
    BY <1>1, <1>2

\* The request at the head.
Request(s) == IF sync[s].chunks = <<>> THEN {} ELSE Head(sync[s].chunks)
Withdrawn(s) == IF sync[s].session = 0 THEN sync[s].deletions ELSE {}
Answered(s) ==
    WithoutRows(Upserted(server, Request(s), clock + 1), Withdrawn(s), clock + 1)

\* What the server makes of a row, given the request of s: it keeps it, writes it
\* (and drops what it wrote, if the deletion came with it), or drops it.
RowHandled(s, r) ==
    \/ server'[r] = server[r]
    \/ /\ clock' = clock + 1 /\ server'[r].stamp = clock' /\ ~server[r].gone
       /\ \/ \E w \in Request(s) :
                /\ w.row = r /\ w.at > server[r].at
                /\ server'[r].at = w.at /\ server'[r].val = w.val
                /\ server'[r].gone => r \in Withdrawn(s)
          \/ /\ r \in Withdrawn(s) /\ server[r] # Unknown /\ server'[r].gone
             /\ server'[r].at = server[r].at /\ server'[r].val = server[r].val

\* What changed on the server since `from` and was not yet in an answer.
Changed(s) == {r \in Rows : server'[r].stamp > sync[s].from} \ sync[s].seen
PageIs(s, page) ==
    /\ page \subseteq Changed(s) /\ (page = {} => Changed(s) = {})
    /\ \A r \in page : HasManga((Rows \ Changed(s)) \cup page, r)
    /\ sync'[s].seen = sync[s].seen \cup page
    /\ sync'[s].page = [r \in page |-> server'[r]]
    /\ sync'[s].more <=> Changed(s) # page

LEMMA HeadOfRequest ==
    ASSUME SyncTypeOK, NEW s \in Slots, Runs(s)
    PROVE  /\ Request(s) \subseteq Wires
           /\ \A w \in Request(s) : w.row \in Rows /\ w.at \in Nat /\ w.val \in Nat
           /\ sync[s].chunks # <<>> => 1 \in 1 .. Len(sync[s].chunks) /\ Request(s) = sync[s].chunks[1]
  <1>0. sync[s].chunks \in Seq(SUBSET Wires)
    BY LoopFields
  <1>1. CASE sync[s].chunks = <<>>
    BY <1>1 DEF Request
  <1>2. CASE sync[s].chunks # <<>>
    <2>1. 1 \in 1 .. Len(sync[s].chunks) /\ Head(sync[s].chunks) = sync[s].chunks[1]
      BY <1>0, <1>2, EmptySeq
    <2> QED
      BY <2>1, <1>2, ChunkFields DEF Request
  <1> QED
    BY <1>1, <1>2

\* What the server makes of a request.
LEMMA RequestHandled ==
    ASSUME SyncTypeOK, NEW s \in Slots, Runs(s), server' = Answered(s),
           clock' = IF server' = server THEN clock ELSE clock + 1
    PROVE  /\ server' \in [Rows -> ServerRow] /\ clock' \in {clock, clock + 1}
           /\ \A r \in Rows : RowHandled(s, r)
           /\ \A r \in Withdrawn(s) : server'[r].gone \/ server'[r] = Unknown
  <1> DEFINE t == clock + 1
             up == Upserted(server, Request(s), t)
             D == Withdrawn(s)
  <1>0. clock \in Nat /\ t \in Nat /\ D \subseteq Rows
    BY LoopFields DEF SyncTypeOK, Withdrawn
  <1>1. ASSUME NEW r \in Rows
        PROVE  /\ up[r] \in ServerRow
               /\ \/ up[r] = server[r]
                  \/ \E w \in Request(s) :
                        /\ w.row = r /\ w.at > server[r].at /\ ~server[r].gone
                        /\ up[r] = [at |-> w.at, val |-> w.val, stamp |-> t, gone |-> FALSE]
    <2>1. \A w \in Request(s) : w.at \in Nat /\ w.val \in Nat
      BY HeadOfRequest
    <2>2. \/ up[r] = server[r]
          \/ \E w \in Request(s) :
                /\ w.row = r /\ w.at > server[r].at /\ ~server[r].gone
                /\ up[r] = [at |-> w.at, val |-> w.val, stamp |-> t, gone |-> FALSE]
      BY UpsertedRow
    <2>3. server[r] \in ServerRow
      BY RowFields
    <2>4. \A w \in Request(s) :
             [at |-> w.at, val |-> w.val, stamp |-> t, gone |-> FALSE] \in ServerRow
      BY <2>1, <1>0 DEF ServerRow
    <2> HIDE DEF up
    <2> QED
      BY <2>2, <2>3, <2>4
  <1> HIDE DEF up
  <1>2. server' = [r \in Rows |-> IF r \in D /\ up[r] # Unknown /\ ~up[r].gone
                                  THEN [up[r] EXCEPT !.gone = TRUE, !.stamp = t] ELSE up[r]]
    BY DEF Answered, WithoutRows, up
  <1>3. ASSUME NEW r \in Rows
        PROVE  /\ server'[r] \in ServerRow
               /\ \/ server'[r] = up[r]
                  \/ /\ r \in D /\ up[r] # Unknown /\ ~up[r].gone
                     /\ server'[r].gone /\ server'[r].stamp = t
                     /\ server'[r].at = up[r].at /\ server'[r].val = up[r].val
               /\ r \in D => server'[r].gone \/ server'[r] = Unknown
    <2>1. server'[r] = IF r \in D /\ up[r] # Unknown /\ ~up[r].gone
                       THEN [up[r] EXCEPT !.gone = TRUE, !.stamp = t] ELSE up[r]
      BY <1>2
    <2>2. CASE r \in D /\ up[r] # Unknown /\ ~up[r].gone
      BY <2>1, <2>2, <1>0, <1>1 DEF ServerRow
    <2>3. CASE ~(r \in D /\ up[r] # Unknown /\ ~up[r].gone)
      BY <2>1, <2>3, <1>1 DEF ServerRow
    <2> QED
      BY <2>2, <2>3
  <1>4. server' \in [Rows -> ServerRow]
    BY <1>2, <1>3
  <1>5. ASSUME NEW r \in Rows, server'[r] # server[r] PROVE clock' = clock + 1
    BY <1>5
  <1>6. ASSUME NEW r \in Rows PROVE RowHandled(s, r)
    <2>1. CASE server'[r] = server[r]
      BY <2>1 DEF RowHandled
    <2>2. ASSUME server'[r] # server[r], NEW w \in Request(s),
                 w.row = r, w.at > server[r].at, ~server[r].gone,
                 up[r] = [at |-> w.at, val |-> w.val, stamp |-> t, gone |-> FALSE]
          PROVE  RowHandled(s, r)
      BY <2>2, <1>3, <1>5 DEF RowHandled
    <2>3. CASE server'[r] # server[r] /\ up[r] = server[r]
      BY <2>3, <1>3, <1>5 DEF RowHandled
    <2> QED
      BY <2>1, <2>2, <2>3, <1>1
  <1> QED
    BY <1>0, <1>3, <1>4, <1>6

\* The newest of the wires of a row arrives, if there is one only.
LEMMA WireArrives ==
    ASSUME SyncTypeOK, NEW s \in Slots, Runs(s), server' = Answered(s),
           NEW w \in Request(s), \A v \in Request(s) : v.row = w.row => v = w
    PROVE  server'[w.row].at >= w.at \/ server'[w.row].gone
  <1> DEFINE up == Upserted(server, Request(s), clock + 1)
             r == w.row
  <1>1. r \in Rows /\ w.at \in Nat /\ server[r] \in ServerRow /\ server[r].at \in Nat
    BY HeadOfRequest, RowFields
  <1>2. up[r].at >= w.at \/ up[r].gone
    <2> DEFINE new == {v \in Request(s) : v.row = r /\ v.at > server[r].at /\ ~server[r].gone}
    <2>1. CASE new = {} /\ up[r] = server[r]
      BY <2>1, <1>1
    <2>2. CASE \E v \in new : up[r] = [at |-> v.at, val |-> v.val, stamp |-> clock + 1, gone |-> FALSE]
      BY <2>2, <1>1
    <2> QED
      BY <2>1, <2>2, <1>1, UpsertedRow
  <1> HIDE DEF up
  <1>3. server'[r] = IF r \in Withdrawn(s) /\ up[r] # Unknown /\ ~up[r].gone
                     THEN [up[r] EXCEPT !.gone = TRUE, !.stamp = clock + 1] ELSE up[r]
    BY <1>1 DEF Answered, WithoutRows, up
  <1>4. \A x : [x EXCEPT !.gone = TRUE, !.stamp = clock + 1].at = x.at
    OBVIOUS
  <1> QED
    BY <1>2, <1>3, <1>4

\* A handled request, and the answer.
LEMMA HandleFacts ==
    ASSUME SyncTypeOK, NEW s \in Slots, Handle(s)
    PROVE  /\ Runs(s) /\ sync[s].phase = "posted"
           /\ server' = Answered(s)
           /\ clock' = IF server' = server THEN clock ELSE clock + 1
           /\ sync' = [sync EXCEPT ![s] = sync'[s]] /\ sync'[s] \in Loops
           /\ sync'[s].phase = "answered" /\ sync'[s].mode = sync[s].mode
           /\ sync'[s].bypass = sync[s].bypass /\ sync'[s].chunks = sync[s].chunks
           /\ sync'[s].deletions = sync[s].deletions /\ sync'[s].from = sync[s].from
           /\ sync'[s].session = IF sync[s].session = 0 THEN clock' ELSE sync[s].session
           /\ \E page \in SUBSET Rows : PageIs(s, page)
  <1>1. Runs(s) /\ sync[s].phase = "posted"
    BY DEF Handle, Runs
  <1>2. /\ server' = Answered(s)
        /\ clock' = IF server' = server THEN clock ELSE clock + 1
    BY DEF Handle, Answered, Request, Withdrawn
  <1> DEFINE sv == Answered(s)
             ch == {r \in Rows : sv[r].stamp > sync[s].from} \ sync[s].seen
  <1>3. PICK page \in SUBSET ch :
              /\ page = {} => ch = {}
              /\ \A r \in page : HasManga((Rows \ ch) \cup page, r)
              /\ sync' = [sync EXCEPT ![s] =
                   [sync[s] EXCEPT !.phase = "answered",
                             !.session = IF @ = 0 THEN clock' ELSE @,
                             !.seen = @ \cup page,
                             !.page = [r \in page |-> sv[r]],
                             !.more = ch # page]]
    BY DEF Handle, Answered, Request, Withdrawn
  <1> DEFINE session == IF sync[s].session = 0 THEN clock' ELSE sync[s].session
             seen == sync[s].seen \cup page
             pg == [r \in page |-> sv[r]]
             more == ch # page
  <1>4. sync[s] \in Loops
    BY <1>1, LoopFields
  <1>5. clock' \in Nat /\ sv \in [Rows -> ServerRow]
    BY <1>1, <1>2, RequestHandled DEF SyncTypeOK
  <1>6. session \in Nat /\ seen \subseteq Rows /\ pg \in Pages /\ more \in BOOLEAN
    <2>1. page \subseteq Rows /\ \A r \in page : sv[r] \in ServerRow
      BY <1>3, <1>5
    <2> QED
      BY <2>1, <1>1, <1>5, LoopFields DEF Pages
  <1>7. /\ sync' = [sync EXCEPT ![s] = sync'[s]]
        /\ sync'[s] = [sync[s] EXCEPT !.phase = "answered", !.session = session,
                                      !.seen = seen, !.page = pg, !.more = more]
    BY <1>3, SlotsThen
  <1> HIDE DEF session, seen, pg, more
  <1>8. /\ sync'[s] \in Loops
        /\ sync'[s].phase = "answered" /\ sync'[s].mode = sync[s].mode
        /\ sync'[s].bypass = sync[s].bypass /\ sync'[s].chunks = sync[s].chunks
        /\ sync'[s].deletions = sync[s].deletions /\ sync'[s].from = sync[s].from
        /\ sync'[s].session = session /\ sync'[s].seen = seen
        /\ sync'[s].page = pg /\ sync'[s].more = more
    BY <1>4, <1>6, <1>7 DEF Loops
  <1>9. sv = server' /\ ch = Changed(s)
    BY <1>2 DEF Changed
  <1>10. PageIs(s, page)
    <2> HIDE DEF sv, ch
    <2>1. \A r \in page : HasManga((Rows \ Changed(s)) \cup page, r)
      BY <1>3, <1>9
    <2>2. page \subseteq Changed(s) /\ (page = {} => Changed(s) = {})
      BY <1>3, <1>9
    <2>3. sync'[s].page = [r \in page |-> server'[r]]
      BY <1>8, <1>9 DEF pg
    <2>4. sync'[s].seen = sync[s].seen \cup page
      BY <1>8 DEF seen
    <2>5. sync'[s].more <=> Changed(s) # page
      BY <1>8, <1>9 DEF more
    <2> QED
      BY <2>1, <2>2, <2>3, <2>4, <2>5 DEF PageIs
  <1>11. page \in SUBSET Rows
    BY <1>3
  <1> QED
    BY <1>1, <1>2, <1>7, <1>8, <1>10, <1>11 DEF session

-----------------------------------------------------------------------------
(* The page of an answer.                                                  *)

Here(s) == {q \in Rows : Present(q)} \cup {q \in DOMAIN sync[s].page : ~sync[s].page[q].gone}

\* What becomes of a row when the page of s is applied: it is taken over, removed,
\* or stays because the page does not have it, has an older one, or has no manga
\* for it.
TakenOver(s, r) ==
    /\ r \in DOMAIN sync[s].page /\ ~sync[s].page[r].gone
    /\ HasManga(Here(s), r) /\ sync[s].page[r].at > local[r].at
    /\ local'[r] = [at |-> sync[s].page[r].at, val |-> sync[s].page[r].val]
TakenAway(s, r) ==
    r \in DOMAIN sync[s].page /\ sync[s].page[r].gone /\ local'[r] = Absent
LeftAlone(s, r) ==
    /\ local'[r] = local[r]
    /\ r \in DOMAIN sync[s].page =>
          /\ ~sync[s].page[r].gone
          /\ ~HasManga(Here(s), r) \/ sync[s].page[r].at <= local[r].at

LEMMA PageApplied ==
    ASSUME SyncTypeOK, NEW s \in Slots, Runs(s), local' = Applied(sync[s].page)
    PROVE  /\ local' \in [Rows -> Version]
           /\ \A r \in Rows : TakenOver(s, r) \/ TakenAway(s, r) \/ LeftAlone(s, r)
  <1> DEFINE p == sync[s].page
             rows == {q \in DOMAIN p : ~p[q].gone}
  <1>1. DOMAIN p \subseteq Rows /\ \A r \in DOMAIN p : p[r] \in ServerRow
    BY LoopFields
  <1>2. local' = [r \in Rows |->
                     IF r \in rows /\ HasManga(Here(s), r) /\ p[r].at > local[r].at
                     THEN [at |-> p[r].at, val |-> p[r].val]
                     ELSE IF r \in DOMAIN p \ rows THEN Absent ELSE local[r]]
    BY DEF Applied, Here
  <1>3. ASSUME NEW r \in Rows
        PROVE  /\ local'[r] \in Version
               /\ TakenOver(s, r) \/ TakenAway(s, r) \/ LeftAlone(s, r)
    <2>0. local[r] \in Version /\ local[r].at \in Nat
      BY RowFields
    <2>1. CASE r \in rows /\ HasManga(Here(s), r) /\ p[r].at > local[r].at
      <3>1. local'[r] = [at |-> p[r].at, val |-> p[r].val] /\ p[r] \in ServerRow
        BY <1>1, <1>2, <2>1
      <3>2. TakenOver(s, r)
        BY <2>1, <3>1 DEF TakenOver
      <3> QED
        BY <3>1, <3>2 DEF ServerRow, Version
    <2>2. CASE r \in DOMAIN p \ rows
      BY <1>2, <2>2, NoRows DEF TakenAway
    <2>3. CASE ~(r \in rows /\ HasManga(Here(s), r) /\ p[r].at > local[r].at) /\ r \notin DOMAIN p \ rows
      <3>1. local'[r] = local[r]
        BY <1>2, <2>3
      <3>2. r \in DOMAIN p => ~p[r].gone /\ (~HasManga(Here(s), r) \/ ~(p[r].at > local[r].at))
        BY <2>3
      <3>3. r \in DOMAIN p => p[r].at \in Nat
        BY <1>1 DEF ServerRow
      <3> QED
        BY <2>0, <3>1, <3>2, <3>3 DEF LeftAlone
    <2> QED
      BY <2>1, <2>2, <2>3
  <1> QED
    BY <1>2, <1>3

\* The rest of the requests, and whether the answer is the last.
Rest(s) == IF sync[s].chunks = <<>> THEN <<>> ELSE Tail(sync[s].chunks)
IsLast(s) == Rest(s) = <<>> /\ ~sync[s].more

LEMMA RestOfRequests ==
    ASSUME SyncTypeOK, NEW s \in Slots, Runs(s)
    PROVE  /\ Rest(s) \in Seq(SUBSET Wires)
           /\ sync[s].chunks # <<>> => Len(Rest(s)) = Len(sync[s].chunks) - 1
           /\ sync[s].chunks = <<>> => Len(Rest(s)) = 0
           /\ Len(sync[s].chunks) \in Nat
           /\ \A i \in 1 .. Len(Rest(s)) :
                 i + 1 \in 1 .. Len(sync[s].chunks) /\ Rest(s)[i] = sync[s].chunks[i + 1]
  <1>0. sync[s].chunks \in Seq(SUBSET Wires)
    BY LoopFields
  <1>1. CASE sync[s].chunks = <<>>
    BY <1>1 DEF Rest
  <1>2. CASE sync[s].chunks # <<>>
    <2>1. /\ Tail(sync[s].chunks) \in Seq(SUBSET Wires)
          /\ Len(Tail(sync[s].chunks)) = Len(sync[s].chunks) - 1
          /\ \A i \in 1 .. Len(Tail(sync[s].chunks)) : Tail(sync[s].chunks)[i] = sync[s].chunks[i + 1]
      BY <1>0, <1>2, HeadTailProperties
    <2>2. Len(sync[s].chunks) \in Nat
      BY <1>0
    <2> QED
      BY <1>2, <2>1, <2>2 DEF Rest
  <1> QED
    BY <1>1, <1>2

\* An answer is received.
LEMMA ReceiveFacts ==
    ASSUME SyncTypeOK, NEW s \in Slots, Receive(s)
    PROVE  /\ Runs(s) /\ sync[s].phase = "answered" /\ local' = Applied(sync[s].page)
           /\ UNCHANGED <<clock, outbox, syncOn, server, backup, latest, deleted>>
           /\ sync' = [sync EXCEPT ![s] = sync'[s]]
           /\ \/ /\ sync'[s] = Off
                 /\ IsLast(s) /\ sync[s].mode # "sync"
              \/ /\ sync'[s] \in Loops
                 /\ sync'[s].phase = IF IsLast(s) THEN "clearing" ELSE "posted"
                 /\ IsLast(s) => sync[s].mode = "sync"
                 /\ sync'[s].mode = sync[s].mode /\ sync'[s].bypass = sync[s].bypass
                 /\ sync'[s].deletions = sync[s].deletions /\ sync'[s].from = sync[s].from
                 /\ sync'[s].session = sync[s].session /\ sync'[s].seen = sync[s].seen
                 /\ sync'[s].more = sync[s].more
                 /\ sync'[s].page = <<>> /\ DOMAIN sync'[s].page = {}
                 /\ sync'[s].chunks = Rest(s)
                 /\ UNCHANGED restoring
           /\ IF IsLast(s)
              THEN since' = sync[s].session /\ missed' = missed \cup PassedOver(sync[s])
              ELSE UNCHANGED <<since, missed>>
           /\ restored' = [restored EXCEPT !.pushed = @ \/ (IsLast(s) /\ sync[s].bypass)]
           /\ active' \in BOOLEAN
           /\ restoring' \in {"no", restoring}
  <1>1. Runs(s) /\ sync[s].phase = "answered" /\ local' = Applied(sync[s].page)
    BY DEF Receive, Runs
  <1>2. /\ UNCHANGED <<clock, outbox, syncOn, server, backup, latest, deleted>>
        /\ IF IsLast(s)
           THEN since' = sync[s].session /\ missed' = missed \cup PassedOver(sync[s])
           ELSE UNCHANGED <<since, missed>>
        /\ restored' = [restored EXCEPT !.pushed = @ \/ (IsLast(s) /\ sync[s].bypass)]
    BY DEF Receive, IsLast, Rest
  <1>3. CASE IsLast(s) /\ sync[s].mode # "sync"
    <2>1. Ends(s)
      BY <1>3 DEF Receive, IsLast, Rest
    <2>2. sync'[s] = Off /\ sync' = [sync EXCEPT ![s] = sync'[s]]
      BY <2>1, SlotsThen DEF Ends
    <2> QED
      BY <1>1, <1>2, <1>3, <2>1, <2>2 DEF Ends
  <1>4. CASE ~(IsLast(s) /\ sync[s].mode # "sync")
    <2> DEFINE ph == IF IsLast(s) THEN "clearing" ELSE "posted"
    <2>1. /\ sync' = [sync EXCEPT ![s] =
                         [sync[s] EXCEPT !.phase = ph, !.chunks = Rest(s), !.page = <<>>]]
          /\ active' = (active \/ sync[s].chunks # <<>> \/ sync[s].page # <<>>)
          /\ UNCHANGED restoring
      BY <1>4 DEF Receive, IsLast, Rest
    <2>2. /\ sync'[s] = [sync[s] EXCEPT !.phase = ph, !.chunks = Rest(s), !.page = <<>>]
          /\ sync' = [sync EXCEPT ![s] = sync'[s]]
      BY <2>1, SlotsThen
    <2>3. sync[s] \in Loops /\ Rest(s) \in Seq(SUBSET Wires) /\ ph \in {"clearing", "posted"}
      BY <1>1, LoopFields, RestOfRequests
    <2>4. <<>> \in Pages /\ DOMAIN <<>> = {}
      <3>1. <<>> \in [{} -> ServerRow] /\ {} \in SUBSET Rows
        OBVIOUS
      <3> QED
        BY <3>1 DEF Pages
    <2>5. sync'[s] \in Loops
      BY <2>2, <2>3, <2>4 DEF Loops
    <2>6. /\ sync'[s].phase = ph
          /\ sync'[s].mode = sync[s].mode /\ sync'[s].bypass = sync[s].bypass
          /\ sync'[s].deletions = sync[s].deletions /\ sync'[s].from = sync[s].from
          /\ sync'[s].session = sync[s].session /\ sync'[s].seen = sync[s].seen
          /\ sync'[s].more = sync[s].more
          /\ sync'[s].page = <<>> /\ DOMAIN sync'[s].page = {}
          /\ sync'[s].chunks = Rest(s)
      BY <2>2, <2>3, <2>4 DEF Loops
    <2>7. active' \in BOOLEAN /\ restoring' \in {"no", restoring}
      BY <2>1
    <2> QED
      BY <1>1, <1>2, <1>4, <2>1, <2>2, <2>5, <2>6, <2>7
  <1> QED
    BY <1>3, <1>4

\* What a sync collects, and in which mode.
Collected(s, ws) ==
    \/ sync[s].mode = "sync" /\ ws = ChangedRows /\ UNCHANGED clock
    \/ sync[s].mode = "upload" /\ ws = AllRows(clock') /\ clock' = clock + 1
    \/ sync[s].mode = "download" /\ ws = {} /\ UNCHANGED clock

\* The time a forced upload gives a row.
StampOf(r, now) == IF Entity[r] = "category" THEN local[r].at ELSE now

LEMMA CollectFacts ==
    ASSUME SyncTypeOK, NEW s \in Slots, Collect(s)
    PROVE  /\ sync[s].phase = "version" /\ clock' \in Nat \ {0} /\ clock' >= clock
           /\ UNCHANGED <<deviceVars, server, restoring, backup, historyVars>> /\ active' \in BOOLEAN
           /\ sync' = [sync EXCEPT ![s] = sync'[s]] /\ sync'[s] \in Loops
           /\ sync'[s].phase = "posted" /\ sync'[s].mode = sync[s].mode
           /\ sync'[s].bypass = sync[s].bypass
           /\ sync'[s].session = 0 /\ sync'[s].seen = {} /\ ~sync'[s].more
           /\ sync'[s].page = <<>> /\ DOMAIN sync'[s].page = {}
           /\ sync'[s].from = IF sync[s].mode = "download" THEN 0 ELSE since
           /\ sync'[s].deletions = IF sync[s].mode = "sync" THEN outbox ELSE {}
           /\ \E ws \in SUBSET Wires :
                 /\ Collected(s, ws) /\ sync'[s].chunks = Chunks(ws)
                 /\ IsFiniteSet(ws)
                 /\ \A w \in ws : /\ w.row \in Sendable /\ w.val = local[w.row].val
                                  /\ w.at = IF sync[s].mode = "sync" THEN local[w.row].at ELSE StampOf(w.row, clock')
  <1> DEFINE Result(ws, deletions, from) ==
                 [phase |-> "posted", mode |-> sync[s].mode, bypass |-> sync[s].bypass,
                  chunks |-> Chunks(ws), deletions |-> deletions, from |-> from,
                  session |-> 0, seen |-> {}, page |-> <<>>, more |-> FALSE]
  <1>1. sync[s].phase = "version" /\ sync[s] \in Starts /\ clock \in Nat \ {0}
    BY DEF Collect, SyncTypeOK, Off, Loops
  <1>2. sync[s].mode \in SyncModes /\ sync[s].bypass \in BOOLEAN
    BY <1>1 DEF Starts
  <1>3. <<>> \in Pages /\ DOMAIN <<>> = {}
    <2>1. <<>> \in [{} -> ServerRow] /\ {} \in SUBSET Rows
      OBVIOUS
    <2> QED
      BY <2>1 DEF Pages
  <1>4. ASSUME NEW ws \in SUBSET Wires, IsFiniteSet(ws), NEW d \in SUBSET Rows, NEW f \in Nat,
               sync' = Loop(s, ws, d, f)
        PROVE  /\ sync'[s] = Result(ws, d, f) /\ sync'[s] \in Loops
               /\ sync' = [sync EXCEPT ![s] = sync'[s]]
    <2>1. sync' = [sync EXCEPT ![s] = Result(ws, d, f)]
      BY <1>4 DEF Loop
    <2>2. sync'[s] = Result(ws, d, f)
      BY <2>1, SlotsThen
    <2>3. Chunks(ws) \in Seq(SUBSET Wires)
      BY <1>4, ChunksAreParts
    <2>4. Result(ws, d, f) \in Loops
      BY <1>2, <1>3, <2>3 DEF Loops
    <2> QED
      BY <2>1, <2>2, <2>4
  <1>5. Sendable \subseteq Rows /\ {r \in Sendable : local[r].at >= since} \subseteq Rows
    BY DEF Sendable
  <1>6. /\ UNCHANGED <<deviceVars, server, restoring, backup, historyVars>> /\ active' \in BOOLEAN
        /\ outbox \subseteq Rows /\ since \in Nat
    BY DEF Collect, SyncTypeOK
  <1>7. CASE sync[s].mode = "sync"
    <2> DEFINE ws == ChangedRows
               R == {q \in Sendable : local[q].at >= since}
               f == [r \in Rows |-> local[r].at]
    <2>1. sync' = Loop(s, ws, outbox, since) /\ UNCHANGED clock
      BY <1>7 DEF Collect
    <2>2. f \in [Rows -> Nat] /\ R \in SUBSET Rows /\ ws = {WireRow(r, f[r]) : r \in R}
      BY <1>5, RowFields DEF ChangedRows
    <2>3. ws \in SUBSET Wires /\ IsFiniteSet(ws)
      BY <2>2, CollectedRows
    <2>4. \A w \in ws : w.row \in Sendable /\ w.val = local[w.row].val /\ w.at = local[w.row].at
      BY DEF ChangedRows, WireRow
    <2>5. Collected(s, ws)
      BY <1>7, <2>1 DEF Collected
    <2>6. sync'[s] = Result(ws, outbox, since) /\ sync'[s] \in Loops /\ sync' = [sync EXCEPT ![s] = sync'[s]]
      BY <2>1, <2>3, <1>4, <1>6
    <2> HIDE DEF ws
    <2> QED
      BY <2>1, <2>3, <2>4, <2>5, <2>6, <1>1, <1>3, <1>6, <1>7
  <1>8. CASE sync[s].mode = "upload"
    <2> DEFINE ws == AllRows(clock')
               f == [r \in Rows |-> StampOf(r, clock')]
    <2>1. sync' = Loop(s, ws, {}, since) /\ clock' = clock + 1
      BY <1>8 DEF Collect, Tick
    <2>2. f \in [Rows -> Nat] /\ ws = {WireRow(r, f[r]) : r \in Sendable}
      <3>1. \A r \in Rows : StampOf(r, clock') \in Nat
        BY <1>1, <2>1, RowFields DEF StampOf
      <3>2. \A r \in Sendable : f[r] = StampOf(r, clock')
        BY <1>5
      <3>3. ws = {WireRow(r, StampOf(r, clock')) : r \in Sendable}
        BY DEF AllRows, StampOf
      <3> QED
        BY <3>1, <3>2, <3>3
    <2>3. ws \in SUBSET Wires /\ IsFiniteSet(ws)
      BY <2>2, <1>5, CollectedRows
    <2>4. \A w \in ws : w.row \in Sendable /\ w.val = local[w.row].val /\ w.at = StampOf(w.row, clock')
      BY DEF AllRows, WireRow, StampOf
    <2>5. Collected(s, ws)
      BY <1>8, <2>1 DEF Collected
    <2>6. sync'[s] = Result(ws, {}, since) /\ sync'[s] \in Loops /\ sync' = [sync EXCEPT ![s] = sync'[s]]
      BY <2>1, <2>3, <1>4, <1>6
    <2> HIDE DEF ws
    <2> QED
      BY <2>1, <2>3, <2>4, <2>5, <2>6, <1>1, <1>3, <1>6, <1>8
  <1>9. CASE sync[s].mode = "download"
    <2> DEFINE ws == {}
    <2>1. sync' = Loop(s, ws, {}, 0) /\ UNCHANGED clock
      BY <1>9 DEF Collect
    <2>2. Collected(s, ws)
      BY <1>9, <2>1 DEF Collected
    <2>3. ws \in SUBSET Wires /\ IsFiniteSet(ws)
      BY FS_EmptySet
    <2>4. sync'[s] = Result(ws, {}, 0) /\ sync'[s] \in Loops /\ sync' = [sync EXCEPT ![s] = sync'[s]]
      BY <2>1, <2>3, <1>4
    <2> QED
      BY <2>1, <2>2, <2>3, <2>4, <1>1, <1>3, <1>6, <1>9
  <1> QED
    BY <1>7, <1>8, <1>9 DEF Collect

-----------------------------------------------------------------------------
(* The newest versions: the first layer, action by action.                 *)

\* Time goes on, and what the server has only gets newer.
Grows ==
    /\ clock' \in Nat \ {0} /\ clock <= clock'
    /\ \A r \in Rows : /\ server'[r].at \in Nat /\ server[r].at <= server'[r].at
                       /\ server[r].gone => server'[r].gone

\* What a sync has under way stays as it should be while others act.
LEMMA FlightKept ==
    ASSUME SyncTypeOK, NEW s \in Slots, FlightOK(s), Grows, sync'[s] = sync[s]
    PROVE  FlightOK(s)'
  <1> SUFFICES ASSUME Runs(s)' PROVE FlightOK(s)!2'
    BY DEF FlightOK
  <1>1. Runs(s)
    BY DEF Runs
  <1>2. ASSUME NEW i \in 1 .. Len(sync[s].chunks), NEW w \in sync[s].chunks[i]
        PROVE  0 < w.at /\ w.at <= clock'
    <2>1. w.at \in Nat /\ 0 < w.at /\ w.at <= clock
      BY <1>1, ChunkFields DEF FlightOK
    <2> QED
      BY <2>1 DEF Grows, SyncTypeOK
  <1>3. ASSUME NEW r \in DOMAIN sync[s].page
        PROVE  /\ 0 < sync[s].page[r].at /\ sync[s].page[r].at <= server'[r].at
               /\ sync[s].page[r].gone => server'[r].gone
    <2>1. r \in Rows /\ sync[s].page[r].at \in Nat /\ server[r].at \in Nat
      BY <1>1, LoopFields, RowFields DEF ServerRow
    <2> QED
      BY <1>1, <2>1 DEF Grows, FlightOK
  <1>4. sync[s].session <= clock' /\ clock' \in Nat
    BY <1>1, LoopFields DEF Grows, FlightOK, SyncTypeOK
  <1> QED
    BY <1>1, <1>2, <1>3, <1>4 DEF FlightOK

\* A sync that ends, or has not begun, has nothing under way.
LEMMA NothingUnderWay ==
    ASSUME NEW s, sync'[s] = Off \/ sync'[s].phase = "version"
    PROVE  FlightOK(s)'
  BY DEF FlightOK, Runs, Off

\* The versions that are held by someone, when nothing moves on.
VersionsStay == UNCHANGED <<local, server, backup, latest>>

LEMMA VersionsStayHeld ==
    ASSUME VersionInv, VersionsStay, clock' \in Nat \ {0}, clock <= clock',
           since' \in Nat, since' <= clock',
           deleted \subseteq deleted', restored'.at = restored.at
    PROVE  TimesBounded' /\ TimesTell' /\ NewestHeld' /\ Grows
  <1>0. SyncTypeOK
    BY DEF VersionInv
  <1>1. ASSUME NEW r \in Rows PROVE latest[r].at <= clock' /\ server[r].stamp <= clock'
    <2>1. latest[r].at \in Nat /\ server[r].stamp \in Nat /\ clock \in Nat
      BY <1>0, RowFields DEF SyncTypeOK
    <2> QED
      BY <2>1 DEF VersionInv, TimesBounded
  <1>2. TimesBounded'
    BY <1>1 DEF VersionInv, TimesBounded, VersionsStay
  <1>3. TimesTell'
    BY DEF VersionInv, TimesTell, VersionsStay
  <1>4. NewestHeld'
    <2> SUFFICES ASSUME NEW r \in Rows, restored.at = 0, r \notin deleted, ~server[r].gone
                 PROVE  HeldBy(r)'
      BY DEF NewestHeld, VersionsStay
    <2>1. HeldBy(r)
      BY DEF VersionInv, NewestHeld
    <2> QED
      BY <2>1 DEF HeldBy, VersionsStay
  <1>5. Grows
    BY <1>0, RowFields DEF Grows, VersionsStay
  <1> QED
    BY <1>2, <1>3, <1>4, <1>5

\* One slot's sync begins or ends, and nothing else of the versions changes.
LEMMA SlotStep ==
    ASSUME VersionInv, NEW s \in Slots, sync' = [sync EXCEPT ![s] = sync'[s]],
           sync'[s] \in {Off} \cup Starts, VersionsStay, UNCHANGED <<clock, since, syncOn>>,
           UNCHANGED restored, deleted' = deleted, outbox' \subseteq Rows, missed' \subseteq Rows,
           active' \in BOOLEAN, restoring' \in {"no", restoring}
    PROVE  VersionInv'
  <1>0. SyncTypeOK /\ clock \in Nat \ {0} /\ since \in Nat /\ since <= clock
    BY DEF VersionInv, SyncTypeOK, TimesBounded
  <1>1. TimesBounded' /\ TimesTell' /\ NewestHeld' /\ Grows
    BY <1>0, VersionsStayHeld
  <1>2. sync' \in [Slots -> {Off} \cup Starts \cup Loops]
    BY <1>0, SlotsThen
  <1>3. SyncTypeOK'
    BY <1>0, <1>2 DEF SyncTypeOK, VersionsStay
  <1>4. ASSUME NEW t \in Slots PROVE FlightOK(t)'
    <2>1. CASE t = s
      BY <2>1, NothingUnderWay DEF Starts
    <2>2. CASE t # s
      <3>1. sync'[t] = sync[t]
        BY <1>0, <2>2, SlotsThen
      <3> QED
        BY <3>1, <1>0, <1>1, FlightKept DEF VersionInv
    <2> QED
      BY <2>1, <2>2
  <1> QED
    BY <1>1, <1>3, <1>4 DEF VersionInv

\* Nothing of the syncs changes.
LEMMA OthersStep ==
    ASSUME VersionInv, UNCHANGED sync, SyncTypeOK', Grows, TimesBounded', TimesTell', NewestHeld'
    PROVE  VersionInv'
  <1>1. ASSUME NEW t \in Slots PROVE FlightOK(t)'
    BY FlightKept DEF VersionInv
  <1> QED
    BY <1>1 DEF VersionInv

Edits(r) == Edit(r) \/ EditUnstamped(r)

\* A row is written here.
LEMMA EditKeepsVersions ==
    ASSUME VersionInv, NEW r \in Rows, Edit(r)
    PROVE  VersionInv'
  <1>0. SyncTypeOK /\ TimesBounded /\ TimesTell /\ NewestHeld
    BY DEF VersionInv
  <1>1. /\ clock \in Nat \ {0} /\ clock' = clock + 1
        /\ UNCHANGED <<outbox, since, syncOn, active, server, sync, restoring, backup, deleted, restored>>
        /\ missed' \subseteq Rows
    BY <1>0 DEF Edit, Tick, SyncTypeOK
  <1>2. /\ local' = [local EXCEPT ![r] = [at |-> clock', val |-> clock']]
        /\ latest' = [latest EXCEPT ![r] = local'[r]]
    BY DEF Edit
  <1>3. [at |-> clock', val |-> clock'] \in Version
    BY <1>1 DEF Version
  <1>4. /\ local' \in [Rows -> Version] /\ latest' \in [Rows -> Version]
        /\ local'[r] = [at |-> clock', val |-> clock'] /\ latest'[r] = local'[r]
        /\ \A q \in Rows \ {r} : local'[q] = local[q] /\ latest'[q] = latest[q]
    BY <1>0, <1>2, <1>3 DEF SyncTypeOK
  <1>5. SyncTypeOK'
    BY <1>0, <1>1, <1>4 DEF SyncTypeOK
  <1>6. TimesBounded'
    <2>1. since' <= clock'
      BY <1>0, <1>1 DEF TimesBounded, SyncTypeOK
    <2>2. ASSUME NEW q \in Rows
          PROVE  /\ local'[q].at <= latest'[q].at /\ server'[q].at <= latest'[q].at
                 /\ backup'[q].at <= latest'[q].at /\ latest'[q].at <= clock'
                 /\ server'[q].stamp <= clock'
      <3>1. /\ local[q].at <= latest[q].at /\ server[q].at <= latest[q].at
            /\ backup[q].at <= latest[q].at /\ latest[q].at <= clock /\ server[q].stamp <= clock
            /\ local[q].at \in Nat /\ server[q].at \in Nat /\ backup[q].at \in Nat
            /\ latest[q].at \in Nat /\ server[q].stamp \in Nat
        BY <1>0, RowFields DEF TimesBounded
      <3>2. CASE q = r
        BY <3>1, <3>2, <1>1, <1>4
      <3>3. CASE q # r
        BY <3>1, <3>3, <1>1, <1>4
      <3> QED
        BY <3>2, <3>3
    <2> QED
      BY <2>1, <2>2 DEF TimesBounded
  <1>7. TimesTell'
    BY <1>0, <1>1, <1>4 DEF TimesTell
  <1>8. NewestHeld'
    BY <1>0, <1>1, <1>4 DEF NewestHeld, HeldBy
  <1>9. Grows
    BY <1>0, <1>1, RowFields DEF Grows
  <1> QED
    BY <1>0, <1>1, <1>5, <1>6, <1>7, <1>8, <1>9, OthersStep

\* What a write without a new time changes.
LEMMA UnstampedFacts ==
    ASSUME SyncTypeOK, NEW r \in Rows, EditUnstamped(r)
    PROVE  /\ clock \in Nat \ {0} /\ clock' = clock + 1 /\ Present(r) /\ missed' = missed \cup {r}
           /\ UNCHANGED <<outbox, since, syncOn, active, server, sync, restoring, backup, deleted, restored>>
           /\ local' \in [Rows -> Version] /\ latest' \in [Rows -> Version]
           /\ local'[r] = [at |-> local[r].at, val |-> clock + 1] /\ local'[r] # Absent
           /\ latest'[r] = IF latest[r].at = local[r].at THEN local'[r] ELSE latest[r]
           /\ \A q \in Rows \ {r} : local'[q] = local[q] /\ latest'[q] = latest[q]
           /\ \A q \in Rows : /\ local'[q].at = local[q].at /\ latest'[q].at = latest[q].at
                              /\ Present(q)' <=> Present(q)
  <1>1. /\ clock \in Nat \ {0} /\ clock' = clock + 1 /\ Present(r) /\ missed' = missed \cup {r}
        /\ UNCHANGED <<outbox, since, syncOn, active, server, sync, restoring, backup, deleted, restored>>
        /\ local' = [local EXCEPT ![r].val = clock']
        /\ latest' = [latest EXCEPT ![r] = IF @.at = local[r].at THEN local'[r] ELSE @]
    BY DEF EditUnstamped, Tick, SyncTypeOK
  <1>2. local[r] \in Version /\ local[r].at \in Nat
    BY RowFields
  <1>3. /\ local'[r] = [at |-> local[r].at, val |-> clock + 1]
        /\ \A q \in Rows \ {r} : local'[q] = local[q]
    BY <1>1, <1>2 DEF SyncTypeOK, Version
  <1>4. local'[r] \in Version /\ local'[r] # Absent
    BY <1>1, <1>2, <1>3 DEF Version, Absent
  <1>5. local' \in [Rows -> Version]
    BY <1>1, <1>4 DEF SyncTypeOK, Version
  <1>6. /\ latest'[r] = IF latest[r].at = local[r].at THEN local'[r] ELSE latest[r]
        /\ \A q \in Rows \ {r} : latest'[q] = latest[q]
        /\ latest' \in [Rows -> Version]
    BY <1>1, <1>4 DEF SyncTypeOK
  <1>7. ASSUME NEW q \in Rows
        PROVE  /\ local'[q].at = local[q].at /\ latest'[q].at = latest[q].at
               /\ Present(q)' <=> Present(q)
    <2>1. CASE q = r
      BY <2>1, <1>1, <1>3, <1>4, <1>6 DEF Present
    <2>2. CASE q # r
      BY <2>2, <1>3, <1>6 DEF Present
    <2> QED
      BY <2>1, <2>2
  <1> QED
    BY <1>1, <1>3, <1>4, <1>5, <1>6, <1>7

LEMMA UnstampedKeepsVersions ==
    ASSUME VersionInv, NEW r \in Rows, EditUnstamped(r)
    PROVE  VersionInv'
  <1>0. SyncTypeOK /\ TimesBounded /\ TimesTell /\ NewestHeld
    BY DEF VersionInv
  <1>6. /\ clock \in Nat \ {0} /\ clock' = clock + 1
        /\ UNCHANGED <<outbox, since, syncOn, active, server, sync, restoring, backup, deleted, restored>>
        /\ missed' = missed \cup {r}
    BY <1>0, UnstampedFacts
  <1>7. local' \in [Rows -> Version] /\ latest' \in [Rows -> Version]
    BY <1>0, UnstampedFacts
  <1>8. \A q \in Rows : local'[q].at = local[q].at /\ latest'[q].at = latest[q].at
    BY <1>0, UnstampedFacts
  <1>9. \A q \in Rows \ {r} : local'[q] = local[q] /\ latest'[q] = latest[q]
    BY <1>0, UnstampedFacts
  <1>10. Present(r) /\ local'[r] # Absent
    BY <1>0, UnstampedFacts
  <1>1. SyncTypeOK'
    BY <1>0, <1>6, <1>7 DEF SyncTypeOK
  <1>2. TimesBounded'
    <2>1. since' <= clock'
      BY <1>0, <1>6 DEF TimesBounded, SyncTypeOK
    <2>2. ASSUME NEW q \in Rows
          PROVE  /\ local'[q].at <= latest'[q].at /\ server'[q].at <= latest'[q].at
                 /\ backup'[q].at <= latest'[q].at /\ latest'[q].at <= clock'
                 /\ server'[q].stamp <= clock'
      <3>1. latest[q].at \in Nat /\ server[q].stamp \in Nat
        BY <1>0, RowFields
      <3> QED
        BY <3>1, <1>0, <1>6, <1>8 DEF TimesBounded
    <2> QED
      BY <2>1, <2>2 DEF TimesBounded
  <1>3. TimesTell'
    <2> SUFFICES ASSUME NEW q \in Rows
                 PROVE  /\ local'[q].at = 0 => local'[q] = Absent
                        /\ backup[q].at = 0 => backup[q] = Absent
                        /\ server[q].at = 0 \/ server[q].stamp = 0 => server[q] = Unknown
      BY <1>0, UnstampedFacts DEF TimesTell
    <2>1. CASE q = r
      BY <2>1, <1>0, UnstampedFacts DEF TimesTell, Present
    <2>2. CASE q # r
      BY <2>2, <1>0, <1>6, <1>9 DEF TimesTell
    <2> QED
      BY <2>1, <2>2
  <1>4. NewestHeld'
    <2> SUFFICES ASSUME NEW q \in Rows, HeldBy(q) PROVE HeldBy(q)'
      BY <1>0, UnstampedFacts DEF NewestHeld
    <2>1. CASE q = r
      BY <2>1, <1>0, UnstampedFacts DEF HeldBy
    <2>2. CASE q # r
      BY <2>2, <1>0, UnstampedFacts DEF HeldBy
    <2> QED
      BY <2>1, <2>2
  <1>5. Grows
    BY <1>0, <1>6, <1>8, RowFields DEF Grows
  <1> QED
    BY <1>0, <1>1, <1>2, <1>3, <1>4, <1>5, UnstampedFacts, OthersStep

Deletes(r) == Delete(r) \/ DeleteSilently(r)

\* What the two deletions have in common: of the rows that go, each is to be pushed or
\* is missed.
LEMMA DeleteFacts ==
    ASSUME SyncTypeOK, NEW r \in Rows, Deletes(r)
    PROVE  /\ Going(r) \subseteq Rows /\ r \in Going(r)
           /\ local' = [q \in Rows |-> IF q \in Going(r) THEN Absent ELSE local[q]]
           /\ outbox \subseteq outbox' /\ outbox' \subseteq outbox \cup Going(r)
           /\ deleted' = deleted \cup Going(r)
           /\ missed \ Going(r) \subseteq missed' /\ missed' \subseteq missed \cup Going(r)
           /\ \A q \in Going(r) : q \in outbox' \/ q \in missed'
           /\ UNCHANGED <<clock, since, syncOn, active, server, sync, restoring, backup, latest, restored>>
  <1>1. Going(r) \subseteq Rows /\ r \in Family(r)
    BY SyncAssumption DEF Going, Family
  <1>2. PICK noted \in SUBSET Going(r) : Present(r) /\ Dropped(Going(r), noted)
    BY DEF Deletes, Delete, DeleteSilently
  <1>3. r \in Going(r)
    BY <1>1, <1>2 DEF Going
  <1> HIDE DEF Deletes
  <1> QED
    BY <1>1, <1>2, <1>3 DEF Dropped, Recorded

\* Rows are deleted here.
LEMMA DeleteKeepsVersions ==
    ASSUME VersionInv, NEW r \in Rows, Deletes(r)
    PROVE  VersionInv'
  <1> DEFINE rs == Going(r)
  <1>0. SyncTypeOK /\ TimesBounded /\ TimesTell /\ NewestHeld
    BY DEF VersionInv
  <1>1. rs \subseteq Rows
    BY <1>0, DeleteFacts
  <1>2. /\ local' = [q \in Rows |-> IF q \in rs THEN Absent ELSE local[q]]
        /\ outbox' \subseteq outbox \cup rs /\ deleted' = deleted \cup rs
        /\ missed' \subseteq missed \cup rs
        /\ UNCHANGED <<clock, since, syncOn, active, server, sync, restoring, backup, latest, restored>>
    BY <1>0, DeleteFacts
  <1> HIDE DEF rs
  <1>3. \A q \in Rows : local'[q] = local[q] \/ (q \in rs /\ local'[q] = Absent)
    BY <1>2
  <1>4. local' \in [Rows -> Version]
    BY <1>0, <1>2, NoRows DEF SyncTypeOK
  <1>5. SyncTypeOK'
    BY <1>0, <1>1, <1>2, <1>4 DEF SyncTypeOK
  <1>6. Absent.at = 0
    BY DEF Absent
  <1>7. TimesBounded'
    BY <1>0, <1>2, <1>3, <1>6, RowFields DEF TimesBounded
  <1>8. TimesTell'
    BY <1>0, <1>2, <1>3 DEF TimesTell
  <1>9. NewestHeld'
    BY <1>0, <1>2, <1>3 DEF NewestHeld, HeldBy
  <1>10. Grows
    BY <1>0, <1>2, RowFields DEF Grows, SyncTypeOK
  <1> QED
    BY <1>2, <1>5, <1>7, <1>8, <1>9, <1>10, OthersStep

\* The other device writes a row.
LEMMA OtherWritesKeepsVersions ==
    ASSUME VersionInv, NEW r \in Rows, OtherWrites(r)
    PROVE  VersionInv'
  <1>0. SyncTypeOK /\ TimesBounded /\ TimesTell /\ NewestHeld
    BY DEF VersionInv
  <1>1. /\ clock \in Nat \ {0} /\ clock' = clock + 1 /\ ~server[r].gone
        /\ UNCHANGED <<deviceVars, active, sync, restoring, backup, deleted, missed, restored>>
    BY <1>0 DEF OtherWrites, Tick, SyncTypeOK
  <1>2. /\ server' = [server EXCEPT ![r] = [at |-> clock', val |-> clock', stamp |-> clock', gone |-> FALSE]]
        /\ latest' = [latest EXCEPT ![r] = [at |-> clock', val |-> clock']]
    BY DEF OtherWrites
  <1>3. /\ [at |-> clock', val |-> clock'] \in Version
        /\ [at |-> clock', val |-> clock', stamp |-> clock', gone |-> FALSE] \in ServerRow
    BY <1>1 DEF Version, ServerRow
  <1>4. /\ server' \in [Rows -> ServerRow] /\ latest' \in [Rows -> Version]
        /\ server'[r] = [at |-> clock', val |-> clock', stamp |-> clock', gone |-> FALSE]
        /\ latest'[r] = [at |-> clock', val |-> clock']
        /\ \A q \in Rows \ {r} : server'[q] = server[q] /\ latest'[q] = latest[q]
    BY <1>0, <1>2, <1>3 DEF SyncTypeOK
  <1>5. SyncTypeOK'
    BY <1>0, <1>1, <1>4 DEF SyncTypeOK, deviceVars
  <1>6. TimesBounded' /\ Grows
    <2>1. since' <= clock'
      BY <1>0, <1>1 DEF TimesBounded, SyncTypeOK, deviceVars
    <2>2. ASSUME NEW q \in Rows
          PROVE  /\ local'[q].at <= latest'[q].at /\ server'[q].at <= latest'[q].at
                 /\ backup'[q].at <= latest'[q].at /\ latest'[q].at <= clock'
                 /\ server'[q].stamp <= clock'
                 /\ server'[q].at \in Nat /\ server[q].at <= server'[q].at
                 /\ server[q].gone => server'[q].gone
      <3>1. /\ local[q].at <= latest[q].at /\ server[q].at <= latest[q].at
            /\ backup[q].at <= latest[q].at /\ latest[q].at <= clock /\ server[q].stamp <= clock
            /\ local[q].at \in Nat /\ server[q].at \in Nat /\ backup[q].at \in Nat
            /\ latest[q].at \in Nat /\ server[q].stamp \in Nat
        BY <1>0, RowFields DEF TimesBounded
      <3>2. local'[q] = local[q] /\ backup'[q] = backup[q]
        BY <1>1 DEF deviceVars
      <3>3. CASE q = r
        BY <3>1, <3>2, <3>3, <1>1, <1>4
      <3>4. CASE q # r
        BY <3>1, <3>2, <3>4, <1>1, <1>4
      <3> QED
        BY <3>3, <3>4
    <2> QED
      BY <2>1, <2>2, <1>1 DEF TimesBounded, Grows
  <1>7. TimesTell'
    BY <1>0, <1>1, <1>4 DEF TimesTell, deviceVars
  <1>8. NewestHeld'
    <2> SUFFICES ASSUME NEW q \in Rows, restored.at = 0, q \notin deleted, ~server'[q].gone
                 PROVE  HeldBy(q)'
      BY <1>1 DEF NewestHeld
    <2>1. CASE q = r
      <3>1. latest'[q] = [at |-> server'[q].at, val |-> server'[q].val]
        BY <1>4, <2>1
      <3> QED
        BY <3>1 DEF HeldBy
    <2>2. CASE q # r
      <3>1. server'[q] = server[q] /\ latest'[q] = latest[q] /\ local'[q] = local[q]
        BY <1>1, <1>4, <2>2 DEF deviceVars
      <3> QED
        BY <3>1, <1>0 DEF NewestHeld, HeldBy
    <2> QED
      BY <2>1, <2>2
  <1> QED
    BY <1>1, <1>5, <1>6, <1>7, <1>8, OthersStep

\* The other device deletes a row and what belongs to it.
LEMMA OtherDeletesFacts ==
    ASSUME SyncTypeOK, NEW r \in Rows, OtherDeletes(r)
    PROVE  /\ clock \in Nat \ {0} /\ clock' = clock + 1
           /\ UNCHANGED <<deviceVars, active, sync, restoring, backup, historyVars>>
           /\ server' \in [Rows -> ServerRow]
           /\ \A q \in Rows :
                 \/ server'[q] = server[q]
                 \/ /\ server[q] # Unknown /\ ~server[q].gone
                    /\ server'[q].gone /\ server'[q].stamp = clock'
                    /\ server'[q].at = server[q].at /\ server'[q].val = server[q].val
           /\ \A q \in Family(r) \cap Rows : server'[q].gone \/ server'[q] = Unknown
  <1>0. clock \in Nat \ {0} /\ clock' = clock + 1 /\ clock' \in Nat
    BY DEF OtherDeletes, Tick, SyncTypeOK
  <1>1. /\ clock \in Nat \ {0} /\ clock' = clock + 1
        /\ UNCHANGED <<deviceVars, active, sync, restoring, backup, historyVars>>
        /\ server' = [q \in Rows |-> IF q \in Family(r) /\ server[q] # Unknown /\ ~server[q].gone
                                     THEN [server[q] EXCEPT !.gone = TRUE, !.stamp = clock'] ELSE server[q]]
    BY DEF OtherDeletes, Tick, SyncTypeOK, WithoutRows
  <1>2. ASSUME NEW q \in Rows
        PROVE  /\ server'[q] \in ServerRow
               /\ \/ server'[q] = server[q]
                  \/ /\ server[q] # Unknown /\ ~server[q].gone
                     /\ server'[q].gone /\ server'[q].stamp = clock'
                     /\ server'[q].at = server[q].at /\ server'[q].val = server[q].val
               /\ q \in Family(r) => server'[q].gone \/ server'[q] = Unknown
    <2>1. server[q] \in ServerRow
      BY RowFields
    <2>2. server'[q] = IF q \in Family(r) /\ server[q] # Unknown /\ ~server[q].gone
                       THEN [server[q] EXCEPT !.gone = TRUE, !.stamp = clock'] ELSE server[q]
      BY <1>1
    <2>3. CASE q \in Family(r) /\ server[q] # Unknown /\ ~server[q].gone
      <3>1. server'[q] = [server[q] EXCEPT !.gone = TRUE, !.stamp = clock']
        BY <2>2, <2>3
      <3>2. clock' \in Nat
        BY <1>0
      <3> QED
        BY <2>1, <2>3, <3>1, <3>2 DEF ServerRow
    <2>4. CASE ~(q \in Family(r) /\ server[q] # Unknown /\ ~server[q].gone)
      <3>1. server'[q] = server[q]
        BY <2>2, <2>4
      <3>2. server[q].gone \in BOOLEAN
        BY RowFields
      <3> QED
        BY <2>1, <2>4, <3>1, <3>2
    <2> QED
      BY <2>3, <2>4
  <1> QED
    BY <1>1, <1>2

LEMMA OtherDeletesKeepsVersions ==
    ASSUME VersionInv, NEW r \in Rows, OtherDeletes(r)
    PROVE  VersionInv'
  <1>0. SyncTypeOK /\ TimesBounded /\ TimesTell /\ NewestHeld
    BY DEF VersionInv
  <1>1. /\ clock \in Nat \ {0} /\ clock' = clock + 1
        /\ UNCHANGED <<deviceVars, active, sync, restoring, backup, historyVars>>
        /\ server' \in [Rows -> ServerRow]
        /\ \A q \in Rows :
              \/ server'[q] = server[q]
              \/ /\ server[q] # Unknown /\ ~server[q].gone
                 /\ server'[q].gone /\ server'[q].stamp = clock'
                 /\ server'[q].at = server[q].at /\ server'[q].val = server[q].val
    BY <1>0, OtherDeletesFacts
  <1>2. SyncTypeOK'
    BY <1>0, <1>1 DEF SyncTypeOK, deviceVars, historyVars
  <1>3. UNCHANGED <<local, since, backup, latest, deleted, restored, sync>>
    BY <1>1 DEF deviceVars, historyVars
  <1>4. TimesBounded' /\ Grows
    <2>1. since' <= clock'
      BY <1>0, <1>1, <1>3 DEF TimesBounded, SyncTypeOK
    <2>2. ASSUME NEW q \in Rows
          PROVE  /\ local[q].at <= latest[q].at /\ server'[q].at <= latest[q].at
                 /\ backup[q].at <= latest[q].at /\ latest[q].at <= clock'
                 /\ server'[q].stamp <= clock'
                 /\ server'[q].at \in Nat /\ server[q].at <= server'[q].at
                 /\ server[q].gone => server'[q].gone
      <3>1. /\ local[q].at <= latest[q].at /\ server[q].at <= latest[q].at
            /\ backup[q].at <= latest[q].at /\ latest[q].at <= clock /\ server[q].stamp <= clock
            /\ server[q].at \in Nat /\ latest[q].at \in Nat /\ server[q].stamp \in Nat
        BY <1>0, RowFields DEF TimesBounded
      <3> QED
        BY <3>1, <1>1
    <2> QED
      BY <2>1, <2>2, <1>1, <1>3 DEF TimesBounded, Grows
  <1>5. TimesTell'
    <2>1. ASSUME NEW q \in Rows, server'[q].at = 0 \/ server'[q].stamp = 0
          PROVE  server'[q] = Unknown
      BY <2>1, <1>0, <1>1 DEF TimesTell
    <2> QED
      BY <2>1, <1>0, <1>3 DEF TimesTell
  <1>6. NewestHeld'
    <2> SUFFICES ASSUME NEW q \in Rows, restored.at = 0, q \notin deleted, ~server'[q].gone
                 PROVE  HeldBy(q)'
      BY <1>3 DEF NewestHeld
    <2>1. server'[q] = server[q]
      BY <1>1
    <2> QED
      BY <2>1, <1>0, <1>3 DEF NewestHeld, HeldBy
  <1> QED
    BY <1>2, <1>3, <1>4, <1>5, <1>6, OthersStep

\* A sync has collected its rows.
LEMMA CollectKeepsVersions ==
    ASSUME VersionInv, NEW s \in Slots, Collect(s)
    PROVE  VersionInv'
  <1>0. SyncTypeOK /\ TimesBounded /\ TimesTell /\ NewestHeld
    BY DEF VersionInv
  <1>1. /\ clock' \in Nat \ {0} /\ clock' >= clock
        /\ UNCHANGED <<local, outbox, since, syncOn, server, restoring, backup, latest, deleted, missed, restored>>
        /\ active' \in BOOLEAN
        /\ sync' = [sync EXCEPT ![s] = sync'[s]] /\ sync'[s] \in Loops
    BY <1>0, CollectFacts DEF deviceVars, historyVars
  <1>2. /\ sync'[s].session = 0 /\ sync'[s].page = <<>> /\ DOMAIN sync'[s].page = {}
        /\ sync'[s].phase = "posted"
    BY <1>0, CollectFacts
  <1>3. PICK ws \in SUBSET Wires :
              /\ sync'[s].chunks = Chunks(ws) /\ IsFiniteSet(ws)
              /\ \A w \in ws : /\ w.row \in Sendable
                               /\ w.at = IF sync[s].mode = "sync" THEN local[w.row].at ELSE StampOf(w.row, clock')
    BY <1>0, CollectFacts
  <1>4. clock \in Nat /\ clock <= clock' /\ since \in Nat /\ since <= clock
    BY <1>0, <1>1 DEF TimesBounded, SyncTypeOK
  <1>5. TimesBounded' /\ TimesTell' /\ NewestHeld' /\ Grows
    BY <1>1, <1>4, VersionsStayHeld DEF VersionsStay
  <1>6. SyncTypeOK'
    <2>1. sync' \in [Slots -> {Off} \cup Starts \cup Loops]
      BY <1>0, <1>1, SlotsThen
    <2> QED
      BY <2>1, <1>0, <1>1 DEF SyncTypeOK
  <1>7. FlightOK(s)'
    <2>1. ASSUME NEW i \in 1 .. Len(sync'[s].chunks), NEW w \in sync'[s].chunks[i]
          PROVE  0 < w.at /\ w.at <= clock'
      <3>1. w \in ws
        BY <1>3, ChunksAreParts
      <3>2. w.row \in Sendable /\ w.at = IF sync[s].mode = "sync" THEN local[w.row].at ELSE StampOf(w.row, clock')
        BY <1>3, <3>1
      <3>3. w.row \in Rows /\ local[w.row] # Absent
        BY <3>2 DEF Sendable, Present
      <3>4. 0 < local[w.row].at /\ local[w.row].at <= clock
        BY <1>0, <3>3, RowFields, <1>4 DEF TimesTell, TimesBounded
      <3>5. local[w.row].at \in Nat
        BY <1>0, <3>3, RowFields
      <3> QED
        BY <3>2, <3>4, <3>5, <1>1, <1>4 DEF StampOf
    <2>2. sync'[s].session <= clock'
      BY <1>1, <1>2
    <2> QED
      BY <2>1, <2>2, <1>2 DEF FlightOK
  <1>8. ASSUME NEW t \in Slots, t # s PROVE FlightOK(t)'
    <2>1. sync'[t] = sync[t]
      BY <1>0, <1>1, <1>8, SlotsThen
    <2> QED
      BY <2>1, <1>0, <1>5, FlightKept DEF VersionInv
  <1> QED
    BY <1>5, <1>6, <1>7, <1>8 DEF VersionInv

\* What the server has only gets newer with a request.
LEMMA HandleGrows ==
    ASSUME VersionInv, NEW s \in Slots, Handle(s)
    PROVE  /\ Grows /\ clock' \in {clock, clock + 1}
           /\ server' \in [Rows -> ServerRow]
           /\ \A r \in Rows : /\ RowHandled(s, r)
                              /\ server'[r].stamp \in Nat /\ server'[r].stamp <= clock'
                              /\ server'[r].at <= clock'
                              /\ server'[r].at = 0 \/ server'[r].stamp = 0 => server'[r] = Unknown
  <1>0. SyncTypeOK /\ TimesBounded /\ TimesTell /\ Runs(s) /\ FlightOK(s)
    BY HandleFacts DEF VersionInv
  <1>1. /\ clock \in Nat \ {0} /\ clock' \in {clock, clock + 1}
        /\ server' \in [Rows -> ServerRow]
        /\ \A r \in Rows : RowHandled(s, r)
    BY <1>0, HandleFacts, RequestHandled DEF SyncTypeOK
  <1>2. \A w \in Request(s) : 0 < w.at /\ w.at <= clock /\ w.at \in Nat
    <2>1. CASE sync[s].chunks = <<>>
      BY <2>1 DEF Request
    <2>2. CASE sync[s].chunks # <<>>
      BY <2>2, <1>0, HeadOfRequest DEF FlightOK
    <2> QED
      BY <2>1, <2>2
  <1>3. ASSUME NEW r \in Rows
        PROVE  /\ server'[r].stamp \in Nat /\ server'[r].stamp <= clock'
               /\ server'[r].at \in Nat /\ server[r].at <= server'[r].at /\ server'[r].at <= clock'
               /\ server[r].gone => server'[r].gone
               /\ server'[r].at = 0 \/ server'[r].stamp = 0 => server'[r] = Unknown
    <2>1. /\ server[r].at \in Nat /\ server[r].stamp \in Nat /\ server[r].stamp <= clock
          /\ server[r].at <= latest[r].at /\ latest[r].at <= clock /\ latest[r].at \in Nat
          /\ server[r].at = 0 \/ server[r].stamp = 0 => server[r] = Unknown
      BY <1>0, RowFields DEF TimesBounded, TimesTell
    <2>2. server'[r].stamp \in Nat /\ server'[r].at \in Nat
      BY <1>1 DEF ServerRow
    <2>3. CASE server'[r] = server[r]
      BY <2>1, <2>3, <1>1
    <2>4. ASSUME clock' = clock + 1, server'[r].stamp = clock', ~server[r].gone,
                 NEW w \in Request(s), w.at > server[r].at, server'[r].at = w.at
          PROVE  <1>3!2
      BY <2>1, <2>4, <1>1, <1>2
    <2>5. CASE /\ clock' = clock + 1 /\ server'[r].stamp = clock' /\ ~server[r].gone
               /\ server[r] # Unknown /\ server'[r].at = server[r].at
      BY <2>1, <2>5, <1>1
    <2> QED
      BY <2>3, <2>4, <2>5, <1>1 DEF RowHandled
  <1>4. clock' \in Nat \ {0} /\ clock <= clock'
    BY <1>1
  <1> QED
    BY <1>1, <1>3, <1>4 DEF Grows

\* A request is handled.
LEMMA HandleKeepsVersions ==
    ASSUME VersionInv, NEW s \in Slots, Handle(s)
    PROVE  VersionInv'
  <1>0. SyncTypeOK /\ TimesBounded /\ TimesTell /\ NewestHeld /\ FlightOK(s)
    BY DEF VersionInv
  <1>1. /\ Runs(s) /\ sync' = [sync EXCEPT ![s] = sync'[s]] /\ sync'[s] \in Loops
        /\ sync'[s].phase = "answered" /\ sync'[s].chunks = sync[s].chunks
        /\ sync'[s].session = IF sync[s].session = 0 THEN clock' ELSE sync[s].session
        /\ UNCHANGED <<local, outbox, since, syncOn, active, restoring, backup, deleted, missed, restored>>
    <2>1. UNCHANGED <<local, outbox, since, syncOn, active, restoring, backup, deleted, missed, restored>>
      BY DEF Handle, deviceVars
    <2> QED
      BY <2>1, <1>0, HandleFacts
  <1>2. PICK page \in SUBSET Rows : PageIs(s, page)
    BY <1>0, HandleFacts
  <1>3. /\ Grows /\ clock' \in {clock, clock + 1} /\ clock \in Nat \ {0}
        /\ server' \in [Rows -> ServerRow]
        /\ \A r \in Rows : /\ server'[r].stamp \in Nat /\ server'[r].stamp <= clock'
                           /\ server'[r].at <= clock'
                           /\ server'[r].at = 0 \/ server'[r].stamp = 0 => server'[r] = Unknown
    BY <1>0, HandleGrows DEF SyncTypeOK
  <1>4. latest' = [r \in Rows |-> IF server'[r].at > latest[r].at
                                  THEN [at |-> server'[r].at, val |-> server'[r].val] ELSE latest[r]]
    BY <1>0, HandleFacts DEF Handle, Answered, Request, Withdrawn
  <1>5. latest' \in [Rows -> Version]
    BY <1>0, <1>3, <1>4 DEF SyncTypeOK, ServerRow, Version
  <1>6. SyncTypeOK'
    <2>1. sync' \in [Slots -> {Off} \cup Starts \cup Loops]
      BY <1>0, <1>1, SlotsThen
    <2>2. clock' \in Nat \ {0}
      BY <1>3 DEF Grows
    <2> QED
      BY <2>1, <2>2, <1>0, <1>1, <1>3, <1>5 DEF SyncTypeOK
  <1>7. ASSUME NEW r \in Rows
        PROVE  /\ latest[r].at <= latest'[r].at /\ server'[r].at <= latest'[r].at
               /\ latest'[r].at <= clock' /\ latest'[r].at \in Nat
    <2>1. /\ latest[r].at \in Nat /\ server'[r].at \in Nat /\ server'[r].at <= clock'
          /\ latest[r].at <= clock /\ clock <= clock' /\ clock' \in Nat
      BY <1>0, <1>3, RowFields DEF TimesBounded, Grows
    <2>2. latest'[r].at = IF server'[r].at > latest[r].at THEN server'[r].at ELSE latest[r].at
      BY <1>4
    <2> QED
      BY <2>1, <2>2, <1>0, <1>3
  <1>8. TimesBounded'
    <2>1. since' <= clock'
      BY <1>0, <1>1, <1>3 DEF TimesBounded, SyncTypeOK
    <2>2. ASSUME NEW r \in Rows
          PROVE  local[r].at <= latest'[r].at /\ backup[r].at <= latest'[r].at
      <3>1. /\ local[r].at <= latest[r].at /\ backup[r].at <= latest[r].at
            /\ local[r].at \in Nat /\ backup[r].at \in Nat /\ latest[r].at \in Nat
        BY <1>0, RowFields DEF TimesBounded
      <3> QED
        BY <3>1, <1>7
    <2> QED
      BY <2>1, <2>2, <1>1, <1>3, <1>7 DEF TimesBounded
  <1>9. TimesTell'
    BY <1>0, <1>1, <1>3 DEF TimesTell
  <1>10. NewestHeld'
    <2> SUFFICES ASSUME NEW r \in Rows, restored.at = 0, r \notin deleted, ~server'[r].gone
                 PROVE  HeldBy(r)'
      BY <1>1 DEF NewestHeld
    <2>0. /\ latest'[r] = IF server'[r].at > latest[r].at
                          THEN [at |-> server'[r].at, val |-> server'[r].val] ELSE latest[r]
          /\ latest[r].at \in Nat /\ server[r].at \in Nat /\ latest[r] \in Version /\ local'[r] = local[r]
      BY <1>0, <1>1, <1>4, RowFields
    <2>1. ~server[r].gone /\ HeldBy(r)
      BY <1>0, <1>3 DEF Grows, NewestHeld
    <2>2. CASE server'[r].at > latest[r].at
      BY <2>0, <2>2 DEF HeldBy
    <2>3. CASE ~(server'[r].at > latest[r].at) /\ latest[r] = local[r]
      BY <2>0, <2>3 DEF HeldBy
    <2>4. CASE ~(server'[r].at > latest[r].at) /\ latest[r] = [at |-> server[r].at, val |-> server[r].val]
      <3>1. RowHandled(s, r)
        BY HandleGrows
      <3>2. latest[r].at = server[r].at
        BY <2>4
      <3>3. server'[r].at = server[r].at /\ server'[r].val = server[r].val
        <4>1. ASSUME NEW w \in Request(s), w.at > server[r].at, server'[r].at = w.at PROVE FALSE
          BY <4>1, <2>0, <2>4, <3>2
        <4> QED
          BY <3>1, <4>1 DEF RowHandled
      <3> QED
        BY <2>0, <2>4, <3>3 DEF HeldBy
    <2> QED
      BY <2>1, <2>2, <2>3, <2>4 DEF HeldBy
  <1>11. FlightOK(s)'
    <2>1. ASSUME NEW i \in 1 .. Len(sync'[s].chunks), NEW w \in sync'[s].chunks[i]
          PROVE  0 < w.at /\ w.at <= clock'
      <3>1. 0 < w.at /\ w.at <= clock /\ w.at \in Nat
        BY <1>0, <1>1, ChunkFields DEF FlightOK
      <3> QED
        BY <3>1, <1>3
    <2>2. ASSUME NEW r \in DOMAIN sync'[s].page
          PROVE  /\ 0 < sync'[s].page[r].at /\ sync'[s].page[r].at <= server'[r].at
                 /\ sync'[s].page[r].gone => server'[r].gone
      <3>1. r \in page /\ r \in Changed(s) /\ sync'[s].page[r] = server'[r]
        BY <1>2 DEF PageIs
      <3>2. r \in Rows /\ server'[r].stamp > sync[s].from /\ sync[s].from \in Nat
        BY <1>0, <1>1, <3>1, LoopFields DEF Changed
      <3>3. server'[r].stamp # 0 /\ server'[r].at \in Nat /\ server'[r].stamp \in Nat
        BY <1>3, <3>2 DEF ServerRow
      <3>4. server'[r].at # 0
        <4>1. Unknown.stamp = 0
          BY DEF Unknown
        <4> QED
          BY <1>3, <3>2, <3>3, <4>1
      <3> QED
        BY <3>1, <3>3, <3>4
    <2>3. sync'[s].session <= clock' /\ sync'[s].session > 0
      <3>1. sync[s].session \in Nat /\ sync[s].session <= clock
        BY <1>0, <1>1, LoopFields DEF FlightOK
      <3> QED
        BY <3>1, <1>1, <1>3
    <2> QED
      BY <2>1, <2>2, <2>3, <1>1 DEF FlightOK
  <1>12. ASSUME NEW t \in Slots, t # s PROVE FlightOK(t)'
    <2>1. sync'[t] = sync[t]
      BY <1>0, <1>1, <1>12, SlotsThen
    <2> QED
      BY <2>1, <1>0, <1>3, FlightKept DEF VersionInv
  <1> QED
    BY <1>6, <1>8, <1>9, <1>10, <1>11, <1>12 DEF VersionInv

\* An answer is received.
LEMMA ReceiveKeepsVersions ==
    ASSUME VersionInv, NEW s \in Slots, Receive(s)
    PROVE  VersionInv'
  <1>0. SyncTypeOK /\ TimesBounded /\ TimesTell /\ NewestHeld /\ FlightOK(s)
    BY DEF VersionInv
  <1>1. /\ Runs(s) /\ sync[s].phase = "answered" /\ local' = Applied(sync[s].page)
        /\ UNCHANGED <<clock, outbox, syncOn, server, backup, latest, deleted>>
        /\ sync' = [sync EXCEPT ![s] = sync'[s]]
        /\ \/ sync'[s] = Off
           \/ /\ sync'[s] \in Loops /\ sync'[s].session = sync[s].session
              /\ sync'[s].page = <<>> /\ DOMAIN sync'[s].page = {} /\ sync'[s].chunks = Rest(s)
        /\ since' \in {since, sync[s].session} /\ missed' \in {missed, missed \cup PassedOver(sync[s])}
        /\ restored' = [restored EXCEPT !.pushed = @ \/ (IsLast(s) /\ sync[s].bypass)]
        /\ active' \in BOOLEAN /\ restoring' \in {"no", restoring}
    BY <1>0, ReceiveFacts
  <1>2. /\ clock \in Nat \ {0} /\ sync[s].session \in Nat /\ sync[s].session <= clock
        /\ sync[s].session > 0 /\ sync[s].bypass \in BOOLEAN
    BY <1>0, <1>1, LoopFields DEF FlightOK, SyncTypeOK
  <1>3. /\ local' \in [Rows -> Version]
        /\ \A r \in Rows : TakenOver(s, r) \/ TakenAway(s, r) \/ LeftAlone(s, r)
    BY <1>0, <1>1, PageApplied
  <1>4. restored' \in [at : Nat, alone : BOOLEAN, pushed : BOOLEAN] /\ restored'.at = restored.at
    BY <1>0, <1>1, <1>2 DEF SyncTypeOK
  <1>5. SyncTypeOK'
    <2>1. sync' \in [Slots -> {Off} \cup Starts \cup Loops]
      BY <1>0, <1>1, SlotsThen
    <2>2. PassedOver(sync[s]) \subseteq Rows
      BY DEF PassedOver
    <2>3. since' \in Nat /\ missed' \subseteq Rows
      BY <1>0, <1>1, <1>2, <2>2 DEF SyncTypeOK
    <2> QED
      BY <2>1, <2>3, <1>0, <1>1, <1>3, <1>4 DEF SyncTypeOK
  <1>6. \A r \in DOMAIN sync[s].page :
           /\ r \in Rows /\ sync[s].page[r] \in ServerRow /\ sync[s].page[r].at \in Nat
           /\ 0 < sync[s].page[r].at /\ sync[s].page[r].at <= server[r].at
           /\ sync[s].page[r].gone => server[r].gone
    BY <1>0, <1>1, LoopFields DEF FlightOK, ServerRow
  <1>7. ASSUME NEW r \in Rows
        PROVE  /\ local'[r].at <= latest[r].at /\ (local'[r].at = 0 => local'[r] = Absent)
               /\ r \notin deleted /\ ~server[r].gone /\ restored.at = 0 => HeldBy(r)'
    <2>0. /\ local[r].at \in Nat /\ local[r].at <= latest[r].at /\ latest[r].at \in Nat
          /\ server[r].at \in Nat /\ server[r].at <= latest[r].at
          /\ local[r].at = 0 => local[r] = Absent
          /\ r \notin deleted /\ ~server[r].gone /\ restored.at = 0 => HeldBy(r)
      BY <1>0, RowFields DEF TimesBounded, TimesTell, NewestHeld
    <2>1. latest' = latest /\ server' = server
      BY <1>1
    <2>2. CASE TakenOver(s, r)
      <3>1. /\ r \in DOMAIN sync[s].page /\ sync[s].page[r].at > local[r].at
            /\ local'[r] = [at |-> sync[s].page[r].at, val |-> sync[s].page[r].val]
        BY <2>2 DEF TakenOver
      <3>2. /\ local'[r].at = sync[s].page[r].at /\ sync[s].page[r].at \in Nat
            /\ 0 < sync[s].page[r].at /\ sync[s].page[r].at <= server[r].at
        BY <1>6, <3>1
      <3>3. latest[r] # local[r]
        BY <2>0, <3>1, <3>2
      <3> QED
        BY <2>0, <2>1, <3>2, <3>3 DEF HeldBy
    <2>3. CASE TakenAway(s, r)
      <3>1. server[r].gone /\ local'[r] = Absent /\ local'[r].at = 0
        BY <1>6, <2>3 DEF TakenAway, Absent
      <3> QED
        BY <2>0, <3>1
    <2>4. CASE LeftAlone(s, r)
      BY <2>0, <2>1, <2>4 DEF LeftAlone, HeldBy
    <2> QED
      BY <1>3, <2>2, <2>3, <2>4
  <1>8. TimesBounded'
    BY <1>0, <1>1, <1>2, <1>7 DEF TimesBounded
  <1>9. TimesTell' /\ NewestHeld'
    BY <1>0, <1>1, <1>4, <1>7 DEF TimesTell, NewestHeld
  <1>10. Grows
    BY <1>0, <1>1, <1>2, RowFields DEF Grows
  <1>11. FlightOK(s)'
    <2>1. CASE sync'[s] = Off
      BY <2>1, NothingUnderWay
    <2>2. CASE sync'[s] # Off
      <3>1. ASSUME NEW i \in 1 .. Len(Rest(s)), NEW w \in Rest(s)[i]
            PROVE  0 < w.at /\ w.at <= clock
        <4>1. i + 1 \in 1 .. Len(sync[s].chunks) /\ w \in sync[s].chunks[i + 1]
          BY <1>0, <1>1, RestOfRequests
        <4> QED
          BY <4>1, <1>0, <1>1 DEF FlightOK
      <3> QED
        BY <2>2, <3>1, <1>1, <1>2 DEF FlightOK
    <2> QED
      BY <2>1, <2>2
  <1>12. ASSUME NEW t \in Slots, t # s PROVE FlightOK(t)'
    <2>1. sync'[t] = sync[t]
      BY <1>0, <1>1, <1>12, SlotsThen
    <2> QED
      BY <2>1, <1>0, <1>10, FlightKept DEF VersionInv
  <1> QED
    BY <1>5, <1>8, <1>9, <1>11, <1>12 DEF VersionInv

\* The syncs of a restore, and its end.
LEMMA RestoreKeepsVersions ==
    ASSUME VersionInv, RestoreBegins \/ RestoreDone \/ RestoreFails
    PROVE  VersionInv'
  <1>0. SyncTypeOK /\ TimesBounded /\ TimesTell /\ NewestHeld
    BY DEF VersionInv
  <1>1. clock \in Nat \ {0} /\ since \in Nat /\ since <= clock
    BY <1>0 DEF SyncTypeOK, TimesBounded
  <1>2. CASE RestoreBegins
    <2>1. /\ UNCHANGED <<clock, deviceVars, active, server, sync, backup, latest, deleted, missed>>
          /\ restoring' = "busy" /\ restored'.at = restored.at
          /\ restored' \in [at : Nat, alone : BOOLEAN, pushed : BOOLEAN]
      BY <1>0, <1>2 DEF RestoreBegins, SyncTypeOK
    <2>2. TimesBounded' /\ TimesTell' /\ NewestHeld' /\ Grows
      BY <2>1, <1>1, VersionsStayHeld DEF VersionsStay, deviceVars
    <2>3. SyncTypeOK'
      BY <2>1, <1>0 DEF SyncTypeOK, deviceVars
    <2> QED
      BY <2>1, <2>2, <2>3, OthersStep
  <1>3. CASE RestoreFails
    <2>1. /\ UNCHANGED <<clock, deviceVars, active, server, sync, backup, historyVars>>
          /\ restoring' = "no"
      BY <1>3 DEF RestoreFails
    <2>2. TimesBounded' /\ TimesTell' /\ NewestHeld' /\ Grows
      BY <2>1, <1>1, VersionsStayHeld DEF VersionsStay, deviceVars, historyVars
    <2>3. SyncTypeOK'
      BY <2>1, <1>0 DEF SyncTypeOK, deviceVars, historyVars
    <2> QED
      BY <2>1, <2>2, <2>3, OthersStep
  <1>4. CASE RestoreDone
    <2>1. /\ local' = backup /\ outbox' = {} /\ deleted' = {} /\ missed' = {}
          /\ restored' = [restored EXCEPT !.at = clock]
          /\ UNCHANGED <<clock, since, server, backup, latest>>
      BY <1>4 DEF RestoreDone
    <2>2. restored'.at = clock /\ restored' \in [at : Nat, alone : BOOLEAN, pushed : BOOLEAN]
      BY <2>1, <1>0, <1>1 DEF SyncTypeOK
    <2>3. TimesBounded' /\ TimesTell' /\ NewestHeld'
      BY <1>0, <1>1, <2>1, <2>2 DEF TimesBounded, TimesTell, NewestHeld
    <2>4. Grows
      BY <1>0, <1>1, <2>1, RowFields DEF Grows
    <2>5. CASE /\ UNCHANGED <<sync, active>> /\ restoring' = "no" /\ syncOn' \in {FALSE, syncOn}
      <3>1. SyncTypeOK'
        BY <2>1, <2>2, <2>5, <1>0 DEF SyncTypeOK
      <3> QED
        BY <2>3, <2>4, <2>5, <3>1, OthersStep
    <2>6. ASSUME NEW s \in Slots, sync' = [sync EXCEPT ![s] = Started("upload", TRUE)],
                 restoring' = "uploading", active' = TRUE, syncOn' = TRUE
          PROVE  VersionInv'
      <3>1. Started("upload", TRUE) \in Starts
        BY DEF Started, Starts, SyncModes
      <3>2. sync' \in [Slots -> {Off} \cup Starts \cup Loops] /\ sync'[s] = Started("upload", TRUE)
        BY <2>6, <3>1, <1>0, SlotsThen
      <3>3. SyncTypeOK'
        BY <2>1, <2>2, <2>6, <3>2, <1>0 DEF SyncTypeOK
      <3>4. ASSUME NEW t \in Slots PROVE FlightOK(t)'
        <4>1. CASE t = s
          BY <3>2, <4>1, NothingUnderWay DEF Started
        <4>2. CASE t # s
          <5>1. sync'[t] = sync[t]
            BY <2>6, <4>2, <1>0, SlotsThen
          <5> QED
            BY <5>1, <1>0, <2>4, FlightKept DEF VersionInv
        <4> QED
          BY <4>1, <4>2
      <3> QED
        BY <2>3, <3>3, <3>4 DEF VersionInv
    <2> QED
      BY <1>4, <2>5, <2>6 DEF RestoreDone
  <1> QED
    BY <1>2, <1>3, <1>4

\* A sync begins or ends, or the switch is turned.
LEMMA RestKeepsVersions ==
    ASSUME VersionInv,
           SetSyncOn \/ \E s \in Slots : AutoSync(s) \/ OneWay(s) \/ Fails(s) \/ Clear(s)
    PROVE  VersionInv'
  <1>0. SyncTypeOK /\ TimesBounded /\ TimesTell /\ NewestHeld
    BY DEF VersionInv
  <1>1. CASE SetSyncOn
    <2>1. /\ UNCHANGED <<clock, local, outbox, since, active, server, sync, restoring, backup, historyVars>>
          /\ syncOn' \in BOOLEAN
      BY <1>1 DEF SetSyncOn
    <2>2. clock \in Nat \ {0} /\ since \in Nat /\ since <= clock
      BY <1>0 DEF SyncTypeOK, TimesBounded
    <2>3. TimesBounded' /\ TimesTell' /\ NewestHeld' /\ Grows
      BY <2>1, <2>2, VersionsStayHeld DEF VersionsStay, historyVars
    <2>4. SyncTypeOK'
      BY <2>1, <1>0 DEF SyncTypeOK, historyVars
    <2> QED
      BY <2>1, <2>3, <2>4, OthersStep
  <1>2. ASSUME NEW s \in Slots, NEW mode \in Modes, StartSync(s, mode) PROVE VersionInv'
    <2>1. /\ UNCHANGED <<clock, deviceVars, server, restoring, backup, historyVars>> /\ active' = TRUE
          /\ sync' = [sync EXCEPT ![s] = Started(mode, FALSE)]
      BY <1>2 DEF StartSync
    <2>2. Started(mode, FALSE) \in Starts
      BY DEF Started, Starts, SyncModes
    <2>3. sync'[s] = Started(mode, FALSE)
      BY <2>1, <1>0, SlotsThen
    <2> QED
      BY <2>1, <2>2, <2>3, <1>0, SlotStep DEF VersionsStay, deviceVars, historyVars, SyncTypeOK
  <1>3. ASSUME NEW s \in Slots, Fails(s) PROVE VersionInv'
    <2>1. /\ UNCHANGED <<clock, deviceVars, server, backup, historyVars>> /\ active' = FALSE
          /\ sync' = [sync EXCEPT ![s] = Off] /\ restoring' \in {"no", restoring}
      BY <1>3 DEF Fails, Ends
    <2>2. sync'[s] = Off
      BY <2>1, <1>0, SlotsThen
    <2> QED
      BY <2>1, <2>2, <1>0, SlotStep DEF VersionsStay, deviceVars, historyVars, SyncTypeOK
  <1>4. ASSUME NEW s \in Slots, Clear(s) PROVE VersionInv'
    <2>1. /\ UNCHANGED <<clock, local, since, syncOn, server, backup, latest, deleted, restored>>
          /\ outbox' = {} /\ missed' = missed \cup (outbox \ sync[s].deletions) /\ active' = FALSE
          /\ sync' = [sync EXCEPT ![s] = Off] /\ restoring' \in {"no", restoring}
      BY <1>4 DEF Clear, Ends
    <2>2. sync'[s] = Off
      BY <2>1, <1>0, SlotsThen
    <2>3. outbox' \subseteq Rows /\ missed' \subseteq Rows
      BY <2>1, <1>0 DEF SyncTypeOK
    <2> QED
      BY <2>1, <2>2, <2>3, SlotStep DEF VersionsStay
  <1> QED
    BY <1>1, <1>2, <1>3, <1>4 DEF AutoSync, OneWay

LEMMA VersionInit == Init => VersionInv
  <1> SUFFICES ASSUME Init PROVE VersionInv
    OBVIOUS
  <1> DEFINE First == [at |-> 1, val |-> 1]
             FirstRow == [at |-> 1, val |-> 1, stamp |-> 1, gone |-> FALSE]
  <1>1. /\ clock = 1 /\ since = 0 /\ outbox = {} /\ deleted = {} /\ missed = {}
        /\ local \in [Rows -> {Absent, First}] /\ backup = local
        /\ server \in [Rows -> {Unknown, FirstRow}]
        /\ syncOn = TRUE /\ active = FALSE /\ sync = [s \in Slots |-> Off] /\ restoring = "no"
        /\ latest = [r \in Rows |-> IF Present(r) THEN local[r]
                                    ELSE [at |-> server[r].at, val |-> server[r].val]]
        /\ restored = NotRestored
    BY DEF Init
  <1>2. First \in Version /\ FirstRow \in ServerRow
    BY DEF Version, ServerRow
  <1>3. /\ local \in [Rows -> Version] /\ server \in [Rows -> ServerRow]
    BY <1>1, <1>2, NoRows
  <1>4. ASSUME NEW r \in Rows
        PROVE  /\ latest[r] \in Version
               /\ local[r].at <= latest[r].at /\ server[r].at <= latest[r].at /\ latest[r].at <= clock
               /\ server[r].stamp <= clock
               /\ local[r].at = 0 => local[r] = Absent
               /\ server[r].at = 0 \/ server[r].stamp = 0 => server[r] = Unknown
               /\ HeldBy(r)
    <2>1. local[r] \in {Absent, First} /\ server[r] \in {Unknown, FirstRow}
      BY <1>1
    <2>2. latest[r] = IF Present(r) THEN local[r] ELSE [at |-> server[r].at, val |-> server[r].val]
      BY <1>1
    <2>3. CASE Present(r)
      <3>1. local[r] = First /\ latest[r] = First
        BY <2>1, <2>2, <2>3 DEF Present
      <3> QED
        BY <3>1, <2>1, <1>1, <1>2 DEF HeldBy, Unknown
    <2>4. CASE ~Present(r)
      <3>1. local[r] = Absent /\ latest[r] = [at |-> server[r].at, val |-> server[r].val]
        BY <2>2, <2>4 DEF Present
      <3>2. server[r] \in ServerRow
        BY <1>3
      <3> QED
        BY <3>1, <3>2, <2>1, <1>1 DEF HeldBy, Unknown, Absent, ServerRow, Version
    <2> QED
      BY <2>3, <2>4
  <1>5. latest \in [Rows -> Version]
    BY <1>1, <1>4
  <1>6. restored \in [at : Nat, alone : BOOLEAN, pushed : BOOLEAN]
    BY <1>1 DEF NotRestored
  <1>7. SyncTypeOK
    <2>1. sync \in [Slots -> {Off} \cup Starts \cup Loops]
      BY <1>1
    <2>2. /\ clock \in Nat \ {0} /\ since \in Nat /\ restoring \in {"no", "busy", "uploading"}
          /\ outbox \subseteq Rows /\ deleted \subseteq Rows /\ missed \subseteq Rows
          /\ syncOn \in BOOLEAN /\ active \in BOOLEAN
      <3>1. clock \in Nat \ {0} /\ since \in Nat
        BY DEF Init
      <3>2. syncOn \in BOOLEAN /\ active \in BOOLEAN
        BY DEF Init
      <3>3. /\ outbox \subseteq Rows /\ deleted \subseteq Rows /\ missed \subseteq Rows
            /\ restoring \in {"no", "busy", "uploading"}
        BY DEF Init
      <3> QED
        BY <3>1, <3>2, <3>3
    <2>3. backup \in [Rows -> Version]
      BY <1>1, <1>3
    <2> QED
      BY <2>1, <2>2, <2>3, <1>3, <1>5, <1>6 DEF SyncTypeOK
  <1>8. TimesBounded /\ TimesTell /\ NewestHeld
    <2>1. since <= clock /\ \A r \in Rows : backup[r] = local[r]
      BY <1>1
    <2>2. TimesBounded
      BY <2>1, <1>4 DEF TimesBounded
    <2>3. TimesTell
      BY <2>1, <1>4 DEF TimesTell
    <2>4. NewestHeld
      BY <1>4 DEF NewestHeld
    <2> QED
      BY <2>2, <2>3, <2>4
  <1>9. \A s \in Slots : FlightOK(s)
    BY <1>1 DEF FlightOK, Runs, Off
  <1> QED
    BY <1>7, <1>8, <1>9 DEF VersionInv

LEMMA VersionStep == VersionInv /\ [Next]_vars => VersionInv'
  <1> SUFFICES ASSUME VersionInv, [Next]_vars PROVE VersionInv'
    OBVIOUS
  <1>1. ASSUME NEW r \in Rows, Edits(r) \/ Deletes(r) \/ OtherWrites(r) \/ OtherDeletes(r)
        PROVE  VersionInv'
    BY <1>1, EditKeepsVersions, UnstampedKeepsVersions, DeleteKeepsVersions,
       OtherWritesKeepsVersions, OtherDeletesKeepsVersions DEF Edits
  <1>2. ASSUME NEW s \in Slots, Collect(s) \/ Handle(s) \/ Receive(s)
        PROVE  VersionInv'
    BY <1>2, CollectKeepsVersions, HandleKeepsVersions, ReceiveKeepsVersions
  <1>3. CASE SetSyncOn \/ \E s \in Slots : AutoSync(s) \/ OneWay(s) \/ Fails(s) \/ Clear(s)
    BY <1>3, RestKeepsVersions
  <1>4. CASE RestoreBegins \/ RestoreDone \/ RestoreFails
    BY <1>4, RestoreKeepsVersions
  <1>5. CASE UNCHANGED vars
    <2>1. UNCHANGED <<clock, local, outbox, since, syncOn, active, server, sync, restoring, backup,
                      latest, deleted, missed, restored>>
      BY <1>5 DEF vars, deviceVars, historyVars
    <2>2. SyncTypeOK' /\ TimesBounded' /\ TimesTell' /\ NewestHeld' /\ Grows
      <3>1. clock \in Nat \ {0} /\ since \in Nat /\ since <= clock /\ SyncTypeOK
        BY DEF VersionInv, SyncTypeOK, TimesBounded
      <3>2. TimesBounded' /\ TimesTell' /\ NewestHeld' /\ Grows
        BY <2>1, <3>1, VersionsStayHeld DEF VersionsStay
      <3>3. SyncTypeOK'
        BY <2>1, <3>1 DEF SyncTypeOK
      <3> QED
        BY <3>2, <3>3
    <2> QED
      BY <2>1, <2>2, OthersStep
  <1> QED
    BY <1>1, <1>2, <1>3, <1>4, <1>5 DEF Next, User, Edits, Deletes, Sync

\* The variables of the sync client keep their types.
THEOREM SyncTypeCorrect == Spec => []SyncTypeOK
  <1>1. VersionInv => SyncTypeOK
    BY DEF VersionInv
  <1> QED
    BY <1>1, VersionInit, VersionStep, PTL DEF Spec

LEMMA VersionInvHolds == Spec => []VersionInv
  BY VersionInit, VersionStep, PTL DEF Spec

\* Whatever the order of edits, uploads, retries and pages, and however many syncs
\* overlap, the newest version of a row nobody deleted is on the device or on the
\* server; until a backup is restored, which brings old rows back on purpose
\* (sync_entity_applier.dart, the newest-wins rule, and the chunks of _syncLoop).
THEOREM NewestIsNotLost == Spec => [](restored.at = 0 => NewestSurvives)
  <1>1. ASSUME VersionInv, restored.at = 0 PROVE NewestSurvives
    <2> SUFFICES ASSUME NEW r \in Rows, r \notin deleted, ~server[r].gone
                 PROVE  latest[r].val \in {local[r].val, server[r].val}
      BY DEF NewestSurvives
    <2>1. HeldBy(r)
      BY <1>1 DEF VersionInv, NewestHeld
    <2> QED
      BY <2>1 DEF HeldBy
  <1>2. VersionInv => (restored.at = 0 => NewestSurvives)
    BY <1>1
  <1> QED
    BY <1>2, VersionInvHolds, PTL

-----------------------------------------------------------------------------
(* What is sent: the second layer, while one sync runs at a time.          *)

OneAtATime == \A s, t \in Slots : s = t

\* The requests whose rows the server has not seen yet.
ToSend(s) == {i \in 1 .. Len(sync[s].chunks) : sync[s].phase = "answered" => i # 1}
Wired(s, r) == \E i \in ToSend(s) : \E w \in sync[s].chunks[i] : w.row = r
Awaits(s, r) == \E i \in ToSend(s) : \E w \in sync[s].chunks[i] : w.row = r /\ w.at >= local[r].at
AtServer(r) == server[r].at >= local[r].at \/ server[r].gone

\* A row without its manga is left behind only by a deletion on the server, which
\* is final.
OrphansFinal == \A r \in DOMAIN Parent : Present(r) /\ ~Present(Parent[r]) => server[Parent[r]].gone

\* Only what was deleted here is to be deleted there; what came back since is known.
OutboxOfDeleted ==
    /\ outbox \subseteq deleted
    /\ \A r \in deleted : Present(r) => server[r] # Unknown

\* No request has two versions of a row.
OneWirePerRow(s) ==
    \A i \in 1 .. Len(sync[s].chunks) :
        \A v, w \in sync[s].chunks[i] : v.row = w.row => v = w

\* No page brings the manga of an orphan back.
NoLateManga(s) ==
    \A r \in DOMAIN Parent :
        Present(r) /\ ~Present(Parent[r]) /\ Parent[r] \in DOMAIN sync[s].page
            => sync[s].page[Parent[r]].gone

\* What since will move past is on the server, or in a request to come.
Carried(s) ==
    sync[s].phase \in {"posted", "answered"} /\ sync[s].mode # "download" =>
        \A r \in Sendable \ missed :
            sync[s].session = 0 \/ local[r].at < sync[s].session => AtServer(r) \/ Awaits(s, r)

\* The deletions sent with the first request hold: no later request brings the row
\* to the server after all.
DeletionsHold(s) ==
    /\ sync[s].deletions \subseteq deleted
    /\ \A r \in sync[s].deletions :
          IF sync[s].session = 0 THEN Wired(s, r) => server[r] # Unknown
          ELSE server[r].gone \/ (server[r] = Unknown /\ ~Wired(s, r))

\* A row deleted here that never came to the server does not come there any more.
NeverSent(s) ==
    \A r \in deleted \ missed :
        ~Present(r) /\ r \notin outbox /\ server[r] = Unknown => ~Wired(s, r)

SlotSent(s) ==
    Runs(s) => /\ OneWirePerRow(s) /\ NoLateManga(s) /\ Carried(s)
               /\ DeletionsHold(s) /\ NeverSent(s)

\* SentUpToSince with the times only.
SentByTime ==
    \A r \in Rows \ missed :
        /\ r \in Sendable /\ local[r].at < since
             => server[r].at >= local[r].at \/ server[r].gone
        /\ r \in deleted /\ ~Present(r) => r \in outbox \/ server[r] = Unknown \/ server[r].gone

SentNow ==
    /\ OrphansFinal /\ OutboxOfDeleted /\ SentByTime
    /\ \A s \in Slots : SlotSent(s)

\* A backup brings old rows back, and nothing is promised of them.
SentInv == restored.at = 0 => SentNow

-----------------------------------------------------------------------------
(* Every row that was collected is in a request.                           *)

LEMMA Quotients ==
    ASSUME NEW m \in Nat \ {0}, NEW n \in Nat, NEW k \in Nat
    PROVE  /\ n \div m \in Nat /\ k * m \in Nat /\ (k * m) \div m = k
           /\ k < n \div m => k * m <= n
  <1>1. n \div m \in Nat /\ k * m \in Nat
    OBVIOUS
  <1>2. (k * m) \div m = k
    BY SMTT(30)
  <1>3. n = m * (n \div m) + (n % m) /\ n % m \in 0 .. m - 1
    BY SMTT(30)
  <1>4. ASSUME k < n \div m PROVE k * m <= n
    <2> DEFINE q == n \div m
    <2>1. q \in Nat /\ k <= q /\ m * q <= n
      BY <1>1, <1>3, <1>4
    <2> HIDE DEF q
    <2>2. k * m <= q * m
      BY <2>1, SMTT(30)
    <2> QED
      BY <2>1, <2>2, <1>1
  <1> QED
    BY <1>1, <1>2, <1>4

\* A member of a finite set of naturals without gaps is below its cardinality.
LEMMA NoGaps ==
    ASSUME NEW I \in SUBSET Nat, IsFiniteSet(I), NEW j \in I, \A k \in Nat : k < j => k \in I
    PROVE  j < Cardinality(I)
  <1>1. 0 .. j \subseteq I
    OBVIOUS
  <1>2. Cardinality(0 .. j) = j + 1
    BY FS_Interval
  <1> QED
    BY <1>1, <1>2, FS_Subset, FS_CardinalityType

\* Chunks leaves none out, if no row is given twice.
LEMMA ChunksCover ==
    ASSUME NEW ws \in SUBSET Wires, IsFiniteSet(ws),
           \A v, w \in ws : v.row = w.row => v = w,
           NEW w \in ws
    PROVE  \E i \in 1 .. Len(Chunks(ws)) : w \in Chunks(ws)[i]
  <1> DEFINE SameEntity(u, v) == Entity[u.row] = Entity[v.row]
             UpTo(v) == {u \in ws : SameEntity(u, v) /\ u.row <= v.row}
             Before(v) == {u \in ws : SameEntity(u, v) /\ u.row < v.row}
             index(v) == (Cardinality(UpTo(v)) - 1) \div MaxRows
             I == {index(v) : v \in ws}
             K == {v.row : v \in {u \in ws : SameEntity(u, w)}}
  <1>0. MaxRows \in Nat \ {0} /\ \A v \in ws : v.row \in Nat
    BY SyncAssumption DEF Wires
  <1>1. ASSUME NEW v \in ws
        PROVE  IsFiniteSet(Before(v)) /\ Cardinality(Before(v)) = Cardinality(UpTo(v)) - 1
    <2>1. Before(v) = UpTo(v) \ {v} /\ v \in UpTo(v)
      BY <1>0
    <2>2. IsFiniteSet(UpTo(v)) /\ IsFiniteSet(Before(v))
      BY FS_Subset
    <2> HIDE DEF Before, UpTo
    <2> QED
      BY <2>1, <2>2, FS_RemoveElement, FS_CardinalityType
  <1>2. ASSUME NEW v \in ws, SameEntity(v, w)
        PROVE  RankIn(K, v.row) = Cardinality(UpTo(v)) - 1
    <2> DEFINE rows == [u \in Before(v) |-> u.row]
               Below == {k \in K : k < v.row}
    <2>1. \A u \in Before(v) : rows[u] \in Below
      BY <1>2
    <2>2. \A k \in Below : \E u \in Before(v) : rows[u] = k
      BY <1>2
    <2>3. rows \in Bijection(Before(v), Below)
      BY <2>1, <2>2 DEF Bijection, Injection, Surjection, IsInjective
    <2>4. RankIn(K, v.row) = Cardinality(Below)
      BY DEF RankIn
    <2> HIDE DEF rows, Below, Before, UpTo, K
    <2>5. Cardinality(Before(v)) = Cardinality(Below)
      BY <2>3, <1>1, FS_Bijection DEF ExistsBijection
    <2> QED
      BY <2>4, <2>5, <1>1
  <1>3. K \in SUBSET Nat /\ IsFiniteSet(K)
    <2> DEFINE S == {u \in ws : SameEntity(u, w)}
               g == [v \in S |-> v.row]
    <2>1. IsFiniteSet(S)
      BY FS_Subset
    <2>2. K = {g[v] : v \in S}
      OBVIOUS
    <2>3. IsFiniteSet(K)
      <3> HIDE DEF S, g, K
      <3> QED
        BY <2>1, <2>2, FiniteRange
    <2> QED
      BY <2>3, <1>0
  <1>4. /\ \A k \in K : RankIn(K, k) \in 0 .. Cardinality(K) - 1
        /\ \A n \in 0 .. Cardinality(K) - 1 : \E k \in K : RankIn(K, k) = n
    BY <1>3, RanksFillInterval
  <1>5. ASSUME NEW n \in Nat, n < index(w) PROVE n \in I
    <2> DEFINE p == RankIn(K, w.row)
    <2>1. w.row \in K /\ p \in 0 .. Cardinality(K) - 1 /\ Cardinality(K) \in Nat
      BY <1>3, <1>4, FS_CardinalityType
    <2>2. index(w) = p \div MaxRows
      BY <1>2
    <2>3. n * MaxRows \in Nat /\ n * MaxRows <= p /\ (n * MaxRows) \div MaxRows = n
      BY <2>1, <2>2, <1>0, <1>5, Quotients
    <2>4. n * MaxRows \in 0 .. Cardinality(K) - 1
      BY <2>1, <2>3
    <2>5. PICK k \in K : RankIn(K, k) = n * MaxRows
      BY <2>4, <1>4
    <2>6. PICK v \in ws : SameEntity(v, w) /\ v.row = k
      OBVIOUS
    <2>7. index(v) = n
      BY <2>3, <2>5, <2>6, <1>2
    <2> QED
      BY <2>7
  <1>6. \A v \in ws : index(v) \in Nat
    <2> SUFFICES ASSUME NEW v \in ws PROVE index(v) \in Nat
      OBVIOUS
    <2>1. Cardinality(UpTo(v)) - 1 \in Nat
      BY <1>1, FS_CardinalityType
    <2> QED
      BY <2>1, <1>0, Quotients
  <1>7. IsFiniteSet(I)
    <2> DEFINE g == [v \in ws |-> index(v)]
    <2>1. I = {g[v] : v \in ws}
      OBVIOUS
    <2> HIDE DEF index, g, I
    <2> QED
      BY <2>1, FiniteRange
  <1>8. index(w) \in Nat /\ index(w) < Cardinality(I) /\ Cardinality(I) \in Nat
    <2> HIDE DEF index
    <2>1. index(w) \in I /\ I \in SUBSET Nat
      BY <1>6
    <2> HIDE DEF I
    <2> QED
      BY <2>1, <1>5, <1>7, NoGaps, FS_CardinalityType
  <1>9. Chunks(ws) = [i \in 1 .. Cardinality(I) |-> {v \in ws : index(v) = i - 1}]
    BY DEF Chunks
  <1> HIDE DEF index, I
  <1>10. index(w) + 1 \in 1 .. Cardinality(I) /\ (index(w) + 1) - 1 = index(w)
    BY <1>8
  <1>11. Len(Chunks(ws)) = Cardinality(I) /\ w \in Chunks(ws)[index(w) + 1]
    BY <1>8, <1>9, <1>10
  <1> QED
    BY <1>10, <1>11

-----------------------------------------------------------------------------
(* The second layer is kept by every step.                                 *)

\* What the server makes of a row: never older, never back from a deletion, and
\* never known after all if it was deleted here.
ServerMoves ==
    \A r \in Rows :
        /\ server'[r].at \in Nat /\ server[r].at <= server'[r].at
        /\ server[r].gone => server'[r].gone
        /\ server[r] # Unknown => server'[r] # Unknown
        /\ r \in deleted \ missed /\ ~Present(r) /\ r \notin outbox /\ server[r] = Unknown
              => server'[r] = Unknown
        /\ \A s \in Slots :
              Runs(s) /\ r \in sync[s].deletions /\ server[r] = Unknown => server'[r] = Unknown

SentStays == UNCHANGED <<local, outbox, since, deleted, missed>>

LEMMA SentOverall ==
    ASSUME VersionInv, SentNow, SentStays, ServerMoves
    PROVE  (OrphansFinal /\ OutboxOfDeleted /\ SentByTime)'
  <1>0. SyncTypeOK /\ OrphansFinal /\ OutboxOfDeleted /\ SentByTime
    BY DEF VersionInv, SentNow
  <1>1. \A r \in Rows : (Present(r)' <=> Present(r)) /\ server[r].at \in Nat /\ local[r].at \in Nat
    BY <1>0, RowFields DEF SentStays, Present
  <1>2. OrphansFinal'
    BY <1>0, <1>1, SyncAssumption DEF OrphansFinal, ServerMoves
  <1>3. OutboxOfDeleted'
    BY <1>0, <1>1 DEF OutboxOfDeleted, ServerMoves, SentStays, SyncTypeOK
  <1>4. Sendable' = Sendable
    BY DEF SentStays, Sendable, Present
  <1>5. SentByTime'
    <2> SUFFICES ASSUME NEW r \in Rows \ missed
                 PROVE  /\ r \in Sendable /\ local[r].at < since => server'[r].at >= local[r].at \/ server'[r].gone
                        /\ r \in deleted /\ ~Present(r) => r \in outbox \/ server'[r] = Unknown \/ server'[r].gone
      BY <1>1, <1>4 DEF SentByTime, SentStays
    <2> QED
      BY <1>0, <1>1 DEF SentByTime, ServerMoves
  <1> QED
    BY <1>2, <1>3, <1>5

LEMMA SlotKept ==
    ASSUME VersionInv, SentNow, SentStays, ServerMoves, NEW s \in Slots, sync'[s] = sync[s]
    PROVE  SlotSent(s)'
  <1>0. SyncTypeOK /\ SlotSent(s)
    BY DEF VersionInv, SentNow
  <1>1. \A r \in Rows : (Present(r)' <=> Present(r)) /\ server[r].at \in Nat /\ local[r].at \in Nat
    BY <1>0, RowFields DEF SentStays, Present
  <1>2. (Sendable \ missed)' = Sendable \ missed
    BY DEF SentStays, Sendable, Present
  <1>3. \A r \in Rows : (Wired(s, r)' <=> Wired(s, r)) /\ (Awaits(s, r)' <=> Awaits(s, r))
    BY DEF Wired, Awaits, ToSend, SentStays
  <1> SUFFICES ASSUME Runs(s)'
               PROVE  (OneWirePerRow(s) /\ NoLateManga(s) /\ Carried(s) /\ DeletionsHold(s) /\ NeverSent(s))'
    BY DEF SlotSent
  <1>4. Runs(s) /\ OneWirePerRow(s) /\ NoLateManga(s) /\ Carried(s) /\ DeletionsHold(s) /\ NeverSent(s)
    BY <1>0 DEF SlotSent, Runs
  <1>5. OneWirePerRow(s)'
    BY <1>4 DEF OneWirePerRow
  <1>6. NoLateManga(s)'
    BY <1>4 DEF NoLateManga, SentStays, Present
  <1>7. \A r \in Rows : AtServer(r) => AtServer(r)'
    BY <1>1 DEF AtServer, ServerMoves, SentStays
  <1>8. Carried(s)'
    <2> SUFFICES ASSUME sync[s].phase \in {"posted", "answered"}, sync[s].mode # "download",
                        NEW r \in Sendable \ missed,
                        sync[s].session = 0 \/ local[r].at < sync[s].session
                 PROVE  AtServer(r)' \/ Awaits(s, r)'
      BY <1>2 DEF Carried, SentStays
    <2> QED
      BY <1>3, <1>4, <1>7 DEF Carried, Sendable
  <1>9. DeletionsHold(s)'
    <2>1. \A r \in sync[s].deletions : r \in Rows
      BY <1>0, <1>4, LoopFields
    <2> SUFFICES ASSUME NEW r \in sync[s].deletions
                 PROVE  IF sync[s].session = 0 THEN Wired(s, r) => server'[r] # Unknown
                        ELSE server'[r].gone \/ (server'[r] = Unknown /\ ~Wired(s, r))
      BY <1>3, <1>4, <2>1 DEF DeletionsHold, SentStays
    <2> QED
      BY <2>1, <1>4 DEF DeletionsHold, ServerMoves
  <1>10. NeverSent(s)'
    <2> SUFFICES ASSUME NEW r \in deleted \ missed, ~Present(r), r \notin outbox, server'[r] = Unknown
                 PROVE  ~Wired(s, r)
      BY <1>0, <1>1, <1>3 DEF NeverSent, SentStays, SyncTypeOK
    <2> QED
      BY <1>0, <1>4 DEF NeverSent, ServerMoves, SyncTypeOK
  <1> QED
    BY <1>5, <1>6, <1>8, <1>9, <1>10

\* A step of the server that no sync takes part in.
LEMMA ServerStepSent ==
    ASSUME VersionInv, SentNow, SentStays, ServerMoves, UNCHANGED sync
    PROVE  SentNow'
  BY SentOverall, SlotKept DEF SentNow

\* A sync begins, or is over.
LEMMA SlotStepSent ==
    ASSUME VersionInv, SentNow, SentStays, UNCHANGED server,
           NEW s \in Slots, sync' = [sync EXCEPT ![s] = sync'[s]], sync'[s] \in {Off} \cup Starts
    PROVE  SentNow'
  <1>1. ServerMoves
    BY RowFields DEF ServerMoves, VersionInv
  <1>2. SlotSent(s)'
    BY DEF SlotSent, Runs, Off, Starts
  <1>3. ASSUME NEW t \in Slots, t # s PROVE SlotSent(t)'
    <2>1. sync'[t] = sync[t]
      BY <1>3, SlotsThen DEF VersionInv
    <2> QED
      BY <2>1, <1>1, SlotKept
  <1> QED
    BY <1>1, <1>2, <1>3, SentOverall DEF SentNow

LEMMA OthersKeepSent ==
    ASSUME VersionInv, SentNow, NEW r \in Rows, OtherWrites(r) \/ OtherDeletes(r)
    PROVE  SentNow'
  <1>0. SyncTypeOK /\ TimesBounded /\ clock \in Nat
    BY DEF VersionInv, SyncTypeOK
  <1>1. SentStays /\ UNCHANGED sync
    BY DEF SentStays, OtherWrites, OtherDeletes, deviceVars, historyVars
  <1>2. CASE OtherWrites(r)
    <2>1. server' = [server EXCEPT ![r] = [at |-> clock', val |-> clock', stamp |-> clock', gone |-> FALSE]]
      BY <1>2 DEF OtherWrites
    <2>2. /\ clock' = clock + 1 /\ ~server[r].gone
          /\ server[r] = Unknown => r \notin deleted
      BY <1>2 DEF OtherWrites, Tick
    <2>3. /\ server'[r].at = clock' /\ server'[r] # Unknown
          /\ \A q \in Rows \ {r} : server'[q] = server[q]
      <3>1. server'[r] = [at |-> clock', val |-> clock', stamp |-> clock', gone |-> FALSE]
        BY <2>1, <1>0 DEF SyncTypeOK
      <3>2. Unknown.at = 0 /\ clock' # 0
        BY <1>0, <2>2 DEF Unknown
      <3> QED
        BY <3>1, <3>2, <2>1, <1>0 DEF SyncTypeOK
    <2>4. server[r].at <= clock' /\ \A q \in Rows : server[q].at \in Nat
      <3>1. server[r].at <= latest[r].at /\ latest[r].at <= clock
        BY <1>0 DEF TimesBounded
      <3> QED
        BY <3>1, <1>0, <2>2, RowFields
    <2>5. \A s \in Slots : Runs(s) => sync[s].deletions \subseteq deleted
      BY DEF SentNow, SlotSent, DeletionsHold
    <2>6. ServerMoves
      <3> SUFFICES ASSUME NEW q \in Rows
                   PROVE  /\ server'[q].at \in Nat /\ server[q].at <= server'[q].at
                          /\ server[q].gone => server'[q].gone
                          /\ server[q] # Unknown => server'[q] # Unknown
                          /\ q \in deleted /\ server[q] = Unknown => server'[q] = Unknown
        BY <2>5 DEF ServerMoves
      <3> QED
        BY <2>2, <2>3, <2>4, <1>0
    <2> QED
      BY <1>1, <2>6, ServerStepSent
  <1>3. CASE OtherDeletes(r)
    <2>1. \A q \in Rows :
             \/ server'[q] = server[q]
             \/ /\ server[q] # Unknown /\ server'[q].gone /\ server'[q].at = server[q].at
      BY <1>0, <1>3, OtherDeletesFacts
    <2>2. ~Unknown.gone
      BY DEF Unknown
    <2>3. ServerMoves
      BY <2>1, <2>2, <1>0, RowFields DEF ServerMoves
    <2> QED
      BY <1>1, <2>3, ServerStepSent
  <1> QED
    BY <1>2, <1>3

\* A sync begins, fails or clears its deletions, the switch is turned, a restore
\* begins or fails, or nothing happens.
LEMMA RestKeepsSent ==
    ASSUME VersionInv, SentNow,
           \/ SetSyncOn \/ RestoreBegins \/ RestoreFails \/ UNCHANGED vars
           \/ \E s \in Slots : AutoSync(s) \/ OneWay(s) \/ Fails(s)
    PROVE  SentNow'
  <1>1. CASE SetSyncOn \/ RestoreBegins \/ RestoreFails \/ UNCHANGED vars
    <2>1. SentStays /\ UNCHANGED <<sync, server>>
      BY <1>1 DEF SetSyncOn, RestoreBegins, RestoreFails, SentStays, vars, deviceVars, historyVars
    <2>2. ServerMoves
      BY <2>1, RowFields DEF ServerMoves, VersionInv
    <2> QED
      BY <2>1, <2>2, ServerStepSent
  <1>2. ASSUME NEW s \in Slots, NEW mode \in Modes, StartSync(s, mode) PROVE SentNow'
    <2>1. SentStays /\ UNCHANGED server /\ sync' = [sync EXCEPT ![s] = Started(mode, FALSE)]
      BY <1>2 DEF StartSync, SentStays, deviceVars, historyVars
    <2>2. sync'[s] = Started(mode, FALSE)
      BY <2>1, SlotsThen DEF VersionInv
    <2>3. Started(mode, FALSE) \in Starts
      BY DEF Started, Starts, SyncModes
    <2> QED
      BY <2>1, <2>2, <2>3, SlotStepSent
  <1>3. ASSUME NEW s \in Slots, Fails(s) PROVE SentNow'
    <2>1. SentStays /\ UNCHANGED server /\ sync' = [sync EXCEPT ![s] = Off]
      BY <1>3 DEF Fails, Ends, SentStays, deviceVars, historyVars
    <2>2. sync'[s] = Off
      BY <2>1, SlotsThen DEF VersionInv
    <2> QED
      BY <2>1, <2>2, SlotStepSent
  <1> QED
    BY <1>1, <1>2, <1>3 DEF AutoSync, OneWay

LEMMA EditKeepsSent ==
    ASSUME VersionInv, SentNow, NEW r \in Rows, Edit(r)
    PROVE  SentNow'
  <1>0. SyncTypeOK /\ TimesBounded /\ TimesTell /\ clock \in Nat /\ since <= clock /\ since \in Nat
    BY DEF VersionInv, SyncTypeOK, TimesBounded
  <1>1. /\ clock' = clock + 1
        /\ UNCHANGED <<outbox, since, server, sync, deleted>>
        /\ \/ Present(r)
           \/ r \notin deleted /\ server[r] = Unknown /\ (r \in DOMAIN Parent => Present(Parent[r]))
    BY DEF Edit, Tick
  <1>2. /\ local'[r].at = clock + 1 /\ Present(r)'
        /\ \A q \in Rows \ {r} : local'[q] = local[q] /\ (Present(q)' <=> Present(q))
    <2>1. local' = [local EXCEPT ![r] = [at |-> clock', val |-> clock']]
      BY DEF Edit
    <2>2. local'[r] = [at |-> clock', val |-> clock'] /\ \A q \in Rows \ {r} : local'[q] = local[q]
      BY <2>1, <1>0 DEF SyncTypeOK
    <2>3. local'[r] # Absent
      BY <2>2, <1>0, <1>1 DEF Absent
    <2> QED
      BY <2>2, <2>3, <1>1 DEF Present
  <1>3. /\ missed \ {r} \subseteq missed'
        /\ \A s \in Slots : sync[s].phase = "posted" /\ sync[s].session = 0 => r \in missed'
    BY DEF Edit
  <1>4. OrphansFinal /\ OutboxOfDeleted /\ SentByTime
    BY DEF SentNow
  <1>5. \A q \in DOMAIN Parent : Present(q)' /\ ~Present(Parent[q])' => Present(q) /\ ~Present(Parent[q])
    BY <1>1, <1>2, SyncAssumption
  <1>6. ASSUME NEW q \in Sendable', q # r PROVE q \in Sendable /\ local'[q] = local[q]
    <2>1. q \in Rows /\ Present(q) /\ local'[q] = local[q]
      BY <1>2, <1>6 DEF Sendable
    <2>2. ASSUME q \in DOMAIN Parent PROVE Present(Parent[q])
      <3>1. Parent[q] \in Rows /\ Present(Parent[q])'
        BY <1>6, <2>2, SyncAssumption DEF Sendable, HasManga
      <3>2. CASE Parent[q] = r /\ ~Present(r)
        <4>1. server[r].gone /\ server[r] = Unknown
          BY <1>1, <1>4, <2>1, <2>2, <3>2 DEF OrphansFinal
        <4> QED
          BY <4>1 DEF Unknown
      <3> QED
        BY <3>1, <3>2, <1>2
    <2> QED
      BY <2>1, <2>2, SyncAssumption DEF Sendable, HasManga
  <1>7. OrphansFinal'
    BY <1>1, <1>4, <1>5 DEF OrphansFinal
  <1>8. OutboxOfDeleted'
    BY <1>0, <1>1, <1>2, <1>4 DEF OutboxOfDeleted, SyncTypeOK
  <1>9. SentByTime'
    <2> SUFFICES ASSUME NEW q \in Rows \ missed'
                 PROVE  /\ q \in Sendable' /\ local'[q].at < since => server[q].at >= local'[q].at \/ server[q].gone
                        /\ q \in deleted /\ ~Present(q)' => q \in outbox \/ server[q] = Unknown \/ server[q].gone
      BY <1>1 DEF SentByTime
    <2>1. CASE q = r
      BY <2>1, <1>0, <1>2
    <2>2. CASE q # r
      BY <2>2, <1>2, <1>3, <1>4, <1>6 DEF SentByTime
    <2> QED
      BY <2>1, <2>2
  <1>10. ASSUME NEW s \in Slots PROVE SlotSent(s)'
    <2> SUFFICES ASSUME Runs(s)
                 PROVE  (OneWirePerRow(s) /\ NoLateManga(s) /\ Carried(s) /\ DeletionsHold(s) /\ NeverSent(s))'
      BY <1>1 DEF SlotSent, Runs
    <2>1. OneWirePerRow(s) /\ NoLateManga(s) /\ Carried(s) /\ DeletionsHold(s) /\ NeverSent(s)
      BY DEF SentNow, SlotSent
    <2>2. sync[s].session \in Nat /\ sync[s].session <= clock
          /\ (sync[s].phase = "answered" => sync[s].session > 0)
      BY <1>0, LoopFields DEF VersionInv, FlightOK
    <2>3. OneWirePerRow(s)'
      BY <1>1, <2>1 DEF OneWirePerRow
    <2>4. NoLateManga(s)'
      BY <1>1, <1>5, <2>1 DEF NoLateManga
    <2>5. Carried(s)'
      <3> SUFFICES ASSUME sync[s].phase \in {"posted", "answered"}, sync[s].mode # "download",
                          NEW q \in Sendable' \ missed',
                          sync[s].session = 0 \/ local'[q].at < sync[s].session
                   PROVE  AtServer(q)' \/ Awaits(s, q)'
        BY <1>1 DEF Carried
      <3>1. CASE q = r
        BY <3>1, <1>0, <1>2, <1>3, <2>2
      <3>2. CASE q # r
        <4>1. q \in Sendable \ missed /\ local'[q] = local[q]
          BY <3>2, <1>3, <1>6
        <4>2. AtServer(q) \/ Awaits(s, q)
          BY <4>1, <2>1 DEF Carried
        <4> QED
          BY <4>1, <4>2, <1>1 DEF AtServer, Awaits, ToSend
      <3> QED
        BY <3>1, <3>2
    <2>6. DeletionsHold(s)'
      BY <1>1, <2>1 DEF DeletionsHold, Wired, ToSend
    <2>7. NeverSent(s)'
      <3> SUFFICES ASSUME NEW q \in deleted \ missed', ~Present(q)', q \notin outbox, server[q] = Unknown
                   PROVE  ~Wired(s, q)
        BY <1>1 DEF NeverSent, Wired, ToSend
      <3>1. q \in Rows /\ q # r /\ q \notin missed /\ ~Present(q)
        BY <1>0, <1>2, <1>3 DEF SyncTypeOK
      <3> QED
        BY <3>1, <2>1 DEF NeverSent
    <2> QED
      BY <2>3, <2>4, <2>5, <2>6, <2>7
  <1> QED
    BY <1>7, <1>8, <1>9, <1>10 DEF SentNow

LEMMA UnstampedKeepsSent ==
    ASSUME VersionInv, SentNow, NEW r \in Rows, EditUnstamped(r)
    PROVE  SentNow'
  <1>0. SyncTypeOK /\ OrphansFinal /\ OutboxOfDeleted /\ SentByTime
    BY DEF VersionInv, SentNow
  <1>1. /\ UNCHANGED <<outbox, since, server, sync, deleted>> /\ missed \subseteq missed'
        /\ \A q \in Rows : local'[q].at = local[q].at /\ (Present(q)' <=> Present(q))
    BY <1>0, UnstampedFacts
  <1>2. Sendable' = Sendable
    BY <1>1, SyncAssumption DEF Sendable, HasManga
  <1>3. OrphansFinal' /\ OutboxOfDeleted'
    BY <1>0, <1>1, SyncAssumption DEF OrphansFinal, OutboxOfDeleted, SyncTypeOK
  <1>4. \A q \in Rows : /\ AtServer(q)' <=> AtServer(q)
                        /\ \A s \in Slots : (Wired(s, q)' <=> Wired(s, q)) /\ (Awaits(s, q)' <=> Awaits(s, q))
    BY <1>1 DEF AtServer, Wired, Awaits, ToSend
  <1>5. SentByTime'
    BY <1>0, <1>1, <1>2, <1>4 DEF SentByTime
  <1>6. ASSUME NEW s \in Slots PROVE SlotSent(s)'
    <2> SUFFICES ASSUME Runs(s)
                 PROVE  (OneWirePerRow(s) /\ NoLateManga(s) /\ Carried(s) /\ DeletionsHold(s) /\ NeverSent(s))'
      BY <1>1 DEF SlotSent, Runs
    <2>1. OneWirePerRow(s) /\ NoLateManga(s) /\ Carried(s) /\ DeletionsHold(s) /\ NeverSent(s)
      BY DEF SentNow, SlotSent
    <2>2. OneWirePerRow(s)'
      BY <1>1, <2>1 DEF OneWirePerRow
    <2>3. NoLateManga(s)'
      BY <1>1, <2>1, SyncAssumption DEF NoLateManga
    <2>4. Carried(s)'
      <3> SUFFICES ASSUME sync[s].phase \in {"posted", "answered"}, sync[s].mode # "download",
                          NEW q \in Sendable' \ missed',
                          sync[s].session = 0 \/ local'[q].at < sync[s].session
                   PROVE  AtServer(q)' \/ Awaits(s, q)'
        BY <1>1 DEF Carried
      <3>1. q \in Sendable \ missed /\ q \in Rows
        BY <1>1, <1>2 DEF Sendable
      <3> QED
        BY <3>1, <1>1, <1>4, <2>1 DEF Carried
    <2>5. DeletionsHold(s)'
      BY <1>1, <2>1 DEF DeletionsHold, Wired, ToSend
    <2>6. NeverSent(s)'
      <3> SUFFICES ASSUME NEW q \in deleted \ missed', ~Present(q)', q \notin outbox, server[q] = Unknown
                   PROVE  ~Wired(s, q)
        BY <1>1 DEF NeverSent, Wired, ToSend
      <3> QED
        BY <1>0, <1>1, <2>1 DEF NeverSent, SyncTypeOK
    <2> QED
      BY <2>2, <2>3, <2>4, <2>5, <2>6
  <1> QED
    BY <1>3, <1>5, <1>6 DEF SentNow

LEMMA DeleteKeepsSent ==
    ASSUME VersionInv, SentNow, NEW r \in Rows, Deletes(r)
    PROVE  SentNow'
  <1> DEFINE rs == Going(r)
  <1>0. SyncTypeOK /\ OrphansFinal /\ OutboxOfDeleted /\ SentByTime
    BY DEF VersionInv, SentNow
  <1>1. /\ UNCHANGED <<since, server, sync>> /\ deleted' = deleted \cup rs
        /\ local' = [q \in Rows |-> IF q \in rs THEN Absent ELSE local[q]]
        /\ r \in rs
    BY <1>0, DeleteFacts
  <1>2. rs \subseteq Rows
    BY <1>0, DeleteFacts
  <1>3. \A q \in Rows : /\ Present(q)' <=> Present(q) /\ q \notin rs
                        /\ Present(q)' => local'[q] = local[q]
    BY <1>1 DEF Present
  <1>4. /\ outbox \subseteq outbox' /\ outbox' \subseteq outbox \cup rs
        /\ missed \ rs \subseteq missed' /\ \A q \in rs : q \in outbox' \/ q \in missed'
    BY <1>0, DeleteFacts
  <1>5. ASSUME NEW q \in DOMAIN Parent, Present(q)', ~Present(Parent[q])'
        PROVE  Present(q) /\ ~Present(Parent[q])
    <2>1. q \in Rows /\ Parent[q] \in Rows /\ Parent[q] \notin DOMAIN Parent
      BY SyncAssumption
    <2>2. Present(q) /\ q \notin rs
      BY <2>1, <1>3, <1>5
    <2>3. CASE Parent[q] \in rs
      <3>1. Parent[q] = r
        BY <2>1, <2>3 DEF Going, Family
      <3>2. q \in rs
        BY <2>2, <3>1 DEF Going, Family
      <3> QED
        BY <2>2, <3>2
    <2> QED
      BY <2>1, <2>2, <2>3, <1>3, <1>5
  <1> HIDE DEF rs
  <1>6. ASSUME NEW q \in Sendable' \ missed'
        PROVE  q \in Sendable \ missed /\ local'[q] = local[q]
    <2>1. q \in Rows /\ Present(q) /\ q \notin rs /\ local'[q] = local[q] /\ q \notin missed
      BY <1>3, <1>4, <1>6 DEF Sendable
    <2>2. q \in DOMAIN Parent => Parent[q] \in Rows /\ Present(Parent[q])
      BY <1>3, <1>6, SyncAssumption DEF Sendable, HasManga
    <2> QED
      BY <2>1, <2>2 DEF Sendable, HasManga
  <1>7. ASSUME NEW q \in deleted' \ missed', ~Present(q)', q \notin outbox'
        PROVE  q \in deleted \ missed /\ ~Present(q) /\ q \notin outbox
    BY <1>0, <1>1, <1>2, <1>3, <1>4, <1>7 DEF SyncTypeOK
  <1>8. OrphansFinal'
    BY <1>0, <1>1, <1>5 DEF OrphansFinal
  <1>9. OutboxOfDeleted'
    BY <1>0, <1>1, <1>2, <1>3, <1>4 DEF OutboxOfDeleted, SyncTypeOK
  <1>10. SentByTime'
    <2> SUFFICES ASSUME NEW q \in Rows \ missed'
                 PROVE  /\ q \in Sendable' /\ local'[q].at < since => server[q].at >= local'[q].at \/ server[q].gone
                        /\ q \in deleted' /\ ~Present(q)' => q \in outbox' \/ server[q] = Unknown \/ server[q].gone
      BY <1>1 DEF SentByTime
    <2> QED
      BY <1>0, <1>6, <1>7 DEF SentByTime
  <1>11. ASSUME NEW s \in Slots PROVE SlotSent(s)'
    <2> SUFFICES ASSUME Runs(s)
                 PROVE  (OneWirePerRow(s) /\ NoLateManga(s) /\ Carried(s) /\ DeletionsHold(s) /\ NeverSent(s))'
      BY <1>1 DEF SlotSent, Runs
    <2>1. OneWirePerRow(s) /\ NoLateManga(s) /\ Carried(s) /\ DeletionsHold(s) /\ NeverSent(s)
      BY DEF SentNow, SlotSent
    <2>2. OneWirePerRow(s)'
      BY <1>1, <2>1 DEF OneWirePerRow
    <2>3. NoLateManga(s)'
      BY <1>1, <1>5, <2>1 DEF NoLateManga
    <2>4. Carried(s)'
      <3> SUFFICES ASSUME sync[s].phase \in {"posted", "answered"}, sync[s].mode # "download",
                          NEW q \in Sendable' \ missed',
                          sync[s].session = 0 \/ local'[q].at < sync[s].session
                   PROVE  AtServer(q)' \/ Awaits(s, q)'
        BY <1>1 DEF Carried
      <3>1. q \in Sendable \ missed /\ local'[q] = local[q]
        BY <1>6
      <3>2. AtServer(q) \/ Awaits(s, q)
        BY <3>1, <2>1 DEF Carried
      <3> QED
        BY <3>1, <3>2, <1>1 DEF AtServer, Awaits, ToSend
    <2>5. DeletionsHold(s)'
      BY <1>1, <2>1 DEF DeletionsHold, Wired, ToSend
    <2>6. NeverSent(s)'
      <3> SUFFICES ASSUME NEW q \in deleted' \ missed', ~Present(q)', q \notin outbox', server[q] = Unknown
                   PROVE  ~Wired(s, q)
        BY <1>1 DEF NeverSent, Wired, ToSend
      <3> QED
        BY <1>7, <2>1 DEF NeverSent
    <2> QED
      BY <2>2, <2>3, <2>4, <2>5, <2>6
  <1> QED
    BY <1>8, <1>9, <1>10, <1>11 DEF SentNow

\* What clearUploaded drops was sent with the first request, or is missed.
LEMMA ClearKeepsSent ==
    ASSUME VersionInv, SentNow, OneAtATime, NEW s \in Slots, Clear(s)
    PROVE  SentNow'
  <1>0. SyncTypeOK /\ OrphansFinal /\ OutboxOfDeleted /\ SentByTime
    BY DEF VersionInv, SentNow
  <1>1. /\ UNCHANGED <<local, since, server, deleted>> /\ sync[s].phase = "clearing"
        /\ outbox' = {} /\ missed' = missed \cup (outbox \ sync[s].deletions)
        /\ sync' = [sync EXCEPT ![s] = Off]
    BY DEF Clear, Ends
  <1>2. Sendable' = Sendable /\ \A q \in Rows : Present(q)' <=> Present(q)
    BY <1>1 DEF Sendable, Present
  <1>3. \A q \in sync[s].deletions : server[q].gone \/ server[q] = Unknown
    <2>1. Runs(s)
      BY <1>1 DEF Runs
    <2>2. sync[s].session # 0 /\ DeletionsHold(s)
      BY <1>1, <2>1, LoopFields DEF VersionInv, FlightOK, SentNow, SlotSent
    <2> QED
      BY <2>2 DEF DeletionsHold
  <1>4. OrphansFinal' /\ OutboxOfDeleted'
    BY <1>0, <1>1, <1>2, SyncAssumption DEF OrphansFinal, OutboxOfDeleted, SyncTypeOK
  <1>5. SentByTime'
    <2> SUFFICES ASSUME NEW q \in Rows \ missed'
                 PROVE  /\ q \in Sendable /\ local[q].at < since => server[q].at >= local[q].at \/ server[q].gone
                        /\ q \in deleted /\ ~Present(q) => server[q] = Unknown \/ server[q].gone
      BY <1>1, <1>2 DEF SentByTime
    <2> QED
      BY <1>0, <1>1, <1>3 DEF SentByTime
  <1>6. ASSUME NEW t \in Slots PROVE SlotSent(t)'
    <2>1. t = s
      BY DEF OneAtATime
    <2>2. sync'[s] = Off
      BY <1>0, <1>1, SlotsThen
    <2> QED
      BY <2>1, <2>2 DEF SlotSent, Runs, Off
  <1> QED
    BY <1>4, <1>5, <1>6 DEF SentNow

LEMMA CollectKeepsSent ==
    ASSUME VersionInv, SentNow, OneAtATime, NEW s \in Slots, Collect(s)
    PROVE  SentNow'
  <1>0. SyncTypeOK /\ TimesBounded /\ OrphansFinal /\ OutboxOfDeleted /\ SentByTime
    BY DEF VersionInv, SentNow
  <1>1. /\ UNCHANGED <<local, outbox, since, server, deleted, missed>> /\ clock' >= clock
        /\ clock' \in Nat
        /\ sync'[s].phase = "posted" /\ sync'[s].mode = sync[s].mode /\ sync'[s].session = 0
        /\ DOMAIN sync'[s].page = {}
        /\ sync'[s].deletions = IF sync[s].mode = "sync" THEN outbox ELSE {}
    BY <1>0, CollectFacts DEF deviceVars, historyVars
  <1>2. PICK ws \in SUBSET Wires :
           /\ Collected(s, ws) /\ sync'[s].chunks = Chunks(ws)
           /\ IsFiniteSet(ws)
           /\ \A w \in ws : /\ w.row \in Sendable /\ w.val = local[w.row].val
                            /\ w.at = IF sync[s].mode = "sync" THEN local[w.row].at ELSE StampOf(w.row, clock')
    BY <1>0, CollectFacts
  <1>3. \A v, w \in ws : v.row = w.row => v = w
    BY <1>2 DEF Wires
  <1>4. /\ \A i \in 1 .. Len(sync'[s].chunks) : sync'[s].chunks[i] \subseteq ws
        /\ \A w \in ws : \E i \in 1 .. Len(sync'[s].chunks) : w \in sync'[s].chunks[i]
    BY <1>2, <1>3, ChunksAreParts, ChunksCover
  <1>5. ServerMoves /\ SentStays
    BY <1>0, <1>1, RowFields DEF ServerMoves, SentStays
  <1>6. (OrphansFinal /\ OutboxOfDeleted /\ SentByTime)'
    BY <1>5, SentOverall
  <1>7. Sendable' = Sendable /\ \A q \in Rows : Present(q)' <=> Present(q)
    BY <1>1 DEF Sendable, Present
  <1>8. ToSend(s)' = 1 .. Len(sync'[s].chunks)
    BY <1>1 DEF ToSend
  <1>9. \A q : Wired(s, q)' => q \in Sendable
    BY <1>2, <1>4, <1>8 DEF Wired
  <1>10. OneWirePerRow(s)' /\ NoLateManga(s)'
    BY <1>1, <1>3, <1>4 DEF OneWirePerRow, NoLateManga
  <1>11. Carried(s)'
    <2> SUFFICES ASSUME sync[s].mode # "download", NEW q \in Sendable \ missed
                 PROVE  AtServer(q)' \/ Awaits(s, q)'
      BY <1>1, <1>7 DEF Carried
    <2>1. q \in Rows /\ local[q].at \in Nat /\ local[q].at <= clock'
      <3>1. q \in Rows
        BY DEF Sendable
      <3>2. local[q].at <= latest[q].at /\ latest[q].at <= clock
        BY <3>1, <1>0 DEF TimesBounded
      <3> QED
        BY <3>1, <3>2, <1>0, <1>1, RowFields DEF SyncTypeOK
    <2>2. ASSUME NEW w \in ws, w.row = q, w.at >= local[q].at PROVE Awaits(s, q)'
      BY <2>2, <1>1, <1>4, <1>8 DEF Awaits
    <2>3. CASE ws = ChangedRows /\ local[q].at >= since
      <3>1. WireRow(q, local[q].at) \in ws
        BY <2>3 DEF ChangedRows
      <3> QED
        BY <3>1, <2>1, <2>2 DEF WireRow
    <2>4. CASE ws = ChangedRows /\ local[q].at < since
      <3>1. AtServer(q)
        BY <2>1, <2>4, <1>0 DEF SentByTime, AtServer
      <3> QED
        BY <3>1, <1>1 DEF AtServer
    <2>5. CASE ws = AllRows(clock')
      <3>1. WireRow(q, StampOf(q, clock')) \in ws
        BY <2>5 DEF AllRows, StampOf
      <3> QED
        BY <3>1, <2>1, <2>2 DEF WireRow, StampOf
    <2>6. since \in Nat
      BY <1>0 DEF SyncTypeOK
    <2> QED
      BY <2>1, <2>3, <2>4, <2>5, <2>6, <1>2 DEF Collected
  <1>12. DeletionsHold(s)'
    <2> SUFFICES ASSUME NEW q \in outbox, Wired(s, q)'
                 PROVE  server[q] # Unknown
      BY <1>0, <1>1 DEF DeletionsHold, OutboxOfDeleted
    <2> QED
      BY <1>0, <1>9 DEF OutboxOfDeleted, Sendable
  <1>13. NeverSent(s)'
    BY <1>0, <1>1, <1>7, <1>9 DEF NeverSent, Sendable, SyncTypeOK
  <1>14. SlotSent(s)'
    BY <1>10, <1>11, <1>12, <1>13 DEF SlotSent
  <1> QED
    BY <1>6, <1>14 DEF SentNow, OneAtATime

\* The server takes over the rows of a request that it does not have newer, and the
\* deletions of the first.
LEMMA HandleKeepsSent ==
    ASSUME VersionInv, SentNow, OneAtATime, NEW s \in Slots, Handle(s)
    PROVE  SentNow'
  <1>0. SyncTypeOK /\ TimesTell
    BY DEF VersionInv
  <1>1. /\ Runs(s) /\ sync[s].phase = "posted" /\ server' = Answered(s)
        /\ clock' = IF server' = server THEN clock ELSE clock + 1
        /\ sync'[s].phase = "answered" /\ sync'[s].mode = sync[s].mode
        /\ sync'[s].chunks = sync[s].chunks /\ sync'[s].deletions = sync[s].deletions
        /\ sync'[s].session = IF sync[s].session = 0 THEN clock' ELSE sync[s].session
        /\ \E page \in SUBSET Rows : PageIs(s, page)
    BY <1>0, HandleFacts
  <1>2. SentStays /\ clock' # 0
    <2>1. SentStays
      BY DEF Handle, SentStays, deviceVars
    <2>2. clock' \in Nat \ {0}
      BY HandleGrows DEF Grows
    <2> QED
      BY <2>1, <2>2
  <1>3. SlotSent(s) /\ OneWirePerRow(s) /\ NoLateManga(s) /\ Carried(s) /\ DeletionsHold(s) /\ NeverSent(s)
    BY <1>1 DEF SentNow, SlotSent
  <1>4. /\ \A r \in Rows : RowHandled(s, r)
        /\ \A r \in Withdrawn(s) : server'[r].gone \/ server'[r] = Unknown
    BY <1>0, <1>1, RequestHandled
  <1>5. /\ sync[s].chunks # <<>> => 1 \in 1 .. Len(sync[s].chunks) /\ Request(s) = sync[s].chunks[1]
        /\ sync[s].chunks = <<>> => Request(s) = {}
    BY <1>0, <1>1, HeadOfRequest DEF Request
  <1>6. \A r : (\E w \in Request(s) : w.row = r) => Wired(s, r)
    BY <1>1, <1>5 DEF Wired, ToSend
  <1>7. ASSUME NEW r \in Rows, ~Wired(s, r), server[r] = Unknown PROVE server'[r] = Unknown
    BY <1>4, <1>6, <1>7 DEF RowHandled
  <1>8. ASSUME NEW r \in Rows, server[r] # Unknown PROVE server'[r] # Unknown
    <2>1. CASE server'[r] = server[r]
      BY <1>8, <2>1
    <2>2. CASE server'[r].stamp = clock'
      BY <2>2, <1>2 DEF Unknown
    <2> QED
      BY <2>1, <2>2, <1>4 DEF RowHandled
  <1>9. ServerMoves
    <2> SUFFICES ASSUME NEW r \in Rows
                 PROVE  /\ server'[r].at \in Nat /\ server[r].at <= server'[r].at
                        /\ server[r].gone => server'[r].gone
                        /\ server[r] # Unknown => server'[r] # Unknown
                        /\ r \in deleted \ missed /\ ~Present(r) /\ r \notin outbox /\ server[r] = Unknown
                              => server'[r] = Unknown
                        /\ \A t \in Slots :
                              Runs(t) /\ r \in sync[t].deletions /\ server[r] = Unknown => server'[r] = Unknown
      BY DEF ServerMoves
    <2>1. server'[r].at \in Nat /\ server[r].at <= server'[r].at /\ (server[r].gone => server'[r].gone)
      BY HandleGrows DEF Grows
    <2>2. r \in deleted \ missed /\ ~Present(r) /\ r \notin outbox /\ server[r] = Unknown
             => server'[r] = Unknown
      BY <1>3, <1>7 DEF NeverSent
    <2>3. ASSUME NEW t \in Slots, r \in sync[t].deletions, server[r] = Unknown
          PROVE  server'[r] = Unknown
      <3>1. t = s
        BY DEF OneAtATime
      <3>2. ~Wired(s, r)
        <4>1. ~Unknown.gone
          BY DEF Unknown
        <4> QED
          BY <3>1, <2>3, <4>1, <1>3 DEF DeletionsHold
      <3> QED
        BY <3>2, <2>3, <1>7
    <2> QED
      BY <2>1, <2>2, <2>3, <1>8
  <1>10. (OrphansFinal /\ OutboxOfDeleted /\ SentByTime)'
    BY <1>2, <1>9, SentOverall
  <1>11. /\ Sendable' = Sendable /\ missed' = missed /\ deleted' = deleted /\ outbox' = outbox
         /\ \A q \in Rows : Present(q)' <=> Present(q)
    BY <1>2 DEF SentStays, Sendable, Present
  <1>12. ToSend(s)' = ToSend(s) \ {1}
    BY <1>1 DEF ToSend
  <1>13. \A r : Wired(s, r)' => Wired(s, r)
    BY <1>1, <1>12 DEF Wired
  <1>14. OneWirePerRow(s)'
    BY <1>1, <1>3 DEF OneWirePerRow
  <1>15. NoLateManga(s)'
    <2>1. PICK page \in SUBSET Rows : sync'[s].page = [r \in page |-> server'[r]]
      BY <1>1 DEF PageIs
    <2> SUFFICES ASSUME NEW r \in DOMAIN Parent, Present(r), ~Present(Parent[r]), Parent[r] \in page
                 PROVE  server'[Parent[r]].gone
      BY <2>1, <1>11, SyncAssumption DEF NoLateManga
    <2>2. server[Parent[r]].gone
      BY DEF SentNow, OrphansFinal
    <2> QED
      BY <2>2, <1>9, SyncAssumption DEF ServerMoves
  <1>16. Carried(s)'
    <2> SUFFICES ASSUME sync[s].mode # "download", NEW r \in Sendable \ missed,
                        sync'[s].session = 0 \/ local[r].at < sync'[s].session
                 PROVE  AtServer(r)' \/ Awaits(s, r)'
      BY <1>1, <1>2, <1>11 DEF Carried, SentStays
    <2>0. r \in Rows /\ local[r].at \in Nat /\ server[r].at \in Nat
      BY <1>0, RowFields DEF Sendable
    <2>1. AtServer(r) \/ Awaits(s, r)
      BY <1>1, <1>2, <1>3 DEF Carried
    <2>2. CASE AtServer(r)
      BY <2>0, <2>2, <1>2, <1>9 DEF AtServer, ServerMoves, SentStays
    <2>3. ASSUME NEW i \in ToSend(s), NEW w \in sync[s].chunks[i], w.row = r, w.at >= local[r].at
          PROVE  AtServer(r)' \/ Awaits(s, r)'
      <3>1. CASE i # 1
        BY <2>3, <3>1, <1>1, <1>2, <1>12 DEF Awaits, SentStays
      <3>2. CASE i = 1
        <4>1. 1 \in 1 .. Len(sync[s].chunks) /\ w \in Request(s) /\ Request(s) = sync[s].chunks[1]
          <5>1. 1 \in 1 .. Len(sync[s].chunks)
            BY <3>2 DEF ToSend
          <5>2. sync[s].chunks # <<>>
            BY <5>1, <1>0, <1>1, LoopFields, EmptySeq
          <5> QED
            BY <5>1, <5>2, <3>2, <1>5
        <4>2. \A v \in Request(s) : v.row = w.row => v = w
          BY <4>1, <1>3 DEF OneWirePerRow
        <4>3. server'[w.row].at >= w.at \/ server'[w.row].gone
          BY <4>1, <4>2, <1>0, <1>1, WireArrives
        <4>4. w.at \in Nat /\ server'[r].at \in Nat
          BY <4>1, <2>0, <1>0, <1>1, <1>9, HeadOfRequest DEF ServerMoves
        <4> QED
          BY <4>3, <4>4, <2>0, <2>3, <1>2 DEF AtServer, SentStays
      <3> QED
        BY <3>1, <3>2
    <2> QED
      BY <2>1, <2>2, <2>3 DEF Awaits
  <1>17. DeletionsHold(s)'
    <2>1. \A r \in sync[s].deletions : r \in Rows
      BY <1>0, <1>1, LoopFields
    <2>2. sync'[s].session # 0
      BY <1>1, <1>2
    <2> SUFFICES ASSUME NEW r \in sync[s].deletions
                 PROVE  server'[r].gone \/ (server'[r] = Unknown /\ ~Wired(s, r)')
      BY <2>2, <1>1, <1>3, <1>11 DEF DeletionsHold
    <2>3. CASE sync[s].session = 0
      <3>1. server'[r].gone \/ server'[r] = Unknown
        BY <2>3, <1>4 DEF Withdrawn
      <3>2. server'[r] = Unknown => server[r] = Unknown
        BY <2>1, <1>8
      <3>3. server[r] = Unknown => ~Wired(s, r)
        BY <2>3, <1>3 DEF DeletionsHold
      <3> QED
        BY <3>1, <3>2, <3>3, <1>13
    <2>4. CASE sync[s].session # 0
      <3>1. server[r].gone \/ (server[r] = Unknown /\ ~Wired(s, r))
        BY <2>4, <1>3 DEF DeletionsHold
      <3> QED
        BY <3>1, <2>1, <1>7, <1>9, <1>13 DEF ServerMoves
    <2> QED
      BY <2>3, <2>4
  <1>18. NeverSent(s)'
    BY <1>0, <1>3, <1>8, <1>11, <1>13 DEF NeverSent, SyncTypeOK
  <1>19. SlotSent(s)'
    BY <1>14, <1>15, <1>16, <1>17, <1>18 DEF SlotSent
  <1> QED
    BY <1>10, <1>19 DEF SentNow, OneAtATime

\* What a page does to the rows: one it brings is at least as new on the server, one
\* it takes away is deleted there, and no row that could not be sent can be now, unless
\* the page brought it.
LEMMA PageOfServer ==
    ASSUME VersionInv, SentNow, NEW s \in Slots, Runs(s), local' = Applied(sync[s].page),
           UNCHANGED server
    PROVE  /\ OrphansFinal'
           /\ \A r \in Rows :
                 /\ Present(r)' => (LeftAlone(s, r) /\ Present(r)) \/ (AtServer(r)' /\ server[r] # Unknown)
                 /\ ~Present(r)' /\ Present(r) => server[r].gone
                 /\ r \in Sendable' => (LeftAlone(s, r) /\ r \in Sendable) \/ AtServer(r)'
  <1>0. SyncTypeOK /\ TimesTell /\ OrphansFinal /\ NoLateManga(s)
    BY DEF VersionInv, SentNow, SlotSent
  <1>1. \A r \in Rows : TakenOver(s, r) \/ TakenAway(s, r) \/ LeftAlone(s, r)
    BY <1>0, PageApplied
  <1>2. \A r \in DOMAIN sync[s].page :
           /\ 0 < sync[s].page[r].at /\ sync[s].page[r].at <= server[r].at
           /\ sync[s].page[r].gone => server[r].gone
           /\ r \in Rows /\ sync[s].page[r].at \in Nat /\ server[r].at \in Nat
    <2>1. \A r \in DOMAIN sync[s].page : r \in Rows /\ sync[s].page[r].at \in Nat
      BY <1>0, LoopFields DEF ServerRow
    <2> QED
      BY <2>1, <1>0, RowFields DEF VersionInv, FlightOK
  <1>3. ASSUME NEW r \in Rows, TakenOver(s, r)
        PROVE  Present(r)' /\ AtServer(r)' /\ server[r] # Unknown
    <2>1. local'[r].at > 0 /\ local'[r].at <= server[r].at
      BY <1>2, <1>3 DEF TakenOver
    <2>2. Absent.at = 0 /\ Unknown.at = 0
      BY DEF Absent, Unknown
    <2> QED
      BY <2>1, <2>2, <1>2, <1>3 DEF Present, AtServer, TakenOver
  <1>4. ASSUME NEW r \in Rows, TakenAway(s, r) PROVE ~Present(r)' /\ server[r].gone
    BY <1>2, <1>4 DEF Present, TakenAway
  <1>5. ASSUME NEW r \in Rows, LeftAlone(s, r) PROVE Present(r)' <=> Present(r)
    BY <1>5 DEF Present, LeftAlone
  <1>6. ASSUME NEW m \in Rows \ DOMAIN Parent, ~Present(m)', ~server[m].gone
        PROVE  ~Present(m) /\ m \notin Here(s)
    <2>1. LeftAlone(s, m) /\ ~Present(m)
      BY <1>1, <1>3, <1>4, <1>5, <1>6
    <2>2. m \notin DOMAIN sync[s].page
      <3>1. local[m].at = 0 /\ HasManga(Here(s), m)
        BY <2>1, <1>6 DEF Present, Absent, HasManga
      <3> QED
        BY <2>1, <3>1, <1>2 DEF LeftAlone
    <2> QED
      BY <2>1, <2>2 DEF Here
  <1>7. ASSUME NEW r \in DOMAIN Parent, Present(r)', ~Present(Parent[r])', ~server[Parent[r]].gone
        PROVE  FALSE
    <2>1. r \in Rows /\ ~Present(Parent[r]) /\ Parent[r] \notin Here(s)
      BY <1>6, <1>7, SyncAssumption
    <2>2. CASE TakenOver(s, r)
      BY <2>1, <2>2 DEF TakenOver, HasManga
    <2>3. CASE LeftAlone(s, r)
      BY <2>1, <2>3, <1>0, <1>5, <1>7 DEF OrphansFinal
    <2> QED
      BY <2>1, <2>2, <2>3, <1>1, <1>4, <1>7
  <1>8. OrphansFinal'
    BY <1>7 DEF OrphansFinal
  <1>9. ASSUME NEW r \in Sendable', LeftAlone(s, r) PROVE r \in Sendable
    <2>1. r \in Rows /\ Present(r)
      BY <1>5, <1>9 DEF Sendable
    <2>2. ASSUME r \in DOMAIN Parent PROVE Present(Parent[r])
      <3>1. Parent[r] \in Rows \ DOMAIN Parent /\ Present(Parent[r])'
        BY <1>9, <2>2, SyncAssumption DEF Sendable, HasManga
      <3>2. CASE TakenOver(s, Parent[r]) /\ ~Present(Parent[r])
        BY <3>2, <2>1, <2>2, <1>0 DEF NoLateManga, TakenOver
      <3> QED
        BY <3>1, <3>2, <1>1, <1>4, <1>5
    <2> QED
      BY <2>1, <2>2, SyncAssumption DEF Sendable, HasManga
  <1>10. ASSUME NEW r \in Rows
         PROVE  /\ Present(r)' => (LeftAlone(s, r) /\ Present(r)) \/ (AtServer(r)' /\ server[r] # Unknown)
                /\ ~Present(r)' /\ Present(r) => server[r].gone
                /\ r \in Sendable' => (LeftAlone(s, r) /\ r \in Sendable) \/ AtServer(r)'
    <2>1. CASE TakenOver(s, r)
      BY <2>1, <1>3
    <2>2. CASE TakenAway(s, r)
      <3>1. ~Present(r)' /\ server[r].gone
        BY <2>2, <1>4
      <3> QED
        BY <3>1 DEF Sendable
    <2>3. CASE LeftAlone(s, r)
      <3>1. Present(r)' <=> Present(r)
        BY <2>3, <1>5
      <3>2. r \in Sendable' => r \in Sendable
        BY <2>3, <1>9
      <3> QED
        BY <2>3, <3>1, <3>2
    <2> QED
      BY <2>1, <2>2, <2>3, <1>1
  <1> QED
    BY <1>8, <1>10

\* A page is applied, and since moves on after the last one.
LEMMA ReceiveKeepsSent ==
    ASSUME VersionInv, SentNow, OneAtATime, NEW s \in Slots, Receive(s)
    PROVE  SentNow'
  <1>0. SyncTypeOK /\ OrphansFinal /\ OutboxOfDeleted /\ SentByTime
    BY DEF VersionInv, SentNow
  <1>1. /\ Runs(s) /\ sync[s].phase = "answered" /\ local' = Applied(sync[s].page)
        /\ UNCHANGED <<outbox, server, deleted>>
        /\ IF IsLast(s)
           THEN since' = sync[s].session /\ missed' = missed \cup PassedOver(sync[s])
           ELSE UNCHANGED <<since, missed>>
    BY <1>0, ReceiveFacts
  <1>2. SlotSent(s) /\ OneWirePerRow(s) /\ NoLateManga(s) /\ Carried(s) /\ DeletionsHold(s) /\ NeverSent(s)
    BY <1>1 DEF SentNow, SlotSent
  <1>3. sync[s].session \in Nat \ {0} /\ since \in Nat
    BY <1>0, <1>1, LoopFields DEF VersionInv, FlightOK, SyncTypeOK
  <1>4. /\ OrphansFinal'
        /\ \A r \in Rows :
              /\ Present(r)' => (LeftAlone(s, r) /\ Present(r)) \/ (AtServer(r)' /\ server[r] # Unknown)
              /\ ~Present(r)' /\ Present(r) => server[r].gone
              /\ r \in Sendable' => (LeftAlone(s, r) /\ r \in Sendable) \/ AtServer(r)'
    BY <1>1, PageOfServer
  <1>5. missed \subseteq missed'
    BY <1>1
  <1>6. OutboxOfDeleted'
    BY <1>0, <1>1, <1>4 DEF OutboxOfDeleted, SyncTypeOK
  <1>7. /\ Rest(s) \in Seq(SUBSET Wires) /\ Len(sync[s].chunks) \in Nat
        /\ sync[s].chunks # <<>> => Len(Rest(s)) = Len(sync[s].chunks) - 1
        /\ sync[s].chunks = <<>> => Len(Rest(s)) = 0
        /\ \A i \in 1 .. Len(Rest(s)) :
              i + 1 \in 1 .. Len(sync[s].chunks) /\ Rest(s)[i] = sync[s].chunks[i + 1]
    BY <1>0, <1>1, RestOfRequests
  <1>8. \A i \in ToSend(s) : i - 1 \in 1 .. Len(Rest(s)) /\ Rest(s)[i - 1] = sync[s].chunks[i]
    <2> SUFFICES ASSUME NEW i \in ToSend(s)
                 PROVE  i - 1 \in 1 .. Len(Rest(s)) /\ Rest(s)[i - 1] = sync[s].chunks[i]
      OBVIOUS
    <2>1. i \in 1 .. Len(sync[s].chunks) /\ i # 1
      BY <1>1 DEF ToSend
    <2>2. sync[s].chunks # <<>>
      BY <2>1, <1>0, <1>1, LoopFields, EmptySeq
    <2>3. i - 1 \in 1 .. Len(Rest(s)) /\ (i - 1) + 1 = i
      BY <2>1, <2>2, <1>7
    <2> QED
      BY <2>3, <1>7
  <1>9. \A r \in Rows : local[r].at \in Nat /\ server[r].at \in Nat
    BY <1>0, RowFields
  <1>10. ASSUME NEW r \in Sendable', IsLast(s), local'[r].at < sync[s].session, r \notin missed'
         PROVE  AtServer(r)'
    <2>0. r \in Rows
      BY DEF Sendable
    <2>1. CASE LeftAlone(s, r) /\ r \in Sendable /\ sync[s].mode # "download"
      <3>1. local'[r] = local[r] /\ r \in Sendable \ missed
        BY <2>1, <1>5, <1>10 DEF LeftAlone
      <3>2. AtServer(r) \/ Awaits(s, r)
        BY <2>1, <3>1, <1>1, <1>2, <1>10 DEF Carried
      <3>3. ~Awaits(s, r)
        <4>1. Len(Rest(s)) = 0
          BY <1>7, <1>10, EmptySeq DEF IsLast
        <4> QED
          BY <4>1, <1>8 DEF Awaits
      <3> QED
        BY <3>1, <3>2, <3>3, <1>1 DEF AtServer
    <2>2. CASE LeftAlone(s, r) /\ r \in Sendable /\ sync[s].mode = "download"
      <3>1. local'[r] = local[r] /\ r \in Sendable \ missed /\ r \notin PassedOver(sync[s])
        BY <2>2, <1>1, <1>5, <1>10 DEF LeftAlone
      <3>2. CASE since <= local'[r].at
        BY <3>1, <3>2, <2>0, <2>2, <1>1, <1>9, <1>10 DEF PassedOver, AtServer
      <3>3. CASE local[r].at < since
        BY <3>1, <3>3, <2>0, <1>0, <1>1 DEF SentByTime, AtServer
      <3> QED
        BY <3>1, <3>2, <3>3, <2>0, <1>3, <1>9
    <2> QED
      BY <2>0, <2>1, <2>2, <1>4
  <1>11. SentByTime'
    <2> SUFFICES ASSUME NEW r \in Rows \ missed'
                 PROVE  /\ r \in Sendable' /\ local'[r].at < since' => AtServer(r)'
                        /\ r \in deleted /\ ~Present(r)' => r \in outbox \/ server[r] = Unknown \/ server[r].gone
      BY <1>1 DEF SentByTime, AtServer
    <2>1. ASSUME r \in Sendable', local'[r].at < since' PROVE AtServer(r)'
      <3>1. CASE IsLast(s)
        BY <3>1, <2>1, <1>1, <1>10
      <3>2. CASE ~IsLast(s) /\ LeftAlone(s, r) /\ r \in Sendable
        BY <3>2, <2>1, <1>0, <1>1 DEF SentByTime, AtServer, LeftAlone
      <3> QED
        BY <3>1, <3>2, <2>1, <1>4
    <2>2. ASSUME r \in deleted, ~Present(r)'
          PROVE  r \in outbox \/ server[r] = Unknown \/ server[r].gone
      BY <2>2, <1>0, <1>4, <1>5 DEF SentByTime
    <2> QED
      BY <2>1, <2>2
  <1>12. SlotSent(s)'
    <2>1. CASE sync'[s] = Off
      BY <2>1 DEF SlotSent, Runs, Off
    <2>2. CASE /\ sync'[s].phase = IF IsLast(s) THEN "clearing" ELSE "posted"
               /\ sync'[s].mode = sync[s].mode /\ sync'[s].deletions = sync[s].deletions
               /\ sync'[s].session = sync[s].session
               /\ DOMAIN sync'[s].page = {} /\ sync'[s].chunks = Rest(s)
      <3>1. ToSend(s)' = 1 .. Len(Rest(s))
        BY <2>2 DEF ToSend
      <3>2. \A i \in 1 .. Len(Rest(s)) : i + 1 \in ToSend(s) /\ Rest(s)[i] = sync[s].chunks[i + 1]
        BY <1>7 DEF ToSend
      <3>3. \A r : Wired(s, r)' => Wired(s, r)
        BY <2>2, <3>1, <3>2 DEF Wired
      <3>4. OneWirePerRow(s)' /\ NoLateManga(s)'
        <4>1. \A i \in 1 .. Len(Rest(s)) : \A v, w \in Rest(s)[i] : v.row = w.row => v = w
          BY <1>2, <1>7 DEF OneWirePerRow
        <4>2. OneWirePerRow(s)'
          BY <4>1, <2>2 DEF OneWirePerRow
        <4>3. NoLateManga(s)'
          BY <2>2 DEF NoLateManga
        <4> QED
          BY <4>2, <4>3
      <3>5. Carried(s)'
        <4> SUFFICES ASSUME ~IsLast(s), sync[s].mode # "download", NEW r \in Sendable' \ missed',
                            local'[r].at < sync[s].session
                     PROVE  AtServer(r)' \/ Awaits(s, r)'
          BY <2>2, <1>3 DEF Carried
        <4>1. CASE LeftAlone(s, r) /\ r \in Sendable
          <5>1. local'[r] = local[r] /\ r \in Sendable \ missed
            BY <4>1, <1>5 DEF LeftAlone
          <5>2. AtServer(r) \/ Awaits(s, r)
            BY <5>1, <1>1, <1>2 DEF Carried
          <5>3. CASE Awaits(s, r)
            BY <5>1, <5>3, <2>2, <3>1, <1>8 DEF Awaits
          <5> QED
            BY <5>1, <5>2, <5>3, <1>1 DEF AtServer
        <4> QED
          BY <4>1, <1>4 DEF Sendable
      <3>6. DeletionsHold(s)'
        BY <2>2, <3>3, <1>1, <1>2, <1>3 DEF DeletionsHold
      <3>7. NeverSent(s)'
        <4> SUFFICES ASSUME NEW r \in deleted \ missed', ~Present(r)', r \notin outbox, server[r] = Unknown
                     PROVE  ~Wired(s, r)
          BY <3>3, <1>1 DEF NeverSent
        <4>1. r \in Rows /\ ~Unknown.gone
          BY <1>0 DEF SyncTypeOK, Unknown
        <4> QED
          BY <4>1, <1>2, <1>4, <1>5 DEF NeverSent
      <3> QED
        BY <3>4, <3>5, <3>6, <3>7 DEF SlotSent
    <2> QED
      BY <2>1, <2>2, <1>0, ReceiveFacts
  <1> QED
    BY <1>4, <1>6, <1>11, <1>12 DEF SentNow, OneAtATime

LEMMA SentInit == Init => SentInv
  <1> SUFFICES ASSUME Init PROVE SentNow
    BY DEF SentInv
  <1>1. /\ since = 0 /\ outbox = {} /\ deleted = {} /\ sync = [s \in Slots |-> Off]
        /\ \A r \in DOMAIN Parent : Present(r) => Present(Parent[r])
        /\ local \in [Rows -> Version]
    BY VersionInit DEF Init, VersionInv, SyncTypeOK
  <1>2. \A r \in Rows : ~(local[r].at < since)
    BY <1>1 DEF Version
  <1>3. \A s \in Slots : SlotSent(s)
    BY <1>1 DEF SlotSent, Runs, Off
  <1> QED
    BY <1>1, <1>2, <1>3 DEF SentNow, OrphansFinal, OutboxOfDeleted, SentByTime

\* A backup, once restored, stays so.
LEMMA NotYetRestored ==
    ASSUME VersionInv, [Next]_vars, restored'.at = 0
    PROVE  restored.at = 0 /\ ~RestoreDone
  <1>1. restored \in [at : Nat, alone : BOOLEAN, pushed : BOOLEAN] /\ clock # 0
    BY DEF VersionInv, SyncTypeOK
  <1>2. ~RestoreDone
    <2>1. RestoreDone => restored'.at = clock
      BY <1>1 DEF RestoreDone
    <2> QED
      BY <2>1, <1>1
  <1>3. restored.at = 0
    <2>1. ASSUME NEW r \in Rows, Edits(r) \/ Deletes(r) \/ OtherWrites(r) \/ OtherDeletes(r)
          PROVE  restored' = restored
      BY <2>1 DEF Edits, Edit, EditUnstamped, Deletes, Delete, DeleteSilently, Dropped, OtherWrites, OtherDeletes, historyVars
    <2>2. ASSUME NEW s \in Slots,
                 AutoSync(s) \/ OneWay(s) \/ Collect(s) \/ Fails(s) \/ Handle(s) \/ Clear(s)
          PROVE  restored' = restored
      BY <2>2 DEF AutoSync, OneWay, StartSync, Collect, Fails, Handle, Clear, historyVars
    <2>3. ASSUME NEW s \in Slots, Receive(s) PROVE restored'.at = restored.at
      BY <2>3, <1>1, ReceiveFacts DEF VersionInv
    <2>4. CASE SetSyncOn \/ RestoreFails \/ UNCHANGED vars
      BY <2>4 DEF SetSyncOn, RestoreFails, vars, historyVars
    <2>5. CASE RestoreBegins
      BY <2>5 DEF RestoreBegins
    <2> QED
      BY <2>1, <2>2, <2>3, <2>4, <2>5, <1>2 DEF Next, User, Edits, Deletes, Sync
  <1> QED
    BY <1>2, <1>3

LEMMA SentStep ==
    ASSUME OneAtATime
    PROVE  VersionInv /\ SentInv /\ [Next]_vars => SentInv'
  <1> SUFFICES ASSUME VersionInv, SentInv, [Next]_vars, restored'.at = 0 PROVE SentNow'
    BY DEF SentInv
  <1>1. restored.at = 0 /\ ~RestoreDone
    BY NotYetRestored
  <1>4. SentNow
    BY <1>1 DEF SentInv
  <1>5. ASSUME NEW r \in Rows, Edits(r) \/ Deletes(r) \/ OtherWrites(r) \/ OtherDeletes(r)
        PROVE  SentNow'
    BY <1>4, <1>5, EditKeepsSent, UnstampedKeepsSent, DeleteKeepsSent, OthersKeepSent DEF Edits
  <1>6. ASSUME NEW s \in Slots, Collect(s) \/ Handle(s) \/ Receive(s) \/ Clear(s)
        PROVE  SentNow'
    BY <1>4, <1>6, CollectKeepsSent, HandleKeepsSent, ReceiveKeepsSent, ClearKeepsSent
  <1>7. CASE \/ SetSyncOn \/ RestoreBegins \/ RestoreFails \/ UNCHANGED vars
             \/ \E s \in Slots : AutoSync(s) \/ OneWay(s) \/ Fails(s)
    BY <1>4, <1>7, RestKeepsSent
  <1> QED
    BY <1>1, <1>5, <1>6, <1>7 DEF Next, User, Edits, Deletes, Sync

-----------------------------------------------------------------------------
(* Values follow times: what has the same time on both sides, or on its    *)
(* way between them, has the same value, but for the rows in `missed`.     *)

RowAgrees(r) ==
    r \notin missed /\ server[r].at = local[r].at => server[r].val = local[r].val
WireAgrees(w) ==
    w.row \notin missed /\ w.at = local[w.row].at /\ w.at > server[w.row].at
        => w.val = local[w.row].val
PageAgrees(s, r) ==
    sync[s].page[r].at = server[r].at => sync[s].page[r].val = server[r].val
SlotAgrees(s) ==
    Runs(s) => /\ \A i \in 1 .. Len(sync[s].chunks) : \A w \in sync[s].chunks[i] : WireAgrees(w)
               /\ \A r \in DOMAIN sync[s].page : PageAgrees(s, r)
AgreeNow == (\A r \in Rows : RowAgrees(r)) /\ \A s \in Slots : SlotAgrees(s)
AgreeInv == restored.at = 0 => AgreeNow

\* How the two sides of a row may change: the device's stays, goes, is written now or
\* comes from the server; the server's gets a new value with a later time only.
RowKept(r) ==
    \/ r \in missed'
    \/ r \notin missed /\ local'[r] = local[r]
    \/ local'[r] = Absent
    \/ local'[r].at = clock + 1
    \/ local'[r].at <= server[r].at
ServerKept(r) ==
    \/ server[r].at < server'[r].at
    \/ server'[r].at = server[r].at /\ server'[r].val = server[r].val
RowsKept ==
    \A r \in Rows : /\ RowKept(r) /\ ServerKept(r)
                    /\ local'[r].at \in Nat /\ server'[r].at \in Nat

\* What s has under way is what it had, or what the server has now.
SlotShrinks(s) ==
    Runs(s)' =>
        /\ Runs(s)
        /\ \A i \in 1 .. Len(sync'[s].chunks) :
              \E j \in 1 .. Len(sync[s].chunks) : sync'[s].chunks[i] = sync[s].chunks[j]
        /\ \A r \in DOMAIN sync'[s].page :
              \/ r \in Rows /\ sync'[s].page[r] = server'[r]
              \/ r \in DOMAIN sync[s].page /\ sync'[s].page[r] = sync[s].page[r]

LEMMA SameSlotShrinks ==
    ASSUME NEW s \in Slots, sync'[s] = sync[s]
    PROVE  SlotShrinks(s)
  BY DEF SlotShrinks, Runs

LEMMA IdleSlotShrinks ==
    ASSUME NEW s \in Slots, sync'[s] = Off \/ sync'[s].phase = "version"
    PROVE  SlotShrinks(s)
  BY DEF SlotShrinks, Runs, Off

LEMMA WireKept ==
    ASSUME VersionInv, RowsKept, NEW w \in Wires, 0 < w.at, w.at <= clock, WireAgrees(w)
    PROVE  WireAgrees(w)'
  <1> DEFINE r == w.row
  <1>1. /\ r \in Rows /\ w.at \in Nat /\ clock \in Nat
        /\ server[r].at \in Nat /\ server'[r].at \in Nat /\ local'[r].at \in Nat
    BY RowFields DEF Wires, VersionInv, SyncTypeOK, RowsKept
  <1>2. server[r].at <= server'[r].at
    BY <1>1 DEF RowsKept, ServerKept
  <1> SUFFICES ASSUME r \notin missed', w.at = local'[r].at, w.at > server'[r].at
               PROVE  w.val = local'[r].val
    BY DEF WireAgrees
  <1>3. local'[r] # Absent
    BY DEF Absent
  <1>4. r \notin missed /\ local'[r] = local[r]
    BY <1>1, <1>2, <1>3 DEF RowsKept, RowKept
  <1> QED
    BY <1>1, <1>2, <1>4 DEF WireAgrees

LEMMA SlotAgreesKept ==
    ASSUME VersionInv, RowsKept, NEW s \in Slots, SlotAgrees(s), SlotShrinks(s)
    PROVE  SlotAgrees(s)'
  <1> SUFFICES ASSUME Runs(s)'
               PROVE  /\ \A i \in 1 .. Len(sync'[s].chunks) : \A w \in sync'[s].chunks[i] : WireAgrees(w)'
                      /\ \A r \in DOMAIN sync'[s].page : PageAgrees(s, r)'
    BY DEF SlotAgrees
  <1>0. SyncTypeOK /\ Runs(s) /\ FlightOK(s)
    BY DEF VersionInv, SlotShrinks
  <1>1. ASSUME NEW i \in 1 .. Len(sync'[s].chunks), NEW w \in sync'[s].chunks[i]
        PROVE  WireAgrees(w)'
    <2>1. PICK j \in 1 .. Len(sync[s].chunks) : w \in sync[s].chunks[j]
      BY DEF SlotShrinks
    <2>2. w \in Wires /\ 0 < w.at /\ w.at <= clock /\ WireAgrees(w)
      BY <2>1, <1>0, ChunkFields DEF FlightOK, SlotAgrees
    <2> QED
      BY <2>2, WireKept
  <1>2. ASSUME NEW r \in DOMAIN sync'[s].page PROVE PageAgrees(s, r)'
    <2>1. CASE sync'[s].page[r] = server'[r]
      BY <2>1 DEF PageAgrees
    <2>2. CASE r \in DOMAIN sync[s].page /\ sync'[s].page[r] = sync[s].page[r]
      <3>1. r \in Rows /\ sync[s].page[r].at \in Nat
        BY <1>0, <2>2, LoopFields DEF ServerRow
      <3>2. server[r].at \in Nat /\ server'[r].at \in Nat /\ ServerKept(r)
        BY <1>0, <3>1, RowFields DEF RowsKept
      <3>3. sync[s].page[r].at <= server[r].at /\ PageAgrees(s, r)
        BY <1>0, <2>2 DEF FlightOK, SlotAgrees
      <3> QED
        BY <2>2, <3>1, <3>2, <3>3 DEF PageAgrees, ServerKept
    <2> QED
      BY <2>1, <2>2 DEF SlotShrinks
  <1> QED
    BY <1>1, <1>2

\* A step that leaves the server alone and takes no row from it.
RowStays(r) ==
    \/ r \in missed'
    \/ r \notin missed /\ local'[r] = local[r]
    \/ local'[r] = Absent
    \/ local'[r].at = clock + 1

LEMMA DeviceStepAgrees ==
    ASSUME VersionInv, AgreeNow, UNCHANGED server,
           \A r \in Rows : RowStays(r) /\ local'[r].at \in Nat,
           \A s \in Slots : SlotShrinks(s)
    PROVE  AgreeNow'
  <1>1. RowsKept
    BY RowFields DEF RowsKept, RowKept, ServerKept, RowStays, VersionInv
  <1>2. ASSUME NEW r \in Rows, r \notin missed', server[r].at = local'[r].at
        PROVE  server[r].val = local'[r].val
    <2>1. /\ clock \in Nat /\ server[r].at \in Nat /\ server[r].at <= clock
          /\ server[r].at = 0 => server[r] = Unknown
      <3>1. server[r].at <= latest[r].at /\ latest[r].at <= clock /\ latest[r].at \in Nat
        BY RowFields DEF VersionInv, TimesBounded
      <3> QED
        BY <3>1, RowFields DEF VersionInv, SyncTypeOK, TimesTell
    <2>2. CASE local'[r] = Absent
      BY <1>2, <2>1, <2>2 DEF Absent, Unknown
    <2>3. CASE r \notin missed /\ local'[r] = local[r]
      BY <1>2, <2>3 DEF AgreeNow, RowAgrees
    <2> QED
      BY <1>2, <2>1, <2>2, <2>3 DEF RowStays
  <1>3. \A r \in Rows : RowAgrees(r)'
    BY <1>2 DEF RowAgrees
  <1>4. \A s \in Slots : SlotAgrees(s)'
    BY <1>1, SlotAgreesKept DEF AgreeNow
  <1> QED
    BY <1>3, <1>4 DEF AgreeNow

LEMMA EditsKeepAgree ==
    ASSUME VersionInv, AgreeNow, NEW r \in Rows, Edits(r)
    PROVE  AgreeNow'
  <1>0. SyncTypeOK
    BY DEF VersionInv
  <1>1. CASE Edit(r)
    <2>1. /\ clock \in Nat /\ clock' = clock + 1 /\ UNCHANGED <<server, sync>>
          /\ local' = [local EXCEPT ![r] = [at |-> clock', val |-> clock']]
          /\ missed \ {r} \subseteq missed'
      BY <1>0, <1>1 DEF Edit, Tick, SyncTypeOK
    <2>2. ASSUME NEW q \in Rows PROVE RowStays(q) /\ local'[q].at \in Nat
      <3>1. CASE q = r
        BY <3>1, <2>1, <1>0 DEF RowStays, SyncTypeOK
      <3>2. CASE q # r
        BY <3>2, <2>1, <1>0, RowFields DEF RowStays
      <3> QED
        BY <3>1, <3>2
    <2> QED
      BY <2>1, <2>2, SameSlotShrinks, DeviceStepAgrees
  <1>2. CASE EditUnstamped(r)
    <2>1. UNCHANGED <<server, sync>> /\ missed' = missed \cup {r}
      BY <1>0, <1>2, UnstampedFacts
    <2>2. \A q \in Rows \ {r} : local'[q] = local[q]
      BY <1>0, <1>2, UnstampedFacts
    <2>3. \A q \in Rows : local'[q].at = local[q].at
      BY <1>0, <1>2, UnstampedFacts
    <2>4. \A q \in Rows : RowStays(q) /\ local'[q].at \in Nat
      BY <2>1, <2>2, <2>3, <1>0, RowFields DEF RowStays
    <2> QED
      BY <2>1, <2>4, SameSlotShrinks, DeviceStepAgrees
  <1> QED
    BY <1>1, <1>2 DEF Edits

LEMMA DeletesKeepAgree ==
    ASSUME VersionInv, AgreeNow, NEW r \in Rows, Deletes(r)
    PROVE  AgreeNow'
  <1>0. SyncTypeOK
    BY DEF VersionInv
  <1>1. /\ local' = [q \in Rows |-> IF q \in Going(r) THEN Absent ELSE local[q]]
        /\ missed \ Going(r) \subseteq missed' /\ UNCHANGED <<server, sync>>
    BY <1>0, DeleteFacts
  <1>2. ASSUME NEW q \in Rows PROVE RowStays(q) /\ local'[q].at \in Nat
    <2>1. Absent.at \in Nat /\ local[q].at \in Nat
      BY <1>0, RowFields DEF Absent
    <2> QED
      BY <1>1, <2>1 DEF RowStays
  <1> QED
    BY <1>1, <1>2, SameSlotShrinks, DeviceStepAgrees

\* A sync begins, fails or clears, the switch is turned, a restore begins or fails.
LEMMA RestKeepsAgree ==
    ASSUME VersionInv, AgreeNow,
           \/ SetSyncOn \/ RestoreBegins \/ RestoreFails \/ UNCHANGED vars
           \/ \E s \in Slots : AutoSync(s) \/ OneWay(s) \/ Fails(s) \/ Clear(s)
    PROVE  AgreeNow'
  <1>0. SyncTypeOK
    BY DEF VersionInv
  <1>1. ASSUME UNCHANGED <<local, server>>, missed \subseteq missed',
               \A s \in Slots : sync'[s] = sync[s] \/ sync'[s] = Off \/ sync'[s].phase = "version"
        PROVE  AgreeNow'
    <2>1. \A r \in Rows : RowStays(r) /\ local'[r].at \in Nat
      BY <1>0, <1>1, RowFields DEF RowStays
    <2> QED
      BY <1>1, <2>1, SameSlotShrinks, IdleSlotShrinks, DeviceStepAgrees
  <1>2. CASE SetSyncOn \/ RestoreBegins \/ RestoreFails \/ UNCHANGED vars
    <2>1. UNCHANGED <<local, server, missed, sync>>
      BY <1>2 DEF SetSyncOn, RestoreBegins, RestoreFails, vars, deviceVars, historyVars
    <2> QED
      BY <2>1, <1>1
  <1>3. ASSUME NEW s \in Slots, NEW mode \in Modes, StartSync(s, mode) PROVE AgreeNow'
    <2>1. UNCHANGED <<local, server, missed>> /\ sync' = [sync EXCEPT ![s] = Started(mode, FALSE)]
      BY <1>3 DEF StartSync, deviceVars, historyVars
    <2>2. \A t \in Slots : sync'[t] = sync[t] \/ sync'[t].phase = "version"
      BY <2>1, <1>0, SlotsThen DEF Started
    <2> QED
      BY <2>1, <2>2, <1>1
  <1>4. ASSUME NEW s \in Slots, Fails(s) \/ Clear(s) PROVE AgreeNow'
    <2>1. UNCHANGED <<local, server>> /\ missed \subseteq missed' /\ sync' = [sync EXCEPT ![s] = Off]
      BY <1>4 DEF Fails, Clear, Ends, deviceVars, historyVars
    <2>2. \A t \in Slots : sync'[t] = sync[t] \/ sync'[t] = Off
      BY <2>1, <1>0, SlotsThen
    <2> QED
      BY <2>1, <2>2, <1>1
  <1> QED
    BY <1>2, <1>3, <1>4 DEF AutoSync, OneWay

LEMMA OthersKeepAgree ==
    ASSUME VersionInv, AgreeNow, NEW r \in Rows, OtherWrites(r) \/ OtherDeletes(r)
    PROVE  AgreeNow'
  <1>0. SyncTypeOK /\ clock \in Nat
    BY DEF VersionInv, SyncTypeOK
  <1>1. UNCHANGED <<local, missed, sync>>
    BY DEF OtherWrites, OtherDeletes, deviceVars, historyVars
  <1>2. ASSUME NEW q \in Rows
        PROVE  /\ server'[q].at \in Nat
               /\ \/ server'[q].at = clock + 1
                  \/ server'[q].at = server[q].at /\ server'[q].val = server[q].val
    <2>1. CASE OtherWrites(r)
      <3>1. /\ clock' = clock + 1
            /\ server' = [server EXCEPT ![r] = [at |-> clock', val |-> clock', stamp |-> clock', gone |-> FALSE]]
        BY <2>1 DEF OtherWrites, Tick
      <3> QED
        BY <3>1, <1>0, RowFields DEF SyncTypeOK
    <2>2. CASE OtherDeletes(r)
      BY <2>2, <1>0, OtherDeletesFacts, RowFields
    <2> QED
      BY <2>1, <2>2
  <1>3. ASSUME NEW q \in Rows
        PROVE  /\ server[q].at \in Nat /\ server[q].at <= clock
               /\ local[q].at \in Nat /\ local[q].at <= clock
    <2>1. /\ server[q].at <= latest[q].at /\ local[q].at <= latest[q].at /\ latest[q].at <= clock
          /\ latest[q].at \in Nat /\ server[q].at \in Nat /\ local[q].at \in Nat
      BY <1>0, RowFields DEF VersionInv, TimesBounded
    <2> QED
      BY <2>1, <1>0
  <1>4. RowsKept
    BY <1>0, <1>1, <1>2, <1>3 DEF RowsKept, RowKept, ServerKept
  <1>5. \A q \in Rows : RowAgrees(q)'
    BY <1>0, <1>1, <1>2, <1>3 DEF RowAgrees, AgreeNow
  <1>6. \A s \in Slots : SlotAgrees(s)'
    BY <1>1, <1>4, SameSlotShrinks, SlotAgreesKept DEF AgreeNow
  <1> QED
    BY <1>5, <1>6 DEF AgreeNow

\* What is collected is what is here, under its own time or under a later one.
LEMMA CollectKeepsAgree ==
    ASSUME VersionInv, AgreeNow, NEW s \in Slots, Collect(s)
    PROVE  AgreeNow'
  <1>0. SyncTypeOK
    BY DEF VersionInv
  <1>1. /\ UNCHANGED <<local, server, missed>> /\ sync' = [sync EXCEPT ![s] = sync'[s]]
        /\ DOMAIN sync'[s].page = {} /\ clock \in Nat
    BY <1>0, CollectFacts DEF deviceVars, historyVars, SyncTypeOK
  <1>2. PICK ws \in SUBSET Wires :
              /\ Collected(s, ws) /\ sync'[s].chunks = Chunks(ws) /\ IsFiniteSet(ws)
              /\ \A w \in ws : /\ w.row \in Sendable /\ w.val = local[w.row].val
                               /\ w.at = IF sync[s].mode = "sync" THEN local[w.row].at ELSE StampOf(w.row, clock')
    BY <1>0, CollectFacts
  <1>3. SlotAgrees(s)'
    <2>1. ASSUME NEW i \in 1 .. Len(sync'[s].chunks), NEW w \in sync'[s].chunks[i]
          PROVE  WireAgrees(w)'
      <3>1. w \in ws
        BY <1>2, ChunksAreParts
      <3> QED
        BY <3>1, <1>1, <1>2 DEF WireAgrees
    <2> QED
      BY <2>1, <1>1 DEF SlotAgrees
  <1>4. \A r \in Rows : RowAgrees(r)'
    BY <1>1 DEF AgreeNow, RowAgrees
  <1>5. RowsKept
    BY <1>0, <1>1, RowFields DEF RowsKept, RowKept, ServerKept
  <1>6. ASSUME NEW t \in Slots, t # s PROVE SlotAgrees(t)'
    <2>1. sync'[t] = sync[t]
      BY <1>0, <1>1, <1>6, SlotsThen
    <2> QED
      BY <2>1, <1>5, SameSlotShrinks, SlotAgreesKept DEF AgreeNow
  <1> QED
    BY <1>3, <1>4, <1>6 DEF AgreeNow

\* What the server takes is what the device has under the same time.
LEMMA HandleKeepsAgree ==
    ASSUME VersionInv, AgreeNow, NEW s \in Slots, Handle(s)
    PROVE  AgreeNow'
  <1>0. SyncTypeOK /\ Runs(s) /\ SlotAgrees(s)
    BY HandleFacts DEF VersionInv, AgreeNow
  <1>1. UNCHANGED <<local, missed>> /\ sync' = [sync EXCEPT ![s] = sync'[s]]
    BY <1>0, HandleFacts DEF Handle, deviceVars
  <1>2. \A r \in Rows : RowHandled(s, r) /\ server'[r] \in ServerRow
    BY HandleGrows
  <1>3. \A w \in Request(s) : WireAgrees(w) /\ w.at \in Nat
    <2>1. CASE sync[s].chunks = <<>>
      BY <2>1 DEF Request
    <2>2. CASE sync[s].chunks # <<>>
      BY <2>2, <1>0, HeadOfRequest DEF SlotAgrees
    <2> QED
      BY <2>1, <2>2
  <1>4. ASSUME NEW r \in Rows PROVE ServerKept(r) /\ RowAgrees(r)'
    <2>1. server[r].at \in Nat /\ server'[r].at \in Nat /\ RowAgrees(r)
      BY <1>0, <1>2, RowFields DEF ServerRow, AgreeNow
    <2>2. CASE server'[r].at = server[r].at /\ server'[r].val = server[r].val
      BY <2>1, <2>2, <1>1 DEF ServerKept, RowAgrees
    <2>3. ASSUME NEW w \in Request(s), w.row = r, w.at > server[r].at,
                 server'[r].at = w.at, server'[r].val = w.val
          PROVE  ServerKept(r) /\ RowAgrees(r)'
      BY <2>1, <2>3, <1>1, <1>3 DEF ServerKept, RowAgrees, WireAgrees
    <2> QED
      BY <2>2, <2>3, <1>2 DEF RowHandled
  <1>5. RowsKept
    BY <1>0, <1>1, <1>2, <1>4, RowFields DEF RowsKept, RowKept, ServerRow
  <1>6. SlotShrinks(s)
    <2>1. PICK page \in SUBSET Rows : PageIs(s, page)
      BY <1>0, HandleFacts
    <2>2. sync'[s].chunks = sync[s].chunks
      BY <1>0, HandleFacts
    <2> QED
      BY <2>1, <2>2, <1>0 DEF SlotShrinks, PageIs
  <1>7. ASSUME NEW t \in Slots PROVE SlotAgrees(t)'
    <2>1. t # s => sync'[t] = sync[t]
      BY <1>0, <1>1, SlotsThen
    <2>2. SlotShrinks(t)
      BY <2>1, <1>6, SameSlotShrinks
    <2> QED
      BY <2>2, <1>5, SlotAgreesKept DEF AgreeNow
  <1> QED
    BY <1>4, <1>7 DEF AgreeNow

\* What a page brings is what the server has, or had at an earlier time.
LEMMA ReceiveKeepsAgree ==
    ASSUME VersionInv, AgreeNow, NEW s \in Slots, Receive(s)
    PROVE  AgreeNow'
  <1>0. SyncTypeOK
    BY DEF VersionInv
  <1>1. /\ Runs(s) /\ local' = Applied(sync[s].page) /\ UNCHANGED server
        /\ sync' = [sync EXCEPT ![s] = sync'[s]] /\ missed \subseteq missed'
    BY <1>0, ReceiveFacts
  <1>2. FlightOK(s) /\ SlotAgrees(s) /\ clock \in Nat
    BY <1>0 DEF VersionInv, AgreeNow, SyncTypeOK
  <1>3. /\ local' \in [Rows -> Version]
        /\ \A r \in Rows : TakenOver(s, r) \/ TakenAway(s, r) \/ LeftAlone(s, r)
    BY <1>0, <1>1, PageApplied
  <1>4. ASSUME NEW r \in Rows PROVE RowKept(r) /\ RowAgrees(r)'
    <2>1. CASE TakenOver(s, r)
      <3>1. /\ local'[r].at = sync[s].page[r].at /\ local'[r].val = sync[s].page[r].val
            /\ r \in DOMAIN sync[s].page
        BY <2>1 DEF TakenOver
      <3>2. PageAgrees(s, r) /\ sync[s].page[r].at <= server[r].at
        BY <1>1, <1>2, <3>1 DEF FlightOK, SlotAgrees
      <3> QED
        BY <3>1, <3>2, <1>1 DEF RowKept, RowAgrees, PageAgrees
    <2>2. CASE TakenAway(s, r)
      <3>1. local'[r] = Absent
        BY <2>2 DEF TakenAway
      <3>2. server[r].at = 0 => server[r] = Unknown
        BY DEF VersionInv, TimesTell
      <3> QED
        BY <3>1, <3>2, <1>1 DEF RowKept, RowAgrees, Absent, Unknown
    <2>3. CASE LeftAlone(s, r)
      BY <2>3, <1>1 DEF LeftAlone, RowKept, RowAgrees, AgreeNow
    <2> QED
      BY <2>1, <2>2, <2>3, <1>3
  <1>5. RowsKept
    BY <1>0, <1>1, <1>3, <1>4, RowFields DEF RowsKept, ServerKept, Version
  <1>6. SlotShrinks(s)
    <2>1. CASE sync'[s] = Off
      BY <2>1, IdleSlotShrinks
    <2>2. CASE sync'[s].chunks = Rest(s) /\ DOMAIN sync'[s].page = {}
      BY <2>2, <1>0, <1>1, RestOfRequests DEF SlotShrinks
    <2> QED
      BY <2>1, <2>2, <1>0, ReceiveFacts
  <1>7. ASSUME NEW t \in Slots PROVE SlotAgrees(t)'
    <2>1. t # s => sync'[t] = sync[t]
      BY <1>0, <1>1, SlotsThen
    <2>2. SlotShrinks(t)
      BY <2>1, <1>6, SameSlotShrinks
    <2> QED
      BY <2>2, <1>5, SlotAgreesKept DEF AgreeNow
  <1> QED
    BY <1>4, <1>7 DEF AgreeNow

LEMMA AgreeInit == Init => AgreeInv
  <1> SUFFICES ASSUME Init PROVE AgreeNow
    BY DEF AgreeInv
  <1>1. \A r \in Rows : RowAgrees(r)
    BY DEF Init, RowAgrees, Absent, Unknown
  <1>2. \A s \in Slots : SlotAgrees(s)
    BY DEF Init, SlotAgrees, Runs, Off
  <1> QED
    BY <1>1, <1>2 DEF AgreeNow

LEMMA AgreeStep == VersionInv /\ AgreeInv /\ [Next]_vars => AgreeInv'
  <1> SUFFICES ASSUME VersionInv, AgreeInv, [Next]_vars, restored'.at = 0 PROVE AgreeNow'
    BY DEF AgreeInv
  <1>1. restored.at = 0 /\ ~RestoreDone
    BY NotYetRestored
  <1>2. AgreeNow
    BY <1>1 DEF AgreeInv
  <1>3. ASSUME NEW r \in Rows, Edits(r) \/ Deletes(r) \/ OtherWrites(r) \/ OtherDeletes(r)
        PROVE  AgreeNow'
    BY <1>2, <1>3, EditsKeepAgree, DeletesKeepAgree, OthersKeepAgree
  <1>4. ASSUME NEW s \in Slots, Collect(s) \/ Handle(s) \/ Receive(s)
        PROVE  AgreeNow'
    BY <1>2, <1>4, CollectKeepsAgree, HandleKeepsAgree, ReceiveKeepsAgree
  <1>5. CASE \/ SetSyncOn \/ RestoreBegins \/ RestoreFails \/ UNCHANGED vars
             \/ \E s \in Slots : AutoSync(s) \/ OneWay(s) \/ Fails(s) \/ Clear(s)
    BY <1>2, <1>5, RestKeepsAgree
  <1> QED
    BY <1>1, <1>3, <1>4, <1>5 DEF Next, User, Edits, Deletes, Sync

\* With the values, the times of SentByTime give the versions of SentUpToSince.
LEMMA SentWithValues ==
    ASSUME SyncTypeOK, SentByTime, AgreeNow
    PROVE  SentUpToSince
  <1> SUFFICES ASSUME NEW r \in Rows \ missed
               PROVE  /\ r \in Sendable /\ local[r].at < since
                           => server[r].at > local[r].at \/ server[r].val = local[r].val \/ server[r].gone
                      /\ r \in deleted /\ ~Present(r) => r \in outbox \/ server[r] = Unknown \/ server[r].gone
    BY DEF SentUpToSince
  <1>1. server[r].at \in Nat /\ local[r].at \in Nat
    BY RowFields
  <1> QED
    BY <1>1 DEF SentByTime, AgreeNow, RowAgrees

\* As long as one sync runs at a time, the version of every row that changed here before
\* since is on the server, or a newer one, through chunks, lost answers and retries, and
\* every deletion waits in the outbox until it is known there; until a backup is restored,
\* and apart from the changes named in `missed`, those the code never records (what
\* deleteLibrarySourceGroup and mergeGroup delete, what is written with no new time) among
\* them (_syncLoop saves since after the last answer, clearUploaded follows).
THEOREM SentBeforeSince ==
    ASSUME OneAtATime
    PROVE  Spec => [](restored.at = 0 => SentUpToSince)
  <1>1. VersionInv /\ SentInv /\ [Next]_vars => SentInv'
    BY SentStep
  <1>2. VersionInv /\ SentInv /\ AgreeInv => (restored.at = 0 => SentUpToSince)
    BY SentWithValues DEF SentInv, SentNow, AgreeInv, VersionInv
  <1> QED
    BY <1>1, <1>2, SentInit, AgreeInit, AgreeStep, VersionInvHolds, PTL DEF Spec

-----------------------------------------------------------------------------
(* What is pulled: the third layer, while one sync runs at a time.         *)

\* The row's manga is gone, and no page brings it back.
LostManga(r) ==
    /\ r \in DOMAIN Parent /\ ~Present(Parent[r]) /\ server[Parent[r]].gone
    /\ \A s \in Slots :
          Runs(s) /\ Parent[r] \in DOMAIN sync[s].page => sync[s].page[Parent[r]].gone

\* The device has the row as the server has it, or a reason not to.
UpToDate(r) ==
    IF server[r].gone THEN ~Present(r)
    ELSE \/ local[r].at >= server[r].at
         \/ \E q \in deleted : r \in Family(q)
         \/ LostManga(r)

\* The device has the manga, or will not have it any more.
Settled(m) == Present(m) \/ m \in deleted \/ server[m].gone

\* The device heard of every manga the server lacks.
MangaKnown ==
    \A r \in DOMAIN Parent :
        server[r] # Unknown /\ server[Parent[r]] = Unknown => Settled(Parent[r])

UpToSince == \A r \in Rows : 0 < server[r].stamp /\ server[r].stamp <= since => UpToDate(r)

\* The pages so far, and what they are to cover: the changes after `from` and up to
\* the session.
PagesOrdered(s) ==
    /\ sync[s].from <= since
    /\ IF sync[s].session = 0 THEN sync[s].seen = {} ELSE since <= sync[s].session
    /\ DOMAIN sync[s].page \subseteq sync[s].seen

\* A change is in the page at hand, was pulled with one before, or is still to come.
PagesCover(s) ==
    sync[s].session > 0 =>
        \A r \in Rows : sync[s].from < server[r].stamp /\ server[r].stamp <= sync[s].session =>
            \/ r \in DOMAIN sync[s].page
            \/ r \in sync[s].seen /\ UpToDate(r)
            \/ r \notin sync[s].seen /\ sync[s].more

\* The page at hand is what the server has, but for later changes.
PageFresh(s) ==
    \A r \in DOMAIN sync[s].page :
        sync[s].page[r] = server[r] \/ server[r].stamp > sync[s].session

\* No page comes before the manga of its rows, nor does a request to the server.
MangaFirst(s) ==
    /\ \A r \in DOMAIN sync[s].page \cap DOMAIN Parent :
          ~sync[s].page[r].gone => Parent[r] \in DOMAIN sync[s].page \/ Settled(Parent[r])
    /\ \A m \in (sync[s].seen \ DOMAIN sync[s].page) \ DOMAIN Parent : Settled(m)
    /\ \A r \in DOMAIN Parent :
          Wired(s, r) => Settled(Parent[r]) \/ server[Parent[r]] # Unknown

SlotPulled(s) ==
    sync[s].phase \in {"posted", "answered"} =>
        /\ PagesOrdered(s) /\ PagesCover(s) /\ PageFresh(s) /\ MangaFirst(s)

PulledNow == MangaKnown /\ UpToSince /\ \A s \in Slots : SlotPulled(s)
PulledInv == restored.at = 0 => PulledNow

\* What a step does that pulls nothing: what the server changes has a time to come.
PulledKept ==
    \A r \in Rows :
        /\ server'[r] = server[r] \/ (server'[r].stamp \in Nat /\ server'[r].stamp > clock)
        /\ server'[r] = server[r] /\ UpToDate(r) => UpToDate(r)'
        /\ Settled(r) => Settled(r)'
        /\ server[r] # Unknown => server'[r] # Unknown

LEMMA UpToSinceKept ==
    ASSUME VersionInv, UpToSince, PulledKept, UNCHANGED since
    PROVE  UpToSince'
  <1>1. since \in Nat /\ clock \in Nat /\ since <= clock
    BY DEF VersionInv, SyncTypeOK, TimesBounded
  <1> SUFFICES ASSUME NEW r \in Rows, 0 < server'[r].stamp, server'[r].stamp <= since
               PROVE  UpToDate(r)'
    BY DEF UpToSince
  <1>2. server'[r] = server[r]
    BY <1>1 DEF PulledKept
  <1> QED
    BY <1>2 DEF UpToSince, PulledKept

LEMMA SlotPulledKept ==
    ASSUME VersionInv, PulledKept, UNCHANGED since, NEW s \in Slots, SlotPulled(s),
           sync'[s] = sync[s]
    PROVE  SlotPulled(s)'
  <1> SUFFICES ASSUME sync[s].phase \in {"posted", "answered"}
               PROVE  (PagesOrdered(s) /\ PagesCover(s) /\ PageFresh(s) /\ MangaFirst(s))'
    BY DEF SlotPulled
  <1>0. SyncTypeOK /\ Runs(s) /\ sync[s].session \in Nat /\ sync[s].session <= clock /\ clock \in Nat
    BY LoopFields DEF VersionInv, FlightOK, Runs, SyncTypeOK
  <1>1. PagesOrdered(s) /\ PagesCover(s) /\ PageFresh(s) /\ MangaFirst(s)
    BY DEF SlotPulled
  <1>2. DOMAIN sync[s].page \subseteq Rows /\ sync[s].seen \subseteq Rows
    BY <1>0, LoopFields
  <1>3. PagesOrdered(s)'
    BY <1>1 DEF PagesOrdered
  <1>4. PagesCover(s)'
    <2> SUFFICES ASSUME sync[s].session > 0, NEW r \in Rows,
                        sync[s].from < server'[r].stamp, server'[r].stamp <= sync[s].session
                 PROVE  \/ r \in DOMAIN sync[s].page
                        \/ r \in sync[s].seen /\ UpToDate(r)'
                        \/ r \notin sync[s].seen /\ sync[s].more
      BY DEF PagesCover
    <2>1. server'[r] = server[r]
      BY <1>0 DEF PulledKept
    <2> QED
      BY <2>1, <1>1 DEF PagesCover, PulledKept
  <1>5. PageFresh(s)'
    <2> SUFFICES ASSUME NEW r \in DOMAIN sync[s].page
                 PROVE  sync[s].page[r] = server'[r] \/ server'[r].stamp > sync[s].session
      BY DEF PageFresh
    <2>1. CASE server'[r] = server[r]
      BY <2>1, <1>1 DEF PageFresh
    <2>2. CASE server'[r].stamp \in Nat /\ server'[r].stamp > clock
      BY <2>2, <1>0
    <2> QED
      BY <2>1, <2>2, <1>2 DEF PulledKept
  <1>6. MangaFirst(s)'
    <2>1. \A r : Wired(s, r)' <=> Wired(s, r)
      BY DEF Wired, ToSend
    <2>2. \A r \in DOMAIN Parent : Parent[r] \in Rows
      BY SyncAssumption
    <2> QED
      BY <2>1, <2>2, <1>1, <1>2 DEF MangaFirst, PulledKept
  <1> QED
    BY <1>3, <1>4, <1>5, <1>6

LEMMA PulledStays ==
    ASSUME VersionInv, PulledNow, PulledKept, UNCHANGED <<since, sync>>, MangaKnown'
    PROVE  PulledNow'
  BY UpToSinceKept, SlotPulledKept DEF PulledNow

LEMMA EditKeepsPulled ==
    ASSUME VersionInv, PulledNow, NEW r \in Rows, Edit(r)
    PROVE  PulledNow'
  <1>0. SyncTypeOK /\ TimesBounded /\ clock \in Nat
    BY DEF VersionInv, SyncTypeOK
  <1>1. /\ clock' = clock + 1 /\ UNCHANGED <<since, server, sync, deleted>>
        /\ Present(r) \/ (r \notin deleted /\ server[r] = Unknown)
    BY DEF Edit, Tick
  <1>2. /\ local'[r].at = clock + 1 /\ Present(r)'
        /\ \A q \in Rows \ {r} : local'[q] = local[q] /\ (Present(q)' <=> Present(q))
    <2>1. local' = [local EXCEPT ![r] = [at |-> clock', val |-> clock']]
      BY DEF Edit
    <2>2. local'[r] = [at |-> clock', val |-> clock'] /\ \A q \in Rows \ {r} : local'[q] = local[q]
      BY <2>1, <1>0 DEF SyncTypeOK
    <2>3. local'[r] # Absent
      BY <2>2, <1>0, <1>1 DEF Absent
    <2> QED
      BY <2>2, <2>3, <1>1 DEF Present
  <1>3. server[r].at \in Nat /\ server[r].at <= clock + 1 /\ ~Unknown.gone
    <2>1. server[r].at <= latest[r].at /\ latest[r].at <= clock
      BY <1>0 DEF TimesBounded
    <2> QED
      BY <2>1, <1>0, RowFields DEF Unknown
  <1>4. \A q \in Rows : LostManga(q) => LostManga(q)'
    <2> SUFFICES ASSUME NEW q \in DOMAIN Parent, ~Present(Parent[q]), server[Parent[q]].gone
                 PROVE  ~Present(Parent[q])'
      BY <1>1 DEF LostManga, Runs
    <2>1. Parent[q] \in Rows /\ Parent[q] # r
      BY <1>1, <1>3, SyncAssumption
    <2> QED
      BY <2>1, <1>2
  <1>5. ASSUME NEW q \in Rows, UpToDate(q) PROVE UpToDate(q)'
    <2>1. CASE q = r
      <3>1. ~server[r].gone
        BY <2>1, <1>1, <1>3, <1>5 DEF UpToDate
      <3> QED
        BY <2>1, <3>1, <1>1, <1>2, <1>3 DEF UpToDate
    <2>2. CASE q # r
      BY <2>2, <1>1, <1>2, <1>4, <1>5 DEF UpToDate
    <2> QED
      BY <2>1, <2>2
  <1>6. \A q \in Rows : Settled(q) => Settled(q)'
    BY <1>1, <1>2 DEF Settled
  <1>7. PulledKept
    BY <1>1, <1>5, <1>6 DEF PulledKept
  <1>8. MangaKnown'
    BY <1>1, <1>6, SyncAssumption DEF PulledNow, MangaKnown
  <1> QED
    BY <1>1, <1>7, <1>8, PulledStays

LEMMA UnstampedKeepsPulled ==
    ASSUME VersionInv, PulledNow, NEW r \in Rows, EditUnstamped(r)
    PROVE  PulledNow'
  <1>1. /\ UNCHANGED <<since, server, sync, deleted>>
        /\ \A q \in Rows : local'[q].at = local[q].at /\ (Present(q)' <=> Present(q))
    BY UnstampedFacts DEF VersionInv
  <1>2. \A q \in Rows : LostManga(q) => LostManga(q)'
    BY <1>1, SyncAssumption DEF LostManga, Runs
  <1>3. \A q \in Rows : (UpToDate(q) => UpToDate(q)') /\ (Settled(q) => Settled(q)')
    BY <1>1, <1>2 DEF UpToDate, Settled
  <1>4. PulledKept
    BY <1>1, <1>3 DEF PulledKept
  <1>5. MangaKnown'
    BY <1>1, <1>3, SyncAssumption DEF PulledNow, MangaKnown
  <1> QED
    BY <1>1, <1>4, <1>5, PulledStays

LEMMA DeleteKeepsPulled ==
    ASSUME VersionInv, PulledNow, NEW r \in Rows, Deletes(r)
    PROVE  PulledNow'
  <1> DEFINE rs == Going(r)
  <1>1. /\ UNCHANGED <<since, server, sync>> /\ deleted' = deleted \cup rs
        /\ local' = [q \in Rows |-> IF q \in rs THEN Absent ELSE local[q]]
    BY DeleteFacts DEF VersionInv
  <1> HIDE DEF rs
  <1>2. \A q \in Rows : /\ Present(q)' <=> Present(q) /\ q \notin rs
                        /\ q \notin rs => local'[q] = local[q]
    BY <1>1 DEF Present
  <1>3. \A q \in Rows : LostManga(q) => LostManga(q)'
    BY <1>1, <1>2, SyncAssumption DEF LostManga, Runs
  <1>4. \A q : q \in Family(q)
    BY DEF Family
  <1>5. ASSUME NEW q \in Rows, UpToDate(q) PROVE UpToDate(q)'
    <2>1. CASE q \in rs
      BY <2>1, <1>1, <1>2, <1>4 DEF UpToDate
    <2>2. CASE q \notin rs
      BY <2>2, <1>1, <1>2, <1>3, <1>5 DEF UpToDate
    <2> QED
      BY <2>1, <2>2
  <1>6. \A q \in Rows : Settled(q) => Settled(q)'
    BY <1>1, <1>2 DEF Settled
  <1>7. PulledKept
    BY <1>1, <1>5, <1>6 DEF PulledKept
  <1>8. MangaKnown'
    BY <1>1, <1>6, SyncAssumption DEF PulledNow, MangaKnown
  <1> QED
    BY <1>1, <1>7, <1>8, PulledStays

LEMMA OthersKeepPulled ==
    ASSUME VersionInv, PulledNow, NEW r \in Rows, OtherWrites(r) \/ OtherDeletes(r)
    PROVE  PulledNow'
  <1>0. SyncTypeOK /\ clock \in Nat /\ clock' = clock + 1 /\ clock' # 0
    BY DEF VersionInv, SyncTypeOK, OtherWrites, OtherDeletes, Tick
  <1>1. UNCHANGED <<local, since, sync, deleted>>
    BY DEF OtherWrites, OtherDeletes, deviceVars, historyVars
  <1>2. /\ \A q \in Rows : /\ server'[q] = server[q] \/ server'[q].stamp = clock'
                           /\ server[q].gone => server'[q].gone
                           /\ server[q] # Unknown => server'[q] # Unknown
        /\ \A q \in DOMAIN Parent :
              server'[q] # Unknown /\ server'[Parent[q]] = Unknown => server[q] # Unknown
    <2>1. CASE OtherWrites(r)
      <3>1. server' = [server EXCEPT ![r] = [at |-> clock', val |-> clock', stamp |-> clock', gone |-> FALSE]]
        BY <2>1 DEF OtherWrites
      <3>2. server'[r].stamp = clock' /\ \A q \in Rows \ {r} : server'[q] = server[q]
        BY <3>1, <1>0 DEF SyncTypeOK
      <3>3. server'[r] # Unknown /\ ~server[r].gone
        BY <2>1, <3>2, <1>0 DEF OtherWrites, Unknown
      <3>4. r \in DOMAIN Parent => server[Parent[r]] # Unknown
        BY <2>1 DEF OtherWrites
      <3>5. \A q \in Rows : server[q] # Unknown => server'[q] # Unknown
        BY <3>2, <3>3
      <3>6. ASSUME NEW q \in DOMAIN Parent, server'[q] # Unknown, server'[Parent[q]] = Unknown
            PROVE  server[q] # Unknown
        <4>1. q # r /\ q \in Rows
          BY <3>4, <3>5, <3>6, SyncAssumption
        <4> QED
          BY <4>1, <3>2, <3>6
      <3> QED
        BY <3>2, <3>3, <3>5, <3>6
    <2>2. CASE OtherDeletes(r)
      <3>1. \A q \in Rows :
               \/ server'[q] = server[q]
               \/ server[q] # Unknown /\ server'[q].gone /\ server'[q].stamp = clock'
        BY <2>2, <1>0, OtherDeletesFacts
      <3>2. ~Unknown.gone
        BY DEF Unknown
      <3>3. \A q \in DOMAIN Parent : q \in Rows
        BY SyncAssumption
      <3> QED
        BY <3>1, <3>2, <3>3
    <2> QED
      BY <2>1, <2>2
  <1>3. \A q \in Rows : (Present(q)' <=> Present(q)) /\ (Settled(q) => Settled(q)')
    BY <1>1, <1>2 DEF Present, Settled
  <1>4. \A q \in Rows : LostManga(q) => LostManga(q)'
    BY <1>1, <1>2, <1>3, SyncAssumption DEF LostManga, Runs
  <1>5. \A q \in Rows : server'[q] = server[q] /\ UpToDate(q) => UpToDate(q)'
    BY <1>1, <1>3, <1>4 DEF UpToDate
  <1>6. PulledKept
    BY <1>0, <1>2, <1>3, <1>5 DEF PulledKept
  <1>7. MangaKnown'
    <2> SUFFICES ASSUME NEW q \in DOMAIN Parent, server'[q] # Unknown, server'[Parent[q]] = Unknown
                 PROVE  Settled(Parent[q])'
      BY DEF MangaKnown
    <2>1. server[q] # Unknown /\ server[Parent[q]] = Unknown /\ Parent[q] \in Rows
      BY <1>2, SyncAssumption
    <2> QED
      BY <2>1, <1>3 DEF PulledNow, MangaKnown
  <1> QED
    BY <1>1, <1>6, <1>7, PulledStays

\* A step that changes no row, nor a page under way: the manga that are lost stay so.
LEMMA RowsStayPulled ==
    ASSUME VersionInv, PulledNow, UNCHANGED <<local, server, deleted, since>>,
           \A s \in Slots : Runs(s)' => DOMAIN sync'[s].page = {} \/ sync'[s] = sync[s]
    PROVE  MangaKnown' /\ UpToSince' /\ PulledKept
  <1>1. \A q \in Rows : (Present(q)' <=> Present(q)) /\ (Settled(q) <=> Settled(q)')
    BY DEF Present, Settled
  <1>2. \A q \in Rows : LostManga(q) => LostManga(q)'
    <2> SUFFICES ASSUME NEW q \in Rows, LostManga(q), NEW s \in Slots, Runs(s)',
                        Parent[q] \in DOMAIN sync'[s].page
                 PROVE  sync'[s].page[Parent[q]].gone
      BY <1>1, SyncAssumption DEF LostManga
    <2>1. sync'[s] = sync[s]
      OBVIOUS
    <2> QED
      BY <2>1 DEF LostManga, Runs
  <1>3. \A q \in Rows : UpToDate(q) => UpToDate(q)'
    BY <1>1, <1>2 DEF UpToDate
  <1>4. PulledKept
    BY <1>1, <1>3 DEF PulledKept
  <1>5. MangaKnown'
    BY <1>1, SyncAssumption DEF PulledNow, MangaKnown
  <1> QED
    BY <1>4, <1>5, UpToSinceKept DEF PulledNow

LEMMA RestKeepsPulled ==
    ASSUME VersionInv, PulledNow, OneAtATime,
           \/ SetSyncOn \/ RestoreBegins \/ RestoreFails \/ UNCHANGED vars
           \/ \E s \in Slots : AutoSync(s) \/ OneWay(s) \/ Fails(s) \/ Clear(s)
    PROVE  PulledNow'
  <1>1. CASE SetSyncOn \/ RestoreBegins \/ RestoreFails \/ UNCHANGED vars
    <2>1. UNCHANGED <<local, server, deleted, since, sync>>
      BY <1>1 DEF SetSyncOn, RestoreBegins, RestoreFails, vars, deviceVars, historyVars
    <2>2. MangaKnown' /\ PulledKept
      BY <2>1, RowsStayPulled
    <2> QED
      BY <2>1, <2>2, PulledStays
  <1>2. ASSUME NEW s \in Slots, NEW k, sync' = [sync EXCEPT ![s] = k],
               k.phase \notin {"posted", "answered", "clearing"},
               UNCHANGED <<local, server, deleted, since>>
        PROVE  PulledNow'
    <2>1. sync'[s] = k /\ \A t \in Slots : t = s
      BY <1>2, SlotsThen DEF VersionInv, OneAtATime
    <2>2. \A t \in Slots : ~Runs(t)' /\ SlotPulled(t)'
      BY <2>1, <1>2 DEF Runs, SlotPulled
    <2> QED
      BY <2>2, <1>2, RowsStayPulled DEF PulledNow
  <1>3. ASSUME NEW s \in Slots, AutoSync(s) \/ OneWay(s) \/ Fails(s) \/ Clear(s)
        PROVE  PulledNow'
    <2>1. UNCHANGED <<local, server, deleted, since>>
      BY <1>3 DEF AutoSync, OneWay, StartSync, Fails, Clear, deviceVars, historyVars
    <2>2. \/ sync' = [sync EXCEPT ![s] = Off]
          \/ \E mode \in Modes \cup {"sync"} : sync' = [sync EXCEPT ![s] = Started(mode, FALSE)]
      BY <1>3 DEF AutoSync, OneWay, StartSync, Fails, Clear, Ends
    <2>3. /\ Off.phase \notin {"posted", "answered", "clearing"}
          /\ \A mode : Started(mode, FALSE).phase \notin {"posted", "answered", "clearing"}
      BY DEF Off, Started
    <2>4. CASE sync' = [sync EXCEPT ![s] = Off]
      BY <2>1, <2>3, <2>4, <1>2
    <2>5. ASSUME NEW mode, sync' = [sync EXCEPT ![s] = Started(mode, FALSE)] PROVE PulledNow'
      BY <2>1, <2>3, <2>5, <1>2
    <2> QED
      BY <2>2, <2>4, <2>5
  <1> QED
    BY <1>1, <1>3

LEMMA CollectKeepsPulled ==
    ASSUME VersionInv, PulledNow, OneAtATime, NEW s \in Slots, Collect(s)
    PROVE  PulledNow'
  <1>0. SyncTypeOK /\ since \in Nat
    BY DEF VersionInv, SyncTypeOK
  <1>1. /\ UNCHANGED <<local, since, server, deleted>>
        /\ sync'[s].session = 0 /\ sync'[s].seen = {} /\ DOMAIN sync'[s].page = {}
        /\ sync'[s].from = IF sync[s].mode = "download" THEN 0 ELSE since
    BY <1>0, CollectFacts DEF deviceVars, historyVars
  <1>2. PICK ws \in SUBSET Wires :
           /\ sync'[s].chunks = Chunks(ws) /\ IsFiniteSet(ws)
           /\ \A w \in ws : w.row \in Sendable
    BY <1>0, CollectFacts
  <1>3. \A t \in Slots : t = s
    BY DEF OneAtATime
  <1>4. MangaKnown' /\ UpToSince'
    BY <1>1, <1>3, RowsStayPulled
  <1>5. \A q : Wired(s, q)' => q \in Sendable
    BY <1>2, ChunksAreParts DEF Wired, ToSend
  <1>6. MangaFirst(s)'
    <2> SUFFICES ASSUME NEW q \in DOMAIN Parent, Wired(s, q)'
                 PROVE  Settled(Parent[q])'
      BY <1>1 DEF MangaFirst
    <2>1. Present(Parent[q])
      BY <1>5, SyncAssumption DEF Sendable, HasManga
    <2> QED
      BY <2>1, <1>1 DEF Settled, Present
  <1>7. PagesOrdered(s)' /\ PagesCover(s)' /\ PageFresh(s)'
    BY <1>0, <1>1 DEF PagesOrdered, PagesCover, PageFresh
  <1> QED
    BY <1>3, <1>4, <1>6, <1>7 DEF PulledNow, SlotPulled

\* An answer: the page holds what the server has, each manga first, and what it leaves
\* out is to come.
LEMMA HandleKeepsPulled ==
    ASSUME VersionInv, PulledNow, OneAtATime, NEW s \in Slots, Handle(s)
    PROVE  PulledNow'
  <1>0. SyncTypeOK /\ TimesBounded /\ TimesTell
    BY DEF VersionInv
  <1>1. /\ Runs(s) /\ sync[s].phase = "posted"
        /\ sync'[s].phase = "answered" /\ sync'[s].chunks = sync[s].chunks
        /\ sync'[s].from = sync[s].from
        /\ sync'[s].session = IF sync[s].session = 0 THEN clock' ELSE sync[s].session
    BY <1>0, HandleFacts
  <1>2. PICK page \in SUBSET Rows : PageIs(s, page)
    BY <1>0, HandleFacts
  <1>3. UNCHANGED <<local, since, deleted>>
    BY DEF Handle, deviceVars
  <1>4. \A t \in Slots : t = s
    BY DEF OneAtATime
  <1>5. PagesOrdered(s) /\ PagesCover(s) /\ PageFresh(s) /\ MangaFirst(s)
    BY <1>1 DEF PulledNow, SlotPulled
  <1>6. DOMAIN sync[s].page = {}
    BY <1>1 DEF VersionInv, FlightOK
  <1>7. /\ clock \in Nat \ {0} /\ clock' \in {clock, clock + 1} /\ clock' # 0
        /\ since \in Nat /\ since <= clock
        /\ sync[s].session \in Nat /\ sync[s].session <= clock /\ sync[s].from \in Nat
        /\ sync[s].seen \subseteq Rows
    BY <1>0, <1>1, HandleGrows, LoopFields DEF SyncTypeOK, TimesBounded, VersionInv, FlightOK
  <1>8. \A r \in Rows :
           /\ RowHandled(s, r)
           /\ server'[r].stamp \in Nat /\ server'[r].stamp <= clock'
           /\ server'[r].stamp = 0 => server'[r] = Unknown
           /\ server[r].gone => server'[r].gone
    BY HandleGrows DEF Grows
  <1>9. \A r \in Rows :
           /\ server'[r] = server[r] \/ (server'[r].stamp = clock' /\ clock' > clock)
           /\ server[r] # Unknown => server'[r] # Unknown
    <2>1. Unknown.stamp = 0
      BY DEF Unknown
    <2> QED
      BY <2>1, <1>7, <1>8 DEF RowHandled
  <1>10. /\ sync'[s].seen = sync[s].seen \cup page
         /\ sync'[s].page = [r \in page |-> server'[r]] /\ DOMAIN sync'[s].page = page
         /\ page \subseteq Changed(s) /\ (sync'[s].more <=> Changed(s) # page)
         /\ \A r \in page : HasManga((Rows \ Changed(s)) \cup page, r)
    BY <1>2 DEF PageIs
  <1>11. \A r \in Rows : (Present(r)' <=> Present(r)) /\ (Settled(r) => Settled(r)')
    BY <1>3, <1>8 DEF Present, Settled
  <1>12. ASSUME NEW r \in Rows, LostManga(r) PROVE LostManga(r)'
    <2>1. Parent[r] \in Rows /\ ~Present(Parent[r])' /\ server'[Parent[r]].gone
      BY <1>8, <1>11, <1>12, SyncAssumption DEF LostManga
    <2>2. Parent[r] \in page => sync'[s].page[Parent[r]].gone
      BY <2>1, <1>10
    <2> QED
      BY <2>1, <2>2, <1>4, <1>10, <1>12 DEF LostManga
  <1>13. PulledKept
    <2>1. ASSUME NEW r \in Rows, server'[r] = server[r], UpToDate(r) PROVE UpToDate(r)'
      BY <2>1, <1>3, <1>11, <1>12 DEF UpToDate
    <2> QED
      BY <2>1, <1>7, <1>8, <1>9, <1>11 DEF PulledKept
  <1>14. UpToSince'
    BY <1>3, <1>13, UpToSinceKept DEF PulledNow
  <1>15. MangaKnown'
    <2> SUFFICES ASSUME NEW r \in DOMAIN Parent, server'[r] # Unknown, server'[Parent[r]] = Unknown
                 PROVE  Settled(Parent[r])'
      BY DEF MangaKnown
    <2>1. r \in Rows /\ Parent[r] \in Rows /\ server[Parent[r]] = Unknown
      BY <1>9, SyncAssumption
    <2>2. CASE server[r] # Unknown
      BY <2>1, <2>2, <1>11 DEF PulledNow, MangaKnown
    <2>3. ASSUME NEW w \in Request(s), w.row = r PROVE Settled(Parent[r])'
      <3>1. Wired(s, r)
        <4>1. sync[s].chunks # <<>>
          BY <2>3 DEF Request
        <4>2. 1 \in 1 .. Len(sync[s].chunks) /\ Request(s) = sync[s].chunks[1]
          BY <4>1, <1>0, <1>1, HeadOfRequest
        <4> QED
          BY <4>2, <2>3, <1>1 DEF Wired, ToSend
      <3> QED
        BY <3>1, <2>1, <1>5, <1>11 DEF MangaFirst
    <2> QED
      BY <2>1, <2>2, <2>3, <1>8 DEF RowHandled
  <1>16. sync'[s].session > 0 /\ sync'[s].session \in Nat /\ since <= sync'[s].session
    BY <1>1, <1>5, <1>7 DEF PagesOrdered
  <1>17. PagesOrdered(s)'
    BY <1>1, <1>3, <1>5, <1>10, <1>16 DEF PagesOrdered
  <1>18. PagesCover(s)'
    <2> SUFFICES ASSUME NEW r \in Rows, sync[s].from < server'[r].stamp,
                        server'[r].stamp <= sync'[s].session
                 PROVE  \/ r \in page
                        \/ r \in sync'[s].seen /\ UpToDate(r)'
                        \/ r \notin sync'[s].seen /\ sync'[s].more
      BY <1>1, <1>10 DEF PagesCover
    <2>1. CASE r \in sync[s].seen
      <3>1. sync[s].session > 0 /\ sync'[s].session = sync[s].session
        BY <2>1, <1>1, <1>5, <1>7 DEF PagesOrdered
      <3>2. server'[r] = server[r]
        BY <3>1, <1>7, <1>9
      <3>3. UpToDate(r)
        BY <2>1, <3>1, <3>2, <1>5, <1>6 DEF PagesCover
      <3> QED
        BY <2>1, <3>2, <3>3, <1>10, <1>13 DEF PulledKept
    <2>2. CASE r \notin sync[s].seen
      <3>1. r \in Changed(s)
        BY <2>2 DEF Changed
      <3> QED
        BY <2>2, <3>1, <1>10
    <2> QED
      BY <2>1, <2>2
  <1>19. PageFresh(s)'
    BY <1>10 DEF PageFresh
  <1>20. MangaFirst(s)'
    <2>1. ASSUME NEW r \in page \cap DOMAIN Parent, Parent[r] \notin page PROVE Settled(Parent[r])'
      <3> SUFFICES ASSUME NEW m, m = Parent[r] PROVE Settled(m)'
        OBVIOUS
      <3>1. m \in Rows \ DOMAIN Parent /\ m \notin Changed(s) /\ r \in Rows
        BY <2>1, <1>10, SyncAssumption DEF HasManga
      <3>2. m \in sync[s].seen \/ server'[m].stamp <= sync[s].from
        BY <3>1, <1>7, <1>8 DEF Changed
      <3>3. CASE m \in sync[s].seen
        BY <3>1, <3>3, <1>5, <1>6, <1>11 DEF MangaFirst
      <3>4. CASE server'[m].stamp <= sync[s].from /\ server'[m].stamp > 0
        <4>1. server'[m].stamp <= since
          BY <3>1, <3>4, <1>5, <1>7, <1>8 DEF PagesOrdered
        <4>2. UpToDate(m)'
          BY <3>1, <3>4, <4>1, <1>3, <1>14 DEF UpToSince
        <4>3. ASSUME ~server'[m].gone, local'[m].at >= server'[m].at PROVE Present(m)'
          <5>1. server'[m].at # 0 /\ server'[m].at \in Nat
            BY <3>1, <3>4, HandleGrows DEF Grows, Unknown
          <5>2. local[m].at \in Nat /\ local'[m] = local[m]
            BY <3>1, <1>0, <1>3, RowFields
          <5> QED
            BY <4>3, <5>1, <5>2 DEF Present, Absent
        <4>4. \A q \in deleted : m \in Family(q) => m \in deleted
          BY <3>1 DEF Family
        <4>5. ~LostManga(m)'
          BY <3>1 DEF LostManga
        <4> QED
          BY <4>2, <4>3, <4>4, <4>5, <1>3 DEF UpToDate, Settled
      <3>5. CASE server'[m].stamp = 0
        <4>1. server'[m] = Unknown
          BY <3>1, <3>5, <1>8
        <4>2. server'[r].stamp > 0
          BY <2>1, <3>1, <1>7, <1>8, <1>10 DEF Changed
        <4>3. server'[r] # Unknown
          BY <4>2 DEF Unknown
        <4> QED
          BY <4>1, <4>3, <2>1, <1>15 DEF MangaKnown
      <3> QED
        BY <3>1, <3>2, <3>3, <3>4, <3>5, <1>8
    <2>2. \A r : Wired(s, r)' => Wired(s, r)
      BY <1>1 DEF Wired, ToSend
    <2>3. \A r \in DOMAIN Parent : Parent[r] \in Rows
      BY SyncAssumption
    <2>4. \A m \in (sync'[s].seen \ page) \ DOMAIN Parent : Settled(m)'
      BY <1>5, <1>6, <1>7, <1>10, <1>11 DEF MangaFirst
    <2>5. \A r \in DOMAIN Parent : Wired(s, r)' => Settled(Parent[r])' \/ server'[Parent[r]] # Unknown
      BY <2>2, <2>3, <1>5, <1>9, <1>11 DEF MangaFirst
    <2> QED
      BY <2>1, <2>4, <2>5, <1>10 DEF MangaFirst
  <1> QED
    BY <1>4, <1>14, <1>15, <1>17, <1>18, <1>19, <1>20 DEF PulledNow, SlotPulled

\* A page is applied; since moves on when every change up to the session is here.
LEMMA ReceiveKeepsPulled ==
    ASSUME VersionInv, PulledNow, OneAtATime, NEW s \in Slots, Receive(s)
    PROVE  PulledNow'
  <1>0. SyncTypeOK /\ TimesTell
    BY DEF VersionInv
  <1>1. /\ Runs(s) /\ sync[s].phase = "answered" /\ local' = Applied(sync[s].page)
        /\ UNCHANGED <<server, deleted>>
        /\ IF IsLast(s) THEN since' = sync[s].session ELSE UNCHANGED since
    BY <1>0, ReceiveFacts
  <1>2. \/ sync'[s] = Off
        \/ /\ sync'[s].phase = IF IsLast(s) THEN "clearing" ELSE "posted"
           /\ sync'[s].from = sync[s].from /\ sync'[s].session = sync[s].session
           /\ sync'[s].seen = sync[s].seen /\ sync'[s].more = sync[s].more
           /\ DOMAIN sync'[s].page = {} /\ sync'[s].chunks = Rest(s)
    BY <1>0, ReceiveFacts
  <1>3. \A t \in Slots : t = s
    BY DEF OneAtATime
  <1>4. PagesOrdered(s) /\ PagesCover(s) /\ PageFresh(s) /\ MangaFirst(s)
    BY <1>1 DEF PulledNow, SlotPulled
  <1>5. /\ sync[s].session \in Nat \ {0} /\ since \in Nat /\ sync[s].from \in Nat
        /\ sync[s].from <= since /\ since <= sync[s].session
        /\ DOMAIN sync[s].page \subseteq sync[s].seen /\ sync[s].seen \subseteq Rows
    BY <1>0, <1>1, <1>4, LoopFields DEF VersionInv, FlightOK, SyncTypeOK, PagesOrdered
  <1>6. \A r \in Rows : TakenOver(s, r) \/ TakenAway(s, r) \/ LeftAlone(s, r)
    BY <1>0, <1>1, PageApplied
  <1>7. \A r \in DOMAIN sync[s].page :
           /\ 0 < sync[s].page[r].at /\ sync[s].page[r].at <= server[r].at
           /\ sync[s].page[r].gone => server[r].gone
           /\ r \in Rows /\ sync[s].page[r].at \in Nat
    <2>1. \A r \in DOMAIN sync[s].page : r \in Rows /\ sync[s].page[r].at \in Nat
      BY <1>0, <1>1, LoopFields DEF ServerRow
    <2> QED
      BY <2>1, <1>1 DEF VersionInv, FlightOK
  <1>8. \A r \in Rows : server[r].at \in Nat /\ server[r].stamp \in Nat /\ local[r].at \in Nat
    BY <1>0, RowFields
  <1>9. ASSUME NEW r \in Rows, TakenAway(s, r) PROVE server[r].gone /\ ~Present(r)'
    BY <1>7, <1>9 DEF TakenAway, Present
  <1>10. ASSUME NEW m \in Rows, Settled(m) PROVE Settled(m)'
    <2>1. CASE TakenOver(s, m)
      <3>1. local'[m].at > 0
        BY <2>1, <1>7 DEF TakenOver
      <3> QED
        BY <3>1 DEF Settled, Present, Absent
    <2>2. CASE TakenAway(s, m)
      BY <2>2, <1>1, <1>9 DEF Settled
    <2>3. CASE LeftAlone(s, m)
      BY <2>3, <1>1, <1>10 DEF Settled, Present, LeftAlone
    <2> QED
      BY <2>1, <2>2, <2>3, <1>6
  <1>11. \A t \in Slots : Runs(t)' => DOMAIN sync'[t].page = {}
    BY <1>2, <1>3 DEF Runs, Off
  <1>12. ASSUME NEW r \in DOMAIN Parent, ~Present(Parent[r]), server[Parent[r]].gone,
                Parent[r] \in DOMAIN sync[s].page => sync[s].page[Parent[r]].gone
         PROVE  LostManga(r)'
    <2>1. Parent[r] \in Rows /\ ~TakenOver(s, Parent[r])
      BY <1>12, SyncAssumption DEF TakenOver
    <2>2. ~Present(Parent[r])'
      BY <2>1, <1>6, <1>9, <1>12 DEF LeftAlone, Present
    <2> QED
      BY <2>2, <1>1, <1>11, <1>12 DEF LostManga
  <1>13. ASSUME NEW r \in Rows, LostManga(r) PROVE LostManga(r)'
    BY <1>1, <1>12, <1>13 DEF LostManga
  <1>14. ASSUME NEW r \in Rows, server[r].stamp <= sync[s].session, UpToDate(r)
         PROVE  UpToDate(r)'
    <2>1. r \in DOMAIN sync[s].page => sync[s].page[r] = server[r]
      BY <1>4, <1>5, <1>8, <1>14 DEF PageFresh
    <2>2. CASE server[r].gone
      <3>1. ~TakenOver(s, r) /\ ~Present(r)
        BY <2>1, <2>2, <1>14 DEF TakenOver, UpToDate
      <3>2. ~Present(r)'
        BY <3>1, <1>6, <1>9 DEF LeftAlone, Present
      <3> QED
        BY <3>2, <2>2, <1>1 DEF UpToDate
    <2>3. CASE ~server[r].gone
      <3>1. local[r].at >= server[r].at => local'[r].at >= server[r].at
        <4>1. CASE TakenOver(s, r)
          <5>1. local'[r].at = server[r].at
            BY <2>1, <4>1 DEF TakenOver
          <5> QED
            BY <5>1, <1>8
        <4>2. CASE LeftAlone(s, r)
          BY <4>2 DEF LeftAlone
        <4> QED
          BY <4>1, <4>2, <2>3, <1>6, <1>9
      <3> QED
        BY <3>1, <2>3, <1>1, <1>13, <1>14 DEF UpToDate
    <2> QED
      BY <2>2, <2>3
  <1>15. ASSUME NEW r \in DOMAIN sync[s].page, server[r].stamp <= sync[s].session
         PROVE  UpToDate(r)'
    <2>0. r \in Rows /\ sync[s].page[r] = server[r]
      BY <1>4, <1>5, <1>7, <1>8, <1>15 DEF PageFresh
    <2>1. CASE TakenOver(s, r)
      BY <2>0, <2>1, <1>1, <1>8 DEF TakenOver, UpToDate
    <2>2. CASE TakenAway(s, r)
      BY <2>0, <2>2, <1>1, <1>9 DEF UpToDate
    <2>3. CASE LeftAlone(s, r)
      <3>1. ~server[r].gone /\ local'[r] = local[r]
        BY <2>0, <2>3 DEF LeftAlone
      <3>2. CASE local[r].at >= server[r].at
        BY <3>1, <3>2, <1>1 DEF UpToDate
      <3>3. CASE ~HasManga(Here(s), r)
        <4>1. /\ r \in DOMAIN Parent /\ Parent[r] \in Rows /\ ~Present(Parent[r])
              /\ Parent[r] \in DOMAIN sync[s].page => sync[s].page[Parent[r]].gone
          BY <3>3, SyncAssumption DEF HasManga, Here
        <4>2. CASE server[Parent[r]].gone
          BY <3>1, <4>1, <4>2, <1>1, <1>12 DEF UpToDate
        <4>3. CASE Parent[r] \in deleted
          <5>1. r \in Family(Parent[r])
            BY <4>1 DEF Family
          <5> QED
            BY <3>1, <4>3, <5>1, <1>1 DEF UpToDate
        <4>4. Parent[r] \in DOMAIN sync[s].page \/ Settled(Parent[r])
          BY <2>0, <3>1, <4>1, <1>4 DEF MangaFirst
        <4> QED
          BY <4>1, <4>2, <4>3, <4>4, <1>7 DEF Settled
      <3> QED
        BY <2>0, <2>3, <3>2, <3>3, <1>8 DEF LeftAlone
    <2> QED
      BY <2>0, <2>1, <2>2, <2>3, <1>6
  <1>16. ASSUME NEW r \in Rows, sync[s].from < server[r].stamp, server[r].stamp <= sync[s].session
         PROVE  \/ r \in sync[s].seen /\ UpToDate(r)'
                \/ r \notin sync[s].seen /\ sync[s].more
    <2>1. \/ r \in DOMAIN sync[s].page
          \/ r \in sync[s].seen /\ UpToDate(r)
          \/ r \notin sync[s].seen /\ sync[s].more
      BY <1>4, <1>5, <1>16 DEF PagesCover
    <2> QED
      BY <2>1, <1>5, <1>14, <1>15, <1>16
  <1>17. UpToSince'
    <2> SUFFICES ASSUME NEW r \in Rows, 0 < server[r].stamp, server[r].stamp <= since'
                 PROVE  UpToDate(r)'
      BY <1>1 DEF UpToSince
    <2>1. CASE server[r].stamp <= since
      <3>1. UpToDate(r)
        BY <2>1 DEF PulledNow, UpToSince
      <3>2. server[r].stamp <= sync[s].session
        BY <2>1, <1>5, <1>8
      <3> QED
        BY <3>1, <3>2, <1>14
    <2>2. CASE since < server[r].stamp
      <3>1. IsLast(s) /\ since' = sync[s].session
        BY <2>2, <1>1, <1>5, <1>8
      <3>2. sync[s].from < server[r].stamp /\ server[r].stamp <= sync[s].session
        BY <2>2, <3>1, <1>5, <1>8
      <3> QED
        BY <3>1, <3>2, <1>16 DEF IsLast
    <2> QED
      BY <2>1, <2>2, <1>5, <1>8
  <1>18. MangaKnown'
    BY <1>1, <1>10, SyncAssumption DEF PulledNow, MangaKnown
  <1>19. SlotPulled(s)'
    <2>1. CASE sync'[s] = Off \/ IsLast(s)
      BY <2>1, <1>2 DEF SlotPulled, Off
    <2>2. CASE /\ ~IsLast(s) /\ sync'[s].phase = "posted"
               /\ sync'[s].from = sync[s].from /\ sync'[s].session = sync[s].session
               /\ sync'[s].seen = sync[s].seen /\ sync'[s].more = sync[s].more
               /\ DOMAIN sync'[s].page = {} /\ sync'[s].chunks = Rest(s)
      <3>1. since' = since
        BY <2>2, <1>1
      <3>2. PagesOrdered(s)'
        BY <2>2, <3>1, <1>4, <1>5 DEF PagesOrdered
      <3>3. PagesCover(s)'
        BY <2>2, <1>1, <1>16 DEF PagesCover
      <3>4. PageFresh(s)'
        BY <2>2 DEF PageFresh
      <3>5. \A r : Wired(s, r)' => Wired(s, r)
        <4>1. /\ \A i \in 1 .. Len(Rest(s)) :
                    i + 1 \in 1 .. Len(sync[s].chunks) /\ Rest(s)[i] = sync[s].chunks[i + 1]
          BY <1>0, <1>1, RestOfRequests
        <4>2. \A i \in 1 .. Len(Rest(s)) : i + 1 \in ToSend(s) /\ Rest(s)[i] = sync[s].chunks[i + 1]
          BY <4>1 DEF ToSend
        <4>3. ToSend(s)' = 1 .. Len(Rest(s))
          BY <2>2 DEF ToSend
        <4> QED
          BY <2>2, <4>2, <4>3 DEF Wired
      <3>6. ASSUME NEW m \in sync[s].seen \ DOMAIN Parent PROVE Settled(m)'
        <4>1. CASE m \notin DOMAIN sync[s].page
          BY <3>6, <4>1, <1>4, <1>5, <1>10 DEF MangaFirst
        <4>2. CASE m \in DOMAIN sync[s].page
          <5>0. m \in Rows /\ HasManga(Here(s), m)
            BY <3>6, <1>5 DEF HasManga
          <5>1. CASE TakenOver(s, m) \/ LeftAlone(s, m)
            <6>1. local'[m].at > 0
              BY <4>2, <5>0, <5>1, <1>7, <1>8 DEF TakenOver, LeftAlone
            <6> QED
              BY <6>1 DEF Settled, Present, Absent
          <5>2. CASE TakenAway(s, m)
            BY <5>0, <5>2, <1>1, <1>9 DEF Settled
          <5> QED
            BY <5>0, <5>1, <5>2, <1>6
        <4> QED
          BY <4>1, <4>2
      <3>7. MangaFirst(s)'
        <4>1. \A r \in DOMAIN Parent : Parent[r] \in Rows
          BY SyncAssumption
        <4>2. \A r \in DOMAIN Parent :
                 Wired(s, r)' => Settled(Parent[r])' \/ server[Parent[r]] # Unknown
          BY <3>5, <4>1, <1>4, <1>10 DEF MangaFirst
        <4> QED
          BY <2>2, <3>6, <4>2, <1>1 DEF MangaFirst
      <3> QED
        BY <3>2, <3>3, <3>4, <3>7 DEF SlotPulled
    <2> QED
      BY <2>1, <2>2, <1>2
  <1> QED
    BY <1>3, <1>17, <1>18, <1>19 DEF PulledNow

LEMMA PulledInit == Init => PulledInv
  <1> SUFFICES ASSUME Init PROVE PulledNow
    BY DEF PulledInv
  <1>1. /\ since = 0 /\ sync = [s \in Slots |-> Off]
        /\ \A r \in DOMAIN Parent : server[r] # Unknown => server[Parent[r]] # Unknown
        /\ \A r \in Rows : server[r].stamp \in Nat
    BY VersionInit, RowFields DEF Init, VersionInv
  <1>2. \A s \in Slots : SlotPulled(s)
    BY <1>1 DEF SlotPulled, Off
  <1> QED
    BY <1>1, <1>2 DEF PulledNow, MangaKnown, UpToSince

LEMMA PulledStep ==
    ASSUME OneAtATime
    PROVE  VersionInv /\ PulledInv /\ [Next]_vars => PulledInv'
  <1> SUFFICES ASSUME VersionInv, PulledInv, [Next]_vars, restored'.at = 0 PROVE PulledNow'
    BY DEF PulledInv
  <1>1. restored.at = 0 /\ ~RestoreDone
    BY NotYetRestored
  <1>2. PulledNow
    BY <1>1 DEF PulledInv
  <1>3. ASSUME NEW r \in Rows, Edits(r) \/ Deletes(r) \/ OtherWrites(r) \/ OtherDeletes(r)
        PROVE  PulledNow'
    BY <1>2, <1>3, EditKeepsPulled, UnstampedKeepsPulled, DeleteKeepsPulled, OthersKeepPulled
       DEF Edits
  <1>4. ASSUME NEW s \in Slots, Collect(s) \/ Handle(s) \/ Receive(s)
        PROVE  PulledNow'
    BY <1>2, <1>4, CollectKeepsPulled, HandleKeepsPulled, ReceiveKeepsPulled
  <1>5. CASE \/ SetSyncOn \/ RestoreBegins \/ RestoreFails \/ UNCHANGED vars
             \/ \E s \in Slots : AutoSync(s) \/ OneWay(s) \/ Fails(s) \/ Clear(s)
    BY <1>2, <1>5, RestKeepsPulled
  <1> QED
    BY <1>1, <1>3, <1>4, <1>5 DEF Next, User, Edits, Deletes, Sync

\* As long as one sync runs at a time, everything the server changed up to since is on
\* the device, whatever the pages the answer was cut into; but for newer edits, deletions
\* made here and rows whose manga is gone, and until a backup is restored
\* (_syncLoop saves since after the last page; SyncEntityApplier.apply drops orphans).
THEOREM PulledBeforeSince ==
    ASSUME OneAtATime
    PROVE  Spec => [](restored.at = 0 => PulledUpToSince)
  <1>1. VersionInv /\ PulledInv /\ [Next]_vars => PulledInv'
    BY PulledStep
  <1>2. PulledInv => (restored.at = 0 => PulledUpToSince)
    <2> SUFFICES ASSUME PulledNow, NEW r \in Rows, 0 < server[r].stamp, server[r].stamp <= since
                 PROVE  IF server[r].gone THEN ~Present(r)
                        ELSE \/ local[r].at >= server[r].at
                             \/ ~HasManga({q \in Rows : Present(q)}, r)
                             \/ \E q \in deleted : r \in Family(q)
      BY DEF PulledInv, PulledUpToSince
    <2>1. UpToDate(r)
      BY DEF PulledNow, UpToSince
    <2> QED
      BY <2>1 DEF UpToDate, LostManga, HasManga
  <1> QED
    BY <1>1, <1>2, PulledInit, VersionInvHolds, PTL DEF Spec

-----------------------------------------------------------------------------
(* What a restore sends: any number of syncs, but no other forced upload.  *)

\* A row of the backup that the upload is to stamp, and that nobody deleted since.
Wanted(r) == backup[r] # Absent /\ r \notin deleted /\ r \notin OfEntity("category")

\* Restored, or written since.
Fresh(r, val) == val = backup[r].val \/ val > restored.at

\* The guard: a restore that began alone stays alone until its upload is over, and
\* that upload is the only one.
GuardHolds ==
    /\ restored.at <= clock
    /\ restoring = "busy" => restored.at = 0 /\ (restored.alone => \A s \in Slots : sync[s] = Off)
    /\ restoring = "uploading" /\ restored.alone =>
          \A s \in Slots : sync[s] # Off => sync[s].bypass
    /\ \A s \in Slots : sync[s] # Off =>
          /\ sync[s].bypass <=> sync[s].mode = "upload"
          /\ sync[s].bypass => restoring = "uploading" /\ restored.at > 0
    /\ \A s, t \in Slots :
          sync[s] # Off /\ sync[t] # Off /\ sync[s].bypass /\ sync[t].bypass => s = t
    /\ restored.pushed => restored.at > 0

BackupWhole == \A r \in DOMAIN Parent : backup[r] # Absent => backup[Parent[r]] # Absent

\* Whatever has a time after the restore was restored or written after it: the rows
\* here and on the server, and what is under way.
RowsFresh ==
    \A r \in Rows : /\ server[r].at > restored.at => Fresh(r, server[r].val)
                    /\ local[r].at > restored.at => Fresh(r, local[r].val)
SlotFresh(s) ==
    Runs(s) =>
        /\ \A i \in 1 .. Len(sync[s].chunks) : \A w \in sync[s].chunks[i] :
              w.at > restored.at => Fresh(w.row, w.val)
        /\ \A r \in DOMAIN sync[s].page :
              sync[s].page[r].at > restored.at => Fresh(r, sync[s].page[r].val)

Arrived(r) == server[r].gone \/ server[r].at > restored.at

\* The upload of the restore, before it collects and from there.
UploadReady(s) ==
    sync[s].phase = "version" /\ sync[s].bypass =>
        /\ \A r \in Rows : Present(r) => Fresh(r, local[r].val)
        /\ \A r \in Rows : Wanted(r) => r \in Sendable
UploadCarries(s) ==
    Runs(s) /\ sync[s].bypass =>
        /\ OneWirePerRow(s)
        /\ \A r \in Rows : Wanted(r) =>
              \/ Arrived(r)
              \/ \E i \in ToSend(s) :
                    \E w \in sync[s].chunks[i] : w.row = r /\ w.at > restored.at

SlotRestored(s) == SlotFresh(s) /\ UploadReady(s) /\ UploadCarries(s)
RestoreNow ==
    /\ RowsFresh /\ \A s \in Slots : SlotRestored(s)
    /\ restored.pushed => \A r \in Rows : Wanted(r) => Arrived(r)

RestoreInv == GuardHolds /\ BackupWhole /\ (restored.at > 0 /\ restored.alone => RestoreNow)

\* A step of one slot: its sync goes on in its mode, or is over.
GuardedStep(s) ==
    /\ sync' = [sync EXCEPT ![s] = sync'[s]]
    /\ sync'[s] # Off => /\ sync[s] # Off /\ sync'[s].mode = sync[s].mode
                         /\ sync'[s].bypass = sync[s].bypass
    /\ restoring' # restoring => restoring' = "no" /\ sync'[s] = Off /\ sync[s].bypass
    /\ restored'.at = restored.at /\ restored'.alone = restored.alone
    /\ restored'.pushed => restored.pushed \/ sync[s].bypass
    /\ sync[s] # Off /\ clock' \in Nat /\ clock <= clock' /\ UNCHANGED backup

LEMMA StepIsGuarded ==
    ASSUME SyncTypeOK, NEW s \in Slots,
           Collect(s) \/ Fails(s) \/ Handle(s) \/ Receive(s) \/ Clear(s)
    PROVE  GuardedStep(s)
  <1>0. /\ clock \in Nat /\ restored \in [at : Nat, alone : BOOLEAN, pushed : BOOLEAN]
        /\ \A k \in Loops : k # Off
    BY DEF SyncTypeOK, Loops, Off
  <1>1. CASE Collect(s)
    <2>1. sync[s].phase = "version" /\ sync[s].phase # "off"
      BY <1>1 DEF Collect
    <2> QED
      BY <2>1, <1>0, <1>1, CollectFacts DEF GuardedStep, historyVars, Off
  <1>2. CASE Fails(s)
    <2>1. sync' = [sync EXCEPT ![s] = Off] /\ UNCHANGED <<clock, backup, restored>> /\ sync[s] # Off
      BY <1>2 DEF Fails, Ends, historyVars
    <2>2. sync'[s] = Off
      BY <2>1, SlotsThen
    <2>3. restoring' # restoring => restoring' = "no" /\ sync[s].bypass
      BY <1>2 DEF Fails, Ends
    <2>4. sync' = [sync EXCEPT ![s] = sync'[s]]
      BY <2>1, <2>2
    <2>5. UNCHANGED <<clock, backup, restored>> /\ sync[s] # Off
      BY <2>1
    <2> QED
      BY <2>2, <2>3, <2>4, <2>5, <1>0 DEF GuardedStep
  <1>3. CASE Handle(s)
    <2>1. UNCHANGED <<restoring, backup, restored>> /\ clock' \in {clock, clock + 1}
      BY <1>3, <1>0 DEF Handle
    <2>2. sync[s] # Off
      BY <1>3, HandleFacts DEF Off
    <2> QED
      BY <2>1, <2>2, <1>0, <1>3, HandleFacts DEF GuardedStep
  <1>4. CASE Receive(s)
    <2>1. /\ UNCHANGED <<clock, backup>> /\ sync' = [sync EXCEPT ![s] = sync'[s]]
          /\ sync'[s] = Off \/ (sync'[s].mode = sync[s].mode /\ sync'[s].bypass = sync[s].bypass)
          /\ restored' = [restored EXCEPT !.pushed = @ \/ (IsLast(s) /\ sync[s].bypass)]
      BY <1>4, ReceiveFacts
    <2>2. sync[s] # Off
      BY <1>4 DEF Receive, Off
    <2>3. UNCHANGED restoring \/ Ends(s)
      BY <1>4 DEF Receive
    <2>4. ASSUME Ends(s) PROVE sync'[s] = Off /\ (restoring' # restoring => restoring' = "no" /\ sync[s].bypass)
      BY <2>4, SlotsThen DEF Ends
    <2>5. /\ restored'.at = restored.at /\ restored'.alone = restored.alone
          /\ restored'.pushed => restored.pushed \/ sync[s].bypass
      BY <2>1, <1>0
    <2> QED
      BY <2>1, <2>2, <2>3, <2>4, <2>5, <1>0 DEF GuardedStep
  <1>5. CASE Clear(s)
    <2>1. sync' = [sync EXCEPT ![s] = Off] /\ UNCHANGED <<clock, backup, restored>>
      BY <1>5 DEF Clear, Ends
    <2>2. sync'[s] = Off
      BY <2>1, SlotsThen
    <2>3. sync[s].phase = "clearing"
      BY <1>5 DEF Clear
    <2>4. sync[s] # Off
      BY <2>3 DEF Off
    <2>5. restoring' # restoring => restoring' = "no" /\ sync[s].bypass
      BY <1>5 DEF Clear, Ends
    <2>6. sync' = [sync EXCEPT ![s] = sync'[s]]
      BY <2>1, <2>2
    <2>7. UNCHANGED <<clock, backup, restored>>
      BY <2>1
    <2> QED
      BY <2>2, <2>4, <2>5, <2>6, <2>7, <1>0 DEF GuardedStep
  <1> QED
    BY <1>1, <1>2, <1>3, <1>4, <1>5

LEMMA GuardStep ==
    ASSUME "upload" \notin Modes
    PROVE  VersionInv /\ GuardHolds /\ [Next]_vars => GuardHolds'
  <1> SUFFICES ASSUME VersionInv, GuardHolds, [Next]_vars PROVE GuardHolds'
    OBVIOUS
  <1>0. SyncTypeOK /\ clock \in Nat \ {0} /\ restored \in [at : Nat, alone : BOOLEAN, pushed : BOOLEAN]
    BY DEF VersionInv, SyncTypeOK
  <1>1. CASE UNCHANGED <<restoring, sync, restored>> /\ clock' \in Nat /\ clock <= clock'
    BY <1>0, <1>1 DEF GuardHolds
  <1>2. ASSUME NEW r \in Rows, Edits(r) \/ Deletes(r) \/ OtherWrites(r) \/ OtherDeletes(r)
        PROVE  GuardHolds'
    <2>1. UNCHANGED <<restoring, sync, restored>> /\ (clock' = clock \/ clock' = clock + 1)
      BY <1>2 DEF Edits, Edit, EditUnstamped, Deletes, Delete, DeleteSilently, Dropped, OtherWrites, OtherDeletes, Tick, historyVars
    <2> QED
      BY <2>1, <1>0, <1>1
  <1>3. CASE SetSyncOn \/ UNCHANGED vars
    <2>1. UNCHANGED <<restoring, sync, restored, clock>>
      BY <1>3 DEF SetSyncOn, vars, historyVars
    <2> QED
      BY <2>1, <1>0, <1>1
  <1>4. ASSUME NEW s \in Slots, GuardedStep(s) PROVE GuardHolds'
    <2>1. \A t \in Slots \ {s} : sync'[t] = sync[t]
      BY <1>0, <1>4, SlotsThen DEF GuardedStep
    <2>2. \A t \in Slots : sync'[t] # Off =>
             /\ sync[t] # Off /\ sync'[t].mode = sync[t].mode /\ sync'[t].bypass = sync[t].bypass
             /\ sync'[t].bypass => UNCHANGED restoring
      <3> SUFFICES ASSUME NEW t \in Slots, sync'[t] # Off
                   PROVE  /\ sync[t] # Off /\ sync'[t].mode = sync[t].mode /\ sync'[t].bypass = sync[t].bypass
                          /\ sync'[t].bypass => UNCHANGED restoring
        OBVIOUS
      <3>1. CASE t = s
        BY <3>1, <1>4 DEF GuardedStep
      <3>2. CASE t # s
        BY <3>2, <2>1, <1>4 DEF GuardedStep, GuardHolds
      <3> QED
        BY <3>1, <3>2
    <2>3. \A t \in Slots : sync[t] = Off => sync'[t] = Off
      BY <2>2
    <2>4. restored'.at <= clock' /\ (restored'.pushed => restored'.at > 0)
      BY <1>0, <1>4 DEF GuardedStep, GuardHolds
    <2>5. restoring' = "busy" =>
             restored'.at = 0 /\ (restored'.alone => \A t \in Slots : sync'[t] = Off)
      BY <2>3, <1>4 DEF GuardedStep, GuardHolds
    <2>6. restoring' = "uploading" /\ restored'.alone => \A t \in Slots : sync'[t] # Off => sync'[t].bypass
      BY <2>2, <1>4 DEF GuardedStep, GuardHolds
    <2>7. \A t \in Slots : sync'[t] # Off =>
             /\ sync'[t].bypass <=> sync'[t].mode = "upload"
             /\ sync'[t].bypass => restoring' = "uploading" /\ restored'.at > 0
      BY <2>2, <1>4 DEF GuardedStep, GuardHolds
    <2>8. \A t, u \in Slots :
             sync'[t] # Off /\ sync'[u] # Off /\ sync'[t].bypass /\ sync'[u].bypass => t = u
      BY <2>2 DEF GuardHolds
    <2> QED
      BY <2>4, <2>5, <2>6, <2>7, <2>8 DEF GuardHolds
  <1>5. ASSUME NEW s \in Slots, NEW mode \in Modes, StartSync(s, mode) PROVE GuardHolds'
    <2>1. /\ restoring = "no" /\ UNCHANGED <<clock, restoring, restored>>
          /\ sync' = [sync EXCEPT ![s] = Started(mode, FALSE)]
      BY <1>5 DEF StartSync, historyVars
    <2>2. sync'[s] = Started(mode, FALSE) /\ \A t \in Slots \ {s} : sync'[t] = sync[t]
      BY <2>1, <1>0, SlotsThen
    <2>3. sync'[s].mode # "upload" /\ sync'[s].bypass = FALSE
      BY <2>2 DEF Started
    <2>4. \A t \in Slots : sync[t] # Off => ~sync[t].bypass
      BY <2>1 DEF GuardHolds
    <2> QED
      BY <2>1, <2>2, <2>3, <2>4 DEF GuardHolds
  <1>6. CASE RestoreBegins
    <2>1. /\ restoring = "no" /\ restored.at = 0 /\ restoring' = "busy"
          /\ restored' = [restored EXCEPT !.alone = \A s \in Slots : sync[s] = Off]
          /\ UNCHANGED <<clock, sync>>
      BY <1>6 DEF RestoreBegins
    <2>2. /\ restored'.at = restored.at /\ restored'.pushed = restored.pushed
          /\ restored'.alone = \A s \in Slots : sync[s] = Off
      BY <2>1, <1>0
    <2> QED
      BY <2>1, <2>2, <1>0 DEF GuardHolds
  <1>7. CASE RestoreFails
    <2>1. restoring = "busy" /\ restoring' = "no" /\ UNCHANGED <<clock, sync, restored>>
      BY <1>7 DEF RestoreFails, historyVars
    <2> QED
      BY <2>1, <1>0 DEF GuardHolds
  <1>8. CASE RestoreDone
    <2>1. /\ restoring = "busy" /\ restored' = [restored EXCEPT !.at = clock] /\ UNCHANGED clock
      BY <1>8 DEF RestoreDone
    <2>2. restored'.at = clock /\ restored'.alone = restored.alone /\ restored'.pushed = restored.pushed
      BY <2>1, <1>0
    <2>3. \A s \in Slots : sync[s] # Off => ~sync[s].bypass
      BY <2>1 DEF GuardHolds
    <2>4. CASE UNCHANGED sync /\ restoring' = "no"
      BY <2>1, <2>2, <2>3, <2>4, <1>0 DEF GuardHolds
    <2>5. ASSUME NEW s \in Slots, sync' = [sync EXCEPT ![s] = Started("upload", TRUE)],
                 restoring' = "uploading"
          PROVE  GuardHolds'
      <3>1. sync'[s] = Started("upload", TRUE) /\ \A t \in Slots \ {s} : sync'[t] = sync[t]
        BY <2>5, <1>0, SlotsThen
      <3>2. sync'[s].mode = "upload" /\ sync'[s].bypass = TRUE
        BY <3>1 DEF Started
      <3>3. \A t \in Slots : sync'[t] # Off /\ sync'[t].bypass => t = s
        BY <2>3, <3>1
      <3>4. restored'.alone => \A t \in Slots : sync'[t] # Off => sync'[t].bypass
        BY <2>1, <2>2, <3>1, <3>2 DEF GuardHolds
      <3>5. \A t \in Slots : sync'[t] # Off =>
               /\ sync'[t].bypass <=> sync'[t].mode = "upload"
               /\ sync'[t].bypass => restored'.at > 0
        <4> SUFFICES ASSUME NEW t \in Slots, sync'[t] # Off
                     PROVE  /\ sync'[t].bypass <=> sync'[t].mode = "upload"
                            /\ sync'[t].bypass => restored'.at > 0
          OBVIOUS
        <4>1. restored'.at > 0
          BY <2>2, <1>0
        <4>2. CASE t = s
          BY <4>1, <4>2, <3>2
        <4>3. CASE t # s
          BY <4>1, <4>3, <3>1 DEF GuardHolds
        <4> QED
          BY <4>2, <4>3
      <3>6. /\ restored'.at <= clock' /\ restoring' = "uploading"
            /\ restored'.pushed => restored'.at > 0
        BY <2>1, <2>2, <2>5, <1>0
      <3>7. \A t, u \in Slots :
               sync'[t] # Off /\ sync'[u] # Off /\ sync'[t].bypass /\ sync'[u].bypass => t = u
        BY <3>3
      <3> QED
        BY <3>4, <3>5, <3>6, <3>7 DEF GuardHolds
    <2> QED
      BY <1>8, <2>4, <2>5 DEF RestoreDone
  <1> QED
    BY <1>0, <1>2, <1>3, <1>4, <1>5, <1>6, <1>7, <1>8, StepIsGuarded DEF Next, User, Edits, Deletes, Sync, AutoSync, OneWay

\* What a step does to rows and server that the syncs do not notice.
RestoreSpares ==
    /\ Grows /\ UNCHANGED backup /\ restored'.at = restored.at
    /\ \A r \in Rows :
          /\ Wanted(r)' => Wanted(r)
          /\ Present(r)' => local'[r].val > restored.at
                            \/ (Present(r) /\ local'[r] = local[r])
          /\ Wanted(r)' /\ r \in Sendable => r \in Sendable'

LEMMA ArrivedStays ==
    ASSUME SyncTypeOK, restored.at \in Nat, Grows, restored'.at = restored.at, NEW r \in Rows,
           Arrived(r)
    PROVE  Arrived(r)'
  BY RowFields DEF Arrived, Grows

LEMMA SlotFreshStays ==
    ASSUME UNCHANGED backup, restored'.at = restored.at, NEW s, sync'[s] = sync[s], SlotFresh(s)
    PROVE  SlotFresh(s)'
  BY DEF SlotFresh, Fresh, Runs

LEMMA UploadStays ==
    ASSUME SyncTypeOK, restored.at \in Nat, Grows, UNCHANGED backup, restored'.at = restored.at,
           \A r \in Rows : Wanted(r)' => Wanted(r),
           NEW s, sync'[s] = sync[s], UploadCarries(s)
    PROVE  UploadCarries(s)'
  <1> SUFFICES ASSUME Runs(s), sync[s].bypass
               PROVE  /\ OneWirePerRow(s)'
                      /\ \A r \in Rows : Wanted(r)' =>
                            \/ Arrived(r)'
                            \/ \E i \in ToSend(s) : \E w \in sync[s].chunks[i] : w.row = r /\ w.at > restored.at
    BY DEF UploadCarries, Runs, ToSend
  <1>1. OneWirePerRow(s)'
    BY DEF UploadCarries, OneWirePerRow
  <1> QED
    BY <1>1, ArrivedStays DEF UploadCarries

LEMMA SlotRestoredStays ==
    ASSUME SyncTypeOK, restored.at \in Nat, RestoreSpares, NEW s, sync'[s] = sync[s], SlotRestored(s)
    PROVE  SlotRestored(s)'
  <1>1. SlotFresh(s)' /\ UploadCarries(s)'
    BY SlotFreshStays, UploadStays DEF RestoreSpares, SlotRestored
  <1>2. UploadReady(s)'
    <2> SUFFICES ASSUME sync[s].phase = "version", sync[s].bypass, NEW r \in Rows
                 PROVE  /\ Present(r)' => Fresh(r, local[r].val)'
                        /\ Wanted(r)' => r \in Sendable'
      BY DEF UploadReady
    <2>1. /\ Present(r) => Fresh(r, local[r].val)
          /\ Wanted(r) => r \in Sendable
      BY DEF SlotRestored, UploadReady
    <2> QED
      BY <2>1 DEF RestoreSpares, Fresh
  <1> QED
    BY <1>1, <1>2 DEF SlotRestored

LEMMA RestoreKept ==
    ASSUME VersionInv, restored.at \in Nat, RestoreNow, RestoreSpares, UNCHANGED restored, RowsFresh',
           \A s \in Slots : sync'[s] = sync[s] \/ SlotRestored(s)'
    PROVE  RestoreNow'
  <1>1. \A s \in Slots : SlotRestored(s)'
    BY SlotRestoredStays DEF VersionInv, RestoreNow
  <1>2. restored'.pushed => \A r \in Rows : Wanted(r)' => Arrived(r)'
    BY ArrivedStays DEF VersionInv, RestoreNow, RestoreSpares
  <1> QED
    BY <1>1, <1>2 DEF RestoreNow

LEMMA UserKeepsRestore ==
    ASSUME VersionInv, GuardHolds, RestoreNow, NEW r \in Rows,
           Edits(r) \/ Deletes(r) \/ OtherWrites(r) \/ OtherDeletes(r)
    PROVE  RestoreNow'
  <1>0. /\ SyncTypeOK /\ TimesBounded /\ clock \in Nat \ {0} /\ restored.at \in Nat /\ restored.at <= clock
        /\ RowsFresh
    BY DEF VersionInv, SyncTypeOK, GuardHolds, RestoreNow
  <1>1. UNCHANGED <<sync, backup, restored>>
    BY DEF Edits, Edit, EditUnstamped, Deletes, Delete, DeleteSilently, Dropped, OtherWrites, OtherDeletes, historyVars
  <1>2. \A q \in Rows : server[q].at \in Nat /\ local[q].at \in Nat
    BY <1>0, RowFields
  <1>3. ASSUME UNCHANGED <<local, deleted>>, Grows,
               \A q \in Rows : server'[q].at > restored.at => Fresh(q, server'[q].val)
        PROVE  RestoreNow'
    <2>1. RowsFresh'
      BY <1>0, <1>1, <1>3 DEF RowsFresh, Fresh
    <2>2. RestoreSpares
      BY <1>1, <1>3 DEF RestoreSpares, Wanted, Present, Sendable
    <2> QED
      BY <2>1, <2>2, <1>0, <1>1, RestoreKept
  <1>4. ASSUME UNCHANGED server, clock' \in {clock, clock + 1},
               \A q \in Rows :
                  /\ Wanted(q)' => Wanted(q)
                  /\ Present(q)' => local'[q].val > restored.at
                                    \/ (Present(q) /\ local'[q] = local[q])
                  /\ Wanted(q)' /\ q \in Sendable => q \in Sendable'
        PROVE  RestoreNow'
    <2>1. Grows
      BY <1>0, <1>2, <1>4 DEF Grows
    <2>2. RestoreSpares
      BY <2>1, <1>1, <1>4 DEF RestoreSpares
    <2>3. \A q \in Rows : ~Present(q)' => local'[q].at = 0
      BY DEF Present, Absent
    <2>4. RowsFresh'
      <3> SUFFICES ASSUME NEW q \in Rows
                   PROVE  /\ server[q].at > restored.at => Fresh(q, server[q].val)
                          /\ local'[q].at > restored.at => Fresh(q, local'[q].val)
        BY <1>1, <1>4 DEF RowsFresh, Fresh
      <3> QED
        BY <2>3, <1>0, <1>4 DEF RowsFresh, Fresh
    <2> QED
      BY <2>2, <2>4, <1>0, <1>1, RestoreKept
  <1>5. CASE Edit(r)
    <2>1. /\ local' = [local EXCEPT ![r] = [at |-> clock', val |-> clock']] /\ clock' = clock + 1
          /\ UNCHANGED <<server, deleted>>
      BY <1>5 DEF Edit, Tick
    <2>2. local'[r] = [at |-> clock', val |-> clock'] /\ \A q \in Rows \ {r} : local'[q] = local[q]
      BY <2>1, <1>0 DEF SyncTypeOK
    <2>3. local'[r].val > restored.at /\ local'[r] # Absent
      BY <2>1, <2>2, <1>0 DEF Absent
    <2>4. \A q \in Rows : Present(q) => Present(q)'
      BY <2>2, <2>3 DEF Present
    <2>5. \A q \in Rows : q \in Sendable => q \in Sendable'
      BY <2>4, SyncAssumption DEF Sendable, HasManga
    <2>6. \A q \in Rows : Wanted(q)' => Wanted(q)
      BY <2>1, <1>1 DEF Wanted
    <2>7. \A q \in Rows : Present(q)' => local'[q].val > restored.at
                                         \/ (Present(q) /\ local'[q] = local[q])
      BY <2>2, <2>3 DEF Present
    <2> QED
      BY <2>1, <2>5, <2>6, <2>7, <1>4
  <1>9. CASE EditUnstamped(r)
    <2>5. /\ UNCHANGED <<server, deleted>> /\ clock' = clock + 1
          /\ local'[r] = [at |-> local[r].at, val |-> clock + 1]
      BY <1>0, <1>9, UnstampedFacts
    <2>6. \A q \in Rows \ {r} : local'[q] = local[q]
      BY <1>0, <1>9, UnstampedFacts
    <2>7. \A q \in Rows : Present(q)' <=> Present(q)
      BY <1>0, <1>9, UnstampedFacts
    <2>1. /\ UNCHANGED <<server, deleted>> /\ clock' = clock + 1
          /\ local'[r].val = clock + 1 /\ \A q \in Rows \ {r} : local'[q] = local[q]
          /\ \A q \in Rows : Present(q)' <=> Present(q)
      BY <2>5, <2>6, <2>7
    <2>2. \A q \in Rows : q \in Sendable => q \in Sendable'
      BY <2>1, SyncAssumption DEF Sendable, HasManga
    <2>3. \A q \in Rows : Wanted(q)' => Wanted(q)
      BY <2>1, <1>1 DEF Wanted
    <2>4. \A q \in Rows : Present(q)' => local'[q].val > restored.at
                                         \/ (Present(q) /\ local'[q] = local[q])
      BY <2>1, <1>0
    <2> QED
      BY <2>1, <2>2, <2>3, <2>4, <1>4
  <1>6. CASE Deletes(r)
    <2> DEFINE rs == Going(r)
    <2>1. /\ UNCHANGED <<clock, server>> /\ deleted' = deleted \cup rs
          /\ local' = [q \in Rows |-> IF q \in rs THEN Absent ELSE local[q]]
      BY <1>0, <1>6, DeleteFacts
    <2>2. ASSUME NEW q \in Rows, q \in Sendable, q \notin rs PROVE q \in Sendable'
      <3>1. Present(q) /\ (q \in DOMAIN Parent => Parent[q] \in Rows /\ Present(Parent[q]))
        BY <2>2, SyncAssumption DEF Sendable, HasManga
      <3>2. ASSUME q \in DOMAIN Parent PROVE Parent[q] \notin rs
        <4>1. Parent[q] # r
          BY <2>2, <3>1, <3>2 DEF Going, Family
        <4> QED
          BY <4>1, <3>2, SyncAssumption DEF Going, Family
      <3> HIDE DEF rs
      <3>3. \A p \in Rows : Present(p) /\ p \notin rs => Present(p)'
        BY <2>1 DEF Present
      <3> QED
        BY <2>2, <3>1, <3>2, <3>3 DEF Sendable, HasManga
    <2> HIDE DEF rs
    <2>3. \A q \in Rows : Present(q)' => Present(q) /\ local'[q] = local[q]
      BY <2>1 DEF Present
    <2>4. \A q \in Rows : Wanted(q)' => Wanted(q) /\ q \notin rs
      BY <2>1, <1>1 DEF Wanted
    <2> QED
      BY <2>1, <2>2, <2>3, <2>4, <1>4
  <1>7. CASE OtherWrites(r)
    <2>1. /\ server' = [server EXCEPT ![r] = [at |-> clock', val |-> clock', stamp |-> clock', gone |-> FALSE]]
          /\ clock' = clock + 1 /\ ~server[r].gone /\ UNCHANGED <<local, deleted>>
      BY <1>7 DEF OtherWrites, Tick, deviceVars
    <2>2. /\ server'[r] = [at |-> clock', val |-> clock', stamp |-> clock', gone |-> FALSE]
          /\ \A q \in Rows \ {r} : server'[q] = server[q]
      BY <2>1, <1>0 DEF SyncTypeOK
    <2>3. server[r].at <= clock
      <3>1. server[r].at <= latest[r].at /\ latest[r].at <= clock
        BY <1>0 DEF TimesBounded
      <3> QED
        BY <3>1, <1>0, RowFields
    <2>4. Grows
      BY <2>1, <2>2, <2>3, <1>0, <1>2 DEF Grows
    <2>5. \A q \in Rows : server'[q].at > restored.at => Fresh(q, server'[q].val)
      <3>1. server'[r].val > restored.at
        BY <2>1, <2>2, <1>0
      <3> QED
        BY <3>1, <2>2, <1>0 DEF RowsFresh, Fresh
    <2> QED
      BY <2>1, <2>4, <2>5, <1>3
  <1>8. CASE OtherDeletes(r)
    <2>1. /\ UNCHANGED <<local, deleted>> /\ clock' = clock + 1
          /\ \A q \in Rows :
                \/ server'[q] = server[q]
                \/ server'[q].gone /\ server'[q].at = server[q].at /\ server'[q].val = server[q].val
      BY <1>0, <1>8, OtherDeletesFacts DEF deviceVars, historyVars
    <2>2. Grows
      BY <2>1, <1>0, <1>2 DEF Grows
    <2>3. \A q \in Rows : server'[q].at > restored.at => Fresh(q, server'[q].val)
      BY <2>1, <1>0 DEF RowsFresh, Fresh
    <2> QED
      BY <2>1, <2>2, <2>3, <1>3
  <1> QED
    BY <1>5, <1>6, <1>7, <1>8, <1>9 DEF Edits

\* Nothing of the rows here changes.
LEMMA RowsKeepRestore ==
    ASSUME VersionInv, restored.at \in Nat, RestoreNow, Grows,
           UNCHANGED <<local, deleted, backup, restored>>, RowsFresh',
           \A s \in Slots : sync'[s] = sync[s] \/ SlotRestored(s)'
    PROVE  RestoreNow'
  <1>1. RestoreSpares
    BY DEF RestoreSpares, Wanted, Present, Sendable
  <1> QED
    BY <1>1, RestoreKept

\* A sync that has nothing under way.
LEMMA IdleIsRestored ==
    ASSUME NEW s, sync'[s] = Off \/ (sync'[s].phase = "version" /\ ~sync'[s].bypass)
    PROVE  SlotRestored(s)'
  BY DEF SlotRestored, SlotFresh, UploadReady, UploadCarries, Runs, Off

\* The upload of a restore collects every row of the backup, as new.
LEMMA CollectKeepsRestore ==
    ASSUME VersionInv, GuardHolds, RestoreNow, NEW s \in Slots, Collect(s)
    PROVE  RestoreNow'
  <1>0. /\ SyncTypeOK /\ clock \in Nat /\ restored.at \in Nat /\ restored.at <= clock
        /\ RowsFresh /\ SlotRestored(s)
    BY DEF VersionInv, SyncTypeOK, GuardHolds, RestoreNow
  <1>1. /\ UNCHANGED <<local, deleted, server, backup, restored>>
        /\ clock' \in Nat \ {0} /\ clock <= clock' /\ sync[s].phase = "version"
        /\ sync' = [sync EXCEPT ![s] = sync'[s]]
        /\ sync'[s].phase = "posted" /\ sync'[s].bypass = sync[s].bypass
        /\ DOMAIN sync'[s].page = {}
    BY <1>0, CollectFacts DEF deviceVars, historyVars
  <1>2. PICK ws \in SUBSET Wires :
           /\ Collected(s, ws) /\ sync'[s].chunks = Chunks(ws)
           /\ IsFiniteSet(ws)
           /\ \A w \in ws : /\ w.row \in Sendable /\ w.val = local[w.row].val
                            /\ w.at = IF sync[s].mode = "sync" THEN local[w.row].at ELSE StampOf(w.row, clock')
    BY <1>0, CollectFacts
  <1>3. \A v, w \in ws : v.row = w.row => v = w
    BY <1>2 DEF Wires
  <1>4. /\ \A i \in 1 .. Len(sync'[s].chunks) : sync'[s].chunks[i] \subseteq ws
        /\ \A w \in ws : \E i \in 1 .. Len(sync'[s].chunks) : w \in sync'[s].chunks[i]
    BY <1>2, <1>3, ChunksAreParts, ChunksCover
  <1>5. sync[s].bypass <=> sync[s].mode = "upload"
    <2>1. sync[s] # Off
      BY <1>1 DEF Off
    <2> QED
      BY <2>1 DEF GuardHolds
  <1>6. sync[s].bypass => /\ \A r \in Rows : Present(r) => Fresh(r, local[r].val)
                          /\ \A r \in Rows : Wanted(r) => r \in Sendable
    BY <1>0, <1>1 DEF SlotRestored, UploadReady
  <1>7. SlotFresh(s)'
    <2> SUFFICES ASSUME NEW w \in ws, w.at > restored.at PROVE Fresh(w.row, w.val)
      BY <1>1, <1>4 DEF SlotFresh, Fresh
    <2>1. w.row \in Rows /\ Present(w.row) /\ w.val = local[w.row].val
      BY <1>2 DEF Sendable
    <2>2. CASE sync[s].mode = "sync"
      BY <2>1, <2>2, <1>0, <1>2 DEF RowsFresh
    <2>3. CASE sync[s].mode = "upload"
      BY <2>1, <2>3, <1>5, <1>6
    <2> QED
      BY <2>2, <2>3, <1>2 DEF Collected
  <1>8. UploadReady(s)'
    BY <1>1 DEF UploadReady
  <1>9. UploadCarries(s)'
    <2>1. OneWirePerRow(s)'
      BY <1>3, <1>4 DEF OneWirePerRow
    <2>2. ToSend(s)' = 1 .. Len(sync'[s].chunks)
      BY <1>1 DEF ToSend
    <2>3. ASSUME sync[s].bypass, NEW r \in Rows, Wanted(r)
          PROVE  \E i \in ToSend(s)' : \E w \in sync'[s].chunks[i] : w.row = r /\ w.at > restored.at
      <3>1. r \in Sendable /\ ws = AllRows(clock') /\ clock' = clock + 1 /\ Entity[r] # "category"
        BY <2>3, <1>2, <1>5, <1>6 DEF Collected, Wanted, OfEntity
      <3>2. WireRow(r, clock') \in ws
        BY <3>1 DEF AllRows
      <3>3. WireRow(r, clock').row = r /\ WireRow(r, clock').at > restored.at
        BY <3>1, <1>0 DEF WireRow
      <3> QED
        BY <3>2, <3>3, <2>2, <1>4
    <2> QED
      BY <2>1, <2>3, <1>1 DEF UploadCarries, Wanted
  <1>10. \A t \in Slots : sync'[t] = sync[t] \/ SlotRestored(t)'
    BY <1>0, <1>1, <1>7, <1>8, <1>9, SlotsThen DEF SlotRestored
  <1>11. Grows /\ RowsFresh'
    BY <1>0, <1>1, RowFields DEF Grows, RowsFresh, Fresh
  <1> QED
    BY <1>0, <1>1, <1>10, <1>11, RowsKeepRestore

\* The server takes the rows of a request, restored or written since.
LEMMA HandleKeepsRestore ==
    ASSUME VersionInv, GuardHolds, RestoreNow, NEW s \in Slots, Handle(s)
    PROVE  RestoreNow'
  <1>0. /\ SyncTypeOK /\ restored.at \in Nat /\ RowsFresh
        /\ SlotFresh(s) /\ UploadCarries(s)
    BY DEF VersionInv, SyncTypeOK, RestoreNow, SlotRestored
  <1>1. /\ Runs(s) /\ sync[s].phase = "posted" /\ server' = Answered(s)
        /\ clock' = IF server' = server THEN clock ELSE clock + 1
        /\ sync' = [sync EXCEPT ![s] = sync'[s]]
        /\ sync'[s].phase = "answered" /\ sync'[s].bypass = sync[s].bypass
        /\ sync'[s].chunks = sync[s].chunks
        /\ \E page \in SUBSET Rows : PageIs(s, page)
    BY <1>0, HandleFacts
  <1>2. UNCHANGED <<local, deleted, backup, restored>> /\ Grows
    BY HandleGrows DEF Handle, deviceVars
  <1>3. \A r \in Rows : RowHandled(s, r)
    BY <1>0, <1>1, RequestHandled
  <1>4. /\ sync[s].chunks # <<>> => 1 \in 1 .. Len(sync[s].chunks) /\ Request(s) = sync[s].chunks[1]
        /\ sync[s].chunks = <<>> => Request(s) = {}
    BY <1>0, <1>1, HeadOfRequest DEF Request
  <1>5. \A w \in Request(s) : w.at > restored.at => Fresh(w.row, w.val)
    BY <1>0, <1>1, <1>4 DEF SlotFresh
  <1>6. ASSUME NEW r \in Rows, server'[r].at > restored.at PROVE Fresh(r, server'[r].val)
    BY <1>0, <1>3, <1>5, <1>6 DEF RowHandled, RowsFresh
  <1>7. RowsFresh'
    BY <1>0, <1>2, <1>6 DEF RowsFresh, Fresh
  <1>8. SlotFresh(s)'
    <2>1. PICK page \in SUBSET Rows : sync'[s].page = [r \in page |-> server'[r]]
      BY <1>1 DEF PageIs
    <2>2. \A r \in DOMAIN sync'[s].page : r \in Rows /\ sync'[s].page[r] = server'[r]
      BY <2>1
    <2>3. \A r \in DOMAIN sync'[s].page :
             sync'[s].page[r].at > restored.at => Fresh(r, sync'[s].page[r].val)
      BY <2>2, <1>6
    <2>4. \A i \in 1 .. Len(sync'[s].chunks) : \A w \in sync'[s].chunks[i] :
             w.at > restored.at => Fresh(w.row, w.val)
      BY <1>0, <1>1 DEF SlotFresh
    <2> QED
      BY <2>3, <2>4, <1>2 DEF SlotFresh, Fresh
  <1>9. UploadCarries(s)'
    <2> SUFFICES ASSUME sync[s].bypass
                 PROVE  /\ OneWirePerRow(s)'
                        /\ \A r \in Rows : Wanted(r) =>
                              \/ Arrived(r)'
                              \/ \E i \in ToSend(s)' :
                                    \E w \in sync[s].chunks[i] : w.row = r /\ w.at > restored.at
      BY <1>1, <1>2 DEF UploadCarries, Wanted
    <2>1. OneWirePerRow(s) /\ OneWirePerRow(s)'
      BY <1>0, <1>1 DEF UploadCarries, OneWirePerRow
    <2>2. ToSend(s)' = ToSend(s) \ {1}
      BY <1>1 DEF ToSend
    <2>3. ASSUME NEW r \in Rows, Arrived(r) PROVE Arrived(r)'
      BY <2>3, <1>0, <1>2, ArrivedStays
    <2>4. ASSUME NEW r \in Rows, NEW w \in sync[s].chunks[1], 1 \in ToSend(s),
                 w.row = r, w.at > restored.at
          PROVE  Arrived(r)'
      <3>1. 1 \in 1 .. Len(sync[s].chunks)
        BY <2>4 DEF ToSend
      <3>2. sync[s].chunks # <<>>
        BY <3>1, <1>0, <1>1, LoopFields, EmptySeq
      <3>3. w \in Request(s) /\ \A v \in Request(s) : v.row = w.row => v = w
        BY <3>1, <3>2, <2>1, <2>4, <1>4 DEF OneWirePerRow
      <3>4. server'[w.row].at >= w.at \/ server'[w.row].gone
        BY <3>3, <1>0, <1>1, WireArrives
      <3>5. w.at \in Nat /\ server'[r].at \in Nat
        BY <3>3, <1>0, <1>1, <1>2, HeadOfRequest DEF Grows
      <3> QED
        BY <3>4, <3>5, <2>4, <1>0, <1>2 DEF Arrived
    <2> QED
      BY <2>1, <2>2, <2>3, <2>4, <1>0, <1>1 DEF UploadCarries
  <1>10. UploadReady(s)'
    BY <1>1 DEF UploadReady
  <1>11. \A t \in Slots : sync'[t] = sync[t] \/ SlotRestored(t)'
    BY <1>0, <1>1, <1>8, <1>9, <1>10, SlotsThen DEF SlotRestored
  <1> QED
    BY <1>0, <1>2, <1>7, <1>11, RowsKeepRestore

\* A page brings what was restored or written since; the last answer to the upload
\* of a restore tells that all of it arrived.
LEMMA ReceiveKeepsRestore ==
    ASSUME VersionInv, GuardHolds, restored.alone, RestoreNow, NEW s \in Slots, Receive(s)
    PROVE  RestoreNow'
  <1>0. /\ SyncTypeOK /\ restored.at \in Nat /\ RowsFresh
        /\ SlotFresh(s) /\ UploadCarries(s)
        /\ restored \in [at : Nat, alone : BOOLEAN, pushed : BOOLEAN]
    BY DEF VersionInv, SyncTypeOK, RestoreNow, SlotRestored
  <1>1. /\ Runs(s) /\ sync[s].phase = "answered" /\ local' = Applied(sync[s].page)
        /\ UNCHANGED <<clock, server, backup, deleted>>
        /\ sync' = [sync EXCEPT ![s] = sync'[s]]
        /\ restored' = [restored EXCEPT !.pushed = @ \/ (IsLast(s) /\ sync[s].bypass)]
    BY <1>0, ReceiveFacts
  <1>2. /\ restored'.at = restored.at
        /\ restored'.pushed <=> restored.pushed \/ (IsLast(s) /\ sync[s].bypass)
    BY <1>0, <1>1, LoopFields
  <1>3. Grows
    BY <1>0, <1>1, RowFields DEF Grows, SyncTypeOK
  <1>4. \A r \in Rows : /\ Wanted(r)' <=> Wanted(r)
                        /\ Arrived(r)' <=> Arrived(r)
                        /\ \A val : Fresh(r, val)' <=> Fresh(r, val)
    BY <1>1, <1>2 DEF Wanted, Arrived, Fresh
  <1>5. RowsFresh'
    <2> SUFFICES ASSUME NEW r \in Rows, local'[r].at > restored.at PROVE Fresh(r, local'[r].val)
      BY <1>0, <1>1, <1>2 DEF RowsFresh, Fresh
    <2>1. TakenOver(s, r) \/ TakenAway(s, r) \/ LeftAlone(s, r)
      BY <1>0, <1>1, PageApplied
    <2>2. ~TakenAway(s, r)
      BY <1>0 DEF TakenAway, Absent
    <2> QED
      BY <2>1, <2>2, <1>0, <1>1 DEF TakenOver, LeftAlone, RowsFresh, SlotFresh
  <1>6. /\ Rest(s) \in Seq(SUBSET Wires) /\ Len(sync[s].chunks) \in Nat
        /\ sync[s].chunks # <<>> => Len(Rest(s)) = Len(sync[s].chunks) - 1
        /\ sync[s].chunks = <<>> => Len(Rest(s)) = 0
        /\ \A i \in 1 .. Len(Rest(s)) :
              i + 1 \in 1 .. Len(sync[s].chunks) /\ Rest(s)[i] = sync[s].chunks[i + 1]
    BY <1>0, <1>1, RestOfRequests
  <1>7. \A i \in ToSend(s) : i - 1 \in 1 .. Len(Rest(s)) /\ Rest(s)[i - 1] = sync[s].chunks[i]
    <2> SUFFICES ASSUME NEW i \in ToSend(s)
                 PROVE  i - 1 \in 1 .. Len(Rest(s)) /\ Rest(s)[i - 1] = sync[s].chunks[i]
      OBVIOUS
    <2>1. i \in 1 .. Len(sync[s].chunks) /\ i # 1
      BY <1>1 DEF ToSend
    <2>2. sync[s].chunks # <<>>
      BY <2>1, <1>0, <1>1, LoopFields, EmptySeq
    <2>3. i - 1 \in 1 .. Len(Rest(s)) /\ (i - 1) + 1 = i
      BY <2>1, <2>2, <1>6
    <2> QED
      BY <2>3, <1>6
  <1>8. SlotRestored(s)'
    <2>1. CASE sync'[s] = Off
      BY <2>1, IdleIsRestored
    <2>2. CASE /\ sync'[s].phase = IF IsLast(s) THEN "clearing" ELSE "posted"
               /\ sync'[s].bypass = sync[s].bypass
               /\ DOMAIN sync'[s].page = {} /\ sync'[s].chunks = Rest(s)
      <3>1. SlotFresh(s)'
        <4>1. \A i \in 1 .. Len(Rest(s)) : \A w \in Rest(s)[i] : w.at > restored.at => Fresh(w.row, w.val)
          BY <1>0, <1>1, <1>6 DEF SlotFresh
        <4> QED
          BY <4>1, <2>2, <1>1, <1>2 DEF SlotFresh, Fresh
      <3>2. UploadReady(s)'
        BY <2>2 DEF UploadReady
      <3>3. UploadCarries(s)'
        <4> SUFFICES ASSUME sync[s].bypass
                     PROVE  /\ OneWirePerRow(s)'
                            /\ \A r \in Rows : Wanted(r) =>
                                  \/ Arrived(r)
                                  \/ \E i \in ToSend(s)' :
                                        \E w \in Rest(s)[i] : w.row = r /\ w.at > restored.at
          BY <2>2, <1>2, <1>4 DEF UploadCarries
        <4>1. ToSend(s)' = 1 .. Len(Rest(s))
          BY <2>2 DEF ToSend
        <4>2. \A i \in 1 .. Len(Rest(s)) : \A v, w \in Rest(s)[i] : v.row = w.row => v = w
          BY <1>0, <1>1, <1>6 DEF UploadCarries, OneWirePerRow
        <4>3. OneWirePerRow(s)'
          BY <4>2, <2>2 DEF OneWirePerRow
        <4> QED
          BY <4>1, <4>3, <1>0, <1>1, <1>7 DEF UploadCarries
      <3> QED
        BY <3>1, <3>2, <3>3 DEF SlotRestored
    <2> QED
      BY <2>1, <2>2, <1>0, ReceiveFacts
  <1>9. ASSUME NEW t \in Slots \ {s} PROVE SlotRestored(t)'
    <2>1. sync'[t] = sync[t] /\ SlotRestored(t)
      BY <1>0, <1>1, SlotsThen DEF RestoreNow
    <2>2. SlotFresh(t)' /\ UploadCarries(t)'
      BY <2>1, <1>0, <1>1, <1>2, <1>3, <1>4, SlotFreshStays, UploadStays DEF SlotRestored
    <2>3. ~(sync[t].phase = "version" /\ sync[t].bypass)
      <3> SUFFICES ASSUME sync[t].phase = "version", sync[t].bypass PROVE FALSE
        OBVIOUS
      <3>1. sync[s] # Off /\ sync[t] # Off
        BY <1>1 DEF Runs, Off
      <3>2. sync[s].bypass
        BY <3>1 DEF GuardHolds
      <3> QED
        BY <3>1, <3>2 DEF GuardHolds
    <2> QED
      BY <2>1, <2>2, <2>3 DEF SlotRestored, UploadReady
  <1>10. ASSUME restored'.pushed, NEW r \in Rows, Wanted(r) PROVE Arrived(r)
    <2>1. CASE restored.pushed
      BY <2>1, <1>10 DEF RestoreNow
    <2>2. CASE IsLast(s) /\ sync[s].bypass
      <3>1. Len(Rest(s)) = 0
        BY <2>2, EmptySeq DEF IsLast
      <3>2. ToSend(s) = {}
        BY <3>1, <1>7
      <3> QED
        BY <2>2, <3>2, <1>0, <1>1, <1>10 DEF UploadCarries
    <2> QED
      BY <2>1, <2>2, <1>2, <1>10
  <1> QED
    BY <1>4, <1>5, <1>8, <1>9, <1>10 DEF RestoreNow

\* The rows of the backup are there, and the upload is to begin.
LEMMA RestoreStarts ==
    ASSUME VersionInv, GuardHolds, BackupWhole, restored.alone, RestoreDone
    PROVE  RestoreNow'
  <1>0. /\ SyncTypeOK /\ TimesBounded /\ clock \in Nat
        /\ restored \in [at : Nat, alone : BOOLEAN, pushed : BOOLEAN]
    BY DEF VersionInv, SyncTypeOK
  <1>1. /\ restoring = "busy" /\ local' = backup /\ restored' = [restored EXCEPT !.at = clock]
        /\ UNCHANGED <<clock, server, backup>>
    BY DEF RestoreDone
  <1>2. /\ restored'.at = clock /\ restored'.pushed = restored.pushed
        /\ restored.at = 0 /\ ~restored.pushed /\ \A s \in Slots : sync[s] = Off
    BY <1>0, <1>1 DEF GuardHolds
  <1>3. \A r \in Rows : server[r].at <= clock /\ backup[r].at <= clock
    <2> SUFFICES ASSUME NEW r \in Rows PROVE server[r].at <= clock /\ backup[r].at <= clock
      OBVIOUS
    <2>1. server[r].at <= latest[r].at /\ backup[r].at <= latest[r].at /\ latest[r].at <= clock
      BY <1>0 DEF TimesBounded
    <2> QED
      BY <2>1, <1>0, RowFields
  <1>4. RowsFresh'
    BY <1>0, <1>1, <1>2, <1>3, RowFields DEF RowsFresh
  <1>5. /\ \A r \in Rows : Fresh(r, local[r].val)'
        /\ \A r \in Rows : Wanted(r)' => r \in Sendable'
    <2>1. \A r \in Rows : Present(r)' <=> backup[r] # Absent
      BY <1>1 DEF Present
    <2>2. \A r \in Rows : Fresh(r, local[r].val)'
      BY <1>1 DEF Fresh
    <2>3. \A r \in Rows : Wanted(r)' => r \in Sendable'
      BY <2>1, <1>1, SyncAssumption DEF Wanted, Sendable, HasManga, BackupWhole
    <2> QED
      BY <2>2, <2>3
  <1>6. ASSUME NEW s \in Slots PROVE SlotRestored(s)'
    <2>1. CASE sync'[s] = Off
      BY <2>1, IdleIsRestored
    <2>2. CASE sync'[s] = Started("upload", TRUE)
      BY <2>2, <1>5 DEF SlotRestored, SlotFresh, UploadReady, UploadCarries, Runs, Started
    <2>3. ASSUME NEW t \in Slots, sync' = [sync EXCEPT ![t] = Started("upload", TRUE)]
          PROVE  sync'[s] \in {Off, Started("upload", TRUE)}
      BY <2>3, <1>0, <1>2, SlotsThen
    <2> QED
      BY <2>1, <2>2, <2>3, <1>2 DEF RestoreDone
  <1> QED
    BY <1>2, <1>4, <1>6 DEF RestoreNow

LEMMA RestoreInit == Init => RestoreInv
  <1> SUFFICES ASSUME Init PROVE RestoreInv
    OBVIOUS
  <1>1. /\ clock = 1 /\ restored = NotRestored /\ sync = [s \in Slots |-> Off] /\ backup = local
        /\ restoring = "no" /\ \A r \in DOMAIN Parent : Present(r) => Present(Parent[r])
    BY DEF Init
  <1>2. restored.at = 0 /\ ~restored.alone /\ ~restored.pushed
    BY <1>1 DEF NotRestored
  <1>3. GuardHolds
    BY <1>1, <1>2 DEF GuardHolds
  <1>4. BackupWhole
    BY <1>1 DEF BackupWhole, Present
  <1> QED
    BY <1>2, <1>3, <1>4 DEF RestoreInv

LEMMA RestoreStep ==
    ASSUME "upload" \notin Modes
    PROVE  VersionInv /\ RestoreInv /\ [Next]_vars => RestoreInv'
  <1> SUFFICES ASSUME VersionInv, RestoreInv, [Next]_vars PROVE RestoreInv'
    OBVIOUS
  <1>0. SyncTypeOK /\ restored.at \in Nat /\ GuardHolds /\ BackupWhole /\ clock \in Nat \ {0}
    BY DEF VersionInv, SyncTypeOK, RestoreInv
  <1>1. GuardHolds'
    BY <1>0, GuardStep
  <1>2. UNCHANGED backup
    BY DEF Next, User, Edits, Deletes, Sync, SetSyncOn, Edits, Edit, EditUnstamped, Deletes, Delete, DeleteSilently, Dropped, OtherWrites, OtherDeletes, AutoSync, OneWay,
           StartSync, Collect, Fails, Handle, Receive, Clear, RestoreBegins, RestoreDone,
           RestoreFails, vars
  <1>3. BackupWhole'
    BY <1>0, <1>2 DEF BackupWhole
  <1>4. ASSUME restored'.at > 0, restored'.alone PROVE RestoreNow'
    <2>1. CASE RestoreDone
      <3>1. restored.alone
        BY <1>4, <2>1 DEF RestoreDone
      <3> QED
        BY <2>1, <3>1, <1>0, RestoreStarts
    <2>2. CASE restored.at > 0 /\ restored.alone
      <3>0. RestoreNow
        BY <2>2 DEF RestoreInv
      <3>1. ASSUME NEW r \in Rows, Edits(r) \/ Deletes(r) \/ OtherWrites(r) \/ OtherDeletes(r)
            PROVE  RestoreNow'
        BY <3>0, <3>1, <1>0, UserKeepsRestore
      <3>2. ASSUME NEW s \in Slots, Collect(s) \/ Handle(s) \/ Receive(s) PROVE RestoreNow'
        BY <2>2, <3>0, <3>2, <1>0, CollectKeepsRestore, HandleKeepsRestore, ReceiveKeepsRestore
      <3>3. ASSUME UNCHANGED <<clock, local, server, deleted, restored>>,
                   \A s \in Slots : sync'[s] = sync[s] \/ SlotRestored(s)'
            PROVE  RestoreNow'
        <4>1. Grows /\ RowsFresh'
          BY <3>0, <3>3, <1>0, <1>2, RowFields DEF Grows, RowsFresh, Fresh, RestoreNow
        <4> QED
          BY <3>0, <3>3, <4>1, <1>0, <1>2, RowsKeepRestore
      <3>4. CASE SetSyncOn \/ UNCHANGED vars \/ RestoreFails
        BY <3>3, <3>4 DEF SetSyncOn, RestoreFails, vars, deviceVars, historyVars
      <3>5. ASSUME NEW s \in Slots, Fails(s) \/ Clear(s) PROVE RestoreNow'
        <4>1. sync' = [sync EXCEPT ![s] = Off] /\ UNCHANGED <<clock, local, server, deleted, restored>>
          BY <3>5 DEF Fails, Clear, Ends, deviceVars, historyVars
        <4>2. \A t \in Slots : sync'[t] = sync[t] \/ sync'[t] = Off
          BY <4>1, <1>0, SlotsThen
        <4> QED
          BY <4>1, <4>2, <3>3, IdleIsRestored
      <3>6. ASSUME NEW s \in Slots, NEW mode \in Modes, StartSync(s, mode) PROVE RestoreNow'
        <4>1. /\ sync' = [sync EXCEPT ![s] = Started(mode, FALSE)]
              /\ UNCHANGED <<clock, local, server, deleted, restored>>
          BY <3>6 DEF StartSync, deviceVars, historyVars
        <4>2. \A t \in Slots : sync'[t] = sync[t] \/ sync'[t] = Started(mode, FALSE)
          BY <4>1, <1>0, SlotsThen
        <4>3. \A t \in Slots : sync'[t] = sync[t] \/ SlotRestored(t)'
          BY <4>2, IdleIsRestored DEF Started
        <4> QED
          BY <4>1, <4>3, <3>3
      <3>7. ~RestoreBegins
        BY <2>2 DEF RestoreBegins
      <3> QED
        BY <2>1, <3>1, <3>2, <3>4, <3>5, <3>6, <3>7, <1>0, RestoreStarts
           DEF Next, User, Edits, Deletes, Sync, AutoSync, OneWay, RestoreInv
    <2>3. CASE ~RestoreDone /\ ~(restored.at > 0 /\ restored.alone)
      <3>1. CASE RestoreBegins
        BY <1>4, <3>1, <1>0 DEF RestoreBegins, VersionInv, SyncTypeOK
      <3>2. ASSUME NEW s \in Slots, Collect(s) \/ Fails(s) \/ Handle(s) \/ Receive(s) \/ Clear(s)
            PROVE  FALSE
        BY <1>4, <2>3, <3>2, <1>0, StepIsGuarded DEF GuardedStep
      <3>3. CASE UNCHANGED restored
        BY <1>4, <2>3, <3>3
      <3>4. ASSUME NEW s \in Slots, NEW mode \in Modes, StartSync(s, mode) PROVE FALSE
        BY <1>4, <2>3, <3>4 DEF StartSync, historyVars
      <3>5. ASSUME NEW r \in Rows, Edits(r) \/ Deletes(r) \/ OtherWrites(r) \/ OtherDeletes(r)
            PROVE  FALSE
        BY <1>4, <2>3, <3>5 DEF Edits, Edit, EditUnstamped, Deletes, Delete, DeleteSilently, Dropped, OtherWrites, OtherDeletes, historyVars
      <3>6. CASE SetSyncOn \/ UNCHANGED vars \/ RestoreFails
        BY <3>3, <3>6 DEF SetSyncOn, RestoreFails, vars, historyVars
      <3> QED
        BY <2>3, <3>1, <3>2, <3>4, <3>5, <3>6 DEF Next, User, Edits, Deletes, Sync, AutoSync, OneWay
    <2> QED
      BY <2>1, <2>2, <2>3
  <1> QED
    BY <1>1, <1>3, <1>4 DEF RestoreInv

\* However many syncs there are, what is edited meanwhile, and whatever request or
\* answer is lost: once the upload of a restore that began while no sync ran has
\* succeeded, every restored row but the categories, which collectAll does not stamp, is
\* on the server, or a newer version is (restoreSyncGuard of sync_server.dart, and
\* collectAll with its new updatedAt for the rest).
THEOREM RestoreIsUploaded ==
    ASSUME "upload" \notin Modes
    PROVE  Spec => []RestoreReachesServer
  <1>1. VersionInv /\ RestoreInv => RestoreReachesServer
    <2> SUFFICES ASSUME VersionInv, RestoreInv, restored.pushed, restored.alone,
                        NEW r \in Rows \ OfEntity("category"),
                        backup[r] # Absent, r \notin deleted, ~server[r].gone
                 PROVE  server[r].val = backup[r].val \/ server[r].val > restored.at
      BY DEF RestoreReachesServer
    <2>1. restored.at > 0
      BY DEF RestoreInv, GuardHolds
    <2>2. RestoreNow
      BY <2>1 DEF RestoreInv
    <2>3. server[r].at > restored.at
      BY <2>2 DEF RestoreNow, Wanted, Arrived
    <2> QED
      BY <2>2, <2>3 DEF RestoreNow, RowsFresh, Fresh
  <1>2. VersionInv /\ RestoreInv /\ [Next]_vars => RestoreInv'
    BY RestoreStep
  <1> QED
    BY <1>1, <1>2, RestoreInit, VersionInvHolds, PTL DEF Spec
=============================================================================
