------------------------- MODULE DownloadPoolProofs -------------------------
(***************************************************************************)
(* Proofs about the pool of download workers, for every set of tasks and   *)
(* workers and any number of faults: where each worker and each submission *)
(* is, that a submission is answered once and truthfully, and that the     *)
(* pool implements DownloadTasks.                                          *)
(***************************************************************************)
EXTENDS DownloadPool, SequenceTheorems, FiniteSetTheorems, TLAPS

\* A proper subset of a finite set has fewer elements.
LEMMA ProperSubsetSmaller ==
    ASSUME NEW S, IsFiniteSet(S), NEW T \in SUBSET S, NEW x \in S, x \notin T
    PROVE  Cardinality(T) < Cardinality(S)
  <1>1. /\ IsFiniteSet(T)
        /\ Cardinality(T) <= Cardinality(S)
        /\ Cardinality(S) = Cardinality(T) => S = T
    BY FS_Subset
  <1>2. Cardinality(S) # Cardinality(T)
    BY <1>1
  <1> QED
    BY <1>1, <1>2, FS_CardinalityType

\* How many members of K lie below i.
RankIn(K, i) == Cardinality({j \in K : j < i})

\* The ranks of a finite set of naturals, how many of its members lie below each,
\* are the numbers below its cardinality, each taken once.
LEMMA RanksFillInterval ==
    ASSUME NEW K \in SUBSET Nat, IsFiniteSet(K)
    PROVE  /\ \A i \in K : RankIn(K, i) \in 0 .. Cardinality(K) - 1
           /\ \A i, k \in K : RankIn(K, i) = RankIn(K, k) => i = k
           /\ \A n \in 0 .. Cardinality(K) - 1 : \E i \in K : RankIn(K, i) = n
  <1> DEFINE Below(i) == {j \in K : j < i}
             rank == [i \in K |-> RankIn(K, i)]
             Ranks == 0 .. Cardinality(K) - 1
  <1>0. \A i \in K : rank[i] = Cardinality(Below(i))
    BY DEF RankIn
  <1>1. \A i \in K : IsFiniteSet(Below(i)) /\ Cardinality(Below(i)) \in Nat
    BY FS_Subset, FS_CardinalityType
  <1>2. Cardinality(K) \in Nat
    BY FS_CardinalityType
  <1>3. ASSUME NEW i \in K PROVE rank[i] \in Ranks
    <2>1. Below(i) \in SUBSET K /\ i \notin Below(i)
      OBVIOUS
    <2>2. Cardinality(Below(i)) < Cardinality(K)
      BY <2>1, ProperSubsetSmaller
    <2> QED
      BY <2>2, <1>1, <1>2, <1>0
  <1>4. ASSUME NEW i \in K, NEW k \in K, i < k PROVE rank[i] < rank[k]
    <2>0. i \in Nat /\ k \in Nat /\ \A j \in K : j \in Nat /\ (j < i => j < k)
      BY <1>4
    <2>1. \A j \in K : j < i => j < k
      BY <2>0
    <2>2. Below(i) \subseteq Below(k)
      BY <2>1
    <2>3. i \in Below(k) /\ i \notin Below(i)
      BY <2>0, <1>4
    <2> QED
      BY <2>2, <2>3, <1>1, <1>0, ProperSubsetSmaller
  <1>5. ASSUME NEW i \in K, NEW k \in K, rank[i] = rank[k] PROVE i = k
    <2>1. i \in Nat /\ k \in Nat /\ rank[i] \in Nat
      BY <1>1, <1>0
    <2>2. ~ (i < k) /\ ~ (k < i)
      BY <2>1, <1>4, <1>5
    <2> QED
      BY <2>1, <2>2
  <1>6. rank \in Injection(K, Ranks)
    BY <1>3, <1>5 DEF Injection, IsInjective
  <1>7. IsFiniteSet(Ranks) /\ Cardinality(K) = Cardinality(Ranks)
    <2>1. Cardinality(K) - 1 \in Int /\ 0 \in Int
      BY <1>2
    <2>2. IsFiniteSet(Ranks) /\ Cardinality(Ranks) =
              IF 0 > Cardinality(K) - 1 THEN 0 ELSE (Cardinality(K) - 1) - 0 + 1
      BY <2>1, FS_Interval
    <2> QED
      BY <2>2, <1>2
  <1>8. rank \in Surjection(K, Ranks)
    BY <1>6, <1>7, FS_Injection
  <1>9. \A n \in Ranks : \E i \in K : rank[i] = n
    BY <1>8 DEF Surjection
  <1> QED
    BY <1>3, <1>5, <1>9

\* The members of a sequence, and that it holds none of them twice.
Members(q) == {q[i] : i \in 1 .. Len(q)}
Distinct(q) == \A i, j \in 1 .. Len(q) : q[i] = q[j] => i = j

Holds(w) == current[w] # NoTask
\* A submission that waits is queued or with a worker.
Waits(t) == t \in Members(queue) \/ \E w \in Workers : current[w] = t
Answered(t) == \E i \in 1 .. Len(inbox[t]) : inbox[t][i] \in Terminal

Messages == {"progress"} \cup Terminal

-----------------------------------------------------------------------------
(* The inductive invariant, in named parts.                                *)

\* Until the pool is up nothing is queued, nobody works and nobody listens.
NothingBeforeReady ==
    init # "ready" =>
        /\ queue = <<>> /\ \A t \in Tasks : caller[t] # "listening"
        /\ available = {} /\ respawning = {} /\ lost = {}
        /\ \A w \in Workers : current[w] = NoTask /\ isolate[w] = Dead

\* Each worker is in one place.
WorkerPlaces ==
    /\ \A w \in Workers :
          /\ w \in available  => ~Holds(w) /\ w \notin respawning \cup lost
          /\ w \in respawning => ~Holds(w) /\ w \notin lost
          /\ w \in lost       => ~Holds(w)
    /\ init = "ready" =>
          \A w \in Workers : w \in available \cup respawning \cup lost \/ Holds(w)
    /\ queue # <<>> => available = {}

\* What a worker has to do with the task it holds: the task on its way to the
\* isolate, the port that is open, the replies on their way.
WorkerPorts ==
    \A w \in Workers :
        /\ mail[w] # NoTask => /\ mail[w] = current[w]
                               /\ replies[w] = <<>> /\ ~isolate[w].open
        /\ isolate[w].open => isolate[w].task = current[w]
        /\ isolate[w].phase = "work" => isolate[w].open
        /\ isolate[w].phase = "work" => \A i \in 1 .. Len(replies[w]) : replies[w][i] \notin Terminal
        /\ replies[w] # <<>> => Holds(w)
        /\ \A i \in 1 .. Len(replies[w]) :
               replies[w][i] = "complete" => current[w] \in finished
        /\ strays[w] \cap Segmented = {}

\* No submission is queued twice, held twice, or queued and held.
OnePlace ==
    /\ Distinct(queue)
    /\ \A v, w \in Workers : Holds(w) /\ current[v] = current[w] => v = w
    /\ \A w \in Workers : current[w] \notin Members(queue)

\* A caller that listens is queued, held or answered; what is queued, held or
\* answered has a caller that listens, and was not cancelled before its answer.
Settled ==
    \A t \in Tasks :
        /\ caller[t] = "listening" => Waits(t) \/ Answered(t)
        /\ Waits(t) => caller[t] = "listening" /\ flag[t] # "cancelled" /\ ~Answered(t)
        /\ \A i, j \in 1 .. Len(inbox[t]) :
               inbox[t][i] \in Terminal /\ inbox[t][j] \in Terminal => i = j
        /\ caller[t] # "listening" => inbox[t] = <<>>

\* A caller is told "complete" only after its files were downloaded.
Truthful ==
    \A t \in Tasks :
        /\ caller[t] = "done" => t \in finished
        /\ \A i \in 1 .. Len(inbox[t]) : inbox[t][i] = "complete" => t \in finished

PoolInv ==
    /\ PoolTypeOK
    /\ NothingBeforeReady
    /\ WorkerPlaces
    /\ WorkerPorts
    /\ OnePlace
    /\ Settled
    /\ Truthful

-----------------------------------------------------------------------------
(* The operators on the queue.                                             *)

\* What _processQueue leaves behind: the workers that are no longer free hold one
\* task of q each, which is on its way to them; the rest of q is still queued,
\* and then nobody is free.
HandedOut(q, free, cur, ml) ==
    LET given == free \ available'
    IN  /\ queue' \in Seq(Tasks) /\ Distinct(queue') /\ Members(queue') \subseteq Members(q)
        /\ available' \subseteq free
        /\ current' \in [Workers -> Tasks \cup {NoTask}] /\ mail' \in [Workers -> Tasks \cup {NoTask}]
        /\ \A w \in Workers \ given : current'[w] = cur[w] /\ mail'[w] = ml[w]
        /\ \A w \in given : /\ current'[w] \in Members(q) \ Members(queue')
                            /\ mail'[w] = current'[w]
        /\ \A v, w \in given : current'[v] = current'[w] => v = w
        /\ \A t \in Members(q) \ Members(queue') : \E w \in given : current'[w] = t
        /\ queue' # <<>> => available' = {}

\* _processQueue hands out the head of a queue without duplicates, as long as
\* somebody is free.
LEMMA ProcessQueueHandsOut ==
    ASSUME NEW q \in Seq(Tasks), Distinct(q), NEW free \in SUBSET Workers,
           NEW cur \in [Workers -> Tasks \cup {NoTask}],
           NEW ml \in [Workers -> Tasks \cup {NoTask}],
           ProcessQueue(q, free, cur, ml)
    PROVE  HandedOut(q, free, cur, ml)
  <1> DEFINE n == IF Len(q) <= Cardinality(free) THEN Len(q) ELSE Cardinality(free)
  <1>1. IsFiniteSet(free) /\ Cardinality(free) \in Nat /\ Len(q) \in Nat
    BY PoolAssumption, FS_Subset, FS_CardinalityType
  <1>2. n \in Nat /\ n <= Len(q) /\ n <= Cardinality(free)
    BY <1>1
  <1> HIDE DEF n
  <1>3. PICK pick \in [1 .. n -> free] :
            /\ \A i, j \in 1 .. n : i # j => pick[i] # pick[j]
            /\ LET taken == {pick[i] : i \in 1 .. n}
                   of(w) == q[CHOOSE i \in 1 .. n : pick[i] = w]
               IN  /\ queue' = SubSeq(q, n + 1, Len(q))
                   /\ available' = free \ taken
                   /\ current' = [w \in Workers |-> IF w \in taken THEN of(w) ELSE cur[w]]
                   /\ mail' = [w \in Workers |-> IF w \in taken THEN of(w) ELSE ml[w]]
    BY DEF ProcessQueue, n
  <1> DEFINE taken == {pick[i] : i \in 1 .. n}
             at(w) == CHOOSE i \in 1 .. n : pick[i] = w
  <1>4. /\ queue' = SubSeq(q, n + 1, Len(q)) /\ available' = free \ taken
        /\ current' = [w \in Workers |-> IF w \in taken THEN q[at(w)] ELSE cur[w]]
        /\ mail' = [w \in Workers |-> IF w \in taken THEN q[at(w)] ELSE ml[w]]
    BY <1>3
  <1>5. taken \subseteq free /\ \A w \in taken : at(w) \in 1 .. n /\ pick[at(w)] = w
    OBVIOUS
  <1>6. \A i \in 1 .. n : at(pick[i]) = i /\ pick[i] \in taken
    BY <1>3, <1>5
  <1>7. \A i \in 1 .. n : i \in 1 .. Len(q) /\ q[i] \in Tasks
    BY <1>1, <1>2
  <1>8. /\ queue' \in Seq(Tasks) /\ Len(queue') = Len(q) - n
        /\ \A i \in 1 .. Len(q) - n : queue'[i] = q[n + i]
    <2>1. \A i \in n + 1 .. Len(q) : q[i] \in Tasks
      BY <1>1, <1>2
    <2>2. /\ SubSeq(q, n + 1, Len(q)) \in Seq(Tasks)
          /\ Len(SubSeq(q, n + 1, Len(q))) = IF n + 1 <= Len(q) THEN Len(q) - (n + 1) + 1 ELSE 0
          /\ \A i \in 1 .. Len(q) - (n + 1) + 1 : SubSeq(q, n + 1, Len(q))[i] = q[n + 1 + i - 1]
      BY <2>1, <1>1, <1>2, SubSeqProperties
    <2> QED
      BY <2>2, <1>1, <1>2, <1>4
  <1>9. Members(queue') = {q[i] : i \in n + 1 .. Len(q)}
    <2>1. \A i \in n + 1 .. Len(q) : i - n \in 1 .. Len(q) - n /\ n + (i - n) = i
      BY <1>1, <1>2
    <2>2. \A i \in 1 .. Len(q) - n : n + i \in n + 1 .. Len(q)
      BY <1>1, <1>2
    <2> QED
      BY <1>8, <2>1, <2>2 DEF Members
  <1>10. Distinct(queue') /\ Members(queue') \subseteq Members(q)
    <2>1. \A i \in 1 .. Len(q) - n : n + i \in 1 .. Len(q)
      BY <1>1, <1>2
    <2>2. ASSUME NEW i \in 1 .. Len(queue'), NEW j \in 1 .. Len(queue'), queue'[i] = queue'[j]
          PROVE  i = j
      <3>1. q[n + i] = q[n + j] /\ n + i \in 1 .. Len(q) /\ n + j \in 1 .. Len(q)
        BY <1>8, <2>1, <2>2
      <3>2. n + i = n + j
        BY <3>1 DEF Distinct
      <3> QED
        BY <3>2, <1>1, <1>2, <1>8
    <2>3. \A i \in n + 1 .. Len(q) : i \in 1 .. Len(q)
      BY <1>1, <1>2
    <2>4. {q[i] : i \in n + 1 .. Len(q)} \subseteq Members(q)
      BY <2>3 DEF Members
    <2> QED
      BY <1>9, <2>2, <2>4 DEF Distinct
  <1>11. ASSUME NEW i \in 1 .. n
         PROVE  q[i] \in Members(q) /\ q[i] \notin Members(queue')
    <2>1. q[i] \in Members(q)
      BY <1>7 DEF Members
    <2>2. \A k \in n + 1 .. Len(q) : k \in 1 .. Len(q) /\ k # i
      BY <1>1, <1>2
    <2>3. \A k \in n + 1 .. Len(q) : q[k] # q[i]
      BY <2>2, <1>7 DEF Distinct
    <2> QED
      BY <2>1, <2>3, <1>9
  <1>12. \A w \in taken : q[at(w)] \in Members(q) \ Members(queue') /\ q[at(w)] \in Tasks
    BY <1>5, <1>7, <1>11
  <1>13. \A v, w \in taken : q[at(v)] = q[at(w)] => v = w
    BY <1>5, <1>7 DEF Distinct
  <1>14. \A t \in Members(q) \ Members(queue') : \E w \in taken : q[at(w)] = t
    <2>1. ASSUME NEW t \in Members(q) \ Members(queue') PROVE \E w \in taken : q[at(w)] = t
      <3>1. PICK i \in 1 .. Len(q) : q[i] = t
        BY DEF Members
      <3>2. i \in 1 .. n
        BY <3>1, <1>9, <1>1, <1>2
      <3> QED
        BY <3>1, <3>2, <1>6
    <2> QED
      BY <2>1
  <1>15. queue' # <<>> => taken = free
    <2>1. SUFFICES ASSUME n # Len(q) PROVE taken = free
      BY <1>8, <1>1, EmptySeq
    <2>2. n = Cardinality(free)
      BY <2>1, <1>1 DEF n
    <2>3. pick \in Injection(1 .. n, free)
      BY <1>3 DEF Injection, IsInjective
    <2>4. Cardinality(1 .. n) = Cardinality(free)
      BY <2>2, <1>2, FS_Interval
    <2>5. pick \in Surjection(1 .. n, free)
      BY <2>3, <2>4, <1>1, FS_Injection
    <2> QED
      BY <2>5 DEF Surjection
  <1>16. free \ available' = taken
    BY <1>4, <1>5
  <1> HIDE DEF taken, at
  <1>17. /\ current' \in [Workers -> Tasks \cup {NoTask}] /\ mail' \in [Workers -> Tasks \cup {NoTask}]
         /\ \A w \in taken : current'[w] = q[at(w)] /\ mail'[w] = q[at(w)]
         /\ \A w \in Workers \ taken : current'[w] = cur[w] /\ mail'[w] = ml[w]
    BY <1>4, <1>5, <1>12
  <1> QED
    BY <1>4, <1>8, <1>10, <1>12, <1>13, <1>14, <1>15, <1>16, <1>17 DEF HandedOut

\* removeWhere removes the task from the queue and nothing else, and brings no
\* duplicate about.
LEMMA WithoutRemoves ==
    ASSUME NEW q \in Seq(Tasks), Distinct(q), NEW t
    PROVE  /\ Without(q, t) \in Seq(Tasks)
           /\ Distinct(Without(q, t))
           /\ Members(Without(q, t)) = Members(q) \ {t}
           /\ Without(q, t) # <<>> => q # <<>>
  <1> DEFINE kept == {i \in 1 .. Len(q) : q[i] # t}
             rank(i) == Cardinality({j \in kept : j < i})
             nth(n) == CHOOSE i \in kept : rank(i) = n - 1
             c == Cardinality(kept)
             r == Without(q, t)
  <1>1. Len(q) \in Nat /\ \A i \in 1 .. Len(q) : q[i] \in Tasks
    OBVIOUS
  <1>2. kept \in SUBSET Nat /\ IsFiniteSet(kept) /\ c \in Nat
    <2>1. kept \in SUBSET (1 .. Len(q)) /\ kept \in SUBSET Nat
      BY <1>1
    <2>2. IsFiniteSet(1 .. Len(q))
      BY <1>1, FS_Interval
    <2> QED
      BY <2>1, <2>2, FS_Subset, FS_CardinalityType
  <1> HIDE DEF kept
  <1>3. /\ \A i \in kept : rank(i) \in 0 .. c - 1
        /\ \A i, k \in kept : rank(i) = rank(k) => i = k
        /\ \A n \in 0 .. c - 1 : \E i \in kept : rank(i) = n
    <2>1. \A i : rank(i) = RankIn(kept, i)
      BY DEF RankIn
    <2> HIDE DEF rank, c
    <2>2. /\ \A i \in kept : RankIn(kept, i) \in 0 .. Cardinality(kept) - 1
          /\ \A i, k \in kept : RankIn(kept, i) = RankIn(kept, k) => i = k
          /\ \A n \in 0 .. Cardinality(kept) - 1 : \E i \in kept : RankIn(kept, i) = n
      BY <1>2, RanksFillInterval
    <2> QED
      BY <2>1, <2>2 DEF c
  <1>4. r = [n \in 1 .. c |-> q[nth(n)]]
    BY DEF Without, kept
  <1> HIDE DEF r, rank
  <1>5. ASSUME NEW n \in 1 .. c PROVE nth(n) \in kept /\ rank(nth(n)) = n - 1
    <2>1. n - 1 \in 0 .. c - 1
      BY <1>2
    <2> QED
      BY <2>1, <1>3
  <1>6. ASSUME NEW i \in kept PROVE \E n \in 1 .. c : nth(n) = i
    <2>1. rank(i) + 1 \in 1 .. c /\ (rank(i) + 1) - 1 = rank(i)
      BY <1>2, <1>3
    <2>2. nth(rank(i) + 1) = i
      BY <2>1, <1>5, <1>3
    <2> QED
      BY <2>1, <2>2
  <1> HIDE DEF nth, c
  <1>7. \A i \in kept : i \in 1 .. Len(q) /\ q[i] # t /\ q[i] \in Tasks
    BY <1>1 DEF kept
  <1>8. r \in Seq(Tasks) /\ Len(r) = c /\ \A n \in 1 .. c : r[n] = q[nth(n)]
    <2>1. c \in Nat
      BY <1>2 DEF c
    <2>2. r \in [1 .. c -> Tasks] /\ \A n \in 1 .. c : r[n] = q[nth(n)]
      BY <1>4, <1>5, <1>7
    <2>3. r \in Seq(Tasks)
      BY <2>1, <2>2, SeqDef
    <2>4. Len(r) = c
      BY <2>1, <2>2, <2>3
    <2> QED
      BY <2>2, <2>3, <2>4
  <1>9. ASSUME NEW m \in 1 .. c, NEW n \in 1 .. c, r[m] = r[n] PROVE m = n
    <2>0. /\ nth(m) \in 1 .. Len(q) /\ nth(n) \in 1 .. Len(q)
          /\ q[nth(m)] = q[nth(n)]
      BY <1>5, <1>7, <1>8, <1>9
    <2>1. nth(m) = nth(n)
      BY <2>0 DEF Distinct
    <2>2. m - 1 = rank(nth(m)) /\ n - 1 = rank(nth(n))
      BY <1>5
    <2> QED
      BY <2>1, <2>2, <1>2
  <1>10. Members(r) = {q[i] : i \in kept}
    BY <1>5, <1>6, <1>8 DEF Members
  <1>11. {q[i] : i \in kept} = Members(q) \ {t}
    BY DEF kept, Members
  <1>12. q = <<>> => c = 0
    BY FS_EmptySet DEF kept, c
  <1>13. r # <<>> => q # <<>>
    BY <1>8, <1>12, EmptySeq
  <1> QED
    BY <1>8, <1>9, <1>10, <1>11, <1>13 DEF Distinct, r

-----------------------------------------------------------------------------
(* Messages.                                                               *)

\* What is sent to a task port that is closed is dropped.
LEMMA ReplyAdds ==
    ASSUME PoolTypeOK, NEW w \in Workers, NEW m \in Messages, Reply(w, m)
    PROVE  /\ replies' \in [Workers -> Seq(Messages)]
           /\ \A v \in Workers \ {w} : replies'[v] = replies[v]
           /\ ~isolate[w].open => replies'[w] = replies[w]
           /\ \A i \in 1 .. Len(replies'[w]) :
                  \/ replies'[w][i] = m /\ isolate[w].open
                  \/ \E j \in 1 .. Len(replies[w]) : replies'[w][i] = replies[w][j]
  <1>1. replies \in [Workers -> Seq(Messages)]
    BY DEF PoolTypeOK, Messages
  <1>2. /\ Append(replies[w], m) \in Seq(Messages)
        /\ Len(Append(replies[w], m)) = Len(replies[w]) + 1 /\ Len(replies[w]) \in Nat
        /\ \A i \in 1 .. Len(replies[w]) : Append(replies[w], m)[i] = replies[w][i]
        /\ Append(replies[w], m)[Len(replies[w]) + 1] = m
    BY <1>1, AppendProperties
  <1> QED
    BY <1>1, <1>2 DEF Reply

\* A message to the caller of t comes after those that are on their way.
LEMMA InboxAdds ==
    ASSUME PoolTypeOK, NEW t \in Tasks, NEW m \in Messages,
           inbox' = [inbox EXCEPT ![t] = Append(@, m)]
    PROVE  /\ inbox' \in [Tasks -> Seq(Messages)]
           /\ \A u \in Tasks \ {t} : inbox'[u] = inbox[u]
           /\ Len(inbox[t]) \in Nat /\ Len(inbox'[t]) = Len(inbox[t]) + 1
           /\ \A i \in 1 .. Len(inbox[t]) : inbox'[t][i] = inbox[t][i]
           /\ inbox'[t][Len(inbox[t]) + 1] = m
  <1>1. inbox \in [Tasks -> Seq(Messages)]
    BY DEF PoolTypeOK, Messages
  <1>2. /\ Append(inbox[t], m) \in Seq(Messages)
        /\ Len(Append(inbox[t], m)) = Len(inbox[t]) + 1 /\ Len(inbox[t]) \in Nat
        /\ \A i \in 1 .. Len(inbox[t]) : Append(inbox[t], m)[i] = inbox[t][i]
        /\ Append(inbox[t], m)[Len(inbox[t]) + 1] = m
    BY <1>1, AppendProperties
  <1> QED
    BY <1>1, <1>2

\* What the inbox of t holds after one more message: an answer it had, or m.
LEMMA InboxAnswers ==
    ASSUME PoolTypeOK, Settled, NEW t \in Tasks, NEW m \in Messages,
           inbox' = [inbox EXCEPT ![t] = Append(@, m)],
           m \in Terminal => ~Answered(t)
    PROVE  /\ Answered(t)' <=> Answered(t) \/ m \in Terminal
           /\ \A u \in Tasks \ {t} : Answered(u)' <=> Answered(u)
           /\ \A i, j \in 1 .. Len(inbox'[t]) :
                  inbox'[t][i] \in Terminal /\ inbox'[t][j] \in Terminal => i = j
           /\ \A i \in 1 .. Len(inbox'[t]) :
                  inbox'[t][i] = "complete" =>
                      m = "complete" \/ \E j \in 1 .. Len(inbox[t]) : inbox[t][j] = "complete"
  <1> DEFINE k == Len(inbox[t])
  <1>1. /\ k \in Nat /\ Len(inbox'[t]) = k + 1 /\ inbox'[t][k + 1] = m
        /\ \A i \in 1 .. k : inbox'[t][i] = inbox[t][i]
        /\ \A u \in Tasks \ {t} : inbox'[u] = inbox[u]
    BY InboxAdds
  <1> HIDE DEF k
  <1>2. \A i \in 1 .. k + 1 : i \in 1 .. k \/ i = k + 1
    BY <1>1
  <1>3. \A i \in 1 .. k : i \in 1 .. k + 1
    BY <1>1
  <1>4. k + 1 \in 1 .. k + 1
    BY <1>1
  <1>5. Answered(t)' <=> Answered(t) \/ m \in Terminal
    BY <1>1, <1>2, <1>3, <1>4 DEF Answered, Terminal, k
  <1>6. \A u \in Tasks \ {t} : Answered(u)' <=> Answered(u)
    BY <1>1 DEF Answered, Terminal
  <1>7. ASSUME NEW i \in 1 .. Len(inbox'[t]), NEW j \in 1 .. Len(inbox'[t]),
               inbox'[t][i] \in Terminal, inbox'[t][j] \in Terminal
        PROVE  i = j
    BY <1>1, <1>2, <1>7 DEF Answered, Settled, k
  <1>8. ASSUME NEW i \in 1 .. Len(inbox'[t]), inbox'[t][i] = "complete"
        PROVE  m = "complete" \/ \E j \in 1 .. Len(inbox[t]) : inbox[t][j] = "complete"
    BY <1>1, <1>2, <1>8 DEF k
  <1> QED
    BY <1>5, <1>6, <1>7, <1>8

-----------------------------------------------------------------------------
(* The steps of the workers and the callers that leave the queue alone.    *)

\* The pool is up: everybody is free and nothing is queued.
LEMMA InitSucceedsKeeps ==
    ASSUME PoolInv, InitSucceeds
    PROVE  PoolInv'
  <1> USE DEF PoolInv, InitSucceeds
  <1>1. PoolTypeOK'
    BY PoolAssumption DEF PoolTypeOK, Idle, Dead
  <1>2. NothingBeforeReady' /\ WorkerPlaces'
    BY DEF NothingBeforeReady, WorkerPlaces, Holds
  <1>3. WorkerPorts'
    BY DEF WorkerPorts, NothingBeforeReady, PoolTypeOK, Holds, Idle, Dead
  <1>4. OnePlace' /\ Settled' /\ Truthful'
    BY DEF OnePlace, Holds, Settled, Waits, Answered, Truthful
  <1> QED
    BY <1>1, <1>2, <1>3, <1>4

\* The pool did not start: those who wait are refused before anything of theirs
\* was queued.
LEMMA InitFailsKeeps ==
    ASSUME PoolInv, InitFails
    PROVE  PoolInv'
  <1> USE DEF PoolInv, InitFails
  <1>1. PoolTypeOK'
    BY PoolAssumption DEF PoolTypeOK
  <1>2. NothingBeforeReady' /\ WorkerPlaces' /\ WorkerPorts' /\ OnePlace'
    BY DEF NothingBeforeReady, WorkerPlaces, WorkerPorts, OnePlace, Holds, PoolTypeOK
  <1>3. Settled'
    <2>1. \A t \in Tasks : (Waits(t)' <=> Waits(t)) /\ (Answered(t)' <=> Answered(t))
      BY DEF Waits, Answered
    <2> QED
      BY <2>1 DEF Settled, PoolTypeOK
  <1>4. Truthful'
    BY DEF Truthful, PoolTypeOK
  <1> QED
    BY <1>1, <1>2, <1>3, <1>4

\* The isolate opens the port of the task its worker holds.
LEMMA TakeKeeps ==
    ASSUME PoolInv, NEW w \in Workers, Take(w)
    PROVE  PoolInv'
  <1> USE DEF PoolInv, Take
  <1>1. PoolTypeOK'
    BY PoolAssumption DEF PoolTypeOK
  <1>2. NothingBeforeReady'
    BY DEF NothingBeforeReady, PoolTypeOK, Dead
  <1>3. WorkerPorts'
    BY DEF WorkerPorts, PoolTypeOK, Holds, Idle, Dead
  <1>4. WorkerPlaces' /\ OnePlace' /\ Settled' /\ Truthful'
    BY DEF WorkerPlaces, OnePlace, Holds, Settled, Waits, Answered, Truthful
  <1> QED
    BY <1>1, <1>2, <1>3, <1>4

\* News of a page answers nothing.
LEMMA ProgressKeeps ==
    ASSUME PoolInv, NEW w \in Workers, Progress(w)
    PROVE  PoolInv'
  <1> USE DEF PoolInv, Progress
  <1>1. /\ replies' \in [Workers -> Seq(Messages)]
        /\ \A v \in Workers \ {w} : replies'[v] = replies[v]
        /\ ~isolate[w].open => replies'[w] = replies[w]
        /\ \A i \in 1 .. Len(replies'[w]) :
               replies'[w][i] \in Terminal =>
                   \E j \in 1 .. Len(replies[w]) : replies'[w][i] = replies[w][j]
    BY ReplyAdds DEF Messages, Terminal
  <1>2. PoolTypeOK'
    BY <1>1 DEF PoolTypeOK, Messages
  <1>3. WorkerPorts'
    <2> SUFFICES ASSUME NEW v \in Workers PROVE WorkerPorts!(v)'
      BY DEF WorkerPorts
    <2>1. CASE v # w
      BY <2>1, <1>1 DEF WorkerPorts, Holds
    <2>2. CASE v = w
      <3>1. isolate[w].task # NoTask /\ mail[w] = NoTask /\ Holds(w)
        BY PoolAssumption DEF WorkerPorts, PoolTypeOK, Holds, Idle, Dead
      <3>2. "complete" \in Terminal
        BY DEF Terminal
      <3> QED
        BY <2>2, <1>1, <3>1, <3>2 DEF WorkerPorts, Holds
    <2> QED
      BY <2>1, <2>2
  <1>4. NothingBeforeReady' /\ WorkerPlaces' /\ OnePlace' /\ Settled' /\ Truthful'
    BY DEF NothingBeforeReady, WorkerPlaces, OnePlace, Holds, Settled, Waits, Answered, Truthful
  <1> QED
    BY <1>2, <1>3, <1>4

\* "complete" is only sent for the task the worker holds.
LEMMA CompleteKeeps ==
    ASSUME PoolInv, NEW w \in Workers, Complete(w)
    PROVE  PoolInv'
  <1> USE DEF PoolInv, Complete
  <1>1. /\ replies' \in [Workers -> Seq(Messages)]
        /\ \A v \in Workers \ {w} : replies'[v] = replies[v]
        /\ ~isolate[w].open => replies'[w] = replies[w]
    BY ReplyAdds DEF Messages, Terminal
  <1>2. isolate[w].task \in Tasks /\ isolate[w].task = current[w] /\ isolate[w].open
    BY DEF WorkerPorts, PoolTypeOK, Idle, Dead
  <1>3. PoolTypeOK'
    BY <1>1, <1>2 DEF PoolTypeOK, Messages
  <1>4. NothingBeforeReady'
    BY DEF NothingBeforeReady, Dead
  <1>5. WorkerPorts'
    BY <1>1, <1>2, PoolAssumption DEF WorkerPorts, PoolTypeOK, Holds, Idle, Dead
  <1>6. WorkerPlaces' /\ OnePlace' /\ Settled' /\ Truthful'
    BY DEF WorkerPlaces, OnePlace, Holds, Settled, Waits, Answered, Truthful
  <1> QED
    BY <1>3, <1>4, <1>5, <1>6

\* A failed task may leave files being written, but no segments.
LEMMA FailKeeps ==
    ASSUME PoolInv, NEW w \in Workers, Fail(w)
    PROVE  PoolInv'
  <1> USE DEF PoolInv, Fail
  <1>1. /\ replies' \in [Workers -> Seq(Messages)]
        /\ \A v \in Workers \ {w} : replies'[v] = replies[v]
        /\ ~isolate[w].open => replies'[w] = replies[w]
        /\ \A i \in 1 .. Len(replies'[w]) :
               \/ replies'[w][i] = "error" /\ isolate[w].open
               \/ \E j \in 1 .. Len(replies[w]) : replies'[w][i] = replies[w][j]
    <2>1. "error" \in Messages /\ Reply(w, "error")
      BY DEF Messages, Terminal
    <2> QED
      BY <2>1, ReplyAdds
  <1>2. isolate[w] \in [phase : {"work", "failing"}, task : Tasks, open : BOOLEAN]
    BY DEF PoolTypeOK, Idle, Dead
  <1>3. /\ isolate' \in [Workers -> {Idle, Dead} \cup
                            [phase : {"work", "failing"}, task : Tasks, open : BOOLEAN]]
        /\ \A v \in Workers \ {w} : isolate'[v] = isolate[v]
        /\ isolate'[w].phase # "work" /\ (isolate'[w].open => isolate[w].open)
        /\ isolate'[w].open => isolate'[w].task = isolate[w].task
    <2>1. CASE isolate' = [isolate EXCEPT ![w] = Idle]
      BY <2>1 DEF PoolTypeOK, Idle
    <2>2. CASE isolate' = [isolate EXCEPT ![w].phase = "failing"]
      <3> DEFINE r == [isolate[w] EXCEPT !.phase = "failing"]
      <3>1. /\ r \in [phase : {"work", "failing"}, task : Tasks, open : BOOLEAN]
            /\ r.phase = "failing" /\ r.open = isolate[w].open /\ r.task = isolate[w].task
        BY <1>2
      <3>2. isolate' = [isolate EXCEPT ![w] = r]
        BY <2>2
      <3> HIDE DEF r
      <3> QED
        BY <3>1, <3>2 DEF PoolTypeOK
    <2> QED
      BY <2>1, <2>2
  <1>4. /\ strays' \in [Workers -> SUBSET Tasks]
        /\ \A v \in Workers : strays'[v] \cap Segmented \subseteq strays[v]
    <2>1. CASE UNCHANGED strays
      BY <2>1 DEF PoolTypeOK
    <2>2. CASE /\ isolate[w].task \notin Segmented
               /\ strays' = [strays EXCEPT ![w] = @ \cup {isolate[w].task}]
      BY <2>2, <1>2 DEF PoolTypeOK
    <2> QED
      BY <2>1, <2>2
  <1>5. PoolTypeOK'
    BY <1>1, <1>3, <1>4 DEF PoolTypeOK, Messages
  <1>6. NothingBeforeReady'
    BY DEF NothingBeforeReady, Dead
  <1>7. WorkerPorts'
    <2> SUFFICES ASSUME NEW v \in Workers PROVE WorkerPorts!(v)'
      BY DEF WorkerPorts
    <2>1. strays'[v] \cap Segmented = {}
      BY <1>4 DEF WorkerPorts
    <2>2. CASE v # w
      BY <2>1, <2>2, <1>1, <1>3 DEF WorkerPorts, Holds
    <2>3. CASE v = w
      <3>1. isolate[w].open => Holds(w) /\ mail[w] = NoTask /\ isolate[w].task = current[w]
        BY <1>2, PoolAssumption DEF WorkerPorts, Holds
      <3>2. \A i \in 1 .. Len(replies'[w]) :
                replies'[w][i] = "complete" => current[w] \in finished
        BY <1>1 DEF WorkerPorts
      <3> QED
        BY <2>1, <2>3, <3>1, <3>2, <1>1, <1>3 DEF WorkerPorts, Holds
    <2> QED
      BY <2>2, <2>3
  <1>8. WorkerPlaces' /\ OnePlace' /\ Settled' /\ Truthful'
    BY DEF WorkerPlaces, OnePlace, Holds, Settled, Waits, Answered, Truthful
  <1> QED
    BY <1>5, <1>6, <1>7, <1>8

\* A stray file that ends concerns nobody any more.
LEMMA StrayEndsKeeps ==
    ASSUME PoolInv, NEW w \in Workers, NEW t \in Tasks, StrayEnds(w, t)
    PROVE  PoolInv'
  <1> USE DEF PoolInv, StrayEnds
  <1>1. PoolTypeOK' /\ WorkerPorts'
    BY DEF PoolTypeOK, WorkerPorts, Holds
  <1>2. NothingBeforeReady' /\ WorkerPlaces' /\ OnePlace' /\ Settled' /\ Truthful'
    BY DEF NothingBeforeReady, WorkerPlaces, OnePlace, Holds, Settled, Waits, Answered, Truthful
  <1> QED
    BY <1>1, <1>2

\* A worker that dies keeps its task until the main isolate hears of it.
LEMMA WorkerDiesKeeps ==
    ASSUME PoolInv, NEW w \in Workers, WorkerDies(w)
    PROVE  PoolInv'
  <1> USE DEF PoolInv, WorkerDies
  <1>1. PoolTypeOK'
    BY PoolAssumption DEF PoolTypeOK
  <1>2. NothingBeforeReady' /\ WorkerPorts'
    BY DEF NothingBeforeReady, WorkerPorts, PoolTypeOK, Holds, Dead
  <1>3. WorkerPlaces' /\ OnePlace' /\ Settled' /\ Truthful'
    BY DEF WorkerPlaces, OnePlace, Holds, Settled, Waits, Answered, Truthful
  <1> QED
    BY <1>1, <1>2, <1>3

\* An index whose replacement cannot be spawned is lost and held by nobody.
LEMMA RespawnFailsKeeps ==
    ASSUME PoolInv, NEW w \in Workers, RespawnFails(w)
    PROVE  PoolInv'
  <1> USE DEF PoolInv, RespawnFails
  <1>1. PoolTypeOK'
    BY PoolAssumption DEF PoolTypeOK
  <1>2. NothingBeforeReady' /\ WorkerPlaces'
    BY DEF NothingBeforeReady, WorkerPlaces, Holds
  <1>3. WorkerPorts' /\ OnePlace' /\ Settled' /\ Truthful'
    BY DEF WorkerPorts, OnePlace, Holds, Settled, Waits, Answered, Truthful
  <1> QED
    BY <1>1, <1>2, <1>3

\* The caller takes a message; an answer empties its inbox for good.
LEMMA DeliverKeeps ==
    ASSUME PoolInv, NEW t \in Tasks, Deliver(t)
    PROVE  PoolInv'
  <1> USE DEF PoolInv
  <1> DEFINE m == Head(inbox[t])
  <1>0. /\ inbox \in [Tasks -> Seq(Messages)] /\ inbox[t] \in Seq(Messages) /\ inbox[t] # <<>>
        /\ caller[t] = "listening" /\ Len(inbox[t]) \in Nat \ {0} /\ m = inbox[t][1]
    BY EmptySeq DEF Deliver, PoolTypeOK, Messages
  <1>1. UNCHANGED <<init, queue, available, current, respawning, lost, isolate, strays, mail,
                    replies, obituary, finished, faults, deaths>>
    BY DEF Deliver
  <1>2. \A u \in Tasks : Waits(u)' <=> Waits(u)
    BY <1>1 DEF Waits
  <1>3. NothingBeforeReady' /\ WorkerPlaces' /\ WorkerPorts' /\ OnePlace'
    <2>1. \A u \in Tasks : caller'[u] = "listening" => caller[u] = "listening"
      BY DEF Deliver, PoolTypeOK
    <2> QED
      BY <1>1, <2>1 DEF NothingBeforeReady, WorkerPlaces, WorkerPorts, OnePlace, Holds
  <1>4. CASE m \in Terminal
    <2>1. /\ flag' = [flag EXCEPT ![t] = "absent"]
          /\ inbox' = [inbox EXCEPT ![t] = <<>>]
          /\ caller' = [caller EXCEPT ![t] = IF m = "complete" THEN "done" ELSE "failed"]
      BY <1>4 DEF Deliver
    <2>2. Answered(t) /\ (m = "complete" => t \in finished)
      BY <1>0, <1>4 DEF Answered, Truthful
    <2>3. \A u \in Tasks \ {t} : Answered(u)' <=> Answered(u)
      BY <2>1, <1>0 DEF Answered
    <2>4. PoolTypeOK'
      <3>1. inbox' \in [Tasks -> Seq(Messages)]
        BY <2>1, <1>0
      <3> QED
        BY <1>1, <2>1, <3>1 DEF PoolTypeOK, Messages
    <2>5. Settled'
      <3>1. ~Waits(t)' /\ inbox'[t] = <<>> /\ caller'[t] # "listening"
        BY <1>0, <1>2, <2>1, <2>2 DEF Settled, PoolTypeOK
      <3>2. \A u \in Tasks \ {t} : /\ inbox'[u] = inbox[u] /\ caller'[u] = caller[u]
                                  /\ flag'[u] = flag[u]
        BY <2>1, <1>0 DEF PoolTypeOK
      <3> QED
        BY <3>1, <3>2, <1>2, <2>3, EmptySeq DEF Settled
    <2>6. Truthful'
      BY <1>0, <1>1, <2>1, <2>2, EmptySeq DEF Truthful, PoolTypeOK
    <2> QED
      BY <1>3, <2>4, <2>5, <2>6
  <1>5. CASE m \notin Terminal
    <2>1. inbox' = [inbox EXCEPT ![t] = Tail(inbox[t])] /\ UNCHANGED <<flag, caller>>
      BY <1>5 DEF Deliver
    <2>2. /\ Tail(inbox[t]) \in Seq(Messages) /\ Len(Tail(inbox[t])) = Len(inbox[t]) - 1
          /\ \A i \in 1 .. Len(Tail(inbox[t])) : Tail(inbox[t])[i] = inbox[t][i + 1]
      BY <1>0, HeadTailProperties
    <2>3. /\ inbox' \in [Tasks -> Seq(Messages)] /\ inbox'[t] = Tail(inbox[t])
          /\ \A u \in Tasks \ {t} : inbox'[u] = inbox[u]
      BY <1>0, <2>1, <2>2
    <2>4. \A i \in 1 .. Len(inbox'[t]) : /\ inbox'[t][i] = inbox[t][i + 1]
                                        /\ i \in Nat /\ i + 1 \in 1 .. Len(inbox[t])
      BY <1>0, <2>2, <2>3
    <2>5. \A i \in 1 .. Len(inbox[t]) : i = 1 \/ (i - 1 \in 1 .. Len(inbox'[t]) /\ (i - 1) + 1 = i)
      BY <1>0, <2>2, <2>3
    <2>6. \A u \in Tasks : Answered(u)' <=> Answered(u)
      <3>1. Answered(t)' => Answered(t)
        BY <2>4 DEF Answered
      <3>2. Answered(t) => Answered(t)'
        BY <1>0, <1>5, <2>4, <2>5 DEF Answered
      <3> QED
        BY <2>3, <3>1, <3>2 DEF Answered
    <2>7. PoolTypeOK'
      BY <1>1, <2>1, <2>3 DEF PoolTypeOK, Messages
    <2>8. \A i, j \in 1 .. Len(inbox'[t]) :
              inbox'[t][i] \in Terminal /\ inbox'[t][j] \in Terminal => i = j
      <3> SUFFICES ASSUME NEW i \in 1 .. Len(inbox'[t]), NEW j \in 1 .. Len(inbox'[t]),
                          inbox'[t][i] \in Terminal, inbox'[t][j] \in Terminal
                   PROVE  i = j
        OBVIOUS
      <3>1. i + 1 = j + 1
        BY <2>4 DEF Settled
      <3> QED
        BY <3>1, <2>4
    <2>9. Settled'
      BY <1>0, <1>2, <2>1, <2>3, <2>6, <2>8 DEF Settled
    <2>10. Truthful'
      BY <1>1, <2>1, <2>3, <2>4 DEF Truthful
    <2> QED
      BY <1>3, <2>7, <2>9, <2>10
  <1> QED
    BY <1>4, <1>5

-----------------------------------------------------------------------------
(* Cancelling.                                                             *)

\* A worker that loses its task answers it and waits for its replacement.  The
\* queue may at most be rearranged, and the flag of the task may change.
LEMMA TerminateKeeps ==
    ASSUME PoolInv, NEW w \in Workers, NEW t \in Tasks, current[w] = t, Terminate(w),
           UNCHANGED <<init, caller, available, lost, finished, faults, deaths>>,
           queue' \in Seq(Tasks), Distinct(queue'), Members(queue') = Members(queue),
           queue' # <<>> => queue # <<>>,
           flag' \in [Tasks -> {"absent", "live", "cancelled"}],
           \A u \in Tasks \ {t} : flag'[u] = flag[u]
    PROVE  PoolInv'
  <1> USE DEF PoolInv
  <1>1. /\ current' = [current EXCEPT ![w] = NoTask] /\ isolate' = [isolate EXCEPT ![w] = Dead]
        /\ strays' = [strays EXCEPT ![w] = {}] /\ mail' = [mail EXCEPT ![w] = NoTask]
        /\ replies' = [replies EXCEPT ![w] = <<>>] /\ obituary' = obituary \ {w}
        /\ respawning' = respawning \cup {w}
        /\ inbox' = [inbox EXCEPT ![t] = Append(@, "error")]
    BY DEF Terminate
  <1>2. Waits(t) /\ ~Answered(t) /\ caller[t] = "listening" /\ t \notin Members(queue)
    BY DEF Settled, Waits, OnePlace
  <1>3. init = "ready"
    BY <1>2 DEF NothingBeforeReady
  <1>4. "error" \in Messages /\ "error" \in Terminal /\ "error" # "complete"
    BY DEF Messages, Terminal
  <1>5. inbox' \in [Tasks -> Seq(Messages)] /\ \A u \in Tasks \ {t} : inbox'[u] = inbox[u]
    BY <1>1, <1>4, InboxAdds
  <1>6. /\ Answered(t)' /\ \A u \in Tasks \ {t} : Answered(u)' <=> Answered(u)
        /\ \A i, j \in 1 .. Len(inbox'[t]) :
               inbox'[t][i] \in Terminal /\ inbox'[t][j] \in Terminal => i = j
        /\ \A i \in 1 .. Len(inbox'[t]) :
               inbox'[t][i] = "complete" => \E j \in 1 .. Len(inbox[t]) : inbox[t][j] = "complete"
    <2>1. PoolTypeOK /\ Settled /\ ("error" \in Terminal => ~Answered(t))
      BY <1>2
    <2>2. inbox' = [inbox EXCEPT ![t] = Append(@, "error")]
      BY <1>1
    <2> HIDE DEF PoolInv
    <2>3. Answered(t)' <=> Answered(t) \/ "error" \in Terminal
      BY <2>1, <2>2, <1>4, InboxAnswers
    <2>4. \A u \in Tasks \ {t} : Answered(u)' <=> Answered(u)
      BY <2>1, <2>2, <1>4, InboxAnswers
    <2>5. \A i, j \in 1 .. Len(inbox'[t]) :
               inbox'[t][i] \in Terminal /\ inbox'[t][j] \in Terminal => i = j
      BY <2>1, <2>2, <1>4, InboxAnswers
    <2>6. \A i \in 1 .. Len(inbox'[t]) :
               inbox'[t][i] = "complete" => \E j \in 1 .. Len(inbox[t]) : inbox[t][j] = "complete"
      BY <2>1, <2>2, <1>4, InboxAnswers
    <2> QED
      BY <1>4, <2>3, <2>4, <2>5, <2>6
  <1>7. /\ current' \in [Workers -> Tasks \cup {NoTask}] /\ current'[w] = NoTask
        /\ \A v \in Workers \ {w} : current'[v] = current[v] /\ current[v] # t
    BY <1>1, PoolAssumption DEF PoolTypeOK, OnePlace, Holds
  <1>8. ~Waits(t)' /\ \A u \in Tasks \ {t} : Waits(u)' <=> Waits(u)
    BY <1>2, <1>7, PoolAssumption DEF Waits
  <1>9. PoolTypeOK'
    <2>1. <<>> \in Seq(Messages)
      BY EmptySeq
    <2>2. replies' \in [Workers -> Seq(Messages)]
      BY <1>1, <2>1 DEF PoolTypeOK, Messages
    <2> QED
      BY <1>1, <1>5, <1>7, <2>2 DEF PoolTypeOK, Messages
  <1>10. NothingBeforeReady' /\ WorkerPlaces'
    BY <1>1, <1>3, <1>7, PoolAssumption DEF NothingBeforeReady, WorkerPlaces, Holds
  <1>11. WorkerPorts'
    BY <1>1, EmptySeq DEF WorkerPorts, Holds, PoolTypeOK, Dead
  <1>12. OnePlace'
    <2>1. \A v \in Workers : current'[v] \notin Members(queue)
      <3>1. NoTask \notin Members(queue)
        BY PoolAssumption DEF Members, PoolTypeOK
      <3> QED
        BY <1>7, <3>1 DEF OnePlace
    <2> QED
      BY <1>7, <2>1 DEF OnePlace, Holds
  <1>13. Settled'
    <2>1. ASSUME NEW u \in Tasks \ {t} PROVE Settled!(u)'
      <3>1. /\ inbox'[u] = inbox[u] /\ (Answered(u)' <=> Answered(u)) /\ (Waits(u)' <=> Waits(u))
            /\ caller'[u] = caller[u] /\ flag'[u] = flag[u]
        BY <1>5, <1>6, <1>8, <2>1
      <3> QED
        BY <3>1 DEF Settled
    <2>2. Settled!(t)'
      BY <1>2, <1>6, <1>8 DEF Settled
    <2> QED
      BY <2>1, <2>2 DEF Settled
  <1>14. Truthful'
    BY <1>5, <1>6 DEF Truthful
  <1> QED
    BY <1>9, <1>10, <1>11, <1>12, <1>13, <1>14

\* An answer to a queued task leaves with the task's place in the queue.
LEMMA CancelQueuedKeeps ==
    ASSUME PoolInv, NEW t \in Tasks, t \in Members(queue),
           queue' \in Seq(Tasks), Distinct(queue'), Members(queue') = Members(queue) \ {t},
           queue' # <<>> => queue # <<>>,
           flag' \in [Tasks -> {"absent", "live", "cancelled"}],
           \A u \in Tasks \ {t} : flag'[u] = flag[u],
           inbox' = [inbox EXCEPT ![t] = Append(@, "error")],
           UNCHANGED <<init, caller, available, current, respawning, lost, isolate, strays, mail,
                       replies, obituary, finished, faults, deaths>>
    PROVE  PoolInv'
  <1> USE DEF PoolInv
  <1>1. "error" \in Messages /\ "error" \in Terminal /\ "error" # "complete"
    BY DEF Messages, Terminal
  <1>2. Waits(t) /\ ~Answered(t) /\ caller[t] = "listening"
    BY DEF Settled, Waits
  <1>3. init = "ready"
    BY <1>2 DEF NothingBeforeReady
  <1>4. inbox' \in [Tasks -> Seq(Messages)] /\ \A u \in Tasks \ {t} : inbox'[u] = inbox[u]
    BY <1>1, InboxAdds
  <1>5. /\ Answered(t)'
        /\ \A i, j \in 1 .. Len(inbox'[t]) :
               inbox'[t][i] \in Terminal /\ inbox'[t][j] \in Terminal => i = j
    BY <1>1, <1>2, InboxAnswers
  <1>6. \A i \in 1 .. Len(inbox'[t]) :
            inbox'[t][i] = "complete" => \E j \in 1 .. Len(inbox[t]) : inbox[t][j] = "complete"
    BY <1>1, <1>2, InboxAnswers
  <1>7. \A u \in Tasks \ {t} : Answered(u)' <=> Answered(u)
    BY <1>1, <1>2, InboxAnswers
  <1>8. ~Waits(t)' /\ \A u \in Tasks \ {t} : Waits(u)' <=> Waits(u)
    BY DEF Waits, OnePlace
  <1>9. PoolTypeOK'
    BY <1>4 DEF PoolTypeOK, Messages
  <1>10. NothingBeforeReady' /\ WorkerPlaces' /\ WorkerPorts'
    BY <1>3 DEF NothingBeforeReady, WorkerPlaces, WorkerPorts, Holds
  <1>11. OnePlace'
    BY DEF OnePlace, Holds
  <1>12. Settled'
    <2>1. ASSUME NEW u \in Tasks \ {t} PROVE Settled!(u)'
      <3>1. /\ inbox'[u] = inbox[u] /\ (Answered(u)' <=> Answered(u)) /\ (Waits(u)' <=> Waits(u))
            /\ caller'[u] = caller[u] /\ flag'[u] = flag[u]
        BY <1>4, <1>7, <1>8, <2>1
      <3> QED
        BY <3>1 DEF Settled
    <2>2. Settled!(t)'
      BY <1>2, <1>5, <1>8 DEF Settled
    <2> QED
      BY <2>1, <2>2 DEF Settled
  <1>13. Truthful'
    BY <1>4, <1>6 DEF Truthful
  <1> QED
    BY <1>9, <1>10, <1>11, <1>12, <1>13

\* A cancel keeps the invariant, also the one of a caller that got its answer and
\* returns.
LEMMA CancelTaskKeeps ==
    ASSUME PoolInv, NEW t \in Tasks, CancelTask(t),
           UNCHANGED <<init, available, lost, finished, faults, deaths>>,
           caller' \in [Tasks -> {"none", "preparing", "listening", "done", "failed"}],
           \A u \in Tasks : (caller'[u] = "listening") = (caller[u] = "listening"),
           \A u \in Tasks : caller'[u] = "done" => caller[u] = "done",
           caller[t] = "listening" => UNCHANGED caller
    PROVE  PoolInv'
  <1> USE DEF PoolInv
  <1>1. /\ flag' \in [Tasks -> {"absent", "live", "cancelled"}]
        /\ \A u \in Tasks \ {t} : flag'[u] = flag[u]
    BY DEF CancelTask, PoolTypeOK
  <1>2. /\ queue' \in Seq(Tasks) /\ Distinct(queue') /\ Members(queue') = Members(queue) \ {t}
        /\ queue' # <<>> => queue # <<>>
    <2>1. queue \in Seq(Tasks) /\ Distinct(queue) /\ queue' = Without(queue, t)
      BY DEF CancelTask, PoolTypeOK, OnePlace
    <2> QED
      BY <2>1, WithoutRemoves
  <1>3. /\ t \in Members(queue) => caller[t] = "listening"
        /\ \A w \in Workers : current[w] = t => caller[t] = "listening" /\ t \notin Members(queue)
    BY DEF Settled, Waits, OnePlace
  <1>4. CASE /\ t \in Queued
             /\ inbox' = [inbox EXCEPT ![t] = Append(@, "error")]
             /\ UNCHANGED <<current, isolate, strays, mail, replies, obituary, respawning>>
    <2>1. t \in Members(queue)
      BY <1>4 DEF Queued, Members
    <2>2. UNCHANGED caller
      BY <2>1, <1>3
    <2> QED
      BY <2>1, <2>2, <1>1, <1>2, <1>4, CancelQueuedKeeps
  <1>5. ASSUME NEW w \in Workers, current[w] = t, Terminate(w) PROVE PoolInv'
    <2>1. UNCHANGED caller /\ Members(queue') = Members(queue)
      BY <1>2, <1>3, <1>5
    <2> QED
      BY <2>1, <1>1, <1>2, <1>5, TerminateKeeps
  <1>6. CASE /\ t \notin Queued \cup Running
             /\ UNCHANGED <<current, isolate, strays, mail, replies, obituary, respawning, inbox>>
    <2>1. t \notin Members(queue) /\ \A w \in Workers : current[w] # t
      BY <1>6 DEF Queued, Members, Running
    <2>2. Members(queue') = Members(queue)
      BY <2>1, <1>2
    <2>3. \A u \in Tasks : (Waits(u)' <=> Waits(u)) /\ (Answered(u)' <=> Answered(u))
      BY <2>2, <1>6 DEF Waits, Answered
    <2>6. PoolTypeOK'
      BY <1>1, <1>2, <1>6 DEF PoolTypeOK
    <2>7. NothingBeforeReady' /\ WorkerPlaces' /\ WorkerPorts'
      <3>1. queue = <<>> => queue' = <<>>
        BY <1>2
      <3>2. NothingBeforeReady'
        BY <3>1, <1>6 DEF NothingBeforeReady
      <3>3. WorkerPlaces'
        BY <1>2, <1>6 DEF WorkerPlaces, Holds
      <3>4. WorkerPorts'
        BY <1>6 DEF WorkerPorts, Holds
      <3> QED
        BY <3>2, <3>3, <3>4
    <2>8. OnePlace'
      BY <2>2, <1>2, <1>6 DEF OnePlace, Holds
    <2>9. Settled'
      <3>1. ~Waits(t)
        BY <2>1 DEF Waits
      <3> SUFFICES ASSUME NEW u \in Tasks PROVE Settled!(u)'
        BY DEF Settled
      <3>2. /\ (Waits(u)' <=> Waits(u)) /\ (Answered(u)' <=> Answered(u))
            /\ (caller'[u] = "listening" <=> caller[u] = "listening")
            /\ inbox'[u] = inbox[u] /\ (Waits(u) => flag'[u] = flag[u])
        BY <3>1, <2>3, <1>1, <1>6
      <3> QED
        BY <3>2 DEF Settled
    <2>10. Truthful'
      <3>1. \A u \in Tasks : inbox'[u] = inbox[u] /\ finished' = finished
        BY <1>6
      <3> QED
        BY <3>1 DEF Truthful
    <2> QED
      BY <2>6, <2>7, <2>8, <2>9, <2>10
  <1> QED
    BY <1>4, <1>5, <1>6 DEF CancelTask

\* The main isolate hears of an exit; only a worker with a task is replaced.
LEMMA HearObituaryKeeps ==
    ASSUME PoolInv, NEW w \in Workers, HearObituary(w)
    PROVE  PoolInv'
  <1> USE DEF PoolInv
  <1>1. UNCHANGED <<init, caller, flag, queue, available, lost, finished, faults, deaths>>
    BY DEF HearObituary
  <1>2. CASE current[w] # NoTask
    <2>1. current[w] \in Tasks /\ Terminate(w)
      BY <1>2 DEF HearObituary, PoolTypeOK
    <2>2. queue' \in Seq(Tasks) /\ Distinct(queue') /\ Members(queue') = Members(queue)
      BY <1>1 DEF PoolTypeOK, OnePlace
    <2>3. flag' \in [Tasks -> {"absent", "live", "cancelled"}] /\ flag' = flag
      BY <1>1 DEF PoolTypeOK
    <2> QED
      BY <2>1, <2>2, <2>3, <1>1, TerminateKeeps
  <1>3. CASE current[w] = NoTask
    <2>1. /\ obituary' = obituary \ {w}
          /\ UNCHANGED <<current, isolate, strays, mail, replies, inbox, respawning>>
      BY <1>3 DEF HearObituary
    <2>2. PoolTypeOK'
      BY <1>1, <2>1 DEF PoolTypeOK
    <2>3. NothingBeforeReady' /\ WorkerPlaces' /\ WorkerPorts' /\ OnePlace' /\ Settled' /\ Truthful'
      BY <1>1, <2>1 DEF NothingBeforeReady, WorkerPlaces, WorkerPorts, OnePlace, Holds, Settled,
          Waits, Answered, Truthful
    <2> QED
      BY <2>2, <2>3
  <1> QED
    BY <1>2, <1>3

-----------------------------------------------------------------------------
(* Handing out tasks.                                                      *)

\* Where everything is just before _processQueue runs: the queue q, the free
\* workers, and what each worker holds and is being sent, cur and ml.
ReadyToHandOut(q, free, cur, ml) ==
    /\ q \in Seq(Tasks) /\ Distinct(q) /\ free \subseteq Workers
    /\ cur \in [Workers -> Tasks \cup {NoTask}] /\ ml \in [Workers -> Tasks \cup {NoTask}]
    /\ \A w \in Workers :
          /\ w \in free        => cur[w] = NoTask /\ w \notin respawning' \cup lost'
          /\ w \in respawning' => cur[w] = NoTask /\ w \notin lost'
          /\ w \in lost'       => cur[w] = NoTask
          /\ w \in free \cup respawning' \cup lost' \/ cur[w] # NoTask
          /\ cur[w] \notin Members(q)
    /\ \A v, w \in Workers : cur[w] # NoTask /\ cur[v] = cur[w] => v = w
    /\ \A w \in Workers :
          /\ ml[w] # NoTask => ml[w] = cur[w] /\ replies'[w] = <<>> /\ ~isolate'[w].open
          /\ isolate'[w].open => isolate'[w].task = cur[w] /\ cur[w] # NoTask
          /\ isolate'[w].phase = "work" => isolate'[w].open
          /\ isolate'[w].phase = "work" =>
                 \A i \in 1 .. Len(replies'[w]) : replies'[w][i] \notin Terminal
          /\ replies'[w] # <<>> => cur[w] # NoTask
          /\ \A i \in 1 .. Len(replies'[w]) :
                 replies'[w][i] = "complete" => cur[w] \in finished'
          /\ strays'[w] \cap Segmented = {}

\* _processQueue keeps everything in one place, and loses no task.
LEMMA HandOutKeeps ==
    ASSUME NEW q, NEW free, NEW cur, NEW ml,
           ReadyToHandOut(q, free, cur, ml), ProcessQueue(q, free, cur, ml)
    PROVE  /\ queue' \in Seq(Tasks) /\ available' \subseteq Workers
           /\ current' \in [Workers -> Tasks \cup {NoTask}]
           /\ mail' \in [Workers -> Tasks \cup {NoTask}]
           /\ WorkerPlaces' /\ WorkerPorts' /\ OnePlace'
           /\ \A t \in Tasks :
                  Waits(t)' <=> (t \in Members(q) \/ \E w \in Workers : cur[w] = t)
  <1> DEFINE given == free \ available'
  <1>0. /\ q \in Seq(Tasks) /\ Distinct(q) /\ free \in SUBSET Workers
        /\ cur \in [Workers -> Tasks \cup {NoTask}] /\ ml \in [Workers -> Tasks \cup {NoTask}]
    BY DEF ReadyToHandOut
  <1>1. HandedOut(q, free, cur, ml)
    BY <1>0, ProcessQueueHandsOut
  <1>2. /\ queue' \in Seq(Tasks) /\ Distinct(queue') /\ Members(queue') \subseteq Members(q)
        /\ available' \subseteq free /\ (queue' # <<>> => available' = {})
        /\ current' \in [Workers -> Tasks \cup {NoTask}] /\ mail' \in [Workers -> Tasks \cup {NoTask}]
    BY <1>1 DEF HandedOut
  <1>3. /\ given \subseteq free
        /\ \A w \in Workers \ given : current'[w] = cur[w] /\ mail'[w] = ml[w]
        /\ \A w \in given : current'[w] \in Members(q) \ Members(queue') /\ mail'[w] = current'[w]
        /\ \A v, w \in given : current'[v] = current'[w] => v = w
        /\ \A t \in Members(q) \ Members(queue') : \E w \in given : current'[w] = t
    BY <1>1 DEF HandedOut
  <1>4. Members(q) \subseteq Tasks /\ NoTask \notin Members(q)
    BY <1>0, PoolAssumption, ElementOfSeq DEF Members
  <1>5. \A w \in Workers : w \in available' => w \in free /\ w \notin given
    BY <1>0, <1>2
  <1>6. \A w \in Workers : w \in free => w \in available' \/ w \in given
    OBVIOUS
  <1> HIDE DEF given
  <1>7. \A w \in given : /\ w \in Workers /\ cur[w] = NoTask /\ current'[w] # NoTask
                         /\ \A v \in Workers : cur[v] # current'[w]
    BY <1>0, <1>3, <1>4 DEF ReadyToHandOut
  <1>8. WorkerPlaces'
    BY <1>2, <1>3, <1>5, <1>6, <1>7 DEF ReadyToHandOut, WorkerPlaces, Holds
  <1>9. OnePlace'
    <2>1. ASSUME NEW v \in Workers, NEW w \in Workers, current'[w] # NoTask, current'[v] = current'[w]
          PROVE  v = w
      BY <2>1, <1>3, <1>7 DEF ReadyToHandOut
    <2>2. \A w \in Workers : current'[w] \notin Members(queue')
      BY <1>2, <1>3 DEF ReadyToHandOut
    <2> QED
      BY <1>2, <2>1, <2>2 DEF OnePlace, Holds
  <1>10. WorkerPorts'
    <2> SUFFICES ASSUME NEW w \in Workers PROVE WorkerPorts!(w)'
      BY DEF WorkerPorts
    <2>1. CASE w \in given
      <3>1. replies'[w] = <<>> /\ ~isolate'[w].open
        BY <2>1, <1>7 DEF ReadyToHandOut
      <3> QED
        BY <2>1, <3>1, <1>3, EmptySeq DEF ReadyToHandOut, Holds
    <2>2. CASE w \notin given
      BY <2>2, <1>3 DEF ReadyToHandOut, Holds
    <2> QED
      BY <2>1, <2>2
  <1>11. ASSUME NEW t \in Tasks
         PROVE  Waits(t)' <=> (t \in Members(q) \/ \E w \in Workers : cur[w] = t)
    <2>1. Waits(t)' <=> (t \in Members(queue') \/ \E w \in Workers : current'[w] = t)
      BY DEF Waits, Members
    <2>2. ASSUME t \in Members(q) PROVE Waits(t)'
      BY <2>1, <2>2, <1>3, <1>7
    <2>3. ASSUME NEW w \in Workers, cur[w] = t PROVE Waits(t)'
      <3>1. w \notin given
        BY <2>3, <1>7, PoolAssumption
      <3> QED
        BY <2>1, <2>3, <3>1, <1>3
    <2>4. ASSUME Waits(t)' PROVE t \in Members(q) \/ \E w \in Workers : cur[w] = t
      BY <2>1, <2>4, <1>2, <1>3
    <2> QED
      BY <2>2, <2>3, <2>4
  <1> QED
    BY <1>0, <1>2, <1>8, <1>9, <1>10, <1>11

\* A task that was not queued joins the end of the queue.
LEMMA AppendJoins ==
    ASSUME NEW q \in Seq(Tasks), Distinct(q), NEW t \in Tasks, t \notin Members(q)
    PROVE  /\ Append(q, t) \in Seq(Tasks) /\ Distinct(Append(q, t))
           /\ Members(Append(q, t)) = Members(q) \cup {t}
  <1> DEFINE r == Append(q, t)
             k == Len(q)
  <1>1. /\ r \in Seq(Tasks) /\ Len(r) = k + 1 /\ k \in Nat
        /\ \A i \in 1 .. k : r[i] = q[i]
        /\ r[k + 1] = t
    BY AppendProperties
  <1> HIDE DEF r
  <1>2. \A i \in 1 .. k + 1 : i \in 1 .. k \/ i = k + 1
    BY <1>1
  <1>3. \A i \in 1 .. k : i \in 1 .. k + 1 /\ r[i] # t
    BY <1>1 DEF Members
  <1>4. k + 1 \in 1 .. k + 1
    BY <1>1
  <1> HIDE DEF k
  <1>5. Distinct(r)
    <2> SUFFICES ASSUME NEW i \in 1 .. k + 1, NEW j \in 1 .. k + 1, r[i] = r[j]
                 PROVE  i = j
      BY <1>1 DEF Distinct
    <2>1. i = k + 1 <=> r[i] = t
      BY <1>1, <1>2, <1>3
    <2>2. j = k + 1 <=> r[j] = t
      BY <1>1, <1>2, <1>3
    <2>3. CASE i = k + 1
      BY <2>1, <2>2, <2>3
    <2>4. CASE i # k + 1
      <3>1. i \in 1 .. k /\ j \in 1 .. k
        BY <2>1, <2>2, <2>4, <1>2
      <3>2. q[i] = q[j]
        BY <3>1, <1>1
      <3> QED
        BY <3>1, <3>2 DEF Distinct, k
    <2> QED
      BY <2>3, <2>4
  <1>6. Members(r) = Members(q) \cup {t}
    <2>1. ASSUME NEW u \in Members(r) PROVE u \in Members(q) \cup {t}
      BY <1>1, <1>2 DEF Members, k
    <2>2. ASSUME NEW u \in Members(q) PROVE u \in Members(r)
      BY <1>1, <1>3 DEF Members, k
    <2>3. t \in Members(r)
      BY <1>1, <1>4 DEF Members
    <2> QED
      BY <2>1, <2>2, <2>3
  <1> QED
    BY <1>1, <1>5, <1>6 DEF r

\* A new submission joins the queue of a pool that is up, and tasks are handed
\* out.
LEMMA EnqueueKeeps ==
    ASSUME PoolInv, NEW t \in Tasks, init = "ready", caller[t] # "listening",
           caller' = [caller EXCEPT ![t] = "listening"],
           flag' \in [Tasks -> {"absent", "live", "cancelled"}], flag'[t] # "cancelled",
           \A u \in Tasks \ {t} : flag'[u] = flag[u],
           finished' \subseteq finished, finished \subseteq finished' \cup {t},
           ProcessQueue(Append(queue, t), available, current, mail),
           UNCHANGED <<init, respawning, lost, isolate, strays, replies, inbox, obituary,
                       faults, deaths>>
    PROVE  PoolInv'
  <1> USE DEF PoolInv
  <1> DEFINE q == Append(queue, t)
  <1>1. inbox[t] = <<>> /\ ~Waits(t)
    BY DEF Settled
  <1>2. t \notin Members(queue) /\ \A w \in Workers : current[w] # t
    BY <1>1 DEF Waits
  <1>3. q \in Seq(Tasks) /\ Distinct(q) /\ Members(q) = Members(queue) \cup {t}
    <2>1. queue \in Seq(Tasks) /\ Distinct(queue)
      BY DEF PoolTypeOK, OnePlace
    <2> QED
      BY <2>1, <1>2, AppendJoins
  <1> HIDE DEF q
  <1>4. ReadyToHandOut(q, available, current, mail)
    <2>1. /\ available \subseteq Workers
          /\ current \in [Workers -> Tasks \cup {NoTask}] /\ mail \in [Workers -> Tasks \cup {NoTask}]
      BY DEF PoolTypeOK
    <2>2. \A w \in Workers :
              /\ w \in available   => current[w] = NoTask /\ w \notin respawning' \cup lost'
              /\ w \in respawning' => current[w] = NoTask /\ w \notin lost'
              /\ w \in lost'       => current[w] = NoTask
              /\ w \in available \cup respawning' \cup lost' \/ current[w] # NoTask
              /\ current[w] \notin Members(q)
      BY <1>2, <1>3 DEF WorkerPlaces, OnePlace, Holds
    <2>3. \A v, w \in Workers : current[w] # NoTask /\ current[v] = current[w] => v = w
      BY DEF OnePlace, Holds
    <2>4. ASSUME NEW w \in Workers
          PROVE  /\ mail[w] # NoTask => mail[w] = current[w] /\ replies'[w] = <<>> /\ ~isolate'[w].open
                 /\ isolate'[w].open => isolate'[w].task = current[w] /\ current[w] # NoTask
                 /\ isolate'[w].phase = "work" => isolate'[w].open
                 /\ isolate'[w].phase = "work" =>
                        \A i \in 1 .. Len(replies'[w]) : replies'[w][i] \notin Terminal
                 /\ replies'[w] # <<>> => current[w] # NoTask
                 /\ strays'[w] \cap Segmented = {}
      <3>1. isolate[w].open => isolate[w].task # NoTask
        BY PoolAssumption DEF PoolTypeOK, Idle, Dead
      <3> QED
        BY <3>1 DEF WorkerPorts, Holds
    <2>5. ASSUME NEW w \in Workers, NEW i \in 1 .. Len(replies'[w]), replies'[w][i] = "complete"
          PROVE  current[w] \in finished'
      <3>1. current[w] \in finished
        BY <2>5 DEF WorkerPorts
      <3> QED
        BY <3>1, <1>2
    <2> QED
      BY <1>3, <2>1, <2>2, <2>3, <2>4, <2>5 DEF ReadyToHandOut
  <1>5. /\ queue' \in Seq(Tasks) /\ available' \subseteq Workers
        /\ current' \in [Workers -> Tasks \cup {NoTask}]
        /\ mail' \in [Workers -> Tasks \cup {NoTask}]
        /\ WorkerPlaces' /\ WorkerPorts' /\ OnePlace'
        /\ \A u \in Tasks :
               Waits(u)' <=> (u \in Members(q) \/ \E w \in Workers : current[w] = u)
    <2>1. ProcessQueue(q, available, current, mail)
      BY DEF q
    <2> QED
      BY <2>1, <1>4, HandOutKeeps
  <1>6. \A u \in Tasks : Waits(u)' <=> Waits(u) \/ u = t
    BY <1>2, <1>3, <1>5 DEF Waits
  <1>7. PoolTypeOK'
    BY <1>5 DEF PoolTypeOK
  <1>8. NothingBeforeReady'
    BY DEF NothingBeforeReady
  <1>9. Settled'
    <2>1. ~Answered(t)' /\ Len(inbox[t]) = 0
      BY <1>1, EmptySeq DEF Answered
    <2>2. caller'[t] = "listening" /\ \A u \in Tasks \ {t} : caller'[u] = caller[u]
      BY DEF PoolTypeOK
    <2>3. Settled!(t)'
      BY <1>1, <1>6, <2>1, <2>2
    <2>4. ASSUME NEW u \in Tasks \ {t} PROVE Settled!(u)'
      <3>1. /\ inbox'[u] = inbox[u] /\ (Answered(u)' <=> Answered(u)) /\ (Waits(u)' <=> Waits(u))
            /\ caller'[u] = caller[u] /\ flag'[u] = flag[u]
        BY <1>6, <2>2 DEF Answered
      <3> QED
        BY <3>1 DEF Settled
    <2> QED
      BY <2>3, <2>4 DEF Settled
  <1>10. Truthful'
    <2>1. Truthful!(t)'
      BY <1>1, EmptySeq DEF PoolTypeOK
    <2>2. ASSUME NEW u \in Tasks \ {t} PROVE Truthful!(u)'
      BY DEF Truthful, PoolTypeOK
    <2> QED
      BY <2>1, <2>2 DEF Truthful
  <1> QED
    BY <1>5, <1>7, <1>8, <1>9, <1>10

\* A submission to a pool that is not up waits outside.
LEMMA SubmitKeeps ==
    ASSUME PoolInv, NEW t \in Tasks, Submit(t)
    PROVE  PoolInv'
  <1>1. /\ caller[t] = "none" /\ flag' = [flag EXCEPT ![t] = "live"] /\ finished' = finished \ {t}
        /\ UNCHANGED <<respawning, lost, isolate, strays, replies, inbox, obituary, faults, deaths>>
    BY DEF Submit
  <1>2. /\ flag' \in [Tasks -> {"absent", "live", "cancelled"}] /\ flag'[t] # "cancelled"
        /\ \A u \in Tasks \ {t} : flag'[u] = flag[u]
    BY <1>1 DEF PoolInv, PoolTypeOK
  <1>3. CASE init = "ready"
    <2>1. /\ caller' = [caller EXCEPT ![t] = "listening"]
          /\ ProcessQueue(Append(queue, t), available, current, mail)
          /\ UNCHANGED init
      BY <1>3 DEF Submit
    <2>2. caller[t] # "listening" /\ finished' \subseteq finished /\ finished \subseteq finished' \cup {t}
      BY <1>1
    <2> QED
      BY <1>1, <1>2, <1>3, <2>1, <2>2, EnqueueKeeps
  <1>4. CASE init # "ready"
    <2> USE DEF PoolInv
    <2>1. /\ init' = "running" /\ caller' = [caller EXCEPT ![t] = "preparing"]
          /\ UNCHANGED <<queue, available, current, mail>>
      BY <1>4 DEF Submit
    <2>2. \A u \in Tasks : (Waits(u)' <=> Waits(u)) /\ (Answered(u)' <=> Answered(u))
      BY <1>1, <2>1 DEF Waits, Answered
    <2>3. inbox[t] = <<>> /\ ~Waits(t)
      BY <1>1 DEF Settled
    <2>4. PoolTypeOK'
      BY <1>1, <1>2, <2>1 DEF PoolTypeOK
    <2>5. NothingBeforeReady' /\ WorkerPlaces' /\ OnePlace'
      BY <1>1, <1>4, <2>1 DEF NothingBeforeReady, WorkerPlaces, OnePlace, Holds, PoolTypeOK
    <2>6. WorkerPorts'
      <3>1. \A w \in Workers : Len(replies[w]) = 0
        BY <1>4, EmptySeq DEF NothingBeforeReady, WorkerPorts, Holds
      <3> QED
        BY <1>1, <2>1, <3>1 DEF WorkerPorts, Holds
    <2>7. Settled'
      <3> SUFFICES ASSUME NEW u \in Tasks PROVE Settled!(u)'
        BY DEF Settled
      <3>1. caller'[u] = IF u = t THEN "preparing" ELSE caller[u]
        BY <2>1 DEF PoolTypeOK
      <3>2. u # t => flag'[u] = flag[u]
        BY <1>2
      <3>3. u = t => caller[u] # "listening"
        BY <1>1
      <3>4. inbox'[u] = inbox[u]
        BY <1>1
      <3> QED
        BY <2>2, <2>3, <3>1, <3>2, <3>3, <3>4 DEF Settled
    <2>8. Truthful'
      <3>1. Truthful!(t)'
        BY <1>1, <2>1, <2>3, EmptySeq DEF PoolTypeOK
      <3>2. ASSUME NEW u \in Tasks \ {t} PROVE Truthful!(u)'
        BY <1>1, <2>1 DEF Truthful, PoolTypeOK
      <3> QED
        BY <3>1, <3>2 DEF Truthful
    <2> QED
      BY <2>4, <2>5, <2>6, <2>7, <2>8
  <1> QED
    BY <1>3, <1>4

\* A submission that waited for the pool is refused if it was cancelled meanwhile.
LEMMA ResumeKeeps ==
    ASSUME PoolInv, NEW t \in Tasks, Resume(t)
    PROVE  PoolInv'
  <1>1. /\ caller[t] = "preparing" /\ init = "ready"
        /\ UNCHANGED <<init, respawning, lost, isolate, strays, replies, inbox, obituary,
                       finished, faults, deaths>>
    BY DEF Resume
  <1>2. CASE flag[t] = "cancelled"
    <2> USE DEF PoolInv
    <2>1. /\ flag' = [flag EXCEPT ![t] = "absent"] /\ caller' = [caller EXCEPT ![t] = "failed"]
          /\ UNCHANGED <<queue, available, current, mail>>
      BY <1>2 DEF Resume
    <2>2. \A u \in Tasks : (Waits(u)' <=> Waits(u)) /\ (Answered(u)' <=> Answered(u))
      BY <1>1, <2>1 DEF Waits, Answered
    <2>3. PoolTypeOK'
      BY <1>1, <2>1 DEF PoolTypeOK
    <2>4. NothingBeforeReady' /\ WorkerPlaces' /\ WorkerPorts' /\ OnePlace'
      BY <1>1, <2>1 DEF NothingBeforeReady, WorkerPlaces, WorkerPorts, OnePlace, Holds
    <2>5. Settled'
      <3> SUFFICES ASSUME NEW u \in Tasks PROVE Settled!(u)'
        BY DEF Settled
      <3>1. caller'[u] = IF u = t THEN "failed" ELSE caller[u]
        BY <2>1 DEF PoolTypeOK
      <3>2. u # t => flag'[u] = flag[u]
        BY <2>1 DEF PoolTypeOK
      <3>3. u = t => caller[u] # "listening"
        BY <1>1
      <3>4. inbox'[u] = inbox[u]
        BY <1>1
      <3> QED
        BY <2>2, <3>1, <3>2, <3>3, <3>4 DEF Settled
    <2>6. Truthful'
      BY <1>1, <2>1 DEF Truthful, PoolTypeOK
    <2> QED
      BY <2>3, <2>4, <2>5, <2>6
  <1>3. CASE flag[t] # "cancelled"
    <2>1. /\ caller' = [caller EXCEPT ![t] = "listening"] /\ UNCHANGED flag
          /\ ProcessQueue(Append(queue, t), available, current, mail)
      BY <1>3 DEF Resume
    <2>2. flag' \in [Tasks -> {"absent", "live", "cancelled"}]
      BY <2>1 DEF PoolInv, PoolTypeOK
    <2>3. caller[t] # "listening" /\ finished' \subseteq finished /\ finished \subseteq finished' \cup {t}
      BY <1>1
    <2> QED
      BY <1>1, <1>3, <2>1, <2>2, <2>3, EnqueueKeeps
  <1> QED
    BY <1>2, <1>3

\* The replacement of a worker takes a waiting task.
LEMMA RespawnKeeps ==
    ASSUME PoolInv, NEW w \in Workers, Respawn(w)
    PROVE  PoolInv'
  <1> USE DEF PoolInv
  <1>1. /\ w \in respawning /\ respawning' = respawning \ {w}
        /\ isolate' = [isolate EXCEPT ![w] = Idle]
        /\ ProcessQueue(queue, available \cup {w}, current, mail)
        /\ UNCHANGED <<strays, init, caller, flag, lost, replies, inbox, obituary, finished,
                       faults, deaths>>
    BY DEF Respawn
  <1>2. init = "ready" /\ ~Holds(w) /\ w \notin lost
    BY <1>1 DEF NothingBeforeReady, WorkerPlaces
  <1>3. ReadyToHandOut(queue, available \cup {w}, current, mail)
    <2>1. /\ queue \in Seq(Tasks) /\ Distinct(queue) /\ available \cup {w} \subseteq Workers
          /\ current \in [Workers -> Tasks \cup {NoTask}] /\ mail \in [Workers -> Tasks \cup {NoTask}]
      BY DEF PoolTypeOK, OnePlace
    <2>2. \A v \in Workers :
              /\ v \in available \cup {w} => current[v] = NoTask /\ v \notin respawning' \cup lost'
              /\ v \in respawning' => current[v] = NoTask /\ v \notin lost'
              /\ v \in lost'       => current[v] = NoTask
              /\ v \in (available \cup {w}) \cup respawning' \cup lost' \/ current[v] # NoTask
              /\ current[v] \notin Members(queue)
      BY <1>1, <1>2 DEF WorkerPlaces, OnePlace, Holds
    <2>3. \A u, v \in Workers : current[v] # NoTask /\ current[u] = current[v] => u = v
      BY DEF OnePlace, Holds
    <2>4. ASSUME NEW v \in Workers
          PROVE  /\ mail[v] # NoTask => mail[v] = current[v] /\ replies'[v] = <<>> /\ ~isolate'[v].open
                 /\ isolate'[v].open => isolate'[v].task = current[v] /\ current[v] # NoTask
                 /\ isolate'[v].phase = "work" => isolate'[v].open
                 /\ isolate'[v].phase = "work" =>
                        \A i \in 1 .. Len(replies'[v]) : replies'[v][i] \notin Terminal
                 /\ replies'[v] # <<>> => current[v] # NoTask
                 /\ \A i \in 1 .. Len(replies'[v]) :
                        replies'[v][i] = "complete" => current[v] \in finished'
                 /\ strays'[v] \cap Segmented = {}
      <3>1. isolate[v].open => isolate[v].task # NoTask
        BY PoolAssumption DEF PoolTypeOK, Idle, Dead
      <3>2. isolate'[v] = IF v = w THEN Idle ELSE isolate[v]
        BY <1>1 DEF PoolTypeOK
      <3>3. ~Idle.open /\ Idle.phase # "work"
        BY DEF Idle
      <3> QED
        BY <1>1, <3>1, <3>2, <3>3 DEF WorkerPorts, Holds
    <2> QED
      BY <2>1, <2>2, <2>3, <2>4 DEF ReadyToHandOut
  <1>4. /\ queue' \in Seq(Tasks) /\ available' \subseteq Workers
        /\ current' \in [Workers -> Tasks \cup {NoTask}]
        /\ mail' \in [Workers -> Tasks \cup {NoTask}]
        /\ WorkerPlaces' /\ WorkerPorts' /\ OnePlace'
        /\ \A u \in Tasks :
               Waits(u)' <=> (u \in Members(queue) \/ \E v \in Workers : current[v] = u)
    BY <1>1, <1>3, HandOutKeeps
  <1>5. \A u \in Tasks : (Waits(u)' <=> Waits(u)) /\ (Answered(u)' <=> Answered(u))
    BY <1>1, <1>4 DEF Waits, Answered
  <1>6. PoolTypeOK'
    BY <1>1, <1>4 DEF PoolTypeOK
  <1>7. NothingBeforeReady'
    BY <1>1, <1>2 DEF NothingBeforeReady
  <1>8. Settled'
    BY <1>1, <1>5 DEF Settled
  <1>9. Truthful'
    BY <1>1 DEF Truthful
  <1> QED
    BY <1>4, <1>6, <1>7, <1>8, <1>9

\* A message of the worker reaches the caller; an answer frees the worker, whose
\* port no longer accepts anything, for the next task.
LEMMA ForwardKeeps ==
    ASSUME PoolInv, NEW w \in Workers, Forward(w)
    PROVE  PoolInv'
  <1> USE DEF PoolInv
  <1> DEFINE cur == [current EXCEPT ![w] = NoTask]
  <1>0. PICK t, m : t = current[w] /\ m = Head(replies[w])
    OBVIOUS
  <1>1. /\ t = current[w] /\ t # NoTask /\ replies[w] # <<>>
        /\ inbox' = [inbox EXCEPT ![t] = Append(@, m)]
        /\ UNCHANGED <<strays, init, caller, flag, respawning, lost, obituary, finished,
                       faults, deaths>>
    BY <1>0 DEF Forward
  <1>2. t \in Tasks /\ Waits(t) /\ ~Answered(t) /\ caller[t] = "listening" /\ init = "ready"
    BY <1>1 DEF PoolTypeOK, Settled, Waits, NothingBeforeReady
  <1>3. /\ replies[w] \in Seq(Messages) /\ Len(replies[w]) \in Nat \ {0}
        /\ m = replies[w][1] /\ m \in Messages
    <2>1. replies[w] \in Seq(Messages)
      BY DEF PoolTypeOK, Messages
    <2> QED
      BY <2>1, <1>0, <1>1, HeadTailProperties, EmptySeq
  <1>4. m = "complete" => t \in finished
    <2>1. 1 \in 1 .. Len(replies[w])
      BY <1>3
    <2> QED
      BY <1>1, <1>3, <2>1 DEF WorkerPorts
  <1>5. inbox' \in [Tasks -> Seq(Messages)] /\ \A u \in Tasks \ {t} : inbox'[u] = inbox[u]
    BY <1>1, <1>2, <1>3, InboxAdds
  <1>6. /\ Answered(t)' <=> m \in Terminal
        /\ \A u \in Tasks \ {t} : Answered(u)' <=> Answered(u)
        /\ \A i, j \in 1 .. Len(inbox'[t]) :
               inbox'[t][i] \in Terminal /\ inbox'[t][j] \in Terminal => i = j
        /\ \A i \in 1 .. Len(inbox'[t]) : inbox'[t][i] = "complete" => t \in finished
    <2> HIDE DEF PoolInv
    <2>1. PoolTypeOK /\ Settled /\ t \in Tasks /\ m \in Messages
          /\ inbox' = [inbox EXCEPT ![t] = Append(@, m)] /\ (m \in Terminal => ~Answered(t))
      BY <1>1, <1>2, <1>3 DEF PoolInv
    <2>2. Answered(t)' <=> Answered(t) \/ m \in Terminal
      BY <2>1, InboxAnswers
    <2>3. \A u \in Tasks \ {t} : Answered(u)' <=> Answered(u)
      BY <2>1, InboxAnswers
    <2>4. \A i, j \in 1 .. Len(inbox'[t]) :
               inbox'[t][i] \in Terminal /\ inbox'[t][j] \in Terminal => i = j
      BY <2>1, InboxAnswers
    <2>5. \A i \in 1 .. Len(inbox'[t]) :
               inbox'[t][i] = "complete" =>
                   m = "complete" \/ \E j \in 1 .. Len(inbox[t]) : inbox[t][j] = "complete"
      BY <2>1, InboxAnswers
    <2>6. \A i \in 1 .. Len(inbox'[t]) : inbox'[t][i] = "complete" => t \in finished
      BY <2>1, <2>5, <1>4 DEF Truthful, PoolInv
    <2> QED
      BY <1>2, <2>2, <2>3, <2>4, <2>6
  <1>7. Truthful'
    BY <1>1, <1>5, <1>6 DEF Truthful
  <1>8. CASE m \in Terminal
    <2>1. /\ replies' = [replies EXCEPT ![w] = <<>>] /\ isolate' = ClosePort(w)
          /\ ProcessQueue(queue, available \cup {w}, cur, mail)
      BY <1>0, <1>8 DEF Forward
    <2>2. mail[w] = NoTask /\ isolate[w].phase # "work"
      BY <1>1, <1>3, <1>8 DEF WorkerPorts
    <2>3. /\ isolate' \in [Workers -> {Idle, Dead} \cup
                              [phase : {"work", "failing"}, task : Tasks, open : BOOLEAN]]
          /\ \A v \in Workers \ {w} : isolate'[v] = isolate[v]
          /\ ~isolate'[w].open /\ isolate'[w].phase = isolate[w].phase
      <3> DEFINE r == [isolate[w] EXCEPT !.open = FALSE]
      <3>1. isolate' = [isolate EXCEPT ![w] = r]
        BY <2>1 DEF ClosePort
      <3>2. CASE isolate[w] \in {Idle, Dead}
        <4>1. r = isolate[w]
          <5>1. /\ Idle \in [phase : {"idle"}, task : {NoTask}, open : {FALSE}]
                /\ Dead \in [phase : {"dead"}, task : {NoTask}, open : {FALSE}]
            BY DEF Idle, Dead
          <5>2. PICK p : isolate[w] \in [phase : {p}, task : {NoTask}, open : {FALSE}]
            BY <3>2, <5>1
          <5>3. r \in [phase : {p}, task : {NoTask}, open : {FALSE}]
            BY <5>2
          <5> QED
            BY <5>2, <5>3
        <4> QED
          BY <3>1, <3>2, <4>1 DEF PoolTypeOK, Idle, Dead
      <3>3. CASE isolate[w] \in [phase : {"work", "failing"}, task : Tasks, open : BOOLEAN]
        <4>1. /\ r \in [phase : {"work", "failing"}, task : Tasks, open : BOOLEAN]
              /\ ~r.open /\ r.phase = isolate[w].phase
          BY <3>3
        <4> HIDE DEF r
        <4> QED
          BY <3>1, <4>1 DEF PoolTypeOK
      <3> QED
        BY <3>2, <3>3 DEF PoolTypeOK
    <2>4. /\ cur \in [Workers -> Tasks \cup {NoTask}] /\ cur[w] = NoTask
          /\ \A v \in Workers \ {w} : cur[v] = current[v] /\ current[v] # t
      BY <1>1, PoolAssumption DEF PoolTypeOK, OnePlace, Holds
    <2> HIDE DEF cur
    <2>5. replies' \in [Workers -> Seq(Messages)] /\ replies'[w] = <<>>
          /\ \A v \in Workers \ {w} : replies'[v] = replies[v]
      <3>1. <<>> \in Seq(Messages)
        BY EmptySeq
      <3> QED
        BY <2>1, <3>1 DEF PoolTypeOK, Messages
    <2>6. ReadyToHandOut(queue, available \cup {w}, cur, mail)
      <3>1. /\ queue \in Seq(Tasks) /\ Distinct(queue) /\ available \cup {w} \subseteq Workers
            /\ mail \in [Workers -> Tasks \cup {NoTask}]
        BY DEF PoolTypeOK, OnePlace
      <3>2. NoTask \notin Members(queue)
        BY <3>1, PoolAssumption, ElementOfSeq DEF Members
      <3>3. \A v \in Workers :
                /\ v \in available \cup {w} => cur[v] = NoTask /\ v \notin respawning' \cup lost'
                /\ v \in respawning' => cur[v] = NoTask /\ v \notin lost'
                /\ v \in lost'       => cur[v] = NoTask
                /\ v \in (available \cup {w}) \cup respawning' \cup lost' \/ cur[v] # NoTask
                /\ cur[v] \notin Members(queue)
        BY <1>1, <1>2, <2>4, <3>2 DEF WorkerPlaces, OnePlace, Holds
      <3>4. \A u, v \in Workers : cur[v] # NoTask /\ cur[u] = cur[v] => u = v
        BY <2>4 DEF OnePlace, Holds
      <3>5. ASSUME NEW v \in Workers
            PROVE  /\ mail[v] # NoTask => mail[v] = cur[v] /\ replies'[v] = <<>> /\ ~isolate'[v].open
                   /\ isolate'[v].open => isolate'[v].task = cur[v] /\ cur[v] # NoTask
                   /\ isolate'[v].phase = "work" => isolate'[v].open
                   /\ isolate'[v].phase = "work" =>
                          \A i \in 1 .. Len(replies'[v]) : replies'[v][i] \notin Terminal
                   /\ replies'[v] # <<>> => cur[v] # NoTask
                   /\ \A i \in 1 .. Len(replies'[v]) :
                          replies'[v][i] = "complete" => cur[v] \in finished'
                   /\ strays'[v] \cap Segmented = {}
        <4>1. strays'[v] \cap Segmented = {}
          BY <1>1 DEF WorkerPorts
        <4>2. CASE v = w
          BY <4>1, <4>2, <2>2, <2>3, <2>5, EmptySeq
        <4>3. CASE v # w
          <5>1. isolate[v].open => isolate[v].task # NoTask
            BY PoolAssumption DEF PoolTypeOK, Idle, Dead
          <5>2. /\ cur[v] = current[v] /\ replies'[v] = replies[v] /\ isolate'[v] = isolate[v]
                /\ finished' = finished
            BY <4>3, <1>1, <2>3, <2>4, <2>5
          <5> QED
            BY <4>1, <5>1, <5>2 DEF WorkerPorts, Holds
        <4> QED
          BY <4>2, <4>3
      <3> QED
        BY <2>4, <3>1, <3>3, <3>4, <3>5 DEF ReadyToHandOut
    <2>7. /\ queue' \in Seq(Tasks) /\ available' \subseteq Workers
          /\ current' \in [Workers -> Tasks \cup {NoTask}]
          /\ mail' \in [Workers -> Tasks \cup {NoTask}]
          /\ WorkerPlaces' /\ WorkerPorts' /\ OnePlace'
          /\ \A u \in Tasks :
                 Waits(u)' <=> (u \in Members(queue) \/ \E v \in Workers : cur[v] = u)
      BY <2>1, <2>6, HandOutKeeps
    <2>8. ~Waits(t)' /\ \A u \in Tasks \ {t} : Waits(u)' <=> Waits(u)
      <3>1. t \notin Members(queue) /\ \A v \in Workers : cur[v] # t
        BY <1>1, <2>4 DEF OnePlace
      <3>2. \A u \in Tasks \ {t} : (\E v \in Workers : cur[v] = u) <=> (\E v \in Workers : current[v] = u)
        <4> SUFFICES ASSUME NEW u \in Tasks \ {t}, NEW v \in Workers
                     PROVE  cur[v] = u <=> current[v] = u
          OBVIOUS
        <4> QED
          BY <1>1, <2>4, PoolAssumption
      <3> QED
        BY <1>2, <2>7, <3>1, <3>2 DEF Waits
    <2>9. PoolTypeOK'
      BY <1>1, <1>5, <2>3, <2>5, <2>7 DEF PoolTypeOK, Messages
    <2>10. NothingBeforeReady'
      BY <1>1, <1>2 DEF NothingBeforeReady
    <2>11. Settled'
      <3>1. ASSUME NEW u \in Tasks \ {t} PROVE Settled!(u)'
        <4>1. /\ inbox'[u] = inbox[u] /\ (Answered(u)' <=> Answered(u)) /\ (Waits(u)' <=> Waits(u))
              /\ caller'[u] = caller[u] /\ flag'[u] = flag[u]
          BY <1>1, <1>5, <1>6, <2>8, <3>1
        <4> QED
          BY <4>1 DEF Settled
      <3>2. Settled!(t)'
        BY <1>1, <1>2, <1>6, <1>8, <2>8
      <3> QED
        BY <3>1, <3>2 DEF Settled
    <2> QED
      BY <1>7, <2>7, <2>9, <2>10, <2>11
  <1>9. CASE m \notin Terminal
    <2>1. /\ replies' = [replies EXCEPT ![w] = Tail(replies[w])]
          /\ UNCHANGED <<isolate, queue, available, current, mail>>
      BY <1>0, <1>9 DEF Forward
    <2>2. /\ Tail(replies[w]) \in Seq(Messages) /\ Len(Tail(replies[w])) = Len(replies[w]) - 1
          /\ \A i \in 1 .. Len(Tail(replies[w])) : Tail(replies[w])[i] = replies[w][i + 1]
      BY <1>1, <1>3, HeadTailProperties
    <2>3. /\ replies' \in [Workers -> Seq(Messages)] /\ replies'[w] = Tail(replies[w])
          /\ \A v \in Workers \ {w} : replies'[v] = replies[v]
      BY <2>1, <2>2 DEF PoolTypeOK, Messages
    <2>4. \A i \in 1 .. Len(replies'[w]) : /\ replies'[w][i] = replies[w][i + 1]
                                           /\ i + 1 \in 1 .. Len(replies[w])
      BY <1>3, <2>2, <2>3
    <2>5. PoolTypeOK'
      BY <1>1, <1>5, <2>1, <2>3 DEF PoolTypeOK, Messages
    <2>6. NothingBeforeReady' /\ WorkerPlaces' /\ OnePlace'
      BY <1>1, <1>2, <2>1 DEF NothingBeforeReady, WorkerPlaces, OnePlace, Holds
    <2>7. WorkerPorts'
      <3> SUFFICES ASSUME NEW v \in Workers PROVE WorkerPorts!(v)'
        BY DEF WorkerPorts
      <3>1. CASE v # w
        BY <3>1, <1>1, <2>1, <2>3 DEF WorkerPorts, Holds
      <3>2. CASE v = w
        <4>1. \A i \in 1 .. Len(replies'[w]) :
                  /\ isolate[w].phase = "work" => replies'[w][i] \notin Terminal
                  /\ replies'[w][i] = "complete" => current[w] \in finished
          BY <2>4 DEF WorkerPorts
        <4> QED
          BY <3>2, <4>1, <1>1, <2>1 DEF WorkerPorts, Holds
      <3> QED
        BY <3>1, <3>2
    <2>8. \A u \in Tasks : Waits(u)' <=> Waits(u)
      BY <2>1 DEF Waits
    <2>9. Settled'
      <3>1. ASSUME NEW u \in Tasks \ {t} PROVE Settled!(u)'
        <4>1. /\ inbox'[u] = inbox[u] /\ (Answered(u)' <=> Answered(u)) /\ (Waits(u)' <=> Waits(u))
              /\ caller'[u] = caller[u] /\ flag'[u] = flag[u]
          BY <1>1, <1>5, <1>6, <2>8, <3>1
        <4> QED
          BY <4>1 DEF Settled
      <3>2. Settled!(t)'
        <4>1. flag[t] # "cancelled"
          BY <1>2 DEF Settled
        <4> QED
          BY <4>1, <1>1, <1>2, <1>6, <1>9, <2>8
      <3> QED
        BY <3>1, <3>2 DEF Settled
    <2> QED
      BY <1>7, <2>5, <2>6, <2>7, <2>9
  <1> QED
    BY <1>8, <1>9

\* The user cancels a task.
LEMMA CancelKeeps ==
    ASSUME PoolInv, NEW t \in Tasks, Cancel(t)
    PROVE  PoolInv'
  <1>1. CancelTask(t) /\ UNCHANGED <<init, caller, available, lost, finished, faults, deaths>>
    BY DEF Cancel
  <1>2. caller' \in [Tasks -> {"none", "preparing", "listening", "done", "failed"}]
    BY <1>1 DEF PoolInv, PoolTypeOK
  <1> QED
    BY <1>1, <1>2, CancelTaskKeeps

\* The caller that got its answer closes its task.
LEMMA CallerReturnsKeeps ==
    ASSUME PoolInv, NEW t \in Tasks, CallerReturns(t)
    PROVE  PoolInv'
  <1>1. /\ caller[t] \in {"done", "failed"} /\ caller' = [caller EXCEPT ![t] = "none"]
        /\ CancelTask(t) /\ UNCHANGED <<init, available, lost, finished, faults, deaths>>
    BY DEF CallerReturns
  <1>2. /\ caller' \in [Tasks -> {"none", "preparing", "listening", "done", "failed"}]
        /\ \A u \in Tasks : caller'[u] = IF u = t THEN "none" ELSE caller[u]
    BY <1>1 DEF PoolInv, PoolTypeOK
  <1>3. \A u \in Tasks : (caller'[u] = "listening") = (caller[u] = "listening")
    BY <1>1, <1>2
  <1>4. \A u \in Tasks : caller'[u] = "done" => caller[u] = "done"
    BY <1>1, <1>2
  <1>5. caller[t] # "listening"
    BY <1>1
  <1> QED
    BY <1>1, <1>2, <1>3, <1>4, <1>5, CancelTaskKeeps

-----------------------------------------------------------------------------
(* The invariant.                                                          *)

\* Before the first submission everything is empty.
LEMMA PoolInvAtInit == PoolInit => PoolInv
  <1> SUFFICES ASSUME PoolInit PROVE PoolInv
    OBVIOUS
  <1> USE DEF PoolInit
  <1>1. /\ \A t \in Tasks : inbox[t] = <<>> /\ Len(inbox[t]) = 0 /\ caller[t] = "none"
        /\ \A w \in Workers : replies[w] = <<>> /\ Len(replies[w]) = 0 /\ current[w] = NoTask
        /\ Members(queue) = {} /\ Len(queue) = 0 /\ <<>> \in Seq(Messages)
    BY EmptySeq DEF Members
  <1>2. PoolTypeOK
    <2>1. /\ replies \in [Workers -> Seq(Messages)] /\ inbox \in [Tasks -> Seq(Messages)]
          /\ queue \in Seq(Tasks)
      BY <1>1, EmptySeq
    <2> QED
      BY <2>1, PoolAssumption DEF PoolTypeOK, Messages
  <1>3. NothingBeforeReady /\ WorkerPlaces
    BY <1>1 DEF NothingBeforeReady, WorkerPlaces, Holds
  <1>4. WorkerPorts
    BY <1>1 DEF WorkerPorts, Holds, Dead
  <1>5. OnePlace
    BY <1>1 DEF OnePlace, Distinct, Holds
  <1>6. Settled
    BY <1>1, PoolAssumption DEF Settled, Waits, Answered
  <1>7. Truthful
    BY <1>1 DEF Truthful
  <1> QED
    BY <1>2, <1>3, <1>4, <1>5, <1>6, <1>7 DEF PoolInv

\* Every step of the pool keeps the invariant.
LEMMA PoolStepKeeps ==
    ASSUME PoolInv, [PoolNext]_poolVars
    PROVE  PoolInv'
  <1>1. CASE InitSucceeds
    BY <1>1, InitSucceedsKeeps
  <1>2. CASE InitFails
    BY <1>2, InitFailsKeeps
  <1>3. ASSUME NEW t \in Tasks, Submit(t) PROVE PoolInv'
    BY <1>3, SubmitKeeps
  <1>4. ASSUME NEW t \in Tasks, Cancel(t) PROVE PoolInv'
    BY <1>4, CancelKeeps
  <1>5. ASSUME NEW t \in Tasks, Resume(t) PROVE PoolInv'
    BY <1>5, ResumeKeeps
  <1>6. ASSUME NEW t \in Tasks, Deliver(t) PROVE PoolInv'
    BY <1>6, DeliverKeeps
  <1>7. ASSUME NEW t \in Tasks, CallerReturns(t) PROVE PoolInv'
    BY <1>7, CallerReturnsKeeps
  <1>8. ASSUME NEW w \in Workers, Take(w) PROVE PoolInv'
    BY <1>8, TakeKeeps
  <1>9. ASSUME NEW w \in Workers, Progress(w) PROVE PoolInv'
    BY <1>9, ProgressKeeps
  <1>10. ASSUME NEW w \in Workers, Complete(w) PROVE PoolInv'
    BY <1>10, CompleteKeeps
  <1>11. ASSUME NEW w \in Workers, Fail(w) PROVE PoolInv'
    BY <1>11, FailKeeps
  <1>12. ASSUME NEW w \in Workers, Forward(w) PROVE PoolInv'
    BY <1>12, ForwardKeeps
  <1>13. ASSUME NEW w \in Workers, HearObituary(w) PROVE PoolInv'
    BY <1>13, HearObituaryKeeps
  <1>14. ASSUME NEW w \in Workers, Respawn(w) PROVE PoolInv'
    BY <1>14, RespawnKeeps
  <1>15. ASSUME NEW w \in Workers, RespawnFails(w) PROVE PoolInv'
    BY <1>15, RespawnFailsKeeps
  <1>16. ASSUME NEW w \in Workers, WorkerDies(w) PROVE PoolInv'
    BY <1>16, WorkerDiesKeeps
  <1>17. ASSUME NEW w \in Workers, NEW t \in Tasks, StrayEnds(w, t) PROVE PoolInv'
    BY <1>17, StrayEndsKeeps
  <1>18. CASE UNCHANGED poolVars
    <2>1. UNCHANGED <<init, caller, flag, queue, available, current, respawning, lost,
                      isolate, strays, mail, replies, inbox, obituary, finished, faults, deaths>>
      BY <1>18 DEF poolVars
    <2>2. PoolTypeOK' /\ NothingBeforeReady' /\ WorkerPlaces' /\ WorkerPorts'
      BY <2>1 DEF PoolInv, PoolTypeOK, NothingBeforeReady, WorkerPlaces, WorkerPorts, Holds
    <2>3. OnePlace' /\ Settled' /\ Truthful'
      BY <2>1 DEF PoolInv, OnePlace, Settled, Waits, Answered, Truthful, Holds
    <2> QED
      BY <2>2, <2>3 DEF PoolInv
  <1> QED
    BY <1>1, <1>2, <1>3, <1>4, <1>5, <1>6, <1>7, <1>8, <1>9, <1>10, <1>11, <1>12, <1>13,
       <1>14, <1>15, <1>16, <1>17, <1>18 DEF PoolNext, PoolStep

\* Wherever the pool gets to, its workers and submissions are in the places the
\* inductive invariant allows.
THEOREM PoolInvariant == PoolSpec => []PoolInv
  <1>1. PoolInit => PoolInv
    BY PoolInvAtInit
  <1>2. PoolInv /\ [PoolNext]_poolVars => PoolInv'
    BY PoolStepKeeps
  <1> QED
    BY <1>1, <1>2, PTL DEF PoolSpec

\* The variables of the pool keep their types.
THEOREM PoolTypeCorrect == PoolSpec => []PoolTypeOK
  <1>1. PoolInv => PoolTypeOK
    BY DEF PoolInv
  <1> QED
    BY <1>1, PoolInvariant, PTL

\* No worker index is dropped or counted twice, whatever fails: each is free, has
\* a task, is being replaced or is lost, and none is free while a task is queued.
THEOREM WorkersAreAccountedFor == PoolSpec => []WorkersAccounted
  <1>1. ASSUME PoolInv PROVE WorkersAccounted
    <2> USE <1>1 DEF PoolInv
    <2>1. ASSUME init = "ready", NEW w \in Workers
          PROVE  Cardinality({s \in {"free", "busy", "respawning", "lost"} :
                      \/ s = "free" /\ w \in available
                      \/ s = "busy" /\ current[w] # NoTask
                      \/ s = "respawning" /\ w \in respawning
                      \/ s = "lost" /\ w \in lost}) = 1
      <3> DEFINE S == {s \in {"free", "busy", "respawning", "lost"} :
                          \/ s = "free" /\ w \in available
                          \/ s = "busy" /\ current[w] # NoTask
                          \/ s = "respawning" /\ w \in respawning
                          \/ s = "lost" /\ w \in lost}
      <3>1. \E s : S = {s}
        <4>1. CASE w \in available
          <5>1. S = {"free"}
            BY <4>1 DEF WorkerPlaces, Holds
          <5> QED
            BY <5>1
        <4>2. CASE w \in respawning
          <5>1. S = {"respawning"}
            BY <4>2 DEF WorkerPlaces, Holds
          <5> QED
            BY <5>1
        <4>3. CASE w \in lost
          <5>1. S = {"lost"}
            BY <4>3 DEF WorkerPlaces, Holds
          <5> QED
            BY <5>1
        <4>4. CASE Holds(w)
          <5>1. S = {"busy"}
            BY <4>4 DEF WorkerPlaces, Holds
          <5> QED
            BY <5>1
        <4> QED
          BY <2>1, <4>1, <4>2, <4>3, <4>4 DEF WorkerPlaces
      <3> HIDE DEF S
      <3>2. Cardinality(S) = 1
        BY <3>1, FS_Singleton
      <3> QED
        BY <3>2 DEF S
    <2>2. queue # <<>> => available = {}
      BY DEF WorkerPlaces
    <2> QED
      BY <2>1, <2>2 DEF WorkersAccounted
  <1> QED
    BY <1>1, PoolInvariant, PTL

\* A caller is told "complete" only for files downloaded for this submission.
THEOREM DoneOnlyWhenDone == PoolSpec => []DoneMeansDone
  <1>1. PoolInv => DoneMeansDone
    BY DEF PoolInv, Truthful, DoneMeansDone
  <1> QED
    BY <1>1, PoolInvariant, PTL

\* A submission is queued, with one worker, or answered once; nobody works for one
\* that was cancelled, and the segments of an episode are written by the worker it
\* is with.
THEOREM EachIsAnsweredOnce == PoolSpec => []AnsweredOnce
  <1>1. ASSUME PoolInv PROVE AnsweredOnce
    <2> USE <1>1 DEF PoolInv
    <2> SUFFICES ASSUME NEW t \in Tasks PROVE AnsweredOnce!(t)
      BY DEF AnsweredOnce
    <2> DEFINE answers == {i \in 1 .. Len(inbox[t]) : inbox[t][i] \in Terminal}
               holders == {w \in Workers : current[w] = t}
               places  == {i \in 1 .. Len(queue) : queue[i] = t}
    <2>1. /\ answers = {} \/ \E i : answers = {i}
          /\ holders = {} \/ \E w : holders = {w}
          /\ places = {} \/ \E i : places = {i}
      <3>1. \A i, j \in answers : i = j
        BY DEF Settled
      <3>2. \A v, w \in holders : v = w
        BY PoolAssumption DEF OnePlace, Holds
      <3>3. \A i, j \in places : i = j
        BY DEF OnePlace, Distinct
      <3> HIDE DEF answers, holders, places
      <3> QED
        BY <3>1, <3>2, <3>3
    <2>2. /\ Answered(t) <=> answers # {}
          /\ t \in Members(queue) <=> places # {}
          /\ (\E w \in Workers : current[w] = t) <=> holders # {}
      BY DEF Answered, Members
    <2>3. holders = {} \/ places = {}
      BY <2>2 DEF OnePlace
    <2>4. /\ t \in Listening <=> caller[t] = "listening"
          /\ t \in Listening => answers # {} \/ holders # {} \/ places # {}
          /\ holders # {} \/ places # {} => answers = {} /\ flag[t] # "cancelled"
          /\ t \notin Listening => answers = {} /\ holders = {} /\ places = {}
      BY <2>2, EmptySeq DEF Listening, Settled, Waits
    <2>5. ASSUME NEW w \in Workers, isolate[w].phase = "work", isolate[w].task = t
          PROVE  w \in holders
      BY <2>5 DEF WorkerPorts
    <2>6. flag[t] = "cancelled" => \A w \in Workers : isolate[w].phase = "work" => isolate[w].task # t
      BY <2>4, <2>5
    <2>7. t \in Segmented => \A w \in Workers : Writes(w, t) => holders = {w}
      <3> SUFFICES ASSUME t \in Segmented, NEW w \in Workers, Writes(w, t) PROVE holders = {w}
        OBVIOUS
      <3>1. w \in holders
        BY <2>5 DEF Writes, WorkerPorts
      <3> HIDE DEF holders
      <3> QED
        BY <3>1, <2>1
    <2> HIDE DEF answers, holders, places
    <2>8. t \in Listening => Cardinality(answers) + Cardinality(holders) + Cardinality(places) = 1
      <3>1. Cardinality({}) = 0 /\ \A x : Cardinality({x}) = 1
        BY FS_EmptySet, FS_Singleton
      <3>2. /\ Cardinality(answers) = IF answers = {} THEN 0 ELSE 1
            /\ Cardinality(holders) = IF holders = {} THEN 0 ELSE 1
            /\ Cardinality(places) = IF places = {} THEN 0 ELSE 1
        BY <2>1, <3>1
      <3> QED
        BY <2>3, <2>4, <3>2
    <2> QED
      BY <2>4, <2>6, <2>7, <2>8 DEF answers, holders, places
  <1> QED
    BY <1>1, PoolInvariant, PTL

-----------------------------------------------------------------------------
(* The pool implements DownloadTasks.                                      *)

\* What the caller of one submission sees of it.
StateOf(c, f, box) ==
    LET answers == {m \in Terminal : \E i \in 1 .. Len(box) : box[i] = m}
    IN  CASE c = "none" -> "idle"
          [] c = "done" -> "complete"
          [] c = "failed" -> "error"
          [] c = "preparing" -> IF f = "cancelled" THEN "doomed" ELSE "pending"
          [] c = "listening" -> IF answers = {} THEN "pending" ELSE CHOOSE m \in answers : TRUE

\* A caller that listens sees the one answer in its inbox, if there is one.
LEMMA ListenerSees ==
    ASSUME NEW f, NEW box, NEW n, n = Len(box),
           \A i, j \in 1 .. n : box[i] \in Terminal /\ box[j] \in Terminal => i = j
    PROVE  /\ (\A i \in 1 .. n : box[i] \notin Terminal) => StateOf("listening", f, box) = "pending"
           /\ \A i \in 1 .. n : box[i] \in Terminal => StateOf("listening", f, box) = box[i]
  <1> DEFINE answers == {m \in Terminal : \E i \in 1 .. Len(box) : box[i] = m}
  <1>1. StateOf("listening", f, box) = IF answers = {} THEN "pending" ELSE CHOOSE m \in answers : TRUE
    BY DEF StateOf
  <1>2. ASSUME NEW i \in 1 .. n, box[i] \in Terminal PROVE answers = {box[i]}
    BY <1>2
  <1>3. (\A i \in 1 .. n : box[i] \notin Terminal) => answers = {}
    OBVIOUS
  <1> QED
    BY <1>1, <1>2, <1>3

\* The state of a submission depends on its caller, its flag and its inbox.
LEMMA TaskStates ==
    /\ TaskState = [t \in Tasks |-> StateOf(caller[t], flag[t], inbox[t])]
    /\ TaskState' = [t \in Tasks |-> StateOf(caller'[t], flag'[t], inbox'[t])]
  BY DEF TaskState, StateOf

\* A step that concerns one submission changes the state of that one at most.
LEMMA OneChanges ==
    ASSUME NEW t \in Tasks, NEW s, StateOf(caller'[t], flag'[t], inbox'[t]) = s,
           \A u \in Tasks \ {t} :
               caller'[u] = caller[u] /\ flag'[u] = flag[u] /\ inbox'[u] = inbox[u]
    PROVE  TaskState' = [TaskState EXCEPT ![t] = s]
  BY TaskStates

\* A cancelled submission fails now or when the pool is up; one whose answer is
\* decided is not affected.
LEMMA CancelImplements ==
    ASSUME PoolInv, NEW t \in Tasks, Cancel(t)
    PROVE  Promise!Cancel(t) \/ TaskState' = TaskState
  <1> USE DEF PoolInv
  <1>1. CancelTask(t) /\ caller' = caller
    BY DEF Cancel
  <1>2. \A u \in Tasks \ {t} : flag'[u] = flag[u]
    BY <1>1 DEF CancelTask, PoolTypeOK
  <1>3. CASE inbox' = [inbox EXCEPT ![t] = Append(@, "error")] /\ Waits(t)
    <2>1. ~Answered(t) /\ caller[t] = "listening"
      BY <1>3 DEF Settled
    <2>2. /\ Len(inbox[t]) \in Nat /\ Len(inbox'[t]) = Len(inbox[t]) + 1
          /\ \A i \in 1 .. Len(inbox[t]) : inbox'[t][i] = inbox[t][i]
          /\ inbox'[t][Len(inbox[t]) + 1] = "error"
          /\ \A u \in Tasks \ {t} : inbox'[u] = inbox[u]
      BY <1>3, InboxAdds DEF Messages, Terminal
    <2>3. \A i, j \in 1 .. Len(inbox'[t]) :
               inbox'[t][i] \in Terminal /\ inbox'[t][j] \in Terminal => i = j
      BY <2>1, <2>2 DEF Answered
    <2>4. StateOf(caller'[t], flag'[t], inbox'[t]) = "error"
      <3>1. Len(inbox[t]) + 1 \in 1 .. Len(inbox'[t]) /\ "error" \in Terminal
        BY <2>2 DEF Terminal
      <3>2. StateOf("listening", flag'[t], inbox'[t]) = inbox'[t][Len(inbox[t]) + 1]
        <4>1. PICK box, f : box = inbox'[t] /\ f = flag'[t]
          OBVIOUS
        <4>2. \A i, j \in 1 .. Len(box) : box[i] \in Terminal /\ box[j] \in Terminal => i = j
          BY <2>3, <4>1
        <4>3. \A i \in 1 .. Len(box) : box[i] \in Terminal => StateOf("listening", f, box) = box[i]
          BY <4>2, ListenerSees
        <4> QED
          BY <2>2, <3>1, <4>1, <4>3
      <3> QED
        BY <1>1, <2>1, <2>2, <3>2
    <2>5. TaskState[t] = "pending"
      <3>1. StateOf("listening", flag[t], inbox[t]) = "pending"
        BY <2>1, ListenerSees DEF Answered, Settled
      <3> QED
        BY <2>1, <3>1, TaskStates
    <2>6. TaskState' = [TaskState EXCEPT ![t] = "error"]
      BY <1>1, <1>2, <2>2, <2>4, OneChanges
    <2> QED
      BY <2>5, <2>6 DEF Promise!Cancel
  <1>4. CASE inbox' = inbox
    <2>1. \/ StateOf(caller'[t], flag'[t], inbox'[t]) = TaskState[t]
          \/ TaskState[t] = "pending" /\ StateOf(caller'[t], flag'[t], inbox'[t]) = "doomed"
      <3>1. caller[t] \in {"none", "preparing", "listening", "done", "failed"}
        BY DEF PoolTypeOK
      <3>2. flag'[t] = IF flag[t] = "absent" THEN "absent" ELSE "cancelled"
        BY <1>1 DEF CancelTask, PoolTypeOK
      <3> QED
        BY <1>1, <1>4, <3>1, <3>2, TaskStates DEF StateOf
    <2>2. TaskState' = [TaskState EXCEPT ![t] = StateOf(caller'[t], flag'[t], inbox'[t])]
      BY <1>1, <1>2, <1>4, OneChanges
    <2> QED
      BY <2>1, <2>2, TaskStates DEF Promise!Cancel
  <1>5. t \in Queued => Waits(t)
    BY DEF Queued, Waits, Members
  <1>6. ASSUME NEW w \in Workers, current[w] = t, Terminate(w)
        PROVE  inbox' = [inbox EXCEPT ![t] = Append(@, "error")] /\ Waits(t)
    BY <1>6 DEF Terminate, Waits
  <1> QED
    BY <1>1, <1>3, <1>4, <1>5, <1>6 DEF CancelTask

\* Handing the next message to the caller does not change what it will be told.
LEMMA DeliverIsInvisible ==
    ASSUME PoolInv, NEW t \in Tasks, Deliver(t)
    PROVE  TaskState' = TaskState
  <1> USE DEF PoolInv
  <1>1. /\ caller[t] = "listening" /\ inbox[t] # <<>> /\ inbox[t] \in Seq(Messages)
        /\ \A i, j \in 1 .. Len(inbox[t]) :
               inbox[t][i] \in Terminal /\ inbox[t][j] \in Terminal => i = j
    BY DEF Deliver, PoolTypeOK, Settled, Messages
  <1>2. /\ Len(inbox[t]) \in Nat \ {0} /\ Head(inbox[t]) = inbox[t][1] /\ 1 \in 1 .. Len(inbox[t])
        /\ Len(Tail(inbox[t])) = Len(inbox[t]) - 1
        /\ \A i \in 1 .. Len(Tail(inbox[t])) : Tail(inbox[t])[i] = inbox[t][i + 1]
    BY <1>1, HeadTailProperties, EmptySeq
  <1>3. \A i \in 1 .. Len(inbox[t]) :
            inbox[t][i] \in Terminal => StateOf("listening", flag[t], inbox[t]) = inbox[t][i]
    BY <1>1, ListenerSees
  <1>4. CASE Head(inbox[t]) \in Terminal
    <2>1. /\ flag' = [flag EXCEPT ![t] = "absent"] /\ inbox' = [inbox EXCEPT ![t] = <<>>]
          /\ caller' = [caller EXCEPT ![t] = IF Head(inbox[t]) = "complete" THEN "done" ELSE "failed"]
      BY <1>4 DEF Deliver
    <2>2. /\ caller'[t] = IF Head(inbox[t]) = "complete" THEN "done" ELSE "failed"
          /\ \A u \in Tasks \ {t} :
                 caller'[u] = caller[u] /\ flag'[u] = flag[u] /\ inbox'[u] = inbox[u]
      BY <2>1 DEF PoolTypeOK
    <2>3. StateOf(caller'[t], flag'[t], inbox'[t]) = Head(inbox[t])
      BY <1>4, <2>2 DEF StateOf, Terminal
    <2>4. TaskState[t] = Head(inbox[t])
      BY <1>1, <1>2, <1>3, <1>4, TaskStates
    <2>5. TaskState' = [TaskState EXCEPT ![t] = TaskState[t]]
      BY <2>2, <2>3, <2>4, OneChanges
    <2> QED
      BY <2>5, TaskStates
  <1>5. CASE Head(inbox[t]) \notin Terminal
    <2>1. inbox' = [inbox EXCEPT ![t] = Tail(@)] /\ UNCHANGED <<flag, caller>>
      BY <1>5 DEF Deliver
    <2>2. /\ inbox'[t] = Tail(inbox[t]) /\ \A u \in Tasks \ {t} : inbox'[u] = inbox[u]
      BY <2>1 DEF PoolTypeOK
    <2>3. PICK box, f : box = Tail(inbox[t]) /\ f = flag[t]
      OBVIOUS
    <2>4. /\ \A i \in 1 .. Len(box) : box[i] = inbox[t][i + 1] /\ i + 1 \in 1 .. Len(inbox[t])
          /\ \A i \in 1 .. Len(inbox[t]) : i # 1 => /\ i - 1 \in 1 .. Len(box)
                                                    /\ box[i - 1] = inbox[t][i]
      BY <1>2, <2>3
    <2>5. \A i, j \in 1 .. Len(box) : box[i] \in Terminal /\ box[j] \in Terminal => i = j
      <3> SUFFICES ASSUME NEW i \in 1 .. Len(box), NEW j \in 1 .. Len(box),
                          box[i] \in Terminal, box[j] \in Terminal
                   PROVE  i = j
        OBVIOUS
      <3>1. i + 1 = j + 1
        BY <1>1, <2>4
      <3> QED
        BY <1>2, <2>3, <3>1
    <2>6. StateOf("listening", f, box) = StateOf("listening", f, inbox[t])
      <3>1. CASE \E i \in 1 .. Len(inbox[t]) : inbox[t][i] \in Terminal
        <4>1. PICK i \in 1 .. Len(inbox[t]) : inbox[t][i] \in Terminal
          BY <3>1
        <4>2. i - 1 \in 1 .. Len(box) /\ box[i - 1] = inbox[t][i]
          BY <1>2, <1>5, <2>4, <4>1
        <4>3. StateOf("listening", f, inbox[t]) = inbox[t][i]
          BY <1>3, <2>3, <4>1
        <4>4. \A j \in 1 .. Len(box) : box[j] \in Terminal => StateOf("listening", f, box) = box[j]
          BY <2>5, ListenerSees
        <4> QED
          BY <4>1, <4>2, <4>3, <4>4
      <3>2. CASE \A i \in 1 .. Len(inbox[t]) : inbox[t][i] \notin Terminal
        <4>1. \A i \in 1 .. Len(box) : box[i] \notin Terminal
          BY <3>2, <2>4
        <4>2. StateOf("listening", f, box) = "pending"
          BY <2>5, <4>1, ListenerSees
        <4>3. StateOf("listening", f, inbox[t]) = "pending"
          BY <1>1, <3>2, ListenerSees
        <4> QED
          BY <4>2, <4>3
      <3> QED
        BY <3>1, <3>2
    <2>7. StateOf(caller'[t], flag'[t], inbox'[t]) = TaskState[t]
      BY <1>1, <2>1, <2>2, <2>3, <2>6, TaskStates
    <2>8. TaskState' = [TaskState EXCEPT ![t] = TaskState[t]]
      BY <2>1, <2>2, <2>7, OneChanges
    <2> QED
      BY <2>8, TaskStates
  <1> QED
    BY <1>4, <1>5

\* A message that the pool puts into the inbox of a submission that waits answers
\* it, or changes nothing for it.
LEMMA InboxImplements ==
    ASSUME PoolInv, NEW t \in Tasks, NEW m \in Messages, Waits(t),
           inbox' = [inbox EXCEPT ![t] = Append(@, m)], UNCHANGED <<caller, flag>>
    PROVE  IF m \in Terminal THEN Promise!Answer(t, m) ELSE TaskState' = TaskState
  <1> USE DEF PoolInv
  <1>1. ~Answered(t) /\ caller[t] = "listening"
    BY DEF Settled
  <1>2. /\ Len(inbox[t]) \in Nat /\ Len(inbox'[t]) = Len(inbox[t]) + 1
        /\ \A i \in 1 .. Len(inbox[t]) : inbox'[t][i] = inbox[t][i]
        /\ inbox'[t][Len(inbox[t]) + 1] = m
        /\ \A u \in Tasks \ {t} : inbox'[u] = inbox[u]
    BY InboxAdds
  <1>3. TaskState[t] = "pending"
    <2>1. StateOf("listening", flag[t], inbox[t]) = "pending"
      BY <1>1, ListenerSees DEF Answered, Settled
    <2> QED
      BY <1>1, <2>1, TaskStates
  <1>4. PICK box, f, n : box = inbox'[t] /\ f = flag[t] /\ n = Len(inbox[t]) + 1
    OBVIOUS
  <1>5. /\ \A i \in 1 .. Len(box) : box[i] \in Terminal => i = n
        /\ box[n] = m /\ n \in 1 .. Len(box)
    BY <1>1, <1>2, <1>4 DEF Answered
  <1>6. \A i, j \in 1 .. Len(box) : box[i] \in Terminal /\ box[j] \in Terminal => i = j
    BY <1>5
  <1>7. StateOf("listening", f, box) = IF m \in Terminal THEN m ELSE "pending"
    <2>1. CASE m \in Terminal
      <3>1. \A i \in 1 .. Len(box) : box[i] \in Terminal => StateOf("listening", f, box) = box[i]
        BY <1>6, ListenerSees
      <3> QED
        BY <1>5, <2>1, <3>1
    <2>2. CASE m \notin Terminal
      <3>1. \A i \in 1 .. Len(box) : box[i] \notin Terminal
        BY <1>5, <2>2
      <3> QED
        BY <1>6, <2>2, <3>1, ListenerSees
    <2> QED
      BY <2>1, <2>2
  <1>8. StateOf(caller'[t], flag'[t], inbox'[t]) = IF m \in Terminal THEN m ELSE "pending"
    BY <1>1, <1>4, <1>7
  <1>9. TaskState' = [TaskState EXCEPT ![t] = IF m \in Terminal THEN m ELSE "pending"]
    BY <1>2, <1>8, OneChanges
  <1> QED
    BY <1>3, <1>9, TaskStates DEF Promise!Answer

\* The pool implements what it promises to its callers: a submission is answered
\* once, and with an error if it was cancelled before its answer was decided.
THEOREM PoolKeepsPromise == PoolSpec => KeepsPromise
  <1>1. PoolInit => Promise!Init
    <2> SUFFICES ASSUME PoolInit PROVE Promise!Init
      OBVIOUS
    <2>1. \A t \in Tasks : StateOf(caller[t], flag[t], inbox[t]) = "idle"
      BY DEF PoolInit, StateOf
    <2> QED
      BY <2>1, TaskStates DEF Promise!Init
  <1>2. PoolInv /\ [PoolNext]_poolVars => [Promise!Next]_TaskState
    <2> SUFFICES ASSUME PoolInv, [PoolNext]_poolVars
                 PROVE  Promise!Next \/ TaskState' = TaskState
      OBVIOUS
    <2> USE DEF PoolInv
    <2>1. ASSUME UNCHANGED <<caller, flag, inbox>> PROVE TaskState' = TaskState
      BY <2>1, TaskStates
    <2>2. ASSUME NEW t \in Tasks, Submit(t) PROVE Promise!Next
      <3>1. /\ caller[t] = "none" /\ flag' = [flag EXCEPT ![t] = "live"] /\ inbox' = inbox
            /\ \E c \in {"preparing", "listening"} : caller' = [caller EXCEPT ![t] = c]
        BY <2>2 DEF Submit
      <3>2. /\ inbox[t] = <<>> /\ flag'[t] = "live" /\ caller'[t] \in {"preparing", "listening"}
            /\ \A u \in Tasks \ {t} : caller'[u] = caller[u] /\ flag'[u] = flag[u]
        BY <3>1 DEF Settled, PoolTypeOK
      <3>3. StateOf("listening", flag'[t], inbox'[t]) = "pending"
        <4>1. PICK box, f : box = inbox'[t] /\ f = flag'[t]
          OBVIOUS
        <4>2. Len(box) = 0
          BY <3>1, <3>2, <4>1, EmptySeq
        <4>3. StateOf("listening", f, box) = "pending"
          BY <4>2, ListenerSees
        <4> QED
          BY <4>1, <4>3
      <3>4. StateOf(caller'[t], flag'[t], inbox'[t]) = "pending"
        BY <3>2, <3>3 DEF StateOf
      <3>5. TaskState' = [TaskState EXCEPT ![t] = "pending"]
        BY <3>1, <3>2, <3>4, OneChanges
      <3>6. TaskState[t] = "idle"
        BY <3>1, TaskStates DEF StateOf
      <3> QED
        BY <3>5, <3>6 DEF Promise!Next, Promise!Submit
    <2>3. ASSUME NEW t \in Tasks, Cancel(t) PROVE Promise!Next \/ TaskState' = TaskState
      BY <2>3, CancelImplements DEF Promise!Next
    <2>4. ASSUME NEW t \in Tasks, CallerReturns(t) PROVE Promise!Next
      <3>1. /\ caller[t] \in {"done", "failed"} /\ caller' = [caller EXCEPT ![t] = "none"]
            /\ CancelTask(t)
        BY <2>4 DEF CallerReturns
      <3>2. \A w \in Workers : current[w] # t
        BY <3>1 DEF Settled, Waits
      <3>3. t \notin Queued
        BY <3>1 DEF Settled, Waits, Members, Queued
      <3>4. inbox' = inbox /\ \A u \in Tasks \ {t} : flag'[u] = flag[u]
        BY <3>1, <3>2, <3>3 DEF CancelTask, PoolTypeOK
      <3>5. caller'[t] = "none" /\ \A u \in Tasks \ {t} : caller'[u] = caller[u]
        BY <3>1 DEF PoolTypeOK
      <3>6. StateOf(caller'[t], flag'[t], inbox'[t]) = "idle"
        BY <3>5 DEF StateOf
      <3>7. TaskState' = [TaskState EXCEPT ![t] = "idle"]
        BY <3>4, <3>5, <3>6, OneChanges
      <3>8. TaskState[t] \in {"complete", "error"}
        BY <3>1, TaskStates DEF StateOf
      <3> QED
        BY <3>7, <3>8 DEF Promise!Next, Promise!Return, Promise!Answers
    <2>5. ASSUME InitFails PROVE Promise!Next
      <3> DEFINE S == {t \in Tasks : caller[t] = "preparing"}
      <3>1. /\ caller' = [t \in Tasks |-> IF t \in S THEN "failed" ELSE caller[t]]
            /\ flag' = [t \in Tasks |-> IF t \in S THEN "absent" ELSE flag[t]]
            /\ inbox' = inbox
        BY <2>5 DEF InitFails
      <3>2. \A t \in Tasks : StateOf(caller'[t], flag'[t], inbox'[t]) =
                                 IF t \in S THEN "error" ELSE StateOf(caller[t], flag[t], inbox[t])
        <4> SUFFICES ASSUME NEW t \in Tasks
                     PROVE  StateOf(caller'[t], flag'[t], inbox'[t]) =
                                IF t \in S THEN "error" ELSE StateOf(caller[t], flag[t], inbox[t])
          OBVIOUS
        <4>1. t \in S => StateOf(caller'[t], flag'[t], inbox'[t]) = "error"
          BY <3>1 DEF StateOf
        <4>2. t \notin S => /\ caller'[t] = caller[t] /\ flag'[t] = flag[t] /\ inbox'[t] = inbox[t]
          BY <3>1
        <4> QED
          BY <4>1, <4>2
      <3>3. \A t \in S : TaskState[t] \in {"pending", "doomed"}
        BY TaskStates DEF StateOf
      <3> HIDE DEF S
      <3>4. TaskState' = [t \in Tasks |-> IF t \in S THEN "error" ELSE TaskState[t]]
        BY <3>2, TaskStates
      <3>5. S \in SUBSET Tasks
        BY DEF S
      <3> QED
        BY <3>3, <3>4, <3>5 DEF Promise!Next, Promise!Refuse
    <2>6. ASSUME NEW t \in Tasks, Resume(t) PROVE Promise!Next \/ TaskState' = TaskState
      <3>1. caller[t] = "preparing" /\ inbox' = inbox
        BY <2>6 DEF Resume
      <3>2. CASE flag[t] = "cancelled"
        <4>1. /\ flag' = [flag EXCEPT ![t] = "absent"] /\ caller' = [caller EXCEPT ![t] = "failed"]
          BY <2>6, <3>2 DEF Resume
        <4>2. /\ caller'[t] = "failed"
              /\ \A u \in Tasks \ {t} : caller'[u] = caller[u] /\ flag'[u] = flag[u]
          BY <4>1 DEF PoolTypeOK
        <4>3. StateOf(caller'[t], flag'[t], inbox'[t]) = "error"
          BY <4>2 DEF StateOf
        <4>4. TaskState' = [TaskState EXCEPT ![t] = "error"]
          BY <3>1, <4>2, <4>3, OneChanges
        <4>5. TaskState[t] = "doomed"
          BY <3>1, <3>2, TaskStates DEF StateOf
        <4> QED
          BY <4>4, <4>5 DEF Promise!Next, Promise!Answer, Promise!Answers
      <3>3. CASE flag[t] # "cancelled"
        <4>1. caller' = [caller EXCEPT ![t] = "listening"] /\ flag' = flag
          BY <2>6, <3>3 DEF Resume
        <4>2. caller'[t] = "listening" /\ \A u \in Tasks \ {t} : caller'[u] = caller[u]
          BY <4>1 DEF PoolTypeOK
        <4>3. Len(inbox[t]) = 0
          BY <3>1, EmptySeq DEF Settled
        <4>4. StateOf("listening", flag[t], inbox[t]) = "pending"
          <5>1. PICK box, f : box = inbox[t] /\ f = flag[t]
            OBVIOUS
          <5>2. Len(box) = 0
            BY <4>3, <5>1
          <5>3. StateOf("listening", f, box) = "pending"
            BY <5>2, ListenerSees
          <5> QED
            BY <5>1, <5>3
        <4>5. StateOf(caller'[t], flag'[t], inbox'[t]) = "pending"
          BY <3>1, <4>1, <4>2, <4>4
        <4>6. TaskState' = [TaskState EXCEPT ![t] = "pending"]
          BY <3>1, <4>1, <4>2, <4>5, OneChanges
        <4>7. TaskState[t] = "pending"
          BY <3>1, <3>3, TaskStates DEF StateOf
        <4> QED
          BY <4>6, <4>7, TaskStates
      <3> QED
        BY <3>2, <3>3
    <2>7. ASSUME NEW w \in Workers, Forward(w) PROVE Promise!Next \/ TaskState' = TaskState
      <3>1. PICK t, m : t = current[w] /\ m = Head(replies[w])
        OBVIOUS
      <3>2. /\ t # NoTask /\ replies[w] # <<>> /\ inbox' = [inbox EXCEPT ![t] = Append(@, m)]
            /\ UNCHANGED <<caller, flag>>
        BY <2>7, <3>1 DEF Forward
      <3>3. t \in Tasks /\ Waits(t)
        BY <3>1, <3>2 DEF PoolTypeOK, Waits
      <3>4. m \in Messages
        <4>1. replies[w] \in Seq(Messages)
          BY DEF PoolTypeOK, Messages
        <4> QED
          BY <3>1, <3>2, <4>1, HeadTailProperties
      <3>5. IF m \in Terminal THEN Promise!Answer(t, m) ELSE TaskState' = TaskState
        BY <3>2, <3>3, <3>4, InboxImplements
      <3> QED
        BY <3>3, <3>5 DEF Promise!Next, Promise!Answers, Terminal
    <2>8. ASSUME NEW w \in Workers, HearObituary(w) PROVE Promise!Next \/ TaskState' = TaskState
      <3>1. UNCHANGED <<caller, flag>>
        BY <2>8 DEF HearObituary
      <3>2. CASE current[w] # NoTask
        <4>1. PICK t : t = current[w]
          OBVIOUS
        <4>2. t \in Tasks /\ Waits(t) /\ inbox' = [inbox EXCEPT ![t] = Append(@, "error")]
          BY <2>8, <3>2, <4>1 DEF HearObituary, Terminate, PoolTypeOK, Waits
        <4>3. "error" \in Messages /\ "error" \in Terminal /\ "error" \in Promise!Answers
          BY DEF Messages, Terminal, Promise!Answers
        <4>4. Promise!Answer(t, "error")
          BY <3>1, <4>2, <4>3, InboxImplements
        <4> QED
          BY <4>2, <4>3, <4>4 DEF Promise!Next
      <3>3. CASE current[w] = NoTask
        BY <2>1, <2>8, <3>1, <3>3 DEF HearObituary
      <3> QED
        BY <3>2, <3>3
    <2>9. ASSUME NEW t \in Tasks, Deliver(t) PROVE TaskState' = TaskState
      BY <2>9, DeliverIsInvisible
    <2>10. ASSUME NEW w \in Workers,
                  \/ Take(w) \/ Progress(w) \/ Complete(w) \/ Fail(w) \/ Respawn(w)
                  \/ RespawnFails(w) \/ WorkerDies(w) \/ \E t \in Tasks : StrayEnds(w, t)
           PROVE  TaskState' = TaskState
      BY <2>1, <2>10 DEF Take, Progress, Complete, Fail, Respawn, RespawnFails, WorkerDies, StrayEnds
    <2>11. CASE InitSucceeds \/ UNCHANGED poolVars
      BY <2>1, <2>11 DEF InitSucceeds, poolVars
    <2> QED
      BY <2>2, <2>3, <2>4, <2>5, <2>6, <2>7, <2>8, <2>9, <2>10, <2>11 DEF PoolNext, PoolStep
  <1> QED
    BY <1>1, <1>2, PoolInvariant, PTL DEF PoolSpec, KeepsPromise, Promise!Spec
=============================================================================
