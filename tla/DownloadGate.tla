---------------------------- MODULE DownloadGate ----------------------------
(***************************************************************************)
(* The gate every download passes before it touches the network            *)
(* (lib/services/download_manager/download_gate.dart).  It bounds how many *)
(* downloads run at once, keeps one source strictly serial, and hands the  *)
(* slots out in the user's manual queue order.                             *)
(*                                                                         *)
(* The Dart methods are synchronous, so acquire, release and the dispatch  *)
(* loop they end with are single steps here.  The start delay before a     *)
(* granted caller resumes is a timer, and so a step of its own.            *)
(*                                                                         *)
(* The list `_waiters' is represented by the index of each waiter in it:   *)
(* `place' is a bijection from the waiting ids to 0 .. n-1.                *)
(***************************************************************************)
EXTENDS Integers, FiniteSets, Sequences

CONSTANTS
    Ids,         \* chapter ids, which are also the download ids
    Sources,     \* keys chapterSourceKey can return
    SourcesOf,   \* SourcesOf[id]: the keys an attempt of id may compute
    Limits,      \* values the "concurrent downloads" setting can take
    Orders,      \* manual orders the user can save, sequences of ids
    NoSource     \* the id is neither waiting nor holding a slot

ASSUME GateAssumption ==
    /\ IsFiniteSet(Ids)
    /\ SourcesOf \in [Ids -> SUBSET Sources]
    /\ Limits \subseteq Nat
    /\ <<>> \in Orders
    /\ Orders \subseteq Seq(Ids)
    /\ NoSource \notin Sources

VARIABLES
    place,           \* _waiters: the index of each waiting id
    source,          \* the source key each id acquired with
    active,          \* _active
    activeSources,   \* _activeSources
    maxConcurrent,   \* _maxConcurrent
    starting,        \* ids granted a slot whose start delay is running
    holding,         \* ids whose acquire has returned and not yet released
    order            \* DownloadQueueOrder.order

gateVars == <<place, source, active, activeSources, maxConcurrent,
              starting, holding, order>>

waiting == DOMAIN place
granted == starting \cup holding

-----------------------------------------------------------------------------
\* The list whose members are S, in increasing order of key.
ListBy(S, key) == [w \in S |-> Cardinality({v \in S : key[v] < key[w]})]

\* rank[order[j]] = j: a later duplicate overwrites an earlier one.
Ranked(o) == {o[j] : j \in 1 .. Len(o)}
Rank(o, id) == CHOOSE j \in 1 .. Len(o) :
                   /\ o[j] = id
                   /\ \A k \in (j + 1) .. Len(o) : o[k] # id

\* Mutant of SortKey: the unranked ids come first, as with a rank of -1.
SortKeyUnrankedFirst(o, pl) == [w \in DOMAIN pl |->
                                   IF w \in Ranked(o) THEN Cardinality(DOMAIN pl) + Rank(o, w)
                                   ELSE pl[w]]

\* The sort key of _reorderWaiters: ids that are not in the saved order come
\* after the ranked ones and keep their current relative order.
SortKey(o, pl) == [w \in DOMAIN pl |->
                      IF w \in Ranked(o) THEN Rank(o, w) ELSE Len(o) + 1 + pl[w]]

Reordered(o, pl) ==
    IF o = <<>> \/ Cardinality(DOMAIN pl) < 2
    THEN pl
    ELSE ListBy(DOMAIN pl, SortKey(o, pl))

\* Mutant of Line: the manual order is never applied.
LineAsIs(o, pl, act, max) == pl

\* The line _dispatch scans: reordered only when there is a slot to grant.
Line(o, pl, act, max) == IF act < max THEN Reordered(o, pl) ELSE pl

\* The waiters the scan does not skip: the first of each idle source.
Eligible(line, src, busy) ==
    {w \in DOMAIN line :
        /\ src[w] \notin busy
        /\ \A v \in DOMAIN line : src[v] = src[w] => line[w] <= line[v]}

\* The scan grants eligible waiters front to back until the slots are out.
Grants(line, src, busy, slots) ==
    LET E == Eligible(line, src, busy)
    IN  {w \in E : Cardinality({v \in E : line[v] < line[w]}) < slots}

\* _dispatch, from the list, the counters and the limit its caller has left.
Dispatch(pl, src, act, busy, max) ==
    LET line == Line(order, pl, act, max)
        G    == Grants(line, src, busy, max - act)
        rest == DOMAIN line \ G
    IN  /\ place' = ListBy(rest, line)
        /\ active' = act + Cardinality(G)
        /\ activeSources' = busy \cup {src[w] : w \in G}
        /\ starting' = starting \cup G

-----------------------------------------------------------------------------
GateInit ==
    /\ place = [w \in {} |-> 0]
    /\ source = [id \in Ids |-> NoSource]
    /\ active = 0
    /\ activeSources = {}
    /\ maxConcurrent = 1
    /\ starting = {}
    /\ holding = {}
    /\ order \in Orders

\* Mutant of Acquire: the new waiter goes to the front.
AcquireAtFront(id, s, m) ==
    /\ id \notin waiting \cup granted
    /\ maxConcurrent' = IF m < 1 THEN 1 ELSE m
    /\ source' = [source EXCEPT ![id] = s]
    /\ Dispatch([w \in waiting \cup {id} |-> IF w = id THEN 0 ELSE place[w] + 1],
                source', active, activeSources, maxConcurrent')
    /\ UNCHANGED <<holding, order>>

\* acquire appends a waiter.  scheduleDownload lets at most one attempt per id
\* call it, so id is neither waiting nor holding.
Acquire(id, s, m) ==
    /\ id \notin waiting \cup granted
    /\ maxConcurrent' = IF m < 1 THEN 1 ELSE m
    /\ source' = [source EXCEPT ![id] = s]
    /\ Dispatch([w \in waiting \cup {id} |->
                    IF w = id THEN Cardinality(waiting) ELSE place[w]],
                source', active, activeSources, maxConcurrent')
    /\ UNCHANGED <<holding, order>>

\* The start delay is over: the waiter's completer completes.
StartTimer(id) ==
    /\ id \in starting
    /\ starting' = starting \ {id}
    /\ holding' = holding \cup {id}
    /\ UNCHANGED <<place, source, active, activeSources, maxConcurrent, order>>

\* Mutant of Release: the counter is not decremented.
ReleaseKeepsSlot(id) ==
    /\ id \in holding
    /\ holding' = holding \ {id}
    /\ source' = [source EXCEPT ![id] = NoSource]
    /\ Dispatch(place, source, active, activeSources \ {source[id]}, maxConcurrent)
    /\ UNCHANGED <<maxConcurrent, order>>

\* Mutant of Release: nobody is woken.
ReleaseSilently(id) ==
    /\ id \in holding
    /\ holding' = holding \ {id}
    /\ source' = [source EXCEPT ![id] = NoSource]
    /\ active' = active - 1
    /\ activeSources' = activeSources \ {source[id]}
    /\ UNCHANGED <<place, starting, maxConcurrent, order>>

\* The finally of a download gives its slot back.
Release(id) ==
    /\ id \in holding
    /\ holding' = holding \ {id}
    /\ source' = [source EXCEPT ![id] = NoSource]
    /\ Dispatch(place, source, IF active > 0 THEN active - 1 ELSE active,
                activeSources \ {source[id]}, maxConcurrent)
    /\ UNCHANGED <<maxConcurrent, order>>

\* The user drags a chapter in the download queue screen.
SetOrder(o) ==
    /\ order' = o
    /\ UNCHANGED <<place, source, active, activeSources, maxConcurrent,
                   starting, holding>>

GateNext ==
    \/ \E id \in Ids : \E s \in SourcesOf[id], m \in Limits : Acquire(id, s, m)
    \/ \E id \in Ids : StartTimer(id)
    \/ \E id \in Ids : Release(id)
    \/ \E o \in Orders : SetOrder(o)

GateSpec == GateInit /\ [][GateNext]_gateVars

\* Timers fire, and every download that got its slot ends and releases it (the
\* finally of downloadChapter).  Nothing makes the user start a download.
GateFairness == \A id \in Ids : WF_gateVars(StartTimer(id)) /\ WF_gateVars(Release(id))

FairGateSpec == GateSpec /\ GateFairness

-----------------------------------------------------------------------------
GateTypeOK ==
    /\ waiting \subseteq Ids
    /\ place \in [waiting -> Nat]
    /\ source \in [Ids -> Sources \cup {NoSource}]
    /\ active \in Nat
    /\ activeSources \subseteq Sources
    /\ maxConcurrent \in Nat \ {0}
    /\ starting \subseteq Ids
    /\ holding \subseteq Ids
    /\ order \in Orders

\* The slot counter counts the downloads that were granted a slot: a release
\* that is missed or made twice would leak or forge slots for the whole session.
SlotsMatchHolders == active = Cardinality(granted)

\* "keeps a single source strictly serial": two downloads of one source never
\* hold a slot together, and a source is marked busy exactly while one does.
SourceSerial ==
    /\ \A a, b \in granted : a # b => source[a] # source[b]
    /\ activeSources = {source[a] : a \in granted}

\* No lost wake-up: a download is kept waiting only for a reason, that every
\* slot is taken or that its own source is busy.
WorkConserving ==
    active < maxConcurrent => \A w \in waiting : source[w] \in activeSources

\* The list and the slots account for every id that acquired and has not
\* released: in one place, once.
QueueAndSlotsApart ==
    /\ \A a, b \in waiting : place[a] = place[b] => a = b
    /\ \A a \in waiting : place[a] < Cardinality(waiting)
    /\ waiting \cap granted = {} /\ starting \cap holding = {}
    /\ \A id \in Ids : source[id] # NoSource <=> id \in waiting \cup granted

\* The inductive invariant: the type, the bookkeeping, and the three facts that
\* make the gate correct.
GateInv ==
    /\ GateTypeOK
    /\ QueueAndSlotsApart
    /\ SlotsMatchHolders
    /\ SourceSerial
    /\ WorkConserving

\* Lowering the limit stops no download but lets none start above it.
GrantsUnderLimit ==
    [][starting' \ starting # {} => active' <= maxConcurrent']_gateVars

\* a comes before b: in the saved order if either is in it, else in the list.
Precedes(o, pl, a, b) ==
    IF {a, b} \cap Ranked(o) # {}
    THEN a \in Ranked(o) /\ (b \in Ranked(o) => Rank(o, a) < Rank(o, b))
    ELSE b \in DOMAIN pl => (a \in DOMAIN pl /\ pl[a] < pl[b])

\* "hands out slots in the user's manual queue order": a download that gets a
\* slot precedes every download that could have had it and is left waiting.
GrantsInQueueOrder ==
    [][\A w \in starting' \ starting, v \in DOMAIN place' :
          (source'[v] = source'[w] \/ source'[v] \notin activeSources')
          => Precedes(order, place, w, v)]_gateVars

\* The gate implements the slots it promises: the start delay, the list and the
\* counters are invisible there.
SlotWants == [id \in Ids |-> IF id \in waiting THEN source[id] ELSE NoSource]
SlotRuns == [id \in Ids |-> IF id \in granted THEN source[id] ELSE NoSource]
Slots == INSTANCE DownloadSlots WITH
    wants <- SlotWants, runs <- SlotRuns, limit <- maxConcurrent
ImplementsSlots == Slots!Spec

\* Every download that waits gets its slot, provided that from some time on there
\* is no saved order: one that moves other chapters up for ever starves it.
EveryWaiterServed ==
    <>[](order = <<>>) => \A id \in Ids : id \in waiting ~> id \in holding
=============================================================================
