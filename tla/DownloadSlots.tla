--------------------------- MODULE DownloadSlots ----------------------------
(***************************************************************************)
(* What the download gate promises, without its queue, counters or order:  *)
(* a request either runs or waits, at most one download of a source runs,  *)
(* no new one starts above the limit, and nothing that could start is left *)
(* waiting.                                                                *)
(***************************************************************************)
EXTENDS Integers, FiniteSets

CONSTANTS Ids, Sources, NoSource

VARIABLES
    wants,    \* the source each waiting download asked for, else NoSource
    runs,     \* the source each running download occupies, else NoSource
    limit     \* the concurrency limit in force

slotVars == <<wants, runs, limit>>

InUse(f) == {id \in Ids : f[id] # NoSource}

\* Move the downloads G from waiting to running.
Fill(w, r, G) ==
    /\ G \subseteq InUse(w)
    /\ wants' = [id \in Ids |-> IF id \in G THEN NoSource ELSE w[id]]
    /\ runs' = [id \in Ids |-> IF id \in G THEN w[id] ELSE r[id]]
    \* one download per source
    /\ \A a, b \in InUse(runs') : a # b => runs'[a] # runs'[b]
    \* nothing starts above the limit
    /\ G # {} => Cardinality(InUse(runs')) <= limit'
    \* nothing that could start is left waiting
    /\ Cardinality(InUse(runs')) < limit' =>
           \A id \in InUse(wants') :
               \E h \in InUse(runs') : runs'[h] = wants'[id]

Init ==
    /\ wants = [id \in Ids |-> NoSource]
    /\ runs = [id \in Ids |-> NoSource]
    /\ limit = 1

\* A request also brings the limit the user has set by then.
Request(id, s) ==
    /\ wants[id] = NoSource /\ runs[id] = NoSource
    /\ limit' \in Nat \ {0}
    /\ \E G \in SUBSET Ids : Fill([wants EXCEPT ![id] = s], runs, G)

Finish(id) ==
    /\ runs[id] # NoSource
    /\ UNCHANGED limit
    /\ \E G \in SUBSET Ids : Fill(wants, [runs EXCEPT ![id] = NoSource], G)

Next ==
    \/ \E id \in Ids, s \in Sources : Request(id, s)
    \/ \E id \in Ids : Finish(id)

Spec == Init /\ [][Next]_slotVars
=============================================================================
