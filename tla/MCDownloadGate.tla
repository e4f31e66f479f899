--------------------------- MODULE MCDownloadGate ---------------------------
(***************************************************************************)
(* Instances of DownloadGate for TLC, and the dispatch loop as the code    *)
(* writes it, against which the gate's closed form of it is checked.       *)
(***************************************************************************)
EXTENDS DownloadGate, SequencesExt

CONSTANTS c1, c2, c3, c4, s1, s2

MCIds3 == {c1, c2, c3}
MCIds4 == {c1, c2, c3, c4}
MCSources == {s1, s2}
\* c1 and c2 share a source; c3 may have moved to another source meanwhile.
MCSourcesOf3 == c1 :> {s1} @@ c2 :> {s1} @@ c3 :> {s1, s2}
MCSourcesOf4 == c1 :> {s1} @@ c2 :> {s1} @@ c3 :> {s2} @@ c4 :> {s1, s2}
MCOrders == {<<>>, <<c2, c1>>, <<c3, c2>>, <<c3, c1, c2>>}
MCPlainQueue == {<<>>}

-----------------------------------------------------------------------------
\* The waiters as the list of the code.
ListOf(pl) == [i \in 1 .. Cardinality(DOMAIN pl) |->
                  CHOOSE w \in DOMAIN pl : pl[w] = i - 1]

SortedList(o, ws) ==
    IF o = <<>> \/ Len(ws) < 2
    THEN ws
    ELSE LET key == [j \in 1 .. Len(ws) |->
                        IF \E r \in 1 .. Len(o) : o[r] = ws[j]
                        THEN CHOOSE r \in 1 .. Len(o) : o[r] = ws[j]
                        ELSE Len(o) + j]
             less(a, b) == key[a] < key[b]
             by == SortSeq([j \in 1 .. Len(ws) |-> j], less)
         IN  [j \in 1 .. Len(ws) |-> ws[by[j]]]

\* The while loop of _dispatch from index i on.
RECURSIVE Scan(_, _, _, _, _, _)
Scan(i, ws, src, act, busy, max) ==
    IF i > Len(ws) \/ act >= max
    THEN [list |-> ws, active |-> act, busy |-> busy]
    ELSE IF src[ws[i]] \in busy
         THEN Scan(i + 1, ws, src, act, busy, max)
         ELSE Scan(i, RemoveAt(ws, i), src, act + 1, busy \cup {src[ws[i]]}, max)

LoopDispatch(ws, src, act, busy, max) ==
    Scan(1, IF act < max THEN SortedList(order, ws) ELSE ws, src, act, busy, max)

\* Every dispatch of the gate leaves the list, the counter and the busy
\* sources exactly as the loop in download_gate.dart leaves them.
DispatchIsTheLoop ==
    [][/\ \A id \in Ids : id \in holding /\ id \notin holding' =>
             LET r == LoopDispatch(ListOf(place), source, active - 1,
                                   activeSources \ {source[id]}, maxConcurrent)
             IN  /\ ListOf(place') = r.list
                 /\ active' = r.active
                 /\ activeSources' = r.busy
       /\ \A id \in Ids : source[id] = NoSource /\ source'[id] # NoSource =>
             LET r == LoopDispatch(Append(ListOf(place), id), source', active,
                                   activeSources, maxConcurrent')
             IN  /\ ListOf(place') = r.list
                 /\ active' = r.active
                 /\ activeSources' = r.busy]_gateVars
=============================================================================
