------------------------ MODULE SegmentDownloadProofs ------------------------
(***************************************************************************)
(* What is proved of SegmentDownload for every playlist, every number of   *)
(* workers and of tries, and any number of kills: its safety properties,   *)
(* from the inductive invariant SegmentInv.                                *)
(***************************************************************************)
EXTENDS SegmentDownload, TLAPS

\* Nothing is on disk and nobody works: the invariant holds at the start.
LEMMA InitInv == Init => SegmentInv
  <1> SUFFICES ASSUME Init PROVE SegmentInv
    OBVIOUS
  <1> USE SegmentAssumption DEF Init, Idle
  <1>1. TypeOK
    <2>1. /\ final \in [Segments -> Contents] /\ part \in [Segments -> Contents]
          /\ output \in Seq(Contents) /\ merged \in Seq(Contents)
      BY DEF Contents
    <2>2. worker \in [Workers -> [at : {"idle"}, seg : {NoSegment}, tries : {0}]]
      BY DEF NoSegment
    <2>3. hasKey \in BOOLEAN /\ failure \in BOOLEAN
      BY Zenon
    <2> QED
      BY <2>1, <2>2, <2>3 DEF TypeOK
  <1>2. SettledBeforeAnswer /\ OneWriterPerPart /\ OnlyMissingFetched
    BY DEF SettledBeforeAnswer, Settled, OneWriterPerPart, OnlyMissingFetched
  <1>3. PartsAsExpected /\ ReusedAreWhole /\ OutputIsWhole
    BY DEF PartsAsExpected, ReusedAreWhole, OutputIsWhole
  <1>4. Len(merged) = 0
    OBVIOUS
  <1> QED
    BY <1>1, <1>2, <1>3, <1>4 DEF SegmentInv

\* Every step keeps the invariant.  A step of a worker is about its own segment,
\* which no other worker has and which is not on disk.
LEMMA StepKeepsInv == SegmentInv /\ [Next]_vars => SegmentInv'
  <1> SUFFICES ASSUME SegmentInv, [Next]_vars PROVE SegmentInv'
    OBVIOUS
  <1> USE SegmentAssumption DEF Segments, Contents, Idle, NoSegment, files, episode, counts
  <1> USE DEF SegmentInv, Passed
  <1>1. CASE Start
    <2> USE <1>1 DEF Start
    <2>1. hasKey' \in BOOLEAN
      BY Zenon DEF GetKey, TypeOK
    <2>2. refusals' \in 0 .. MaxRefusals
      BY DEF GetKey, TypeOK
    <2>3. failure' \in BOOLEAN
      BY Zenon
    <2>4. TypeOK'
      BY <2>1, <2>2, <2>3 DEF TypeOK
    <2>5. SettledBeforeAnswer' /\ OneWriterPerPart'
      BY DEF SettledBeforeAnswer, Settled, OneWriterPerPart
    <2>6. OnlyMissingFetched'
      BY DEF SettledBeforeAnswer, Settled, OnlyMissingFetched
    <2>7. refusals' = 0 => hasKey' = Encrypted /\ refusals = 0
      <3>1. refusals' = 0 => refusals' # refusals + 1
        BY DEF TypeOK
      <3> QED
        BY <3>1, Zenon DEF GetKey
    <2>8. refusals' = 0 => PartsAsExpected'
      BY DEF PartsAsExpected, SettledBeforeAnswer, Settled
    <2> QED
      BY <2>4, <2>5, <2>6, <2>7, <2>8 DEF ReusedAreWhole, OutputIsWhole
  <1>2. CASE Answer
    BY <1>2
    DEF Answer, TypeOK, SettledBeforeAnswer, Settled, OneWriterPerPart, OnlyMissingFetched,
        PartsAsExpected, ReusedAreWhole, OutputIsWhole
  <1>3. CASE AppendSegment
    BY <1>3
    DEF AppendSegment, TypeOK, SettledBeforeAnswer, Settled, OneWriterPerPart, OnlyMissingFetched,
        PartsAsExpected, ReusedAreWhole, OutputIsWhole
  <1>4. CASE MergeThrows
    BY <1>4
    DEF MergeThrows, TypeOK, SettledBeforeAnswer, Settled, OneWriterPerPart, OnlyMissingFetched,
        PartsAsExpected, ReusedAreWhole, OutputIsWhole
  <1>5. CASE Publish
    BY <1>5
    DEF Publish, TypeOK, SettledBeforeAnswer, Settled, OneWriterPerPart, OnlyMissingFetched,
        PartsAsExpected, ReusedAreWhole, OutputIsWhole
  <1>6. CASE CleanEnds
    BY <1>6
    DEF CleanEnds, TypeOK, SettledBeforeAnswer, Settled, OneWriterPerPart, OnlyMissingFetched,
        PartsAsExpected, ReusedAreWhole, OutputIsWhole
  <1>7. CASE Kill
    BY <1>7
    DEF Kill, TypeOK, SettledBeforeAnswer, Settled, OneWriterPerPart, OnlyMissingFetched,
        PartsAsExpected, ReusedAreWhole, OutputIsWhole
  <1>8. CASE Crash
    BY <1>8
    DEF Crash, TypeOK, SettledBeforeAnswer, Settled, OneWriterPerPart, OnlyMissingFetched,
        PartsAsExpected, ReusedAreWhole, OutputIsWhole
  <1>9. CASE Delete
    BY <1>9
    DEF Delete, TypeOK, SettledBeforeAnswer, Settled, OneWriterPerPart, OnlyMissingFetched,
        PartsAsExpected, ReusedAreWhole, OutputIsWhole
  <1>10. ASSUME NEW i \in Segments, Clean(i) PROVE SegmentInv'
    BY <1>10
    DEF Clean, TypeOK, SettledBeforeAnswer, Settled, OneWriterPerPart, OnlyMissingFetched,
        PartsAsExpected, ReusedAreWhole, OutputIsWhole
  <1>11. ASSUME NEW w \in Workers, Take(w) PROVE SegmentInv'
    BY <1>11
    DEF Take, TypeOK, SettledBeforeAnswer, Settled, OneWriterPerPart, OnlyMissingFetched,
        PartsAsExpected, ReusedAreWhole, OutputIsWhole
  <1>12. ASSUME NEW w \in Workers, Open(w) PROVE SegmentInv'
    <2> USE <1>12 DEF Open, Put
    <2>1. TypeOK'
      BY DEF TypeOK
    <2>2. SettledBeforeAnswer'
      BY DEF TypeOK, SettledBeforeAnswer, Settled
    <2>3. OneWriterPerPart'
      BY DEF TypeOK, OneWriterPerPart, OnlyMissingFetched
    <2>4. OnlyMissingFetched'
      BY DEF TypeOK, OneWriterPerPart, OnlyMissingFetched
    <2>5. ASSUME refusals' = 0 PROVE PartsAsExpected' /\ ReusedAreWhole'
      BY <2>5 DEF TypeOK, SettledBeforeAnswer, Settled, OneWriterPerPart, OnlyMissingFetched,
        PartsAsExpected, ReusedAreWhole
    <2> QED
      BY <2>1, <2>2, <2>3, <2>4, <2>5 DEF TypeOK, OutputIsWhole
  <1>13. ASSUME NEW w \in Workers, worker[w].at = "stream",
              NEW c \in {IF Encrypted THEN "cipher" ELSE "clear", "cut", "short"},
              Put(w, c, "verify") PROVE SegmentInv'
    <2> USE <1>13 DEF Put
    <2>1. TypeOK'
      BY DEF TypeOK
    <2>2. SettledBeforeAnswer'
      BY DEF TypeOK, SettledBeforeAnswer, Settled
    <2>3. OneWriterPerPart'
      BY DEF TypeOK, OneWriterPerPart, OnlyMissingFetched
    <2>4. OnlyMissingFetched'
      BY DEF TypeOK, OneWriterPerPart, OnlyMissingFetched
    <2>5. ASSUME refusals' = 0 PROVE PartsAsExpected' /\ ReusedAreWhole'
      BY <2>5 DEF TypeOK, SettledBeforeAnswer, Settled, OneWriterPerPart, OnlyMissingFetched,
        PartsAsExpected, ReusedAreWhole
    <2> QED
      BY <2>1, <2>2, <2>3, <2>4, <2>5 DEF TypeOK, OutputIsWhole
  <1>14. ASSUME NEW w \in Workers, worker[w].at = "verify", part[worker[w].seg] # "cut", hasKey,
              Put(w, Passed(part[worker[w].seg], "torn"), "decrypt") PROVE SegmentInv'
    <2> USE <1>14 DEF Put
    <2>1. TypeOK'
      BY DEF TypeOK
    <2>2. SettledBeforeAnswer'
      BY DEF TypeOK, SettledBeforeAnswer, Settled
    <2>3. OneWriterPerPart'
      BY DEF TypeOK, OneWriterPerPart, OnlyMissingFetched
    <2>4. OnlyMissingFetched'
      BY DEF TypeOK, OneWriterPerPart, OnlyMissingFetched
    <2>5. ASSUME refusals' = 0 PROVE PartsAsExpected' /\ ReusedAreWhole'
      BY <2>5 DEF TypeOK, SettledBeforeAnswer, Settled, OneWriterPerPart, OnlyMissingFetched,
        PartsAsExpected, ReusedAreWhole
    <2> QED
      BY <2>1, <2>2, <2>3, <2>4, <2>5 DEF TypeOK, OutputIsWhole
  <1>15. ASSUME NEW w \in Workers, worker[w].at = "verify", part[worker[w].seg] # "cut", ~hasKey,
              Put(w, part[worker[w].seg], "rename") PROVE SegmentInv'
    <2> USE <1>15 DEF Put
    <2>1. TypeOK'
      BY DEF TypeOK
    <2>2. SettledBeforeAnswer'
      BY DEF TypeOK, SettledBeforeAnswer, Settled
    <2>3. OneWriterPerPart'
      BY DEF TypeOK, OneWriterPerPart, OnlyMissingFetched
    <2>4. OnlyMissingFetched'
      BY DEF TypeOK, OneWriterPerPart, OnlyMissingFetched
    <2>5. ASSUME refusals' = 0 PROVE PartsAsExpected' /\ ReusedAreWhole'
      BY <2>5 DEF TypeOK, SettledBeforeAnswer, Settled, OneWriterPerPart, OnlyMissingFetched,
        PartsAsExpected, ReusedAreWhole
    <2> QED
      BY <2>1, <2>2, <2>3, <2>4, <2>5 DEF TypeOK, OutputIsWhole
  <1>16. ASSUME NEW w \in Workers, Decrypted(w) PROVE SegmentInv'
    <2> USE <1>16 DEF Decrypted, Put
    <2>1. TypeOK'
      BY DEF TypeOK
    <2>2. SettledBeforeAnswer'
      BY DEF TypeOK, SettledBeforeAnswer, Settled
    <2>3. OneWriterPerPart'
      BY DEF TypeOK, OneWriterPerPart, OnlyMissingFetched
    <2>4. OnlyMissingFetched'
      BY DEF TypeOK, OneWriterPerPart, OnlyMissingFetched
    <2>5. ASSUME refusals' = 0 PROVE PartsAsExpected' /\ ReusedAreWhole'
      BY <2>5 DEF TypeOK, SettledBeforeAnswer, Settled, OneWriterPerPart, OnlyMissingFetched,
        PartsAsExpected, ReusedAreWhole
    <2> QED
      BY <2>1, <2>2, <2>3, <2>4, <2>5 DEF TypeOK, OutputIsWhole
  <1>17. ASSUME NEW w \in Workers, Rename(w) PROVE SegmentInv'
    <2> USE <1>17 DEF Rename
    <2>1. TypeOK'
      BY DEF TypeOK, OnlyMissingFetched
    <2>2. SettledBeforeAnswer'
      BY DEF TypeOK, SettledBeforeAnswer, Settled
    <2>3. OneWriterPerPart'
      <3>1. worker'[w] = Idle /\ \A v \in Workers : v # w => worker'[v] = worker[v]
        BY DEF TypeOK
      <3>2. \A v \in Workers : worker[v] # Idle => worker[v].seg # NoSegment
        BY DEF OnlyMissingFetched
      <3>3. ASSUME NEW v \in Workers, NEW u \in Workers, v # u, worker'[v] # Idle
            PROVE  worker'[v].seg # worker'[u].seg
        <4>1. v # w /\ worker[v] # Idle /\ worker'[v].seg = worker[v].seg
          BY <3>1, <3>3
        <4>2. CASE u = w
          BY <3>1, <3>2, <4>1, <4>2
        <4>3. CASE u # w
          BY <3>1, <3>3, <4>1, <4>3 DEF OneWriterPerPart
        <4> QED
          BY <4>2, <4>3
      <3> QED
        BY <3>3 DEF OneWriterPerPart
    <2>4. OnlyMissingFetched'
      BY DEF TypeOK, OneWriterPerPart, OnlyMissingFetched
    <2>5. ASSUME refusals' = 0 PROVE PartsAsExpected' /\ ReusedAreWhole'
      BY <2>5 DEF TypeOK, SettledBeforeAnswer, Settled, OneWriterPerPart, OnlyMissingFetched,
        PartsAsExpected, ReusedAreWhole
    <2> QED
      BY <2>1, <2>2, <2>3, <2>4, <2>5 DEF TypeOK, OutputIsWhole
  <1>18. ASSUME NEW w \in Workers, Throws(w), Retry(w) PROVE SegmentInv'
    <2> USE <1>18 DEF Throws, Retry
    <2>1. TypeOK'
      <3>1. failure' \in BOOLEAN
        BY Zenon DEF TypeOK
      <3>2. worker'[w] \in [at : {"idle", "request"}, seg : Segments \cup {NoSegment},
                            tries : 0 .. LimitedTries]
        BY DEF TypeOK
      <3>3. \A v \in Workers : v # w => worker'[v] = worker[v]
        BY DEF TypeOK
      <3>4. worker' = [worker EXCEPT ![w] = worker'[w]]
        BY <3>3 DEF TypeOK
      <3> QED
        BY <3>1, <3>2, <3>4 DEF TypeOK
    <2>2. SettledBeforeAnswer'
      BY DEF TypeOK, SettledBeforeAnswer, Settled
    <2>3. OneWriterPerPart'
      BY DEF TypeOK, OneWriterPerPart, OnlyMissingFetched
    <2>4. OnlyMissingFetched'
      BY DEF TypeOK, OneWriterPerPart, OnlyMissingFetched
    <2>5. ASSUME refusals' = 0 PROVE PartsAsExpected' /\ ReusedAreWhole'
      BY <2>5 DEF TypeOK, SettledBeforeAnswer, Settled, OneWriterPerPart, OnlyMissingFetched,
        PartsAsExpected, ReusedAreWhole
    <2> QED
      BY <2>1, <2>2, <2>3, <2>4, <2>5 DEF TypeOK, OutputIsWhole
  <1>19. ASSUME NEW w \in Workers, Throws(w), GiveUp(w) PROVE SegmentInv'
    <2> USE <1>19 DEF Throws, GiveUp
    <2>1. TypeOK'
      <3>1. failure' \in BOOLEAN
        BY Zenon DEF TypeOK
      <3>2. worker'[w] \in [at : {"idle", "request"}, seg : Segments \cup {NoSegment},
                            tries : 0 .. LimitedTries]
        BY DEF TypeOK
      <3>3. \A v \in Workers : v # w => worker'[v] = worker[v]
        BY DEF TypeOK
      <3>4. worker' = [worker EXCEPT ![w] = worker'[w]]
        BY <3>3 DEF TypeOK
      <3> QED
        BY <3>1, <3>2, <3>4 DEF TypeOK
    <2>2. SettledBeforeAnswer'
      BY DEF TypeOK, SettledBeforeAnswer, Settled
    <2>3. OneWriterPerPart'
      BY DEF TypeOK, OneWriterPerPart, OnlyMissingFetched
    <2>4. OnlyMissingFetched'
      BY DEF TypeOK, OneWriterPerPart, OnlyMissingFetched
    <2>5. ASSUME refusals' = 0 PROVE PartsAsExpected' /\ ReusedAreWhole'
      BY <2>5 DEF TypeOK, SettledBeforeAnswer, Settled, OneWriterPerPart, OnlyMissingFetched,
        PartsAsExpected, ReusedAreWhole
    <2> QED
      BY <2>1, <2>2, <2>3, <2>4, <2>5 DEF TypeOK, OutputIsWhole
  <1>20. CASE UNCHANGED vars
    BY <1>20
    DEF vars, TypeOK, SettledBeforeAnswer, Settled, OneWriterPerPart, OnlyMissingFetched,
        PartsAsExpected, ReusedAreWhole, OutputIsWhole
  <1> QED
    BY <1>1, <1>2, <1>3, <1>4, <1>5, <1>6, <1>7, <1>8, <1>9, <1>10,
       <1>11, <1>12, <1>13, <1>14, <1>15, <1>16, <1>17, <1>18, <1>19, <1>20
    DEF Next, MergeStep, WorkerStep, Streamed, Verified, Throws

LEMMA InvHolds == Spec => []SegmentInv
  BY InitInv, StepKeepsInv, PTL DEF Spec

-----------------------------------------------------------------------------
\* Every variable keeps to its type, so no segment is tried more often than
\* _withRetry allows.
THEOREM TypeCorrect == Spec => []TypeOK
  <1>1. SegmentInv => TypeOK
    BY DEF SegmentInv
  <1> QED
    BY <1>1, InvHolds, PTL

\* processM3u8Download answers only after every one of its workers has settled.
THEOREM AnswerAfterWriters == Spec => []SettledBeforeAnswer
  <1>1. SegmentInv => SettledBeforeAnswer
    BY DEF SegmentInv
  <1> QED
    BY <1>1, InvHolds, PTL

\* No two of them ever write the .part of the same segment.
THEOREM PartsNotShared == Spec => []OneWriterPerPart
  <1>1. SegmentInv => OneWriterPerPart
    BY DEF SegmentInv
  <1> QED
    BY <1>1, InvHolds, PTL

\* Of "Only complete, decrypted segments may be reused after a retry", kills,
\* retries and failures break nothing: what is reused is undecrypted only after
\* a refused key, and short only where no length was announced.
THEOREM WholeSegments == Spec => []ReusedAreWhole
  <1>1. SegmentInv => ReusedAreWhole
    BY DEF SegmentInv, ReusedAreWhole
  <1> QED
    BY <1>1, InvHolds, PTL

\* An episode that is there has all its segments, and each of them is decrypted
\* and whole under the same two conditions.
THEOREM WholeEpisode == Spec => []OutputIsWhole
  <1>1. SegmentInv => OutputIsWhole
    BY DEF SegmentInv
  <1> QED
    BY <1>1, InvHolds, PTL

\* What is fetched stays until the episode is there: only the clean-up after the
\* merge deletes a segment, and no worker renames onto one.
THEOREM FetchedStays == Spec => SegmentsAreKept
  <1> DEFINE Kept == \A i \in Segments : final[i] # "absent" /\ final'[i] # final[i] => output # <<>>
  <1>1. ASSUME SegmentInv, [Next]_vars PROVE [Kept]_vars
    <2> USE <1>1 DEF SegmentInv
    <2>1. CASE \E w \in Workers : Rename(w)
      <3>1. PICK w \in Workers : Rename(w)
        BY <2>1
      <3>2. \A i \in Segments : i # worker[w].seg => final'[i] = final[i]
        BY <3>1 DEF Rename, TypeOK
      <3>3. final[worker[w].seg] = "absent"
        BY <3>1 DEF Rename, OnlyMissingFetched
      <3> QED
        BY <3>2, <3>3
    <2>2. CASE \E i \in Segments : Clean(i)
      BY <2>2 DEF Clean
    <2>3. CASE UNCHANGED final
      BY <2>3
    <2> QED
      BY <2>1, <2>2, <2>3
      DEF Next, Start, Answer, MergeStep, AppendSegment, MergeThrows, Publish, CleanEnds, Kill,
          Crash, Delete, WorkerStep, Take, Open, Streamed, Verified, Decrypted, Put, Throws,
          files, vars
  <1> QED
    BY <1>1, InvHolds, PTL DEF Spec, SegmentsAreKept
=============================================================================
