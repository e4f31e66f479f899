--------------------------- MODULE SegmentDownload ---------------------------
(***************************************************************************)
(* The download of an HLS episode: the segments of a playlist are fetched  *)
(* by a few concurrent workers inside one isolate, each through a .part    *)
(* file that is verified, decrypted and renamed, and are then merged into  *)
(* the episode's .mp4.                                                     *)
(*   lib/services/download_manager/download_isolate_pool.dart              *)
(*   lib/services/download_manager/m3u8/m3u8_downloader.dart               *)
(*                                                                         *)
(* A cancel kills the isolate of the segments, the app can be killed at    *)
(* any time, and a segment can fail at every step; what is on disk stays,  *)
(* and the next attempt starts from it.  One attempt runs at a time        *)
(* (ChapterDownload!HeldByAttempts).                                       *)
(***************************************************************************)
EXTENDS Integers, FiniteSets, Sequences

CONSTANTS
    Total,        \* number of segments in the playlist
    Workers,      \* the concurrent workers of processM3u8Download
    Encrypted,    \* the playlist has a key
    MaxTries,     \* attempts _withRetry allows one segment
    LimitedTries, \* the same, when the server asks to slow down
    MaxCrashes,   \* bound: kills of the app
    MaxRefusals   \* bound: requests for the key answered with an error status

ASSUME SegmentAssumption ==
    /\ Total \in Nat \ {0}
    /\ IsFiniteSet(Workers) /\ Workers # {}
    /\ Encrypted \in BOOLEAN
    /\ MaxTries \in Nat \ {0}
    /\ LimitedTries \in Nat /\ LimitedTries >= MaxTries
    /\ MaxCrashes \in Nat /\ MaxRefusals \in Nat

Segments == 1 .. Total
NoSegment == 0

VARIABLES
    final,      \* TS_i.ts: "absent", or what the rename put there
    part,       \* TS_i.ts.part
    output,     \* the .mp4: the contents of the segments in it
    merged,     \* the .mp4.part: <<>> too when there is none
    phase,      \* where the attempt stands
    hasKey,     \* the attempt has the key of the playlist
    queue,      \* segments no worker has taken
    worker,     \* [at, seg, tries] of each worker
    failure,    \* a segment failed for good
    crashes, refusals

files == <<final, part>>
episode == <<output, merged>>
counts == <<crashes, refusals>>
vars == <<files, episode, phase, hasKey, queue, worker, failure, counts>>

Idle == [at |-> "idle", seg |-> NoSegment, tries |-> 0]
Contents == {"absent", "torn", "cut", "short", "cipher", "clear"}
Settled == \A w \in Workers : worker[w] = Idle

Init ==
    /\ final = [i \in Segments |-> "absent"]
    /\ part = [i \in Segments |-> "absent"]
    /\ output = <<>> /\ merged = <<>>
    /\ phase = "idle" /\ hasKey = FALSE
    /\ queue = {} /\ worker = [w \in Workers |-> Idle]
    /\ failure = FALSE
    /\ crashes = 0 /\ refusals = 0

-----------------------------------------------------------------------------
\* _getM3u8KeyAndIv: an answer other than 200 is passed over, and an attempt
\* whose requests for a key are all answered so goes on without one.
GetKey ==
    \/ hasKey' = Encrypted /\ UNCHANGED refusals
    \/ /\ Encrypted /\ refusals < MaxRefusals
       /\ hasKey' = FALSE
       /\ refusals' = refusals + 1

\* The playlist is loaded and the segments that are on disk are left out.
Start ==
    /\ phase = "idle"
    /\ GetKey
    /\ phase' = "fetching"
    /\ queue' = {i \in Segments : final[i] = "absent"}
    /\ failure' = FALSE
    /\ UNCHANGED <<files, episode, worker, crashes>>

\* A worker takes the next segment, unless one has failed already.
Take(w) ==
    /\ phase = "fetching" /\ worker[w] = Idle
    /\ queue # {} /\ ~failure
    /\ \E i \in queue :
          /\ \A j \in queue : i <= j
          /\ queue' = queue \ {i}
          /\ worker' = [worker EXCEPT ![w] = [at |-> "request", seg |-> i, tries |-> 1]]
    /\ UNCHANGED <<files, episode, phase, hasKey, failure, counts>>

\* Writes content c to the .part of the worker's segment and moves on to at.
Put(w, c, at) ==
    /\ part' = [part EXCEPT ![worker[w].seg] = c]
    /\ worker' = [worker EXCEPT ![w].at = at]
    /\ UNCHANGED <<final, episode, phase, hasKey, queue, failure, counts>>

\* The response is there: the .part is opened and filled from the stream.
Open(w) == worker[w].at = "request" /\ Put(w, "torn", "stream")

\* The stream ends: after the whole body, or before, with the length of the
\* body announced ("cut") or not ("short").
Streamed(w) ==
    /\ worker[w].at = "stream"
    /\ \E c \in {IF Encrypted THEN "cipher" ELSE "clear", "cut", "short"} : Put(w, c, "verify")

\* What is left of content c by a write that takes a whole segment to whole.
Passed(c, whole) == IF c \in {"cut", "short"} THEN c ELSE whole

\* Mutant of Verified: the length is not compared.
VerifiedUnchecked(w) ==
    /\ worker[w].at = "verify"
    /\ \/ hasKey /\ Put(w, Passed(part[worker[w].seg], "torn"), "decrypt")
       \/ ~hasKey /\ Put(w, part[worker[w].seg], "rename")

\* The length is compared where it was announced, and a short body passes where
\* it was not.  With a key, the .part is read and decrypted in place.
Verified(w) ==
    /\ worker[w].at = "verify" /\ part[worker[w].seg] # "cut"
    /\ \/ hasKey /\ Put(w, Passed(part[worker[w].seg], "torn"), "decrypt")
       \/ ~hasKey /\ Put(w, part[worker[w].seg], "rename")

\* A short body can decrypt too: when what it ends on passes for the padding.
Decrypted(w) ==
    /\ worker[w].at = "decrypt"
    /\ Put(w, Passed(part[worker[w].seg], "clear"), "rename")

Rename(w) ==
    /\ worker[w].at = "rename"
    /\ final' = [final EXCEPT ![worker[w].seg] = part[worker[w].seg]]
    /\ part' = [part EXCEPT ![worker[w].seg] = "absent"]
    /\ worker' = [worker EXCEPT ![w] = Idle]
    /\ UNCHANGED <<episode, phase, hasKey, queue, failure, counts>>

Retry(w) ==
    /\ worker[w].tries < LimitedTries
    /\ worker' = [worker EXCEPT ![w] = [at |-> "request", seg |-> @.seg, tries |-> @.tries + 1]]
    /\ UNCHANGED failure

GiveUp(w) ==
    /\ worker[w].tries >= MaxTries
    /\ worker' = [worker EXCEPT ![w] = Idle]
    /\ failure' = TRUE

\* Any step throws, as do a body of the wrong length and a wrong padding: the
\* .part is deleted, and the segment tried again or given up, which keeps the
\* workers from taking more.  Past MaxTries only a server that asks to slow down
\* is tried again.
Throws(w) ==
    /\ worker[w].at \in {"request", "stream", "verify", "decrypt", "rename"}
    /\ part' = [part EXCEPT ![worker[w].seg] = "absent"]
    /\ \/ (worker[w].tries < MaxTries \/ worker[w].at = "request") /\ Retry(w)
       \/ GiveUp(w)
    /\ UNCHANGED <<final, episode, phase, hasKey, queue, counts>>

\* Mutant of Answer: the first failure is reported while others still write.
AnswerEagerly ==
    /\ phase = "fetching" /\ (Settled \/ failure)
    /\ queue = {} \/ failure
    /\ phase' = IF failure THEN "idle" ELSE "merging"
    /\ queue' = {}
    /\ UNCHANGED <<files, episode, hasKey, worker, failure, counts>>

\* Mutant of Answer: the workers stop at a failure, and nobody reports it.
AnswerNoFailure ==
    /\ phase = "fetching" /\ Settled
    /\ queue = {}
    /\ phase' = IF failure THEN "idle" ELSE "merging"
    /\ queue' = {}
    /\ UNCHANGED <<files, episode, hasKey, worker, failure, counts>>

\* All workers are through: the caller is told.
Answer ==
    /\ phase = "fetching" /\ Settled
    /\ queue = {} \/ failure
    /\ phase' = IF failure THEN "idle" ELSE "merging"
    /\ queue' = {}
    /\ UNCHANGED <<files, episode, hasKey, worker, failure, counts>>

-----------------------------------------------------------------------------
\* The segments are appended in order; the first write makes the .mp4.part.
AppendSegment ==
    /\ phase = "merging" /\ Len(merged) < Total
    /\ final[Len(merged) + 1] # "absent"
    /\ merged' = Append(merged, final[Len(merged) + 1])
    /\ UNCHANGED <<files, output, phase, hasKey, queue, worker, failure, counts>>

\* Mutant of MergeThrows: the directory is cleaned up whatever happened.
MergeThrowsAndCleans ==
    /\ phase = "merging"
    /\ merged' = <<>>
    /\ phase' = "cleaning"
    /\ UNCHANGED <<files, output, hasKey, queue, worker, failure, counts>>

\* A segment is missing, or the disk is full.
MergeThrows ==
    /\ phase = "merging"
    /\ merged' = <<>>
    /\ phase' = "idle"
    /\ UNCHANGED <<files, output, hasKey, queue, worker, failure, counts>>

\* Mutant of Publish: the .mp4.part is renamed however much is in it.
PublishPartial ==
    /\ phase = "merging"
    /\ output' = merged /\ merged' = <<>>
    /\ phase' = "cleaning"
    /\ UNCHANGED <<files, hasKey, queue, worker, failure, counts>>

Publish ==
    /\ phase = "merging" /\ Len(merged) = Total
    /\ output' = merged /\ merged' = <<>>
    /\ phase' = "cleaning"
    /\ UNCHANGED <<files, hasKey, queue, worker, failure, counts>>

\* The temporary directory goes file by file; a failure is only logged.
Clean(i) ==
    /\ phase = "cleaning"
    /\ final' = [final EXCEPT ![i] = "absent"]
    /\ part' = [part EXCEPT ![i] = "absent"]
    /\ UNCHANGED <<episode, phase, hasKey, queue, worker, failure, counts>>

CleanEnds ==
    /\ phase = "cleaning"
    /\ phase' = "idle"
    /\ UNCHANGED <<files, episode, hasKey, queue, worker, failure, counts>>

-----------------------------------------------------------------------------
\* The isolate of the segments is killed.  A merge runs in an isolate of its
\* own, which nothing cancels.
Kill ==
    /\ phase = "fetching"
    /\ phase' = "idle" /\ queue' = {}
    /\ worker' = [w \in Workers |-> Idle]
    /\ UNCHANGED <<files, episode, hasKey, failure, counts>>

\* The app is killed.  The next merge starts its .mp4.part afresh.
Crash ==
    /\ crashes < MaxCrashes
    /\ crashes' = crashes + 1
    /\ phase' = "idle" /\ queue' = {} /\ merged' = <<>>
    /\ worker' = [w \in Workers |-> Idle]
    /\ UNCHANGED <<files, output, hasKey, failure, refusals>>

\* The user deletes the episode.
Delete ==
    /\ phase = "idle" /\ output # <<>>
    /\ output' = <<>>
    /\ UNCHANGED <<files, merged, phase, hasKey, queue, worker, failure, counts>>

WorkerStep(w) ==
    Take(w) \/ Open(w) \/ Streamed(w) \/ Verified(w) \/ Decrypted(w) \/ Rename(w) \/ Throws(w)
MergeStep == AppendSegment \/ MergeThrows \/ Publish \/ CleanEnds

Next ==
    \/ Start \/ Answer \/ MergeStep \/ Kill \/ Crash \/ Delete
    \/ \E w \in Workers : WorkerStep(w)
    \/ \E i \in Segments : Clean(i)

Spec == Init /\ [][Next]_vars

\* Requests and streams time out after 30 seconds, so every step ends.
Fairness == WF_vars(Answer) /\ WF_vars(MergeStep) /\ \A w \in Workers : WF_vars(WorkerStep(w))
FairSpec == Spec /\ Fairness

-----------------------------------------------------------------------------
TypeOK ==
    /\ final \in [Segments -> Contents]
    /\ part \in [Segments -> Contents]
    /\ output \in Seq(Contents) /\ merged \in Seq(Contents)
    /\ phase \in {"idle", "fetching", "merging", "cleaning"}
    /\ hasKey \in BOOLEAN
    /\ queue \subseteq Segments
    /\ worker \in [Workers -> [at : {"idle", "request", "stream", "verify", "decrypt", "rename"},
                               seg : Segments \cup {NoSegment}, tries : 0 .. LimitedTries]]
    /\ failure \in BOOLEAN
    /\ crashes \in 0 .. MaxCrashes /\ refusals \in 0 .. MaxRefusals

\* "Only complete, decrypted segments may be reused after a retry": what is under
\* the final name of a segment is decrypted.
OnlyDecryptedSegmentsReused == \A i \in Segments : final[i] # "cipher"

\* That much of it is so: as long as no request for the key was refused, what is
\* under a final name is decrypted, and whole unless its body ended early with
\* its length not announced.
ReusedAreWhole == refusals = 0 => \A i \in Segments : final[i] \in {"absent", "clear", "short"}

\* The episode is there only with all its segments, each of them as above.
OutputIsWhole ==
    output # <<>> =>
        /\ Len(output) = Total
        /\ refusals = 0 => \A i \in Segments : output[i] \in {"clear", "short"}

\* "Settle all writers before reporting failure or reusing this worker": when
\* the caller has its answer, no worker holds a segment.
SettledBeforeAnswer == phase # "fetching" => Settled

\* Two workers never write the same .part.
OneWriterPerPart ==
    \A v, w \in Workers : v # w /\ worker[v] # Idle => worker[v].seg # worker[w].seg

\* What a worker holds was taken off the queue, and what waits or is held is not
\* on disk: no segment is fetched twice in one attempt or once too often.
OnlyMissingFetched ==
    /\ \A i \in queue : final[i] = "absent"
    /\ \A w \in Workers :
          IF worker[w].at = "idle"
          THEN worker[w] = Idle
          ELSE worker[w].seg \in Segments \ queue /\ final[worker[w].seg] = "absent"

\* The .part a worker is done with is what the next step takes it for.
PartsAsExpected ==
    \A w \in Workers :
        /\ worker[w].at = "verify" =>
              part[worker[w].seg] \in {IF Encrypted THEN "cipher" ELSE "clear", "cut", "short"}
        /\ worker[w].at = "decrypt" => part[worker[w].seg] \in {"torn", "short"}
        /\ worker[w].at = "rename" => part[worker[w].seg] \in {"clear", "short"}

\* The inductive invariant.  What is in the files is right until a request for
\* the key is refused; the rest holds whatever the server answers.
SegmentInv ==
    /\ TypeOK /\ SettledBeforeAnswer /\ OneWriterPerPart /\ OnlyMissingFetched
    /\ phase = "cleaning" => output # <<>>
    /\ OutputIsWhole
    /\ refusals = 0 =>
          /\ phase = "fetching" => hasKey = Encrypted
          /\ PartsAsExpected
          /\ ReusedAreWhole
          /\ \A k \in 1 .. Len(merged) : merged[k] \in {"clear", "short"}

\* A segment that is on disk is kept as it is until the episode is there: no
\* failure, kill, crash or merge that stops halfway costs it.
SegmentsAreKept ==
    [][\A i \in Segments : final[i] # "absent" /\ final'[i] # final[i] => output # <<>>]_vars

\* Every attempt ends, whatever its segments do.
AttemptEnds == phase # "idle" ~> phase = "idle"
=============================================================================
