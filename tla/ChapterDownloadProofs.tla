------------------------ MODULE ChapterDownloadProofs ------------------------
(***************************************************************************)
(* Proofs about the attempts to download chapters, for every set of        *)
(* chapters, sources and settings and any number of restarts: what an      *)
(* attempt holds, that the pool works for each source serially, and what   *)
(* the writes to the records do to one that is complete or was cancelled.  *)
(***************************************************************************)
EXTENDS ChapterDownload, DownloadGateProofs, SequenceTheorems

Entries == {"progress", "completed", "converting", "converted", "saving", "broken"}
\* The step of the progress chain with which a chapter is complete.
Completing == {"completed", "converting", "converted"}
Complete(id) == record[id] # NoRecord /\ record[id].done
\* The writes that save a record.
Saves == {i \in 1 .. Len(dbQueue) : dbQueue[i].op = "save"}

-----------------------------------------------------------------------------
(* The inductive invariant, in three layers.                               *)

\* Nobody but an attempt that waits is in line or about to get its slot.
InLineWaits == \A id \in waiting \cup starting : phase[id] = "waiting"

\* A save in the queue has somebody who waits for it: the progress chain of its
\* chapter, at its first step, or the attempt that failed.  There is one save for
\* a chapter at a time.
SavesAwaited ==
    \A i \in Saves :
        /\ dbQueue[i].by = "progress" => /\ writes[dbQueue[i].id] # <<>>
                                         /\ writes[dbQueue[i].id][1] = "saving"
        /\ dbQueue[i].by = "attempt" => phase[dbQueue[i].id] = "saving"
        /\ \A j \in Saves : dbQueue[j].id = dbQueue[i].id => i = j

\* Only the first step of a chain is being saved, and none while the attempt is.
OneSaveAtATime ==
    \A id \in Ids :
        /\ \A i \in 2 .. Len(writes[id]) : writes[id][i] # "saving"
        /\ phase[id] = "saving" => ChainOver(id)

AttemptInv ==
    /\ GateInv /\ HeldByAttempts
    /\ InLineWaits /\ SavesAwaited /\ OneSaveAtATime

\* The chain grows with the attempt, and what completes the chapter comes last.
ChainFollowsAttempt(id) ==
    /\ phase[id] \in {"none", "waiting", "preparing", "listing"} => writes[id] = <<>>
    /\ phase[id] \in {"running", "merging"} =>
          \A i \in 1 .. Len(writes[id]) : writes[id][i] \notin Completing
    /\ \A i, j \in 1 .. Len(writes[id]) :
          writes[id][i] = "progress" /\ writes[id][j] \in Completing => i < j

\* Progress that is not the last is still to be saved, or may still come.
Underway(id) ==
    \/ phase[id] \in {"running", "merging"}
    \/ \E k \in 1 .. Len(writes[id]) : writes[id][k] = "progress"

\* What would take the flag of a complete chapter back is over before it is set.
IncompleteUntilLast(id) ==
    phase[id] \in {"waiting", "preparing", "listing"} \/ Underway(id) => ~Complete(id)

\* The i-th write of the queue, a save, sets the flag last or does not unset it.
SavedLast(i) ==
    IF dbQueue[i].record.done THEN ~Underway(dbQueue[i].id) ELSE ~Complete(dbQueue[i].id)

CompletionInv ==
    /\ \A id \in Ids : ChainFollowsAttempt(id) /\ IncompleteUntilLast(id)
    /\ \A i \in Saves : SavedLast(i)

\* No microtask but a write is ready.
Quiet == resumed = <<>> /\ \A id \in Ids : ~ChainReady(id) /\ ~AttemptReady(id)

\* As long as nobody else has held the queue, a delete is alone in it and nothing
\* can be queued behind it, and a save finds its record.
DeletesAlone ==
    /\ \A i \in 1 .. Len(dbQueue) :
          /\ dbQueue[i] # OtherWrite
          /\ dbQueue[i].op = "delete" => Len(dbQueue) = 1 /\ Quiet
    /\ \A i \in Saves : record[dbQueue[i].id] # NoRecord

\* The record of a download that was cancelled in the gate is gone or about to
\* go, and nothing brings it back.
RevokedStaysAway ==
    \A id \in revoked :
        /\ record[id] = NoRecord \/ \E i \in 1 .. Len(dbQueue) : dbQueue[i] = Delete(id)
        /\ \A i \in 1 .. Len(dbQueue) : dbQueue[i].op = "enqueue" => dbQueue[i].id # id
        /\ \A i \in 1 .. Len(resumed) : resumed[i].id # id
        /\ phase[id] \in {"none", "waiting", "unwinding"}

CancelInv == others = 0 => DeletesAlone /\ RevokedStaysAway

-----------------------------------------------------------------------------
(* The gate inside.                                                        *)

\* The next continuation is one of a chapter.
LEMMA NextContinuation ==
    ASSUME TypeOK, resumed # <<>>
    PROVE  /\ Head(resumed).id \in Ids /\ Head(resumed).then \in {"open", "claim"}
           /\ Tail(resumed) \in Seq([id : Ids, then : {"open", "claim"}])
           /\ Head(resumed) = resumed[1] /\ Len(resumed) \in Nat \ {0}
           /\ Len(Tail(resumed)) = Len(resumed) - 1
           /\ \A i \in 1 .. Len(Tail(resumed)) : Tail(resumed)[i] = resumed[i + 1]
  <1>1. resumed \in Seq([id : Ids, then : {"open", "claim"}])
    BY DEF TypeOK
  <1>2. Head(resumed) \in [id : Ids, then : {"open", "claim"}]
    BY <1>1, HeadTailProperties
  <1>3. /\ Tail(resumed) \in Seq([id : Ids, then : {"open", "claim"}])
        /\ Len(Tail(resumed)) = Len(resumed) - 1
        /\ \A i \in 1 .. Len(Tail(resumed)) : Tail(resumed)[i] = resumed[i + 1]
    BY <1>1, HeadTailProperties
  <1>4. Head(resumed) = resumed[1] /\ Len(resumed) \in Nat \ {0}
    BY <1>1, EmptySeq
  <1> QED
    BY <1>2, <1>3, <1>4

\* Whatever an attempt does to the gate is a step of the gate; only a restart is not.
LEMMA GateSteps ==
    ASSUME TypeOK, [Next]_vars
    PROVE  [GateNext]_gateVars \/ Restart
  <1>1. CASE Claim
    <2>1. Head(resumed).id \in Ids
      BY <1>1, NextContinuation DEF Claim
    <2>2. \/ UNCHANGED gateVars
          \/ \E s \in SourcesOf[Head(resumed).id], m \in Limits : Acquire(Head(resumed).id, s, m)
      BY <1>1 DEF Claim
    <2> QED
      BY <2>1, <2>2 DEF GateNext
  <1>2. ASSUME NEW id \in Ids, SlotGranted(id) PROVE [GateNext]_gateVars
    BY <1>2 DEF SlotGranted, GateNext
  <1>3. ASSUME NEW id \in Ids, Unwind(id) PROVE [GateNext]_gateVars
    BY <1>3 DEF Unwind, GateNext
  <1>4. ASSUME NEW id \in Ids,
               \/ StartDownload(id) \/ AddDownloadToQueue(id) \/ CancelDownloads(id)
               \/ TaskProgress(id) \/ Prepare(id)
               \/ TaskEnds(id) \/ TaskAnswered(id) \/ MergeEnds(id) \/ SubtitlesEnd(id)
               \/ ConvertEnds(id)
               \/ Resume(id) \/ SetProgress(id) \/ MarkDownloadFailed(id) \/ Finish(id) \/ ScanEnds(id)
        PROVE  UNCHANGED gateVars
    BY <1>4 DEF StartDownload, AddDownloadToQueue, CancelDownloads, TaskProgress, Prepare,
        NoWifi, PrepareFails, PrepareEnds, ListingFails, NothingToFetch, NovelFetched,
        SubmitTask, TaskEnds, TaskAnswered, MergeEnds, SubtitlesEnd, ConvertEnds, Resume,
        SetProgress, MarkDownloadFailed, Finish, ScanEnds, Advance
  <1>5. CASE RunWrite \/ Open \/ ReadPending \/ ProcessDownloads \/ OtherWriteBegins
             \/ OtherWriteEnds \/ UNCHANGED vars
    BY <1>5 DEF RunWrite, Open, ReadPending, ProcessDownloads, OtherWriteBegins,
        OtherWriteEnds, vars
  <1> QED
    BY <1>1, <1>2, <1>3, <1>4, <1>5 DEF Next, Event, Microtask

\* An attempt uses the gate as the gate expects it, and a restart empties it.
LEMMA GateKeeps ==
    ASSUME GateInv, TypeOK, [Next]_vars
    PROVE  GateInv'
  <1>1. CASE [GateNext]_gateVars
    BY <1>1, StepKeepsInv
  <1>2. CASE Restart
    <2>1. GateInit'
      BY <1>2 DEF Restart, GateInit, GateInv, GateTypeOK
    <2>2. GateInit' => GateInv'
      BY InitInv, PTL
    <2> QED
      BY <2>1, <2>2
  <1> QED
    BY <1>1, <1>2, GateSteps

\* Getting in line takes up a place of one's own.
LEMMA AcquireTakesPlace ==
    ASSUME GateInv, NEW id \in Ids, NEW s \in SourcesOf[id], NEW m \in Limits, Acquire(id, s, m)
    PROVE  /\ holding' = holding
           /\ waiting' \cup starting' \subseteq waiting \cup starting \cup {id}
  <1>1. PICK G \in SUBSET (waiting \cup {id}) :
            /\ holding' = holding
            /\ Dispatched(waiting \cup {id}, granted, source', maxConcurrent', G)
    BY AcquireStep
  <1>2. starting' = starting \cup G /\ waiting' = (waiting \cup {id}) \ G
    BY <1>1 DEF Dispatched, waiting
  <1> QED
    BY <1>1, <1>2

\* A slot that is given back goes to those in line.
LEMMA ReleaseGivesBack ==
    ASSUME GateInv, NEW id \in Ids, Release(id)
    PROVE  /\ holding' = holding \ {id} /\ id \notin waiting \cup starting
           /\ waiting' \cup starting' \subseteq waiting \cup starting
  <1>1. PICK G \in SUBSET waiting :
            /\ holding' = holding \ {id}
            /\ id \notin waiting /\ id \notin starting
            /\ Dispatched(waiting, granted \ {id}, source, maxConcurrent, G)
    BY ReleaseStep
  <1>2. starting' = starting \cup G /\ waiting' = waiting \ G
    BY <1>1 DEF Dispatched, waiting
  <1> QED
    BY <1>1, <1>2

-----------------------------------------------------------------------------
(* The write queue.                                                        *)

\* The saves in the queue are those that were there from position d + 1 on.
SavesFrom(d) == \A i \in Saves' : i + d \in Saves /\ dbQueue'[i] = dbQueue[i + d]

\* What a queued write may be.
LEMMA QueuedWrites ==
    ASSUME TypeOK, NEW i \in 1 .. Len(dbQueue)
    PROVE  /\ dbQueue[i] = OtherWrite \/ dbQueue[i].op \in {"enqueue", "save", "delete"}
           /\ dbQueue[i] # OtherWrite => dbQueue[i].id \in Ids
           /\ dbQueue[i].op = "enqueue" => dbQueue[i].then \in {"rest", "open", "claim"}
           /\ dbQueue[i].op = "save" => /\ dbQueue[i] # OtherWrite
                                        /\ dbQueue[i].record \in [start : BOOLEAN, done : BOOLEAN]
                                        /\ dbQueue[i].by \in {"progress", "attempt"}
           /\ dbQueue[i].op \in {"enqueue", "delete"} => dbQueue[i] # OtherWrite
  <1>1. dbQueue[i] \in DbOps
    BY ElementOfSeq DEF TypeOK
  <1>2. OtherWrite.op = "other"
    BY DEF OtherWrite
  <1> QED
    BY <1>1, <1>2 DEF DbOps

\* Joining the queue.
LEMMA WriteQueued ==
    ASSUME TypeOK, NEW w \in DbOps, dbQueue' = Append(dbQueue, w)
    PROVE  /\ dbQueue' \in Seq(DbOps) /\ Len(dbQueue) \in Nat /\ Len(dbQueue') = Len(dbQueue) + 1
           /\ \A i \in 1 .. Len(dbQueue) : dbQueue'[i] = dbQueue[i]
           /\ dbQueue'[Len(dbQueue) + 1] = w
           /\ \A i \in 1 .. Len(dbQueue') : i \in 1 .. Len(dbQueue) \/ i = Len(dbQueue) + 1
           /\ w.op # "save" => SavesFrom(0)
  <1>1. dbQueue \in Seq(DbOps)
    BY DEF TypeOK
  <1>2. /\ dbQueue' \in Seq(DbOps) /\ Len(dbQueue) \in Nat /\ Len(dbQueue') = Len(dbQueue) + 1
        /\ \A i \in 1 .. Len(dbQueue) : dbQueue'[i] = dbQueue[i]
        /\ dbQueue'[Len(dbQueue) + 1] = w
    BY <1>1, AppendProperties
  <1>3. \A i \in 1 .. Len(dbQueue') : i \in 1 .. Len(dbQueue) \/ i = Len(dbQueue) + 1
    BY <1>2
  <1>4. ASSUME w.op # "save", NEW i \in Saves' PROVE i + 0 \in Saves /\ dbQueue'[i] = dbQueue[i + 0]
    <2>1. i \in 1 .. Len(dbQueue') /\ dbQueue'[i].op = "save"
      BY DEF Saves
    <2>2. i \in 1 .. Len(dbQueue)
      BY <1>2, <1>3, <1>4, <2>1
    <2>3. i + 0 = i
      BY <2>2
    <2> QED
      BY <1>2, <2>1, <2>2, <2>3 DEF Saves
  <1> QED
    BY <1>2, <1>3, <1>4 DEF SavesFrom

\* Leaving the queue.
LEMMA WriteLeaves ==
    ASSUME TypeOK, dbQueue # <<>>, dbQueue' = Tail(dbQueue)
    PROVE  /\ dbQueue' \in Seq(DbOps) /\ Len(dbQueue) \in Nat \ {0} /\ Len(dbQueue') = Len(dbQueue) - 1
           /\ Head(dbQueue) = dbQueue[1] /\ 1 \in 1 .. Len(dbQueue)
           /\ \A i \in 1 .. Len(dbQueue') : /\ dbQueue'[i] = dbQueue[i + 1]
                                            /\ i + 1 \in 1 .. Len(dbQueue) /\ i + 1 # 1
           /\ SavesFrom(1)
  <1>1. dbQueue \in Seq(DbOps)
    BY DEF TypeOK
  <1>2. /\ dbQueue' \in Seq(DbOps) /\ Len(dbQueue') = Len(dbQueue) - 1
        /\ \A i \in 1 .. Len(dbQueue') : dbQueue'[i] = dbQueue[i + 1]
    BY <1>1, HeadTailProperties
  <1>3. Len(dbQueue) \in Nat \ {0} /\ Head(dbQueue) = dbQueue[1]
    BY <1>1, EmptySeq
  <1>4. \A i \in 1 .. Len(dbQueue') : i + 1 \in 1 .. Len(dbQueue) /\ i + 1 # 1
    BY <1>2, <1>3
  <1> QED
    BY <1>2, <1>3, <1>4 DEF SavesFrom, Saves

-----------------------------------------------------------------------------
(* The moves of an attempt that has its slot.                              *)

Busy == {"running", "merging", "subtitles"}

\* Where the attempt of id may go next, and what it adds to the chain on the way.
MayGo(id, p, ws) ==
    \/ /\ phase[id] = "waiting" /\ id \in holding
       /\ p = IF record[id] = NoRecord THEN "unwinding" ELSE "preparing"
       /\ ws = <<>>
    \/ phase[id] = "preparing" /\ p \in {"unwinding", "failing", "listing"} /\ ws = <<>>
    \/ phase[id] = "listing" /\ p \in {"failing", "running", "finishing"} /\ ws = <<>>
    \/ phase[id] = "listing" /\ p = "finishing" /\ ws \in {<<"converting">>, <<"completed">>}
    \/ phase[id] = "running" /\ p = "running" /\ ws \in {<<>>, <<"progress">>}
    \/ phase[id] \in {"running", "merging"} /\ p \in {"merging", "failing"} /\ ws = <<>>
    \/ /\ phase[id] \in {"running", "merging"} /\ p = "subtitles"
       /\ ws \in {<<"converting">>, <<"completed">>}
    \/ phase[id] = "subtitles" /\ p \in {"subtitles", "finishing", "failing"} /\ ws = <<>>
    \/ phase[id] = "finishing" /\ p \in {"failing", "scanning"} /\ ws = <<>>
    \/ phase[id] = "scanning" /\ p \in {"failing", "unwinding"} /\ ws = <<>>

\* What every such move leaves alone, and when it is made.
Moves(id, p, ws) ==
    /\ MayGo(id, p, ws)
    /\ Drained \/ AttemptReady(id)
    /\ phase' = [phase EXCEPT ![id] = p]
    /\ writes' = [writes EXCEPT ![id] = @ \o ws]
    /\ task' \in [Ids -> Pool!TaskStates]
    /\ \A u \in Ids : task'[u] # "idle" <=> IF u = id THEN p \in Busy ELSE task[u] # "idle"
    /\ UNCHANGED <<gateVars, record, scheduled, dbQueue, resumed, pending,
                   revoked, others, restarts, kind>>

ChainSteps == {<<>>, <<"progress">>, <<"completed">>, <<"converting">>}

\* A step that adds nothing leaves the chains as they are.
LEMMA NothingAdded ==
    ASSUME TypeOK, NEW id \in Ids
    PROVE  [writes EXCEPT ![id] = @ \o <<>>] = writes
  <1>1. writes \in [Ids -> Seq(Entries)]
    BY DEF TypeOK, Entries
  <1>2. writes[id] \o <<>> = writes[id]
    BY <1>1, ConcatEmptySeq
  <1> QED
    BY <1>1, <1>2

\* The handlers of an attempt that has its slot, one by one.
LEMMA AttemptMoves ==
    ASSUME TypeOK, HeldByAttempts, NEW id \in Ids,
           \/ Resume(id) \/ Prepare(id) \/ TaskEnds(id) \/ TaskProgress(id)
           \/ TaskAnswered(id) \/ MergeEnds(id) \/ SubtitlesEnd(id) \/ Finish(id) \/ ScanEnds(id)
    PROVE  \E p \in Phases, ws \in ChainSteps : Moves(id, p, ws)
  <1> DEFINE Kept == UNCHANGED <<gateVars, record, scheduled, dbQueue, resumed, pending,
                                 revoked, others, restarts, kind>>
  <1>0. /\ task \in [Ids -> Pool!TaskStates] /\ phase \in [Ids -> Phases]
        /\ task[id] # "idle" <=> phase[id] \in Busy
        /\ [writes EXCEPT ![id] = @ \o <<>>] = writes
        /\ [phase EXCEPT ![id] = phase[id]] = phase
    BY NothingAdded DEF TypeOK, HeldByAttempts, Busy
  <1>a. ASSUME NEW p \in Phases, NEW ws \in ChainSteps, MayGo(id, p, ws),
               Drained \/ AttemptReady(id), Kept, Goto(id, p),
               writes' = [writes EXCEPT ![id] = @ \o ws],
               UNCHANGED task, task[id] # "idle" <=> p \in Busy
        PROVE  Moves(id, p, ws)
    BY <1>0, <1>a DEF Moves, Goto
  <1>b. ASSUME NEW p \in Phases, NEW ws \in ChainSteps, MayGo(id, p, ws),
               Drained \/ AttemptReady(id), Kept, Goto(id, p),
               writes' = [writes EXCEPT ![id] = @ \o ws],
               NEW s \in Pool!TaskStates, task' = [task EXCEPT ![id] = s],
               s # "idle" <=> p \in Busy
        PROVE  Moves(id, p, ws)
    BY <1>0, <1>b DEF Moves, Goto
  <1>1. CASE Resume(id)
    <2> DEFINE p == IF record[id] = NoRecord THEN "unwinding" ELSE "preparing"
    <2>1. MayGo(id, p, <<>>) /\ AttemptReady(id)
      BY <1>1 DEF Resume, MayGo, AttemptReady
    <2>2. p \in Phases /\ (task[id] # "idle" <=> p \in Busy)
      BY <1>0, <1>1 DEF Resume, Phases, Busy
    <2> QED
      BY <1>0, <1>1, <1>a, <2>1, <2>2 DEF Resume, ChainSteps
  <1>2. CASE NoWifi(id)
    <2>1. MayGo(id, "unwinding", <<>>) /\ task[id] = "idle"
      BY <1>0, <1>2 DEF NoWifi, MayGo, Busy
    <2> QED
      BY <1>0, <1>2, <1>a, <2>1 DEF NoWifi, ChainSteps, Phases, Busy
  <1>3. CASE PrepareFails(id)
    <2>1. MayGo(id, "failing", <<>>) /\ task[id] = "idle"
      BY <1>0, <1>3 DEF PrepareFails, MayGo, Busy
    <2> QED
      BY <1>3, <1>a, <2>1 DEF PrepareFails, Advance, ChainSteps, Phases, Busy
  <1>4. CASE PrepareEnds(id)
    <2> DEFINE p == IF record[id] = NoRecord THEN "unwinding" ELSE "listing"
    <2>1. MayGo(id, p, <<>>) /\ task[id] = "idle" /\ p \in Phases \ Busy
      BY <1>0, <1>4 DEF PrepareEnds, MayGo, Busy, Phases
    <2> QED
      BY <1>4, <1>a, <2>1 DEF PrepareEnds, Advance, ChainSteps
  <1>5. CASE ListingFails(id)
    <2>1. MayGo(id, "failing", <<>>) /\ task[id] = "idle"
      BY <1>0, <1>5 DEF ListingFails, MayGo, Busy
    <2> QED
      BY <1>5, <1>a, <2>1 DEF ListingFails, Advance, ChainSteps, Phases, Busy
  <1>6. CASE NothingToFetch(id)
    <2>0. Completed(id) \in {"converting", "completed"}
      BY DEF Completed
    <2>1. /\ MayGo(id, "finishing", <<Completed(id)>>) /\ <<Completed(id)>> \in ChainSteps
          /\ task[id] = "idle"
      BY <1>0, <1>6, <2>0 DEF NothingToFetch, MayGo, ChainSteps, Busy
    <2> QED
      BY <1>6, <1>a, <2>1 DEF NothingToFetch, Advance, Phases, Busy
  <1>7. CASE NovelFetched(id)
    <2>1. PICK ws \in {<<>>, <<"completed">>} : Advance(id, "finishing", ws)
      BY <1>7 DEF NovelFetched
    <2>2. MayGo(id, "finishing", ws) /\ task[id] = "idle" /\ UNCHANGED task
      BY <1>0, <1>7 DEF NovelFetched, MayGo, Busy
    <2> QED
      BY <1>a, <2>1, <2>2 DEF Advance, ChainSteps, Phases, Busy
  <1>8. CASE SubmitTask(id)
    <2>1. MayGo(id, "running", <<>>) /\ task' = [task EXCEPT ![id] = "pending"]
      BY <1>8 DEF SubmitTask, MayGo, Pool!Submit
    <2> QED
      BY <1>8, <1>b, <2>1 DEF SubmitTask, Advance, ChainSteps, Phases, Busy, Pool!TaskStates
  <1>9. CASE TaskEnds(id)
    <2>1. PICK a \in Pool!Answers : Pool!Answer(id, a)
      BY <1>9 DEF TaskEnds
    <2>2. phase[id] \in Busy /\ a \in Pool!TaskStates /\ a # "idle"
      BY <1>0, <2>1 DEF Pool!Answer, Pool!Answers, Pool!TaskStates
    <2>3. MayGo(id, phase[id], <<>>) /\ Goto(id, phase[id])
      BY <1>0, <1>9, <2>2 DEF MayGo, Goto, Busy, TaskEnds
    <2> QED
      BY <1>0, <1>9, <1>b, <2>1, <2>2, <2>3 DEF TaskEnds, ChainSteps, Pool!Answer
  <1>10. CASE TaskProgress(id)
    <2>1. MayGo(id, "running", <<"progress">>) /\ task[id] # "idle"
      BY <1>0, <1>10 DEF TaskProgress, MayGo, Busy
    <2> QED
      BY <1>10, <1>a, <2>1 DEF TaskProgress, Advance, ChainSteps, Phases, Busy
  <1>11. CASE TaskAnswered(id)
    <2>0. Completed(id) \in {"converting", "completed"}
      BY DEF Completed
    <2>1. CASE Advance(id, "failing", <<>>) /\ Pool!Return(id)
      BY <1>11, <1>b, <2>1 DEF TaskAnswered, MayGo, Advance, ChainSteps, Phases, Busy,
         Pool!Return, Pool!TaskStates
    <2>2. CASE Advance(id, "merging", <<>>) /\ UNCHANGED task
      BY <1>0, <1>11, <1>a, <2>2 DEF TaskAnswered, MayGo, Advance, ChainSteps, Phases, Busy
    <2>3. CASE Advance(id, "subtitles", <<Completed(id)>>) /\ UNCHANGED task
      <3>1. /\ MayGo(id, "subtitles", <<Completed(id)>>) /\ <<Completed(id)>> \in ChainSteps
            /\ task[id] # "idle"
        BY <1>0, <1>11, <2>0 DEF TaskAnswered, MayGo, ChainSteps, Busy
      <3> QED
        BY <1>a, <2>3, <3>1 DEF Advance, Phases, Busy
    <2> QED
      BY <1>11, <2>1, <2>2, <2>3 DEF TaskAnswered
  <1>12. CASE MergeEnds(id)
    <2>0. Completed(id) \in {"converting", "completed"}
      BY DEF Completed
    <2>1. CASE Advance(id, "failing", <<>>) /\ Pool!Return(id)
      BY <1>12, <1>b, <2>1 DEF MergeEnds, MayGo, Advance, ChainSteps, Phases, Busy,
         Pool!Return, Pool!TaskStates
    <2>2. CASE Advance(id, "subtitles", <<Completed(id)>>) /\ UNCHANGED task
      <3>1. /\ MayGo(id, "subtitles", <<Completed(id)>>) /\ <<Completed(id)>> \in ChainSteps
            /\ task[id] # "idle"
        BY <1>0, <1>12, <2>0 DEF MergeEnds, MayGo, ChainSteps, Busy
      <3> QED
        BY <1>a, <2>2, <3>1 DEF Advance, Phases, Busy
    <2> QED
      BY <1>12, <2>1, <2>2 DEF MergeEnds
  <1>13. CASE SubtitlesEnd(id)
    <2>1. PICK p \in {"finishing", "failing"} : Advance(id, p, <<>>)
      BY <1>13 DEF SubtitlesEnd
    <2>2. MayGo(id, p, <<>>) /\ Pool!Return(id) /\ p \in Phases \ Busy
      BY <1>13 DEF SubtitlesEnd, MayGo, Phases, Busy
    <2> QED
      BY <1>b, <2>1, <2>2 DEF Advance, ChainSteps, Pool!Return, Pool!TaskStates
  <1>14. CASE Finish(id)
    <2>1. PICK p \in {"failing", "scanning"} : Goto(id, p)
      BY <1>14 DEF Finish
    <2>2. /\ MayGo(id, p, <<>>) /\ AttemptReady(id) /\ task[id] = "idle"
          /\ p \in Phases \ Busy
      BY <1>0, <1>14 DEF Finish, MayGo, AttemptReady, Phases, Busy
    <2> QED
      BY <1>0, <1>14, <1>a, <2>1, <2>2 DEF Finish, ChainSteps
  <1>15. CASE ScanEnds(id)
    <2>1. PICK p \in {"failing", "unwinding"} : Advance(id, p, <<>>)
      BY <1>15 DEF ScanEnds
    <2>2. MayGo(id, p, <<>>) /\ UNCHANGED task /\ task[id] = "idle" /\ p \in Phases \ Busy
      BY <1>0, <1>15 DEF ScanEnds, MayGo, Phases, Busy
    <2> QED
      BY <1>a, <2>1, <2>2 DEF Advance, ChainSteps
  <1> QED
    BY <1>1, <1>2, <1>3, <1>4, <1>5, <1>6, <1>7, <1>8, <1>9, <1>10, <1>11, <1>12, <1>13,
       <1>14, <1>15 DEF Prepare

-----------------------------------------------------------------------------
(* The saves in the queue.                                                 *)

\* A save stays awaited as long as the step or the attempt it is for stays.
LEMMA SavesKept ==
    ASSUME TypeOK, SavesAwaited, NEW d \in {0, 1}, SavesFrom(d),
           \A i \in Saves' :
               LET id == dbQueue'[i].id
               IN  /\ writes[id] # <<>> /\ writes[id][1] = "saving"
                      => writes'[id] # <<>> /\ writes'[id][1] = "saving"
                   /\ phase[id] = "saving" => phase'[id] = "saving"
    PROVE  SavesAwaited'
  <1> SUFFICES ASSUME NEW i \in Saves'
               PROVE  /\ dbQueue'[i].by = "progress" => /\ writes'[dbQueue'[i].id] # <<>>
                                                        /\ writes'[dbQueue'[i].id][1] = "saving"
                      /\ dbQueue'[i].by = "attempt" => phase'[dbQueue'[i].id] = "saving"
                      /\ \A j \in Saves' : dbQueue'[j].id = dbQueue'[i].id => i = j
    BY DEF SavesAwaited
  <1>1. i + d \in Saves /\ dbQueue'[i] = dbQueue[i + d]
    BY DEF SavesFrom
  <1>2. \A j \in Saves' : j + d \in Saves /\ dbQueue'[j] = dbQueue[j + d]
    BY DEF SavesFrom
  <1>3. \A j \in Saves' : i \in Int /\ j \in Int /\ (i + d = j + d => i = j)
    BY DEF Saves
  <1> QED
    BY <1>1, <1>2, <1>3 DEF SavesAwaited

\* Nobody saves a chapter whose chain waits for its turn, or is over while no
\* failure is being saved.
LEMMA NothingToSave ==
    ASSUME TypeOK, SavesAwaited, OneSaveAtATime, NEW id \in Ids,
           ChainReady(id) \/ (ChainOver(id) /\ phase[id] # "saving")
    PROVE  \A i \in Saves : dbQueue[i].id # id
  <1> SUFFICES ASSUME NEW i \in Saves, dbQueue[i].id = id PROVE FALSE
    OBVIOUS
  <1>1. writes[id] \in Seq(Entries)
    BY DEF TypeOK, Entries
  <1>2. i \in 1 .. Len(dbQueue) /\ dbQueue[i].op = "save"
    BY DEF Saves
  <1>3. dbQueue[i].by \in {"progress", "attempt"}
    BY <1>2, QueuedWrites
  <1>4. CASE ChainReady(id)
    <2>1. writes[id] # <<>> /\ Head(writes[id]) = writes[id][1]
      BY <1>1, <1>4 DEF ChainReady
    <2>2. writes[id][1] # "saving" /\ writes[id] # <<"broken">>
      BY <1>4, <2>1 DEF ChainReady
    <2>3. phase[id] # "saving"
      BY <2>1, <2>2 DEF OneSaveAtATime, ChainOver
    <2> QED
      BY <1>3, <2>2, <2>3 DEF SavesAwaited
  <1>5. CASE ChainOver(id) /\ phase[id] # "saving"
    <2>1. writes[id] # <<>> => writes[id][1] # "saving"
      BY <1>5 DEF ChainOver
    <2> QED
      BY <1>3, <1>5, <2>1 DEF SavesAwaited
  <1> QED
    BY <1>4, <1>5

\* A save is queued for a chapter that has none.
LEMMA SaveQueued ==
    ASSUME TypeOK, SavesAwaited,
           NEW w \in DbOps, w.op = "save", dbQueue' = Append(dbQueue, w),
           \A i \in Saves : dbQueue[i].id # w.id,
           w.by = "progress" => writes'[w.id] # <<>> /\ writes'[w.id][1] = "saving",
           w.by = "attempt" => phase'[w.id] = "saving",
           \A id \in Ids \ {w.id} : writes'[id] = writes[id] /\ phase'[id] = phase[id]
    PROVE  /\ SavesAwaited'
           /\ \A i \in Saves' : i = Len(dbQueue) + 1 \/ (i \in Saves /\ dbQueue'[i] = dbQueue[i])
           /\ dbQueue'[Len(dbQueue) + 1] = w
  <1>1. /\ Len(dbQueue) \in Nat
        /\ \A i \in 1 .. Len(dbQueue) : dbQueue'[i] = dbQueue[i]
        /\ dbQueue'[Len(dbQueue) + 1] = w
        /\ \A i \in 1 .. Len(dbQueue') : i \in 1 .. Len(dbQueue) \/ i = Len(dbQueue) + 1
    BY WriteQueued
  <1>2. \A i \in Saves' : i = Len(dbQueue) + 1 \/ (i \in Saves /\ dbQueue'[i] = dbQueue[i])
    BY <1>1 DEF Saves
  <1>3. ASSUME NEW i \in Saves
        PROVE  dbQueue[i].id \in Ids \ {w.id}
    BY QueuedWrites DEF Saves
  <1>4. SUFFICES ASSUME NEW i \in Saves'
               PROVE  /\ dbQueue'[i].by = "progress" => /\ writes'[dbQueue'[i].id] # <<>>
                                                        /\ writes'[dbQueue'[i].id][1] = "saving"
                      /\ dbQueue'[i].by = "attempt" => phase'[dbQueue'[i].id] = "saving"
                      /\ \A j \in Saves' : dbQueue'[j].id = dbQueue'[i].id => i = j
    BY <1>1, <1>2 DEF SavesAwaited
  <1>5. CASE i = Len(dbQueue) + 1
    BY <1>1, <1>2, <1>3, <1>5
  <1>6. CASE i \in Saves /\ dbQueue'[i] = dbQueue[i]
    <2>1. /\ dbQueue[i].by = "progress" => /\ writes[dbQueue[i].id] # <<>>
                                           /\ writes[dbQueue[i].id][1] = "saving"
          /\ dbQueue[i].by = "attempt" => phase[dbQueue[i].id] = "saving"
          /\ \A j \in Saves : dbQueue[j].id = dbQueue[i].id => i = j
      BY <1>6 DEF SavesAwaited
    <2>2. /\ dbQueue[i].id \in Ids \ {w.id}
          /\ writes'[dbQueue[i].id] = writes[dbQueue[i].id]
          /\ phase'[dbQueue[i].id] = phase[dbQueue[i].id]
      BY <1>3, <1>6
    <2>3. ASSUME NEW j \in Saves', dbQueue'[j].id = dbQueue'[i].id PROVE i = j
      <3>1. dbQueue'[j] # w
        BY <1>6, <2>2, <2>3
      <3>2. j \in Saves /\ dbQueue'[j] = dbQueue[j]
        BY <1>1, <1>2, <3>1
      <3> QED
        BY <1>6, <2>1, <2>3, <3>2
    <2> QED
      BY <1>6, <2>1, <2>2, <2>3
  <1> QED
    BY <1>2, <1>5, <1>6

-----------------------------------------------------------------------------
(* The steps that touch no attempt.                                        *)

\* The attempts, their chains and the records stay; the queue loses its first d
\* writes and gets no save.
Spares(d) ==
    /\ UNCHANGED <<gateVars, record, phase, scheduled, writes, kind>>
    /\ dbQueue' \in Seq(DbOps) /\ SavesFrom(d)
    /\ task' \in [Ids -> Pool!TaskStates]
    /\ \A id \in Ids : task'[id] # "idle" <=> task[id] # "idle"
    /\ resumed' \in Seq([id : Ids, then : {"open", "claim"}])
    /\ pending' \subseteq Ids /\ revoked' \subseteq Ids
    /\ others' \in 0 .. MaxOthers /\ restarts' \in 0 .. MaxRestarts

\* The requests of the user, of other parts of the app, and the continuation of
\* the first of them.
LEMMA RequestsSpare ==
    ASSUME TypeOK, [Next]_vars,
           \/ \E id \in Ids : StartDownload(id) \/ AddDownloadToQueue(id) \/ CancelDownloads(id)
           \/ Open \/ ReadPending \/ ProcessDownloads
           \/ OtherWriteBegins \/ OtherWriteEnds \/ UNCHANGED vars
    PROVE  \E d \in {0, 1} : Spares(d)
  <1>0. /\ dbQueue \in Seq(DbOps) /\ task \in [Ids -> Pool!TaskStates]
        /\ resumed \in Seq([id : Ids, then : {"open", "claim"}])
        /\ pending \subseteq Ids /\ revoked \subseteq Ids
        /\ others \in 0 .. MaxOthers /\ restarts \in 0 .. MaxRestarts
    BY DEF TypeOK
  <1>a. dbQueue' = dbQueue => SavesFrom(0)
    <2>1. \A i \in Saves : i + 0 = i
      BY DEF Saves
    <2> QED
      BY <2>1 DEF SavesFrom, Saves
  <1>b. ASSUME NEW w \in DbOps, w.op # "save", dbQueue' = Append(dbQueue, w)
        PROVE  dbQueue' \in Seq(DbOps) /\ SavesFrom(0)
    BY <1>b, WriteQueued
  <1>1. ASSUME NEW id \in Ids, StartDownload(id) \/ AddDownloadToQueue(id)
        PROVE  Spares(0)
    <2>1. PICK then \in {"open", "rest"} : dbQueue' = Append(dbQueue, Enqueue(id, then))
      BY <1>1 DEF StartDownload, AddDownloadToQueue
    <2>2. Enqueue(id, then) \in DbOps /\ Enqueue(id, then).op # "save"
      BY DEF Enqueue, DbOps
    <2> QED
      BY <1>0, <1>1, <1>b, <2>1, <2>2 DEF StartDownload, AddDownloadToQueue, Spares
  <1>2. ASSUME NEW id \in Ids, CancelDownloads(id)
        PROVE  Spares(0)
    <2>1. Delete(id) \in DbOps /\ Delete(id).op # "save"
      BY DEF Delete, DbOps
    <2>2. PICK s \in (IF task[id] = "pending" THEN {"doomed", "error"} ELSE {task[id]}) :
              task' = [task EXCEPT ![id] = s]
      BY <1>2 DEF CancelDownloads, Pool!Cancel
    <2>3. /\ task' \in [Ids -> Pool!TaskStates]
          /\ \A u \in Ids : task'[u] # "idle" <=> task[u] # "idle"
      <3>1. s \in Pool!TaskStates /\ (s # "idle" <=> task[id] # "idle")
        <4>1. task[id] = "pending" => s \in {"doomed", "error"}
          BY <2>2
        <4>2. task[id] # "pending" => s = task[id]
          BY <2>2
        <4> QED
          BY <1>0, <4>1, <4>2 DEF Pool!TaskStates, Pool!Answers
      <3>2. \A u \in Ids : task'[u] = IF u = id THEN s ELSE task[u]
        BY <1>0, <2>2
      <3> QED
        BY <1>0, <2>2, <3>1, <3>2
    <2> QED
      BY <1>0, <1>2, <1>b, <2>1, <2>3 DEF CancelDownloads, Spares
  <1>3. CASE Open
    <2>1. Enqueue(Head(resumed).id, "claim") \in DbOps /\ Enqueue(Head(resumed).id, "claim").op # "save"
      BY <1>3, NextContinuation DEF Open, Enqueue, DbOps
    <2>2. resumed' \in Seq([id : Ids, then : {"open", "claim"}])
      BY <1>3, NextContinuation DEF Open
    <2> QED
      BY <1>0, <1>3, <1>b, <2>1, <2>2 DEF Open, Spares
  <1>4. CASE ReadPending
    BY <1>0, <1>4, <1>a DEF ReadPending, Spares
  <1>5. CASE ProcessDownloads
    <2> DEFINE S == pending \ scheduled
    <2>1. PICK line \in [1 .. Cardinality(S) -> S] :
              dbQueue' = dbQueue \o [i \in DOMAIN line |-> Enqueue(line[i], "claim")]
      BY <1>5 DEF ProcessDownloads
    <2> DEFINE q == [i \in DOMAIN line |-> Enqueue(line[i], "claim")]
    <2>2. S \subseteq Ids /\ Cardinality(S) \in Nat
      BY <1>0, GateAssumption, FS_Subset, FS_CardinalityType DEF GateAssumption
    <2>3. \A i \in DOMAIN line : Enqueue(line[i], "claim") \in DbOps
      BY <2>2 DEF Enqueue, DbOps
    <2>4. q \in [1 .. Cardinality(S) -> DbOps]
      BY <2>3
    <2>5. /\ q \in Seq(DbOps) /\ Len(q) \in Nat
          /\ \A i \in 1 .. Len(q) : q[i].op # "save"
      <3>1. q \in Seq(DbOps)
        <4>1. ASSUME NEW n \in Nat, NEW f \in [1 .. n -> DbOps] PROVE f \in Seq(DbOps)
          BY SeqDef
        <4> QED
          BY <2>2, <2>4, <4>1
      <3>2. Len(q) \in Nat /\ DOMAIN q = 1 .. Len(q)
        BY <3>1, LenProperties
      <3>3. \A i \in DOMAIN q : q[i].op = "enqueue"
        BY DEF Enqueue
      <3> QED
        BY <3>1, <3>2, <3>3
    <2> HIDE DEF q
    <2>6. /\ dbQueue' \in Seq(DbOps) /\ Len(dbQueue') = Len(dbQueue) + Len(q)
          /\ \A i \in 1 .. Len(dbQueue') :
                dbQueue'[i] = IF i <= Len(dbQueue) THEN dbQueue[i] ELSE q[i - Len(dbQueue)]
      BY <1>0, <2>1, <2>5, ConcatProperties DEF q
    <2>7. ASSUME NEW i \in Saves' PROVE i + 0 \in Saves /\ dbQueue'[i] = dbQueue[i + 0]
      <3>1. i \in 1 .. Len(dbQueue') /\ dbQueue'[i].op = "save" /\ Len(dbQueue) \in Nat
        BY <1>0 DEF Saves
      <3>2. i <= Len(dbQueue)
        <4>1. CASE i > Len(dbQueue)
          <5>1. i - Len(dbQueue) \in 1 .. Len(q)
            BY <2>5, <2>6, <3>1, <4>1
          <5>2. dbQueue'[i] = q[i - Len(dbQueue)]
            BY <2>6, <3>1, <4>1
          <5> QED
            BY <2>5, <3>1, <5>1, <5>2
        <4> QED
          BY <3>1, <4>1
      <3>3. i + 0 = i /\ i \in 1 .. Len(dbQueue) /\ dbQueue'[i] = dbQueue[i]
        BY <2>6, <3>1, <3>2
      <3> QED
        BY <3>1, <3>3 DEF Saves
    <2>8. SavesFrom(0)
      BY <2>7 DEF SavesFrom
    <2> QED
      BY <1>0, <1>5, <2>6, <2>8 DEF ProcessDownloads, Spares
  <1>6. CASE OtherWriteBegins
    <2>1. OtherWrite \in DbOps /\ OtherWrite.op # "save"
      BY DEF OtherWrite, DbOps
    <2>2. others' \in 0 .. MaxOthers
      BY <1>0, <1>6, ChapterAssumption DEF OtherWriteBegins, ChapterAssumption
    <2> QED
      BY <1>0, <1>6, <1>b, <2>1, <2>2 DEF OtherWriteBegins, Spares
  <1>7. CASE OtherWriteEnds
    <2>1. dbQueue' \in Seq(DbOps) /\ SavesFrom(1)
      BY <1>7, WriteLeaves DEF OtherWriteEnds
    <2>2. Spares(1)
      BY <1>0, <1>7, <2>1 DEF OtherWriteEnds, Spares
    <2> QED
      BY <2>2
  <1>8. CASE UNCHANGED vars
    BY <1>0, <1>8, <1>a DEF vars, chapterVars, Spares
  <1> QED
    BY <1>1, <1>2, <1>3, <1>4, <1>5, <1>6, <1>7, <1>8

-----------------------------------------------------------------------------
(* First layer: what an attempt holds and which saves are awaited.         *)

\* What the invariant says of one chapter.
Stands(id) ==
    /\ id \in scheduled <=> phase[id] # "none"
    /\ phase[id] \in {"none", "waiting", "unwinding"} \/ id \in holding
    /\ phase[id] = "none" => id \notin waiting \cup granted
    /\ task[id] # "idle" <=> phase[id] \in Busy
    /\ id \in waiting \cup starting => phase[id] = "waiting"
    /\ \A i \in 2 .. Len(writes[id]) : writes[id][i] # "saving"
    /\ phase[id] = "saving" => ChainOver(id)

\* The first layer, chapter by chapter.
LEMMA AttemptByAttempt ==
    AttemptInv <=> GateInv /\ TypeOK /\ SavesAwaited /\ \A id \in Ids : Stands(id)
  <1>1. GateInv => waiting \cup starting \subseteq Ids
    BY DEF GateInv, GateTypeOK
  <1>2. HeldByAttempts <=> TypeOK /\ \A id \in Ids :
            /\ id \in scheduled <=> phase[id] # "none"
            /\ phase[id] \in {"none", "waiting", "unwinding"} \/ id \in holding
            /\ phase[id] = "none" => id \notin waiting \cup granted
            /\ task[id] # "idle" <=> phase[id] \in Busy
    BY DEF HeldByAttempts, Busy
  <1>3. GateInv => (InLineWaits <=> \A id \in Ids : id \in waiting \cup starting => phase[id] = "waiting")
    BY <1>1 DEF InLineWaits
  <1>4. OneSaveAtATime <=> \A id \in Ids : /\ \A i \in 2 .. Len(writes[id]) : writes[id][i] # "saving"
                                           /\ phase[id] = "saving" => ChainOver(id)
    BY DEF OneSaveAtATime
  <1>5. ASSUME AttemptInv PROVE GateInv /\ TypeOK /\ SavesAwaited /\ \A id \in Ids : Stands(id)
    BY <1>2, <1>3, <1>4, <1>5 DEF AttemptInv, Stands
  <1>6. ASSUME GateInv, TypeOK, SavesAwaited, \A id \in Ids : Stands(id) PROVE AttemptInv
    <2>1. HeldByAttempts
      BY <1>2, <1>6 DEF Stands
    <2>2. InLineWaits
      BY <1>3, <1>6 DEF Stands
    <2>3. OneSaveAtATime
      BY <1>4, <1>6 DEF Stands
    <2> QED
      BY <1>6, <2>1, <2>2, <2>3 DEF AttemptInv
  <1> QED
    BY <1>5, <1>6

\* The same after a step.
LEMMA AttemptsStandThen ==
    ASSUME GateInv', TypeOK', SavesAwaited', \A id \in Ids : Stands(id)'
    PROVE  AttemptInv'
  <1>1. (GateInv /\ TypeOK /\ SavesAwaited /\ \A id \in Ids : Stands(id))' => AttemptInv'
    BY AttemptByAttempt, PTL
  <1> QED
    BY <1>1

\* A chain after steps were added to it.
LEMMA ChainGrows ==
    ASSUME NEW w \in Seq(Entries), NEW ws \in ChainSteps
    PROVE  /\ w \o ws \in Seq(Entries) /\ Len(w) \in Nat /\ Len(w) <= Len(w \o ws)
           /\ w # <<>> => w \o ws # <<>>
           /\ \A i \in 1 .. Len(w) : (w \o ws)[i] = w[i]
           /\ \A i \in 1 .. Len(w \o ws) :
                 i \in 1 .. Len(w) \/ (i = Len(w) + 1 /\ ws = <<(w \o ws)[i]>>)
  <1>1. ws \in Seq(Entries) /\ Len(ws) \in {0, 1}
    <2>1. /\ <<>> \in Seq(Entries) /\ Len(<<>>) = 0
          /\ \A e \in Entries : <<e>> \in Seq(Entries) /\ Len(<<e>>) = 1
      OBVIOUS
    <2>2. {"progress", "completed", "converting"} \subseteq Entries
      BY DEF Entries
    <2> QED
      BY <2>1, <2>2 DEF ChainSteps
  <1>2. /\ w \o ws \in Seq(Entries) /\ Len(w \o ws) = Len(w) + Len(ws)
        /\ \A i \in 1 .. Len(w) + Len(ws) :
              (w \o ws)[i] = IF i <= Len(w) THEN w[i] ELSE ws[i - Len(w)]
    BY <1>1, ConcatProperties
  <1>3. Len(w) \in Nat /\ (w # <<>> => Len(w) # 0)
    BY EmptySeq, LenProperties
  <1>4. w # <<>> => w \o ws # <<>>
    BY <1>1, <1>2, <1>3
  <1>5. \A i \in 1 .. Len(w) : (w \o ws)[i] = w[i]
    BY <1>1, <1>2, <1>3
  <1>6. ASSUME NEW i \in 1 .. Len(w \o ws), i \notin 1 .. Len(w)
        PROVE  i = Len(w) + 1 /\ ws = <<(w \o ws)[i]>>
    <2>1. Len(ws) = 1 /\ i = Len(w) + 1 /\ i - Len(w) = 1
      BY <1>1, <1>2, <1>3, <1>6
    <2>2. (w \o ws)[i] = ws[1]
      BY <1>2, <1>3, <2>1
    <2>3. ws = <<ws[1]>>
      BY <2>1 DEF ChainSteps
    <2> QED
      BY <2>1, <2>2, <2>3
  <1> QED
    BY <1>1, <1>2, <1>3, <1>4, <1>5, <1>6

\* A chain whose first step changes or is over.
LEMMA ChainMoves ==
    ASSUME NEW w \in Seq(Entries), w # <<>>
    PROVE  /\ Len(w) \in Nat \ {0} /\ Head(w) = w[1] /\ 1 \in 1 .. Len(w)
           /\ Tail(w) \in Seq(Entries) /\ Len(Tail(w)) = Len(w) - 1
           /\ \A i \in 1 .. Len(Tail(w)) : Tail(w)[i] = w[i + 1] /\ i + 1 \in 2 .. Len(w)
           /\ \A e \in Entries : /\ [w EXCEPT ![1] = e] \in Seq(Entries) \ {<<>>}
                                 /\ Len([w EXCEPT ![1] = e]) = Len(w)
                                 /\ [w EXCEPT ![1] = e][1] = e
                                 /\ \A i \in 2 .. Len(w) : [w EXCEPT ![1] = e][i] = w[i]
  <1>1. Len(w) \in Nat \ {0} /\ Head(w) = w[1] /\ 1 \in 1 .. Len(w)
    BY EmptySeq
  <1>2. /\ Tail(w) \in Seq(Entries) /\ Len(Tail(w)) = Len(w) - 1
        /\ \A i \in 1 .. Len(Tail(w)) : Tail(w)[i] = w[i + 1]
    BY HeadTailProperties
  <1>3. \A i \in 1 .. Len(Tail(w)) : i + 1 \in 2 .. Len(w)
    BY <1>1, <1>2
  <1>4. ASSUME NEW e \in Entries
        PROVE  /\ [w EXCEPT ![1] = e] \in Seq(Entries) \ {<<>>}
               /\ Len([w EXCEPT ![1] = e]) = Len(w)
               /\ [w EXCEPT ![1] = e][1] = e
               /\ \A i \in 2 .. Len(w) : [w EXCEPT ![1] = e][i] = w[i]
    <2>1. /\ [w EXCEPT ![1] = e] \in Seq(Entries)
          /\ Len([w EXCEPT ![1] = e]) = Len(w)
          /\ \A j \in 1 .. Len(w) : [w EXCEPT ![1] = e][j] = IF j = 1 THEN e ELSE w[j]
      BY <1>1, ExceptSeq
    <2>2. [w EXCEPT ![1] = e] # <<>>
      BY <1>1, <2>1
    <2> QED
      BY <1>1, <2>1, <2>2
  <1> QED
    BY <1>1, <1>2, <1>3, <1>4

\* An attempt moves on.
LEMMA MoveKeepsAttempts ==
    ASSUME AttemptInv, GateInv', NEW id \in Ids, NEW p \in Phases, NEW ws \in ChainSteps,
           Moves(id, p, ws)
    PROVE  AttemptInv'
  <1>0. TypeOK /\ SavesAwaited /\ \A u \in Ids : Stands(u)
    BY AttemptByAttempt
  <1>1. writes \in [Ids -> Seq(Entries)] /\ phase \in [Ids -> Phases]
    BY <1>0 DEF TypeOK, Entries
  <1>2. /\ writes[id] \o ws \in Seq(Entries) /\ Len(writes[id]) \in Nat
        /\ writes[id] # <<>> => writes[id] \o ws # <<>>
        /\ \A i \in 1 .. Len(writes[id]) : (writes[id] \o ws)[i] = writes[id][i]
        /\ \A i \in 1 .. Len(writes[id] \o ws) :
              i \in 1 .. Len(writes[id]) \/ (i = Len(writes[id]) + 1 /\ ws = <<(writes[id] \o ws)[i]>>)
    BY <1>1, ChainGrows
  <1>3. PICK c \in Seq(Entries) : c = writes[id] \o ws
    BY <1>2
  <1>4. /\ \A u \in Ids : writes'[u] = IF u = id THEN c ELSE writes[u]
        /\ \A u \in Ids : phase'[u] = IF u = id THEN p ELSE phase[u]
        /\ writes' \in [Ids -> Seq(Entries)] /\ phase' \in [Ids -> Phases]
    BY <1>1, <1>3 DEF Moves
  <1>5. p \notin {"none", "saving", "waiting"} /\ phase[id] \notin {"none", "saving", "unwinding"}
    BY DEF Moves, MayGo
  <1>6. id \in holding
    BY <1>0, <1>5 DEF Moves, MayGo, Stands
  <1>7. TypeOK'
    BY <1>0, <1>4 DEF Moves, TypeOK, GateInv, Entries
  <1>8. SavesAwaited'
    <2>1. SavesFrom(0)
      <3>1. \A i \in Saves : i + 0 = i
        BY DEF Saves
      <3> QED
        BY <3>1 DEF SavesFrom, Saves, Moves
    <2>2. ASSUME NEW u \in Ids
          PROVE  /\ writes[u] # <<>> /\ writes[u][1] = "saving"
                    => writes'[u] # <<>> /\ writes'[u][1] = "saving"
                 /\ phase[u] = "saving" => phase'[u] = "saving"
      <3>1. writes[id] # <<>> => 1 \in 1 .. Len(writes[id])
        BY <1>1, ChainMoves
      <3> QED
        BY <1>2, <1>3, <1>4, <1>5, <3>1
    <2>3. \A i \in Saves' : dbQueue'[i].id \in Ids
      BY <1>0, QueuedWrites DEF Saves, Moves
    <2> QED
      BY <1>0, <2>1, <2>2, <2>3, SavesKept
  <1>9. ASSUME NEW u \in Ids PROVE Stands(u)'
    <2>0. UNCHANGED <<scheduled, holding, starting, waiting, granted>>
      BY DEF Moves, gateVars, waiting, granted
    <2>1. CASE u # id
      BY <1>0, <1>4, <2>0, <2>1 DEF Stands, Moves, ChainOver
    <2>2. CASE u = id
      <3>1. id \notin waiting /\ id \notin starting
        BY <1>6 DEF AttemptInv, GateInv, QueueAndSlotsApart, granted
      <3>2. \A i \in 2 .. Len(c) : c[i] # "saving"
        <4>1. \A e : ws = <<e>> => e # "saving"
          BY DEF ChainSteps
        <4>2. \A i \in 2 .. Len(writes[id]) : writes[id][i] # "saving"
          BY <1>0 DEF Stands
        <4>3. \A i \in 2 .. Len(c) : i \in 1 .. Len(c) /\ (i \in 1 .. Len(writes[id]) => i \in 2 .. Len(writes[id]))
          BY <1>2
        <4> QED
          BY <1>2, <1>3, <4>1, <4>2, <4>3
      <3>3. id \in scheduled
        BY <1>0, <1>5 DEF Stands
      <3> QED
        BY <1>4, <1>5, <1>6, <2>0, <2>2, <3>1, <3>2, <3>3 DEF Stands, Moves
    <2> QED
      BY <2>1, <2>2
  <1> QED
    BY <1>7, <1>8, <1>9, AttemptsStandThen

\* A request, another part of the app.
LEMMA SparedAttempts ==
    ASSUME AttemptInv, GateInv', NEW d \in {0, 1}, Spares(d)
    PROVE  AttemptInv'
  <1>0. TypeOK /\ SavesAwaited /\ \A u \in Ids : Stands(u)
    BY AttemptByAttempt
  <1>1. TypeOK'
    BY <1>0 DEF Spares, TypeOK, GateInv
  <1>2. SavesAwaited'
    BY <1>0, SavesKept DEF Spares
  <1>3. UNCHANGED <<scheduled, holding, starting, waiting, granted, phase, writes>>
    BY DEF Spares, gateVars, waiting, granted
  <1>4. ASSUME NEW u \in Ids PROVE Stands(u)'
    BY <1>0, <1>3 DEF Stands, Spares, ChainOver
  <1> QED
    BY <1>1, <1>2, <1>4, AttemptsStandThen

\* The conversion of an archive ends.
LEMMA ConvertKeepsAttempts ==
    ASSUME AttemptInv, GateInv', NEW id \in Ids, ConvertEnds(id)
    PROVE  AttemptInv'
  <1>0. TypeOK /\ SavesAwaited /\ \A u \in Ids : Stands(u)
    BY AttemptByAttempt
  <1>1. writes \in [Ids -> Seq(Entries)] /\ writes[id] # <<>> /\ writes[id][1] = "converting"
    <2>1. writes \in [Ids -> Seq(Entries)]
      BY <1>0 DEF TypeOK, Entries
    <2> QED
      BY <2>1, ChainMoves DEF ConvertEnds
  <1>2. PICK c \in Seq(Entries) : /\ writes' = [writes EXCEPT ![id] = c]
                                  /\ \A i \in 2 .. Len(c) : c[i] # "saving"
    <2>1. CASE writes' = [writes EXCEPT ![id][1] = "converted"]
      <3>1. /\ [writes[id] EXCEPT ![1] = "converted"] \in Seq(Entries)
            /\ Len([writes[id] EXCEPT ![1] = "converted"]) = Len(writes[id])
            /\ \A i \in 2 .. Len(writes[id]) :
                  [writes[id] EXCEPT ![1] = "converted"][i] = writes[id][i]
        BY <1>1, ChainMoves DEF Entries
      <3> QED
        BY <1>0, <2>1, <3>1 DEF Stands
    <2>2. CASE writes' = [writes EXCEPT ![id] = <<"broken">>]
      <3>1. <<"broken">> \in Seq(Entries) /\ Len(<<"broken">>) = 1
        BY DEF Entries
      <3>2. PICK c \in Seq(Entries) : c = <<"broken">> /\ Len(c) = 1
        BY <3>1
      <3>3. \A i \in 2 .. Len(c) : c[i] # "saving"
        BY <3>2
      <3> QED
        BY <2>2, <3>2, <3>3
    <2> QED
      BY <2>1, <2>2 DEF ConvertEnds
  <1>3. \A u \in Ids : writes'[u] = IF u = id THEN c ELSE writes[u]
    BY <1>1, <1>2
  <1>4. TypeOK'
    <2>1. writes' \in [Ids -> Seq(Entries)]
      BY <1>1, <1>2
    <2> QED
      BY <1>0, <2>1 DEF ConvertEnds, TypeOK, GateInv, Entries
  <1>5. SavesAwaited'
    <2>1. SavesFrom(0)
      <3>1. \A i \in Saves : i + 0 = i
        BY DEF Saves
      <3> QED
        BY <3>1 DEF SavesFrom, Saves, ConvertEnds
    <2>2. \A i \in Saves' : dbQueue'[i].id \in Ids
      BY <1>0, QueuedWrites DEF Saves, ConvertEnds
    <2>3. \A u \in Ids : /\ writes[u] # <<>> /\ writes[u][1] = "saving"
                            => writes'[u] # <<>> /\ writes'[u][1] = "saving"
                         /\ phase[u] = "saving" => phase'[u] = "saving"
      BY <1>1, <1>3 DEF ConvertEnds
    <2> QED
      BY <1>0, <2>1, <2>2, <2>3, SavesKept
  <1>6. phase[id] # "saving"
    <2>1. ~ChainOver(id)
      BY <1>1 DEF ChainOver
    <2> QED
      BY <1>0, <2>1 DEF Stands
  <1>7. ASSUME NEW u \in Ids PROVE Stands(u)'
    <2>1. UNCHANGED <<scheduled, holding, starting, waiting, granted, phase, task>>
      BY DEF ConvertEnds, gateVars, waiting, granted
    <2> QED
      BY <1>0, <1>2, <1>3, <1>6, <2>1 DEF Stands, ChainOver
  <1> QED
    BY <1>4, <1>5, <1>7, AttemptsStandThen

\* A step of the progress chain reads the record and queues it, or is dropped.
LEMMA ProgressKeepsAttempts ==
    ASSUME AttemptInv, GateInv', NEW id \in Ids, SetProgress(id)
    PROVE  AttemptInv'
  <1>0. TypeOK /\ SavesAwaited /\ OneSaveAtATime /\ \A u \in Ids : Stands(u)
    BY AttemptByAttempt DEF AttemptInv
  <1>1. /\ writes \in [Ids -> Seq(Entries)] /\ writes[id] # <<>>
        /\ writes[id][1] \in {"progress", "completed", "converted"}
    <2>1. writes \in [Ids -> Seq(Entries)]
      BY <1>0 DEF TypeOK, Entries
    <2> QED
      BY <2>1, ChainMoves DEF SetProgress, ChainReady
  <1>2. phase[id] # "saving"
    <2>1. ~ChainOver(id)
      BY <1>1 DEF ChainOver
    <2> QED
      BY <1>0, <2>1 DEF Stands
  <1>3. UNCHANGED <<scheduled, holding, starting, waiting, granted, phase, task>>
    BY DEF SetProgress, gateVars, waiting, granted
  <1>4. CASE record[id] = NoRecord
    <2>1. /\ Tail(writes[id]) \in Seq(Entries)
          /\ \A i \in 2 .. Len(Tail(writes[id])) : Tail(writes[id])[i] # "saving"
      <3>1. /\ Tail(writes[id]) \in Seq(Entries) /\ Len(Tail(writes[id])) = Len(writes[id]) - 1
            /\ \A i \in 1 .. Len(Tail(writes[id])) :
                  Tail(writes[id])[i] = writes[id][i + 1] /\ i + 1 \in 2 .. Len(writes[id])
        BY <1>1, ChainMoves
      <3> QED
        BY <1>0, <3>1 DEF Stands
    <2>2. PICK c \in Seq(Entries) : c = Tail(writes[id])
      BY <2>1
    <2>3. /\ writes' \in [Ids -> Seq(Entries)]
          /\ \A u \in Ids : writes'[u] = IF u = id THEN c ELSE writes[u]
      BY <1>1, <1>4, <2>2 DEF SetProgress
    <2>4. TypeOK'
      BY <1>0, <1>4, <2>3 DEF SetProgress, TypeOK, GateInv, Entries
    <2>5. SavesAwaited'
      <3>1. SavesFrom(0)
        <4>1. \A i \in Saves : i + 0 = i
          BY DEF Saves
        <4> QED
          BY <1>4, <4>1 DEF SavesFrom, Saves, SetProgress
      <3>2. \A i \in Saves' : dbQueue'[i].id \in Ids
        BY <1>0, <1>4, QueuedWrites DEF Saves, SetProgress
      <3>3. \A u \in Ids : /\ writes[u] # <<>> /\ writes[u][1] = "saving"
                              => writes'[u] # <<>> /\ writes'[u][1] = "saving"
                           /\ phase[u] = "saving" => phase'[u] = "saving"
        BY <1>1, <1>3, <2>3
      <3> QED
        BY <1>0, <3>1, <3>2, <3>3, SavesKept
    <2>6. ASSUME NEW u \in Ids PROVE Stands(u)'
      BY <1>0, <1>2, <1>3, <2>1, <2>2, <2>3 DEF Stands, ChainOver
    <2> QED
      BY <2>4, <2>5, <2>6, AttemptsStandThen
  <1>5. CASE record[id] # NoRecord
    <2> DEFINE w == Save(id, [record[id] EXCEPT !.done = Head(writes[id]) # "progress"],
                         "progress")
    <2>1. PICK c : c = [writes[id] EXCEPT ![1] = "saving"]
      OBVIOUS
    <2>2. /\ c \in Seq(Entries) /\ c # <<>> /\ c[1] = "saving"
          /\ \A i \in 2 .. Len(c) : c[i] # "saving"
      <3>1. /\ c \in Seq(Entries) \ {<<>>} /\ Len(c) = Len(writes[id]) /\ c[1] = "saving"
            /\ \A i \in 2 .. Len(writes[id]) : c[i] = writes[id][i]
        BY <1>1, <2>1, ChainMoves DEF Entries
      <3> QED
        BY <1>0, <3>1 DEF Stands
    <2>3. /\ writes' \in [Ids -> Seq(Entries)]
          /\ \A u \in Ids : writes'[u] = IF u = id THEN c ELSE writes[u]
      BY <1>1, <1>5, <2>1, <2>2 DEF SetProgress
    <2>4. w \in DbOps /\ w.op = "save" /\ w.id = id /\ w.by = "progress"
      <3>1. record[id] \in [start : BOOLEAN, done : BOOLEAN]
        BY <1>0, <1>5 DEF TypeOK
      <3>2. [record[id] EXCEPT !.done = Head(writes[id]) # "progress"]
                \in [start : BOOLEAN, done : BOOLEAN]
        BY <3>1
      <3> QED
        BY <3>2 DEF Save, DbOps
    <2>5. dbQueue' = Append(dbQueue, w)
      BY <1>5 DEF SetProgress
    <2> HIDE DEF w
    <2>6. TypeOK'
      <3>1. dbQueue' \in Seq(DbOps)
        BY <1>0, <2>4, <2>5, WriteQueued
      <3> QED
        BY <1>0, <2>3, <3>1 DEF SetProgress, TypeOK, GateInv, Entries
    <2>7. SavesAwaited'
      <3>1. \A i \in Saves : dbQueue[i].id # id
        BY <1>0, NothingToSave DEF SetProgress
      <3> QED
        BY <1>0, <1>3, <2>2, <2>3, <2>4, <2>5, <3>1, SaveQueued
    <2>8. ASSUME NEW u \in Ids PROVE Stands(u)'
      <3>1. CASE u # id
        BY <1>0, <1>3, <2>3, <3>1 DEF Stands, ChainOver
      <3>2. CASE u = id
        BY <1>0, <1>2, <1>3, <2>2, <2>3, <3>2 DEF Stands
      <3> QED
        BY <3>1, <3>2
    <2> QED
      BY <2>6, <2>7, <2>8, AttemptsStandThen
  <1> QED
    BY <1>4, <1>5

\* The catch of an attempt queues the record as failed, or has nothing to save.
LEMMA FailureKeepsAttempts ==
    ASSUME AttemptInv, GateInv', NEW id \in Ids, MarkDownloadFailed(id)
    PROVE  AttemptInv'
  <1>0. TypeOK /\ SavesAwaited /\ OneSaveAtATime /\ \A u \in Ids : Stands(u)
    BY AttemptByAttempt DEF AttemptInv
  <1>1. /\ phase \in [Ids -> Phases] /\ phase[id] = "failing" /\ ChainOver(id)
        /\ id \in holding /\ id \notin waiting /\ id \notin starting
        /\ id \in scheduled /\ task[id] = "idle"
    <2>1. phase \in [Ids -> Phases] /\ phase[id] = "failing" /\ ChainOver(id)
      BY <1>0 DEF MarkDownloadFailed, TypeOK
    <2>2. id \in holding /\ id \in scheduled /\ task[id] = "idle"
      BY <1>0, <2>1 DEF Stands, Busy
    <2>3. id \notin waiting /\ id \notin starting
      BY <2>2 DEF AttemptInv, GateInv, QueueAndSlotsApart, granted
    <2> QED
      BY <2>1, <2>2, <2>3
  <1>2. UNCHANGED <<scheduled, holding, starting, waiting, granted, writes, task>>
    BY DEF MarkDownloadFailed, gateVars, waiting, granted
  <1>a. ASSUME NEW p \in {"unwinding", "saving"}, NEW u \in Ids, Goto(id, p)
        PROVE  Stands(u)'
    <2>1. phase'[u] = IF u = id THEN p ELSE phase[u]
      BY <1>1, <1>a DEF Goto
    <2>2. CASE u # id
      BY <1>0, <1>2, <2>1, <2>2 DEF Stands, ChainOver
    <2>3. CASE u = id
      BY <1>0, <1>1, <1>2, <2>1, <2>3 DEF Stands, ChainOver, Busy
    <2> QED
      BY <2>2, <2>3
  <1>b. ASSUME NEW p \in {"unwinding", "saving"}, Goto(id, p)
        PROVE  phase' \in [Ids -> Phases]
    BY <1>1, <1>b DEF Goto, Phases
  <1>3. CASE record[id] = NoRecord \/ record[id].done
    <2>1. Goto(id, "unwinding") /\ UNCHANGED dbQueue
      BY <1>3 DEF MarkDownloadFailed
    <2>2. TypeOK'
      BY <1>0, <1>b, <2>1 DEF MarkDownloadFailed, TypeOK, GateInv
    <2>3. SavesAwaited'
      <3>1. SavesFrom(0)
        <4>1. \A i \in Saves : i + 0 = i
          BY DEF Saves
        <4> QED
          BY <2>1, <4>1 DEF SavesFrom, Saves
      <3>2. \A i \in Saves' : dbQueue'[i].id \in Ids
        BY <1>0, <2>1, QueuedWrites DEF Saves
      <3>3. \A u \in Ids : phase[u] = "saving" => phase'[u] = "saving"
        BY <1>1, <2>1 DEF Goto
      <3> QED
        BY <1>0, <1>2, <3>1, <3>2, <3>3, SavesKept
    <2> QED
      BY <1>a, <2>1, <2>2, <2>3, AttemptsStandThen
  <1>4. CASE ~(record[id] = NoRecord \/ record[id].done)
    <2> DEFINE w == Save(id, [record[id] EXCEPT !.start = FALSE], "attempt")
    <2>1. Goto(id, "saving") /\ dbQueue' = Append(dbQueue, w)
      BY <1>4 DEF MarkDownloadFailed
    <2>2. w \in DbOps /\ w.op = "save" /\ w.id = id /\ w.by = "attempt"
      <3>1. record[id] \in [start : BOOLEAN, done : BOOLEAN]
        BY <1>0, <1>4 DEF TypeOK
      <3> QED
        BY <3>1 DEF Save, DbOps
    <2> HIDE DEF w
    <2>3. TypeOK'
      <3>1. dbQueue' \in Seq(DbOps)
        BY <1>0, <2>1, <2>2, WriteQueued
      <3> QED
        BY <1>0, <1>b, <2>1, <3>1 DEF MarkDownloadFailed, TypeOK, GateInv
    <2>4. SavesAwaited'
      <3>1. \A i \in Saves : dbQueue[i].id # id
        BY <1>0, <1>1, NothingToSave
      <3>2. \A u \in Ids : phase'[u] = IF u = id THEN "saving" ELSE phase[u]
        BY <1>1, <2>1 DEF Goto
      <3> QED
        BY <1>0, <1>2, <2>1, <2>2, <3>1, <3>2, SaveQueued
    <2> QED
      BY <1>a, <2>1, <2>3, <2>4, AttemptsStandThen
  <1> QED
    BY <1>3, <1>4

\* The finally of an attempt gives back what it holds.
LEMMA UnwindKeepsAttempts ==
    ASSUME AttemptInv, GateInv', NEW id \in Ids, Unwind(id)
    PROVE  AttemptInv'
  <1>0. TypeOK /\ SavesAwaited /\ \A u \in Ids : Stands(u)
    BY AttemptByAttempt
  <1>1. /\ phase \in [Ids -> Phases] /\ writes \in [Ids -> Seq(Entries)]
        /\ phase[id] = "unwinding" /\ ChainOver(id) /\ task[id] = "idle"
    <2>1. phase[id] = "unwinding" /\ ChainOver(id)
      BY DEF Unwind
    <2> QED
      BY <1>0, <2>1 DEF TypeOK, Entries, Stands, Busy
  <1>2. /\ \A u \in Ids : phase'[u] = IF u = id THEN "none" ELSE phase[u]
        /\ \A u \in Ids : writes'[u] = IF u = id THEN <<>> ELSE writes[u]
        /\ phase' \in [Ids -> Phases] /\ writes' \in [Ids -> Seq(Entries)]
    <2>1. <<>> \in Seq(Entries)
      OBVIOUS
    <2> QED
      BY <1>1, <2>1 DEF Unwind, Goto, Phases
  <1>3. /\ holding' = holding \ {id} /\ id \notin waiting \cup starting
        /\ waiting' \cup starting' \subseteq waiting \cup starting
    <2>1. CASE id \in holding
      BY <2>1, ReleaseGivesBack DEF Unwind, AttemptInv
    <2>2. CASE id \notin holding
      <3>1. UNCHANGED <<holding, waiting, starting>>
        BY <2>2 DEF Unwind, gateVars, waiting
      <3> QED
        BY <1>0, <1>1, <2>2, <3>1 DEF Stands
    <2> QED
      BY <2>1, <2>2
  <1>4. TypeOK'
    BY <1>0, <1>2 DEF Unwind, TypeOK, GateInv, Entries
  <1>5. SavesAwaited'
    <2>1. SavesFrom(0)
      <3>1. \A i \in Saves : i + 0 = i
        BY DEF Saves
      <3> QED
        BY <3>1 DEF SavesFrom, Saves, Unwind
    <2>2. \A i \in Saves' : dbQueue'[i].id \in Ids
      BY <1>0, QueuedWrites DEF Saves, Unwind
    <2>3. writes[id] # <<>> => writes[id][1] # "saving"
      BY <1>1 DEF ChainOver
    <2> QED
      BY <1>0, <1>1, <1>2, <2>1, <2>2, <2>3, SavesKept
  <1>6. ASSUME NEW u \in Ids PROVE Stands(u)'
    <2>1. CASE u # id
      <3>1. u \in waiting' \cup granted' => u \in waiting \cup granted
        BY <1>3 DEF granted
      <3> QED
        BY <1>0, <1>2, <1>3, <2>1, <3>1 DEF Stands, Unwind, ChainOver
    <2>2. CASE u = id
      <3>1. id \notin waiting' /\ id \notin starting' /\ id \notin granted'
        BY <1>3 DEF granted
      <3>2. id \notin scheduled'
        BY DEF Unwind
      <3>3. task' = task /\ phase'[id] = "none" /\ writes'[id] = <<>>
        BY <1>2 DEF Unwind
      <3>4. \A i \in 2 .. Len(<<>>) : FALSE
        OBVIOUS
      <3> QED
        BY <1>1, <2>2, <3>1, <3>2, <3>3, <3>4 DEF Stands, Busy
    <2> QED
      BY <2>1, <2>2
  <1> QED
    BY <1>4, <1>5, <1>6, AttemptsStandThen

\* A restart leaves no attempt.
LEMMA RestartKeepsAttempts ==
    ASSUME AttemptInv, GateInv', Restart
    PROVE  AttemptInv'
  <1>0. TypeOK
    BY DEF AttemptInv, HeldByAttempts
  <1>1. TypeOK'
    <2>1. <<>> \in Seq(Entries) /\ <<>> \in Seq(DbOps) /\ <<>> \in Seq([id : Ids, then : {"open", "claim"}])
      OBVIOUS
    <2>2. restarts' \in 0 .. MaxRestarts
      BY <1>0, ChapterAssumption DEF Restart, TypeOK, ChapterAssumption
    <2> QED
      BY <1>0, <2>1, <2>2 DEF Restart, TypeOK, GateInv, Entries, Phases, Pool!TaskStates
  <1>2. Saves' = {}
    BY DEF Restart, Saves
  <1>3. SavesAwaited'
    BY <1>2 DEF SavesAwaited
  <1>4. waiting' = {} /\ starting' = {} /\ granted' = {}
    BY DEF Restart, waiting, granted
  <1>5. ASSUME NEW u \in Ids PROVE Stands(u)'
    <2>1. u \notin scheduled' /\ phase'[u] = "none" /\ task'[u] = "idle" /\ writes'[u] = <<>>
      BY DEF Restart
    <2>2. \A i \in 2 .. Len(<<>>) : FALSE
      OBVIOUS
    <2> QED
      BY <1>4, <2>1, <2>2 DEF Stands, Busy
  <1> QED
    BY <1>1, <1>3, <1>5, AttemptsStandThen

\* The start delay in the gate is over.
LEMMA GrantKeepsAttempts ==
    ASSUME AttemptInv, GateInv', NEW id \in Ids, SlotGranted(id)
    PROVE  AttemptInv'
  <1>0. TypeOK /\ SavesAwaited /\ \A u \in Ids : Stands(u)
    BY AttemptByAttempt
  <1>1. /\ UNCHANGED <<record, phase, scheduled, task, writes, dbQueue, resumed, pending,
                       revoked, others, restarts, kind>>
        /\ waiting' = waiting /\ starting' = starting \ {id} /\ holding' = holding \cup {id}
        /\ granted' = granted /\ id \in starting
    BY DEF SlotGranted, StartTimer, chapterVars, waiting, granted
  <1>2. TypeOK'
    BY <1>0, <1>1 DEF TypeOK, GateInv
  <1>3. SavesAwaited'
    BY <1>0, <1>1 DEF SavesAwaited, Saves
  <1>4. ASSUME NEW u \in Ids PROVE Stands(u)'
    BY <1>0, <1>1 DEF Stands, ChainOver
  <1> QED
    BY <1>2, <1>3, <1>4, AttemptsStandThen

\* A call of downloadChapter claims its chapter and enters the gate, or is one
\* too many.
LEMMA ClaimKeepsAttempts ==
    ASSUME AttemptInv, GateInv', Claim
    PROVE  AttemptInv'
  <1>0. TypeOK /\ SavesAwaited /\ \A u \in Ids : Stands(u)
    BY AttemptByAttempt
  <1>1. PICK id \in Ids : id = Head(resumed).id
    BY <1>0, NextContinuation DEF Claim
  <1>2. /\ UNCHANGED <<record, task, writes, dbQueue, pending, revoked, others, restarts, kind>>
        /\ resumed' \in Seq([id : Ids, then : {"open", "claim"}])
    BY <1>0, NextContinuation DEF Claim
  <1>3. SavesFrom(0)
    <2>1. \A i \in Saves : i + 0 = i
      BY DEF Saves
    <2> QED
      BY <1>2, <2>1 DEF SavesFrom, Saves
  <1>4. \A i \in Saves' : dbQueue'[i].id \in Ids
    BY <1>0, <1>2, QueuedWrites DEF Saves
  <1>5. CASE id \in scheduled /\ UNCHANGED <<gateVars, phase, scheduled>>
    <2>1. TypeOK'
      BY <1>0, <1>2, <1>5 DEF TypeOK, GateInv
    <2>2. SavesAwaited'
      BY <1>0, <1>2, <1>3, <1>5, SavesKept
    <2>3. ASSUME NEW u \in Ids PROVE Stands(u)'
      <3>1. UNCHANGED <<scheduled, holding, starting, waiting, granted, phase>>
        BY <1>5 DEF gateVars, waiting, granted
      <3> QED
        BY <1>0, <1>2, <3>1 DEF Stands, ChainOver
    <2> QED
      BY <2>1, <2>2, <2>3, AttemptsStandThen
  <1>6. CASE id \notin scheduled
    <2>1. /\ scheduled' = scheduled \cup {id}
          /\ \/ Goto(id, "unwinding") /\ UNCHANGED gateVars
             \/ Goto(id, "waiting") /\ \E s \in SourcesOf[id], m \in Limits : Acquire(id, s, m)
      BY <1>1, <1>6 DEF Claim
    <2>2. PICK p \in {"unwinding", "waiting"} : Goto(id, p) /\ (p = "unwinding" => UNCHANGED gateVars)
      BY <2>1
    <2>3. /\ phase[id] = "none" /\ phase \in [Ids -> Phases] /\ task[id] = "idle"
          /\ id \notin waiting /\ id \notin starting
      BY <1>0, <1>6 DEF Stands, TypeOK, Busy, granted
    <2>4. /\ holding' = holding
          /\ waiting' \cup starting' \subseteq waiting \cup starting \cup {id}
          /\ p = "unwinding" => id \notin waiting' \cup starting'
      <3>1. CASE UNCHANGED gateVars
        <4>1. UNCHANGED <<holding, waiting, starting>>
          BY <3>1 DEF gateVars, waiting
        <4> QED
          BY <2>3, <4>1
      <3>2. CASE p # "unwinding" /\ \E s \in SourcesOf[id], m \in Limits : Acquire(id, s, m)
        BY <3>2, AcquireTakesPlace DEF AttemptInv
      <3>3. phase'[id] = p
        BY <2>2, <2>3 DEF Goto
      <3>4. ~UNCHANGED gateVars => p # "unwinding" /\ \E s \in SourcesOf[id], m \in Limits : Acquire(id, s, m)
        BY <2>1, <2>2
      <3> QED
        BY <3>1, <3>2, <3>4
    <2>5. /\ \A u \in Ids : phase'[u] = IF u = id THEN p ELSE phase[u]
          /\ phase' \in [Ids -> Phases]
      BY <2>2, <2>3 DEF Goto, Phases
    <2>6. TypeOK'
      BY <1>0, <1>2, <2>1, <2>5 DEF TypeOK, GateInv
    <2>7. SavesAwaited'
      BY <1>0, <1>2, <1>3, <1>4, <2>3, <2>5, SavesKept
    <2>8. ASSUME NEW u \in Ids PROVE Stands(u)'
      <3>1. CASE u # id
        <4>1. u \in waiting' \cup starting' => u \in waiting \cup starting
          BY <2>4, <3>1
        <4>2. u \in waiting' \cup granted' => u \in waiting \cup granted
          BY <2>4, <4>1 DEF granted
        <4> QED
          BY <1>0, <1>2, <2>1, <2>4, <2>5, <3>1, <4>1, <4>2 DEF Stands, ChainOver
      <3>2. CASE u = id
        BY <1>0, <1>2, <2>1, <2>3, <2>4, <2>5, <3>2 DEF Stands, Busy
      <3> QED
        BY <3>1, <3>2
    <2> QED
      BY <2>6, <2>7, <2>8, AttemptsStandThen
  <1> QED
    BY <1>1, <1>5, <1>6 DEF Claim

\* What a write does to the record it is for.
LEMMA WrittenRecord ==
    ASSUME TypeOK, RunWrite
    PROVE  LET w == dbQueue[1]
           IN  /\ w # OtherWrite /\ w.id \in Ids /\ w.op \in {"enqueue", "save", "delete"}
               /\ record' \in [Ids -> {NoRecord} \cup [start : BOOLEAN, done : BOOLEAN]]
               /\ \A u \in Ids \ {w.id} : record'[u] = record[u]
               /\ w.op = "enqueue" => record'[w.id] = Enqueued(record[w.id])
               /\ w.op = "save" => record'[w.id] = w.record
               /\ w.op = "delete" => record'[w.id] = NoRecord
  <1> DEFINE w == dbQueue[1]
  <1>1. w = Head(dbQueue) /\ 1 \in 1 .. Len(dbQueue) /\ w # OtherWrite
    BY WriteLeaves DEF RunWrite, WriteReady
  <1>2. /\ w.id \in Ids /\ w.op \in {"enqueue", "save", "delete"}
        /\ w.op = "save" => w.record \in [start : BOOLEAN, done : BOOLEAN]
    BY <1>1, QueuedWrites
  <1>3. record \in [Ids -> {NoRecord} \cup [start : BOOLEAN, done : BOOLEAN]]
    BY DEF TypeOK
  <1>4. record' = [record EXCEPT ![w.id] =
                       CASE w.op = "enqueue" -> Enqueued(@)
                         [] w.op = "save"    -> w.record
                         [] w.op = "delete"  -> NoRecord]
    BY <1>1 DEF RunWrite
  <1> HIDE DEF w
  <1>5. /\ w.op = "enqueue" => record' = [record EXCEPT ![w.id] = Enqueued(@)]
        /\ w.op = "save" => record' = [record EXCEPT ![w.id] = w.record]
        /\ w.op = "delete" => record' = [record EXCEPT ![w.id] = NoRecord]
    BY <1>4
  <1>6. Enqueued(record[w.id]) \in {NoRecord} \cup [start : BOOLEAN, done : BOOLEAN]
    <2>1. Queued \in [start : BOOLEAN, done : BOOLEAN]
      BY DEF Queued
    <2> QED
      BY <1>2, <1>3, <2>1 DEF Enqueued
  <1>7. /\ record' \in [Ids -> {NoRecord} \cup [start : BOOLEAN, done : BOOLEAN]]
        /\ \A u \in Ids \ {w.id} : record'[u] = record[u]
        /\ w.op = "enqueue" => record'[w.id] = Enqueued(record[w.id])
        /\ w.op = "save" => record'[w.id] = w.record
        /\ w.op = "delete" => record'[w.id] = NoRecord
    BY <1>2, <1>3, <1>5, <1>6
  <1> QED
    BY <1>1, <1>2, <1>7 DEF w

\* What a write does to whoever waits for it.
LEMMA WriteResumes ==
    ASSUME TypeOK, SavesAwaited, RunWrite
    PROVE  LET w == dbQueue[1]
           IN  /\ w.op # "save" => UNCHANGED <<phase, writes>>
               /\ w.op = "save" /\ w.by = "attempt" =>
                     /\ phase[w.id] = "saving" /\ writes' = writes
                     /\ phase' = [phase EXCEPT ![w.id] = "unwinding"]
               /\ w.op = "save" /\ w.by = "progress" =>
                     /\ writes[w.id] # <<>> /\ writes[w.id][1] = "saving" /\ phase' = phase
                     /\ writes' = [writes EXCEPT ![w.id] = Tail(@)]
               /\ w.op = "save" => \A i \in Saves' : dbQueue'[i].id # w.id
               /\ w.op # "enqueue" => resumed' = resumed
               /\ w.op = "enqueue" =>
                     resumed' = IF w.then = "rest" THEN resumed
                                ELSE Append(resumed, [id |-> w.id, then |-> w.then])
  <1> DEFINE w == dbQueue[1]
  <1>1. /\ w = Head(dbQueue) /\ 1 \in 1 .. Len(dbQueue) /\ dbQueue' = Tail(dbQueue)
        /\ \A i \in 1 .. Len(dbQueue') : /\ dbQueue'[i] = dbQueue[i + 1]
                                         /\ i + 1 \in 1 .. Len(dbQueue) /\ i + 1 # 1
    BY WriteLeaves DEF RunWrite, WriteReady
  <1>2. w.op = "save" => 1 \in Saves
    BY <1>1 DEF Saves
  <1>3. /\ w.op = "save" /\ w.by = "attempt" => phase[w.id] = "saving"
        /\ w.op = "save" /\ w.by = "progress" => writes[w.id] # <<>> /\ writes[w.id][1] = "saving"
    BY <1>2 DEF SavesAwaited
  <1>4. ASSUME w.op = "save", NEW i \in Saves', dbQueue'[i].id = w.id PROVE FALSE
    <2>1. i + 1 \in Saves /\ dbQueue[i + 1].id = w.id /\ i + 1 # 1
      BY <1>1, <1>4 DEF Saves
    <2> QED
      BY <1>2, <1>4, <2>1 DEF SavesAwaited
  <1>5. /\ resumed' = IF w.op = "enqueue" /\ w.then # "rest"
                      THEN Append(resumed, [id |-> w.id, then |-> w.then])
                      ELSE resumed
        /\ phase' = IF w.op = "save" /\ w.by = "attempt"
                    THEN [phase EXCEPT ![w.id] = "unwinding"] ELSE phase
        /\ writes' = IF w.op = "save" /\ w.by = "progress"
                     THEN [writes EXCEPT ![w.id] = Tail(@)] ELSE writes
    BY <1>1 DEF RunWrite
  <1> HIDE DEF w
  <1>6. /\ w.op # "save" => UNCHANGED <<phase, writes>>
        /\ w.op = "save" /\ w.by = "attempt" =>
              writes' = writes /\ phase' = [phase EXCEPT ![w.id] = "unwinding"]
        /\ w.op = "save" /\ w.by = "progress" =>
              phase' = phase /\ writes' = [writes EXCEPT ![w.id] = Tail(@)]
        /\ w.op # "enqueue" => resumed' = resumed
        /\ w.op = "enqueue" =>
              resumed' = IF w.then = "rest" THEN resumed
                         ELSE Append(resumed, [id |-> w.id, then |-> w.then])
    BY <1>5
  <1> QED
    BY <1>3, <1>4, <1>6 DEF w

\* A write runs.
LEMMA WriteKeepsAttempts ==
    ASSUME AttemptInv, GateInv', RunWrite
    PROVE  AttemptInv'
  <1>0. TypeOK /\ SavesAwaited /\ \A u \in Ids : Stands(u)
    BY AttemptByAttempt
  <1>1. PICK w : w = dbQueue[1]
    OBVIOUS
  <1>2. /\ w.id \in Ids /\ w.op \in {"enqueue", "save", "delete"}
        /\ record' \in [Ids -> {NoRecord} \cup [start : BOOLEAN, done : BOOLEAN]]
    BY <1>0, <1>1, WrittenRecord
  <1>3. /\ w.op = "save" => w.by \in {"progress", "attempt"}
        /\ w.op = "enqueue" => w.then \in {"rest", "open", "claim"}
    <2>1. 1 \in 1 .. Len(dbQueue)
      BY <1>0, WriteLeaves DEF RunWrite, WriteReady
    <2> QED
      BY <1>0, <1>1, <2>1, QueuedWrites
  <1>4. /\ w.op # "save" => UNCHANGED <<phase, writes>>
        /\ w.op = "save" /\ w.by = "attempt" =>
              /\ phase[w.id] = "saving" /\ writes' = writes
              /\ phase' = [phase EXCEPT ![w.id] = "unwinding"]
        /\ w.op = "save" /\ w.by = "progress" =>
              /\ writes[w.id] # <<>> /\ writes[w.id][1] = "saving" /\ phase' = phase
              /\ writes' = [writes EXCEPT ![w.id] = Tail(@)]
        /\ w.op = "save" => \A i \in Saves' : dbQueue'[i].id # w.id
        /\ w.op # "enqueue" => resumed' = resumed
        /\ w.op = "enqueue" =>
              resumed' = IF w.then = "rest" THEN resumed
                         ELSE Append(resumed, [id |-> w.id, then |-> w.then])
    BY <1>0, <1>1, WriteResumes
  <1>5. resumed' \in Seq([id : Ids, then : {"open", "claim"}])
    <2>1. resumed \in Seq([id : Ids, then : {"open", "claim"}])
      BY <1>0 DEF TypeOK
    <2>2. CASE w.op = "enqueue" /\ w.then # "rest"
      <3>1. [id |-> w.id, then |-> w.then] \in [id : Ids, then : {"open", "claim"}]
        BY <1>2, <1>3, <2>2
      <3>2. resumed' = Append(resumed, [id |-> w.id, then |-> w.then])
        BY <1>4, <2>2
      <3> QED
        BY <2>1, <3>1, <3>2, AppendProperties
    <2>3. CASE ~(w.op = "enqueue" /\ w.then # "rest")
      <3>1. resumed' = resumed
        BY <1>4, <2>3
      <3> QED
        BY <2>1, <3>1
    <2> QED
      BY <2>2, <2>3
  <1>6. /\ dbQueue' \in Seq(DbOps) /\ SavesFrom(1)
        /\ \A i \in Saves' : dbQueue'[i].id \in Ids
    <2>1. dbQueue' \in Seq(DbOps) /\ SavesFrom(1)
      BY <1>0, WriteLeaves DEF RunWrite, WriteReady
    <2>2. \A i \in Saves : dbQueue[i].id \in Ids
      BY <1>0, QueuedWrites DEF Saves
    <2> QED
      BY <2>1, <2>2 DEF SavesFrom
  <1>7. UNCHANGED <<scheduled, holding, starting, waiting, granted, task>>
    BY DEF RunWrite, gateVars, waiting, granted
  <1>8. writes \in [Ids -> Seq(Entries)] /\ phase \in [Ids -> Phases]
    BY <1>0 DEF TypeOK, Entries
  <1>a. ASSUME writes' \in [Ids -> Seq(Entries)], phase' \in [Ids -> Phases]
        PROVE  TypeOK'
    BY <1>0, <1>2, <1>5, <1>6, <1>a DEF RunWrite, TypeOK, GateInv, Entries
  <1>9. CASE w.op # "save"
    <2>1. TypeOK'
      BY <1>4, <1>8, <1>9, <1>a
    <2>2. SavesAwaited'
      BY <1>0, <1>4, <1>6, <1>9, SavesKept
    <2>3. ASSUME NEW u \in Ids PROVE Stands(u)'
      BY <1>0, <1>4, <1>7, <1>9 DEF Stands, ChainOver
    <2> QED
      BY <2>1, <2>2, <2>3, AttemptsStandThen
  <1>10. CASE w.op = "save" /\ w.by = "attempt"
    <2>1. /\ \A u \in Ids : phase'[u] = IF u = w.id THEN "unwinding" ELSE phase[u]
          /\ phase' \in [Ids -> Phases] /\ writes' = writes
      BY <1>2, <1>4, <1>8, <1>10 DEF Phases
    <2>2. TypeOK'
      BY <1>8, <1>a, <2>1
    <2>3. SavesAwaited'
      BY <1>0, <1>4, <1>6, <1>10, <2>1, SavesKept
    <2>4. ASSUME NEW u \in Ids PROVE Stands(u)'
      <3>1. CASE u # w.id
        BY <1>0, <1>7, <2>1, <3>1 DEF Stands, ChainOver
      <3>2. CASE u = w.id
        BY <1>0, <1>4, <1>7, <1>10, <2>1, <3>2 DEF Stands, Busy, granted
      <3> QED
        BY <3>1, <3>2
    <2> QED
      BY <2>2, <2>3, <2>4, AttemptsStandThen
  <1>11. CASE w.op = "save" /\ w.by = "progress"
    <2>1. writes[w.id] # <<>> /\ writes[w.id][1] = "saving"
      BY <1>4, <1>11
    <2>2. /\ Tail(writes[w.id]) \in Seq(Entries)
          /\ \A i \in 2 .. Len(Tail(writes[w.id])) : Tail(writes[w.id])[i] # "saving"
      <3>1. /\ Tail(writes[w.id]) \in Seq(Entries)
            /\ Len(Tail(writes[w.id])) = Len(writes[w.id]) - 1
            /\ \A i \in 1 .. Len(Tail(writes[w.id])) :
                  Tail(writes[w.id])[i] = writes[w.id][i + 1] /\ i + 1 \in 2 .. Len(writes[w.id])
        BY <1>2, <1>8, <2>1, ChainMoves
      <3> QED
        BY <1>0, <1>2, <3>1 DEF Stands
    <2>3. PICK c \in Seq(Entries) : c = Tail(writes[w.id])
      BY <2>2
    <2>4. /\ writes' \in [Ids -> Seq(Entries)] /\ phase' = phase
          /\ \A u \in Ids : writes'[u] = IF u = w.id THEN c ELSE writes[u]
      BY <1>2, <1>4, <1>8, <1>11, <2>3
    <2>5. TypeOK'
      BY <1>8, <1>a, <2>4
    <2>6. SavesAwaited'
      BY <1>0, <1>4, <1>6, <1>11, <2>4, SavesKept
    <2>7. phase[w.id] # "saving"
      <3>1. ~ChainOver(w.id)
        BY <2>1 DEF ChainOver
      <3> QED
        BY <1>0, <1>2, <3>1 DEF Stands
    <2>8. ASSUME NEW u \in Ids PROVE Stands(u)'
      <3>1. CASE u # w.id
        BY <1>0, <1>7, <2>4, <3>1 DEF Stands, ChainOver
      <3>2. CASE u = w.id
        BY <1>0, <1>7, <2>2, <2>3, <2>4, <2>7, <3>2 DEF Stands
      <3> QED
        BY <3>1, <3>2
    <2> QED
      BY <2>5, <2>6, <2>8, AttemptsStandThen
  <1> QED
    BY <1>2, <1>3, <1>9, <1>10, <1>11

\* No step disturbs the first layer.
LEMMA AttemptStep ==
    ASSUME AttemptInv, [Next]_vars
    PROVE  AttemptInv'
  <1>0. GateInv /\ TypeOK /\ HeldByAttempts
    BY DEF AttemptInv, HeldByAttempts
  <1>1. GateInv'
    BY <1>0, GateKeeps
  <1>2. ASSUME NEW id \in Ids,
               \/ Resume(id) \/ Prepare(id) \/ TaskEnds(id) \/ TaskProgress(id)
               \/ TaskAnswered(id) \/ MergeEnds(id) \/ SubtitlesEnd(id) \/ Finish(id) \/ ScanEnds(id)
        PROVE  AttemptInv'
    BY <1>0, <1>1, <1>2, AttemptMoves, MoveKeepsAttempts
  <1>3. ASSUME \/ \E id \in Ids : StartDownload(id) \/ AddDownloadToQueue(id) \/ CancelDownloads(id)
               \/ Open \/ ReadPending \/ ProcessDownloads
               \/ OtherWriteBegins \/ OtherWriteEnds \/ UNCHANGED vars
        PROVE  AttemptInv'
    BY <1>0, <1>1, <1>3, RequestsSpare, SparedAttempts
  <1>4. ASSUME NEW id \in Ids, ConvertEnds(id) PROVE AttemptInv'
    BY <1>1, <1>4, ConvertKeepsAttempts
  <1>5. ASSUME NEW id \in Ids, SetProgress(id) PROVE AttemptInv'
    BY <1>1, <1>5, ProgressKeepsAttempts
  <1>6. ASSUME NEW id \in Ids, MarkDownloadFailed(id) PROVE AttemptInv'
    BY <1>1, <1>6, FailureKeepsAttempts
  <1>7. ASSUME NEW id \in Ids, Unwind(id) PROVE AttemptInv'
    BY <1>1, <1>7, UnwindKeepsAttempts
  <1>8. ASSUME NEW id \in Ids, SlotGranted(id) PROVE AttemptInv'
    BY <1>1, <1>8, GrantKeepsAttempts
  <1>9. CASE Claim
    BY <1>1, <1>9, ClaimKeepsAttempts
  <1>10. CASE RunWrite
    BY <1>1, <1>10, WriteKeepsAttempts
  <1>11. CASE Restart
    BY <1>1, <1>11, RestartKeepsAttempts
  <1> QED
    BY <1>2, <1>3, <1>4, <1>5, <1>6, <1>7, <1>8, <1>9, <1>10, <1>11 DEF Next, Event, Microtask

\* The first layer holds at the start.
LEMMA AttemptInit == Init => AttemptInv
  <1> SUFFICES ASSUME Init PROVE AttemptInv
    OBVIOUS
  <1>1. GateInv
    BY InitInv DEF Init
  <1>2. TypeOK
    <2>1. <<>> \in Seq(Entries) /\ <<>> \in Seq(DbOps) /\ <<>> \in Seq([id : Ids, then : {"open", "claim"}])
      OBVIOUS
    <2>2. 0 \in 0 .. MaxOthers /\ 0 \in 0 .. MaxRestarts
      BY ChapterAssumption DEF ChapterAssumption
    <2> QED
      BY <1>1, <2>1, <2>2 DEF Init, TypeOK, GateInv, Entries, Phases, Pool!TaskStates, Pool!Init
  <1>3. SavesAwaited
    <2>1. Saves = {}
      BY DEF Init, Saves
    <2> QED
      BY <2>1 DEF SavesAwaited
  <1>4. ASSUME NEW u \in Ids PROVE Stands(u)
    <2>1. u \notin scheduled /\ phase[u] = "none" /\ task[u] = "idle" /\ writes[u] = <<>>
      BY DEF Init, Pool!Init
    <2>2. waiting = {} /\ starting = {} /\ granted = {}
      BY DEF Init, GateInit, waiting, granted
    <2>3. \A i \in 2 .. Len(<<>>) : FALSE
      OBVIOUS
    <2> QED
      BY <2>1, <2>2, <2>3 DEF Stands, Busy
  <1> QED
    BY <1>1, <1>2, <1>3, <1>4, AttemptByAttempt

\* The first layer of the invariant of the specification.
LEMMA AttemptInvHolds == Spec => []AttemptInv
  <1>1. AttemptInv /\ [Next]_vars => AttemptInv'
    BY AttemptStep
  <1> QED
    BY <1>1, AttemptInit, PTL DEF Spec

\* Whatever an attempt holds, a claim, a place in the gate or a task of the pool,
\* it holds as long as it lives and no longer: through failures, cancels, missing
\* wifi and restarts (download_provider.dart, downloadChapter and its finally).
THEOREM NothingOutlivesAnAttempt == Spec => []HeldByAttempts
  <1>1. AttemptInv => HeldByAttempts
    BY DEF AttemptInv
  <1> QED
    BY <1>1, AttemptInvHolds, PTL

\* The slots of the gate bound what the pool works on: it never downloads two
\* chapters of one source at once, nor more chapters than have a slot.
THEOREM PoolWorksInTheGate == Spec => []PoolSerialPerSource
  <1>1. AttemptInv => PoolSerialPerSource
    <2> SUFFICES ASSUME AttemptInv PROVE PoolSerialPerSource
      OBVIOUS
    <2> DEFINE busy == {id \in Ids : task[id] # "idle"}
    <2>1. busy \subseteq granted
      BY DEF AttemptInv, HeldByAttempts, granted
    <2>2. IsFiniteSet(granted) /\ granted \subseteq Ids
      BY GateAssumption, FS_Subset DEF AttemptInv, GateInv, GateTypeOK, granted, GateAssumption
    <2>3. Cardinality(busy) <= Cardinality(granted)
      BY <2>1, <2>2, FS_Subset
    <2>4. active = Cardinality(granted)
      BY DEF AttemptInv, GateInv, SlotsMatchHolders
    <2>5. \A a, b \in busy : a # b => source[a] # source[b]
      BY <2>1 DEF AttemptInv, GateInv, SourceSerial
    <2> QED
      BY <2>3, <2>4, <2>5 DEF PoolSerialPerSource
  <1> QED
    BY <1>1, AttemptInvHolds, PTL

\* What the gate keeps by itself it keeps for the attempts, through cancels, failures
\* and restarts: its counter counts the slots held, a source has at most one of them,
\* and no slot that somebody could have is left free (download_gate.dart).
THEOREM GateHoldsForAttempts == Spec => [](SlotsMatchHolders /\ SourceSerial /\ WorkConserving)
  <1>1. AttemptInv => SlotsMatchHolders /\ SourceSerial /\ WorkConserving
    BY DEF AttemptInv, GateInv
  <1> QED
    BY <1>1, AttemptInvHolds, PTL

\* Attempts get their slots in the order of the queue and below the limit
\* (acquire, _reorderWaiters and _dispatch, as downloadChapter calls them).
THEOREM AttemptsGetSlotsInOrder == Spec => GrantsInQueueOrder /\ GrantsUnderLimit
  <1> DEFINE InOrder == \A w \in starting' \ starting, v \in DOMAIN place' :
                           (source'[v] = source'[w] \/ source'[v] \notin activeSources')
                           => Precedes(order, place, w, v)
             Below == starting' \ starting # {} => active' <= maxConcurrent'
  <1>1. AttemptInv /\ [Next]_vars => [InOrder]_gateVars /\ [Below]_gateVars
    <2> SUFFICES ASSUME AttemptInv, [Next]_vars, ~(UNCHANGED gateVars) PROVE InOrder /\ Below
      OBVIOUS
    <2>1. GateInv /\ TypeOK
      BY DEF AttemptInv, HeldByAttempts
    <2>2. CASE GateNext
      BY <2>1, <2>2, StepGrantsInOrder, StepGrantsUnderLimit
    <2>3. CASE Restart
      BY <2>3 DEF Restart
    <2> QED
      BY <2>1, <2>2, <2>3, GateSteps
  <1> QED
    BY <1>1, AttemptInvHolds, PTL DEF Spec, GrantsInQueueOrder, GrantsUnderLimit

\* The attempts and the gate together still implement the slots the gate promises,
\* between one start of the app and the next: the composition breaks nothing of it.
THEOREM AttemptsKeepTheSlots == Spec => SlotsKept
  <1>1. AttemptInv /\ AttemptInv' /\ [Next]_vars
          => [restarts' = restarts => Slots!Next \/ UNCHANGED Slots!slotVars]_vars
    <2> SUFFICES ASSUME AttemptInv, AttemptInv', [Next]_vars, restarts' = restarts
                 PROVE  Slots!Next \/ UNCHANGED Slots!slotVars
      OBVIOUS
    <2>1. GateInv /\ GateInv' /\ TypeOK
      BY DEF AttemptInv, HeldByAttempts
    <2>2. ~Restart
      BY <2>1 DEF Restart, TypeOK
    <2> QED
      BY <2>1, <2>2, GateSteps, StepKeepsSlots
  <1> QED
    BY <1>1, AttemptInvHolds, PTL DEF Spec, SlotsKept

-----------------------------------------------------------------------------
(* Second layer: what happens to a chapter that is complete.               *)

\* Only the write that runs changes a record.
LEMMA RecordsWritten ==
    ASSUME [Next]_vars, ~RunWrite
    PROVE  record' = record
  BY DEF Next, Event, Microtask, Prepare, vars, chapterVars, StartDownload,
     AddDownloadToQueue, CancelDownloads, TaskProgress, SlotGranted, NoWifi, PrepareFails,
     PrepareEnds, ListingFails, NothingToFetch, NovelFetched, SubmitTask, TaskEnds,
     TaskAnswered, MergeEnds, SubtitlesEnd, ConvertEnds, Resume, SetProgress,
     MarkDownloadFailed, Unwind, Finish, ScanEnds, Open, Claim, ReadPending, ProcessDownloads,
     OtherWriteBegins, OtherWriteEnds, Restart, Advance

\* The flag is only set by a save that sets it.
LEMMA IncompleteStays ==
    ASSUME TypeOK, [Next]_vars, NEW id \in Ids, ~Complete(id),
           RunWrite /\ dbQueue[1].op = "save" /\ dbQueue[1].id = id => ~dbQueue[1].record.done
    PROVE  ~Complete(id)'
  <1>1. CASE RunWrite
    <2>1. PICK w : w = dbQueue[1]
      OBVIOUS
    <2>2. /\ w.id \in Ids /\ w.op \in {"enqueue", "save", "delete"}
          /\ \A u \in Ids \ {w.id} : record'[u] = record[u]
          /\ w.op = "enqueue" => record'[w.id] = Enqueued(record[w.id])
          /\ w.op = "save" => record'[w.id] = w.record
          /\ w.op = "delete" => record'[w.id] = NoRecord
      BY <1>1, <2>1, WrittenRecord
    <2>3. CASE id # w.id
      BY <2>2, <2>3 DEF Complete
    <2>4. CASE id = w.id /\ w.op = "enqueue"
      <3>1. Enqueued(record[id]) # NoRecord => ~Enqueued(record[id]).done
        BY DEF Complete, Enqueued, Queued
      <3> QED
        BY <2>2, <2>4, <3>1 DEF Complete
    <2>5. CASE id = w.id /\ w.op = "save"
      BY <1>1, <2>1, <2>2, <2>5 DEF Complete
    <2>6. CASE id = w.id /\ w.op = "delete"
      BY <2>2, <2>6 DEF Complete
    <2> QED
      BY <2>2, <2>3, <2>4, <2>5, <2>6
  <1>2. CASE ~RunWrite
    <2>1. record' = record
      BY <1>2, RecordsWritten
    <2> QED
      BY <2>1 DEF Complete
  <1> QED
    BY <1>1, <1>2

\* A save that comes last, or unsets nothing, does so as long as it is queued.
LEMMA LastKept ==
    ASSUME NEW d \in {0, 1}, SavesFrom(d), \A i \in Saves : SavedLast(i),
           \A i \in Saves' : dbQueue'[i].id \in Ids,
           \A id \in Ids : (\E i \in Saves' : dbQueue'[i].id = id) =>
               (~Underway(id) => ~Underway(id)') /\ (~Complete(id) => ~Complete(id)')
    PROVE  (\A i \in Saves : SavedLast(i))'
  <1> SUFFICES ASSUME NEW i \in Saves' PROVE SavedLast(i)'
    OBVIOUS
  <1>1. i + d \in Saves /\ dbQueue'[i] = dbQueue[i + d]
    BY DEF SavesFrom
  <1>2. PICK w : w = dbQueue[i + d]
    OBVIOUS
  <1>3. dbQueue'[i] = w /\ w.id \in Ids
    BY <1>1, <1>2
  <1>4. IF w.record.done THEN ~Underway(w.id) ELSE ~Complete(w.id)
    BY <1>1, <1>2 DEF SavedLast
  <1>5. (~Underway(w.id) => ~Underway(w.id)') /\ (~Complete(w.id) => ~Complete(w.id)')
    BY <1>3
  <1>6. IF w.record.done THEN ~Underway(w.id)' ELSE ~Complete(w.id)'
    BY <1>4, <1>5
  <1> QED
    BY <1>3, <1>6 DEF SavedLast, Underway, Complete

\* An attempt moves on.
LEMMA MoveKeepsCompletion ==
    ASSUME AttemptInv, CompletionInv, [Next]_vars, NEW id \in Ids, NEW p \in Phases,
           NEW ws \in ChainSteps, Moves(id, p, ws)
    PROVE  CompletionInv'
  <1>0. TypeOK /\ SavesAwaited /\ OneSaveAtATime
    BY AttemptByAttempt DEF AttemptInv
  <1>1. writes \in [Ids -> Seq(Entries)] /\ phase \in [Ids -> Phases]
    BY <1>0 DEF TypeOK, Entries
  <1>2. /\ writes[id] \o ws \in Seq(Entries) /\ Len(writes[id]) \in Nat
        /\ Len(writes[id]) <= Len(writes[id] \o ws)
        /\ \A i \in 1 .. Len(writes[id]) : (writes[id] \o ws)[i] = writes[id][i]
        /\ \A i \in 1 .. Len(writes[id] \o ws) :
              i \in 1 .. Len(writes[id]) \/ (i = Len(writes[id]) + 1 /\ ws = <<(writes[id] \o ws)[i]>>)
    BY <1>1, ChainGrows
  <1>3. PICK c \in Seq(Entries) : c = writes[id] \o ws
    BY <1>2
  <1>4. /\ \A u \in Ids : writes'[u] = IF u = id THEN c ELSE writes[u]
        /\ \A u \in Ids : phase'[u] = IF u = id THEN p ELSE phase[u]
        /\ record' = record
    BY <1>1, <1>3 DEF Moves
  <1>5. /\ p \notin {"none", "waiting"}
        /\ p \in {"preparing", "listing"} => phase[id] \in {"waiting", "preparing"} /\ ws = <<>>
        /\ p \in {"running", "merging"} => /\ phase[id] \in {"listing", "running", "merging"}
                                           /\ ws \in {<<>>, <<"progress">>}
        /\ ws = <<"progress">> => phase[id] = "running"
    <2>1. <<"progress">> \notin {<<>>, <<"converting">>, <<"completed">>}
      OBVIOUS
    <2>2. MayGo(id, p, ws)
      BY DEF Moves
    <2>3. /\ p \notin {"none", "waiting"}
          /\ p \in {"preparing", "listing"} => phase[id] \in {"waiting", "preparing"} /\ ws = <<>>
          /\ p \in {"running", "merging"} => phase[id] \in {"listing", "running", "merging"}
      BY <2>2 DEF MayGo
    <2>4. p \in {"running", "merging"} => ws \in {<<>>, <<"progress">>}
      BY <2>2 DEF MayGo
    <2>5. ws = <<"progress">> => phase[id] = "running"
      BY <2>1, <2>2 DEF MayGo
    <2> QED
      BY <2>3, <2>4, <2>5
  <1>6. ChainFollowsAttempt(id) /\ IncompleteUntilLast(id)
    BY DEF CompletionInv
  <1>7. \A k \in 1 .. Len(c) : c[k] = "progress" => k \in 1 .. Len(writes[id]) \/ phase[id] = "running"
    BY <1>2, <1>3, <1>5
  <1>8. \A k \in 1 .. Len(c) : c[k] = "progress" => Underway(id)
    BY <1>2, <1>3, <1>7 DEF Underway
  <1>9. ChainFollowsAttempt(id)'
    <2>1. p \in {"none", "waiting", "preparing", "listing"} => c = <<>>
      <3>1. <<>> \o <<>> = <<>>
        BY ConcatEmptySeq, EmptySeq
      <3> QED
        BY <1>3, <1>5, <1>6, <3>1 DEF ChainFollowsAttempt
    <2>2. ASSUME p \in {"running", "merging"}, NEW i \in 1 .. Len(c) PROVE c[i] \notin Completing
      <3>1. \A k \in 1 .. Len(writes[id]) : writes[id][k] \notin Completing
        <4>1. writes[id] = <<>> => Len(writes[id]) = 0
          OBVIOUS
        <4> QED
          BY <1>5, <1>6, <2>2, <4>1 DEF ChainFollowsAttempt
      <3>2. i \in 1 .. Len(writes[id]) \/ c[i] = "progress"
        BY <1>2, <1>3, <1>5, <2>2
      <3> QED
        BY <1>2, <1>3, <3>1, <3>2 DEF Completing
    <2>3. ASSUME NEW i \in 1 .. Len(c), NEW j \in 1 .. Len(c),
                 c[i] = "progress", c[j] \in Completing
          PROVE  i < j
      <3>1. CASE i \in 1 .. Len(writes[id]) /\ j \in 1 .. Len(writes[id])
        BY <1>2, <1>3, <1>6, <2>3, <3>1 DEF ChainFollowsAttempt
      <3>2. CASE i \in 1 .. Len(writes[id]) /\ j = Len(writes[id]) + 1
        BY <1>2, <3>2
      <3>3. CASE i = Len(writes[id]) + 1 /\ ws = <<"progress">>
        <4>1. c[j] \in Completing => j \in 1 .. Len(writes[id])
          BY <1>2, <1>3, <3>3 DEF Completing
        <4> QED
          BY <1>2, <1>3, <1>5, <1>6, <2>3, <3>3, <4>1 DEF ChainFollowsAttempt
      <3> QED
        BY <1>2, <1>3, <2>3, <3>1, <3>2, <3>3
    <2> QED
      BY <1>4, <2>1, <2>2, <2>3 DEF ChainFollowsAttempt
  <1>10. IncompleteUntilLast(id)'
    <2>1. p \in {"waiting", "preparing", "listing"} => ~Complete(id)
      BY <1>5, <1>6 DEF IncompleteUntilLast
    <2>2. p \in {"running", "merging"} => ~Complete(id)
      BY <1>5, <1>6 DEF IncompleteUntilLast, Underway
    <2>3. \A k \in 1 .. Len(c) : c[k] = "progress" => ~Complete(id)
      BY <1>6, <1>8 DEF IncompleteUntilLast
    <2> QED
      BY <1>4, <2>1, <2>2, <2>3 DEF IncompleteUntilLast, Underway, Complete
  <1>11. ASSUME NEW u \in Ids PROVE ChainFollowsAttempt(u)' /\ IncompleteUntilLast(u)'
    <2>1. CASE u # id
      <3>1. phase'[u] = phase[u] /\ writes'[u] = writes[u]
        BY <1>4, <2>1
      <3> QED
        BY <1>4, <3>1 DEF CompletionInv, ChainFollowsAttempt, IncompleteUntilLast, Underway, Complete
    <2> QED
      BY <1>9, <1>10, <2>1
  <1>12. (\A i \in Saves : SavedLast(i))'
    <2>1. SavesFrom(0)
      <3>1. \A i \in Saves : i + 0 = i
        BY DEF Saves
      <3> QED
        BY <3>1 DEF SavesFrom, Saves, Moves
    <2>2. \A i \in Saves' : i \in Saves /\ dbQueue'[i].id = dbQueue[i].id /\ dbQueue'[i].id \in Ids
      BY <1>0, QueuedWrites DEF Saves, Moves
    <2>3. ASSUME NEW u \in Ids, \E i \in Saves' : dbQueue'[i].id = u, ~Underway(u)
          PROVE  ~Underway(u)'
      <3>1. CASE u # id
        BY <1>4, <2>3, <3>1 DEF Underway
      <3>2. CASE u = id
        <4>1. phase[id] # "listing"
          <5>1. \A i \in Saves : dbQueue[i].id = id => phase[id] # "listing"
            <6>1. phase[id] = "listing" => ChainOver(id) /\ phase[id] # "saving"
              BY <1>6 DEF ChainFollowsAttempt, ChainOver
            <6> QED
              BY <1>0, <6>1, NothingToSave
          <5> QED
            BY <2>2, <2>3, <3>2, <5>1
        <4>2. p \notin {"running", "merging"}
          BY <1>5, <2>3, <3>2, <4>1 DEF Underway
        <4> QED
          BY <1>4, <1>8, <2>3, <3>2, <4>2 DEF Underway
      <3> QED
        BY <3>1, <3>2
    <2>4. \A u \in Ids : ~Complete(u) => ~Complete(u)'
      BY <1>4 DEF Complete
    <2> QED
      BY <2>1, <2>2, <2>3, <2>4, LastKept DEF CompletionInv
  <1> QED
    BY <1>11, <1>12 DEF CompletionInv

\* What the second layer says of one chapter.
Follows(id) == ChainFollowsAttempt(id) /\ IncompleteUntilLast(id)

\* A chapter whose attempt and chain stay, or whose attempt is past its work.
LEMMA ChainStays ==
    ASSUME NEW id \in Ids, Follows(id), writes'[id] = writes[id],
           phase'[id] = phase[id] \/ phase'[id] \in {"saving", "unwinding"},
           ~Complete(id) => ~Complete(id)'
    PROVE  Follows(id)' /\ (~Underway(id) => ~Underway(id)')
  <1>1. Follows(id)'
    BY DEF Follows, ChainFollowsAttempt, IncompleteUntilLast, Underway
  <1>2. ~Underway(id) => ~Underway(id)'
    BY DEF Underway
  <1> QED
    BY <1>1, <1>2

\* A chapter without a chain whose attempt has not begun or is over.
LEMMA ChainEmpty ==
    ASSUME NEW id \in Ids, writes'[id] = <<>>,
           phase'[id] \in {"none", "waiting", "unwinding"},
           phase'[id] = "waiting" => ~Complete(id)'
    PROVE  Follows(id)' /\ ~Underway(id)'
  <1>1. \A i \in 1 .. Len(<<>>) : FALSE
    OBVIOUS
  <1> QED
    BY <1>1 DEF Follows, ChainFollowsAttempt, IncompleteUntilLast, Underway

\* A chain that loses its first step, or whose first step changes.
LEMMA ChainShrinks ==
    ASSUME NEW id \in Ids, Follows(id), writes[id] # <<>>, phase'[id] = phase[id],
           NEW d \in {0, 1},
           \A i \in 1 .. Len(writes'[id]) :
               /\ i + d \in 1 .. Len(writes[id])
               /\ writes'[id][i] = "progress" => writes[id][i + d] = "progress"
               /\ writes'[id][i] \in Completing => writes[id][i + d] \in Completing,
           Underway(id) /\ ~Complete(id) => ~Complete(id)'
    PROVE  Follows(id)' /\ (~Underway(id) => ~Underway(id)')
  <1>1. phase[id] \notin {"none", "waiting", "preparing", "listing"}
    BY DEF Follows, ChainFollowsAttempt
  <1>2. Underway(id)' => Underway(id)
    BY DEF Underway
  <1>3. ChainFollowsAttempt(id)'
    <2>1. phase[id] \in {"running", "merging"} =>
             \A i \in 1 .. Len(writes'[id]) : writes'[id][i] \notin Completing
      BY DEF Follows, ChainFollowsAttempt
    <2>2. ASSUME NEW i \in 1 .. Len(writes'[id]), NEW j \in 1 .. Len(writes'[id]),
                 writes'[id][i] = "progress", writes'[id][j] \in Completing
          PROVE  i < j
      <3>1. i + d < j + d
        BY <2>2 DEF Follows, ChainFollowsAttempt
      <3> QED
        BY <3>1
    <2> QED
      BY <1>1, <2>1, <2>2 DEF ChainFollowsAttempt
  <1>4. IncompleteUntilLast(id)'
    BY <1>1, <1>2 DEF Follows, IncompleteUntilLast
  <1> QED
    BY <1>2, <1>3, <1>4 DEF Follows

\* What is saved is the record of a chapter.
LEMMA SavesOfChapters == TypeOK => \A i \in Saves : dbQueue[i].id \in Ids
  BY QueuedWrites DEF Saves

\* The second layer, from what is shown of the chapters and of the saves.
LEMMA CompletionThen ==
    ASSUME TypeOK', CompletionInv, NEW d \in {0, 1}, SavesFrom(d),
           \A id \in Ids : Follows(id)',
           \A id \in Ids : (\E i \in Saves' : dbQueue'[i].id = id) =>
               (~Underway(id) => ~Underway(id)') /\ (~Complete(id) => ~Complete(id)')
    PROVE  CompletionInv'
  <1>1. (\A i \in Saves : dbQueue[i].id \in Ids)'
    <2>1. TypeOK' => (\A i \in Saves : dbQueue[i].id \in Ids)'
      BY SavesOfChapters, PTL
    <2> QED
      BY <2>1
  <1>2. (\A i \in Saves : SavedLast(i))'
    BY <1>1, LastKept DEF CompletionInv
  <1> QED
    BY <1>2 DEF CompletionInv, Follows

\* Steps that queue no save and run none.
LEMMA OthersKeepCompletion ==
    ASSUME AttemptInv, AttemptInv', CompletionInv, [Next]_vars,
           \/ \E d \in {0, 1} : Spares(d)
           \/ \E id \in Ids : SlotGranted(id) \/ ConvertEnds(id) \/ Unwind(id)
           \/ Claim \/ Restart
    PROVE  CompletionInv'
  <1>0. /\ TypeOK /\ TypeOK' /\ \A u \in Ids : Stands(u)
        /\ \A u \in Ids : Follows(u)
        /\ writes \in [Ids -> Seq(Entries)] /\ phase \in [Ids -> Phases]
    <2>1. TypeOK /\ TypeOK' /\ \A u \in Ids : Stands(u)
      BY AttemptByAttempt DEF AttemptInv, HeldByAttempts
    <2> QED
      BY <2>1 DEF TypeOK, Entries, CompletionInv, Follows
  <1>a. dbQueue' = dbQueue => SavesFrom(0)
    <2>1. \A i \in Saves : i + 0 = i
      BY DEF Saves
    <2> QED
      BY <2>1 DEF SavesFrom, Saves
  <1>b. record' = record => \A u \in Ids : ~Complete(u) => ~Complete(u)'
    BY DEF Complete
  <1>c. ASSUME NEW d \in {0, 1}, SavesFrom(d), UNCHANGED <<record, phase, writes>>
        PROVE  CompletionInv'
    BY <1>0, <1>b, <1>c, ChainStays, CompletionThen
  <1>1. ASSUME NEW d \in {0, 1}, Spares(d) PROVE CompletionInv'
    BY <1>1, <1>c DEF Spares
  <1>2. ASSUME NEW id \in Ids, SlotGranted(id) PROVE CompletionInv'
    BY <1>2, <1>a, <1>c DEF SlotGranted, chapterVars
  <1>3. ASSUME NEW id \in Ids, ConvertEnds(id) PROVE CompletionInv'
    <2>1. /\ writes[id] # <<>> /\ writes[id][1] = "converting"
          /\ UNCHANGED <<record, phase, dbQueue>>
      BY <1>0, <1>3, ChainMoves DEF ConvertEnds
    <2>2. /\ \A u \in Ids : u # id => writes'[u] = writes[u]
          /\ \A i \in 1 .. Len(writes'[id]) :
                /\ i + 0 \in 1 .. Len(writes[id])
                /\ writes'[id][i] = "progress" => writes[id][i + 0] = "progress"
                /\ writes'[id][i] \in Completing => writes[id][i + 0] \in Completing
      <3>1. CASE writes' = [writes EXCEPT ![id][1] = "converted"]
        <4>1. PICK c : c = [writes[id] EXCEPT ![1] = "converted"]
          OBVIOUS
        <4>2. /\ Len(c) = Len(writes[id]) /\ c[1] = "converted" /\ Len(c) \in Nat
              /\ \A i \in 2 .. Len(c) : c[i] = writes[id][i]
          BY <1>0, <2>1, <4>1, ChainMoves DEF Entries
        <4>3. \A i \in 1 .. Len(c) : i = 1 \/ i \in 2 .. Len(c)
          BY <4>2
        <4>4. \A i \in 1 .. Len(c) : /\ i + 0 = i /\ i \in 1 .. Len(writes[id])
                                     /\ c[i] = "progress" => writes[id][i] = "progress"
                                     /\ c[i] \in Completing => writes[id][i] \in Completing
          BY <2>1, <4>2, <4>3 DEF Completing
        <4>5. writes'[id] = c /\ \A u \in Ids : u # id => writes'[u] = writes[u]
          BY <1>0, <3>1, <4>1
        <4> QED
          BY <4>4, <4>5
      <3>2. CASE writes' = [writes EXCEPT ![id] = <<"broken">>]
        <4>1. PICK c : c = <<"broken">> /\ Len(c) = 1 /\ c[1] = "broken"
          <5>1. Len(<<"broken">>) = 1 /\ <<"broken">>[1] = "broken"
            OBVIOUS
          <5> QED
            BY <5>1, Zenon
        <4>2. 1 + 0 \in 1 .. Len(writes[id])
          BY <1>0, <2>1, ChainMoves
        <4>3. writes'[id] = c /\ \A u \in Ids : u # id => writes'[u] = writes[u]
          BY <1>0, <3>2, <4>1
        <4>4. \A i \in 1 .. Len(c) : i = 1
          BY <4>1
        <4> QED
          BY <4>1, <4>2, <4>3, <4>4 DEF Completing
      <3> QED
        BY <1>3, <3>1, <3>2 DEF ConvertEnds
    <2>3. Follows(id)' /\ (~Underway(id) => ~Underway(id)')
      BY <1>0, <1>b, <2>1, <2>2, ChainShrinks
    <2>4. ASSUME NEW u \in Ids PROVE Follows(u)' /\ (~Underway(u) => ~Underway(u)')
      BY <1>0, <1>b, <2>1, <2>2, <2>3, ChainStays
    <2> QED
      BY <1>0, <1>a, <1>b, <2>1, <2>4, CompletionThen
  <1>4. ASSUME NEW id \in Ids, Unwind(id) PROVE CompletionInv'
    <2>1. /\ phase'[id] = "none" /\ writes'[id] = <<>>
          /\ UNCHANGED <<record, dbQueue>>
          /\ \A u \in Ids : u # id => phase'[u] = phase[u] /\ writes'[u] = writes[u]
      BY <1>0, <1>4 DEF Unwind, Goto
    <2>2. Follows(id)' /\ ~Underway(id)'
      BY <2>1, ChainEmpty
    <2>3. ASSUME NEW u \in Ids PROVE Follows(u)' /\ (~Underway(u) => ~Underway(u)')
      BY <1>0, <1>b, <2>1, <2>2, ChainStays
    <2> QED
      BY <1>0, <1>a, <1>b, <2>1, <2>3, CompletionThen
  <1>5. CASE Claim
    <2>1. PICK id \in Ids : id = Head(resumed).id
      BY <1>0, <1>5, NextContinuation DEF Claim
    <2>2. UNCHANGED <<record, writes, dbQueue>>
      BY <1>5 DEF Claim
    <2>3. CASE UNCHANGED phase
      BY <1>a, <1>c, <2>2, <2>3
    <2>4. CASE ~UNCHANGED phase
      <3>1. /\ id \notin scheduled
            /\ IF record[id] # NoRecord /\ record[id].done THEN Goto(id, "unwinding") ELSE Goto(id, "waiting")
        BY <1>5, <2>1, <2>4 DEF Claim
      <3>2. PICK p \in {"unwinding", "waiting"} :
                Goto(id, p) /\ (p = "waiting" => ~Complete(id))
        BY <3>1 DEF Complete
      <3>3. writes[id] = <<>> /\ phase[id] = "none"
        BY <1>0, <3>1 DEF Stands, Follows, ChainFollowsAttempt
      <3>4. phase'[id] = p /\ \A u \in Ids : u # id => phase'[u] = phase[u]
        BY <1>0, <3>2 DEF Goto
      <3>5. Follows(id)' /\ ~Underway(id)'
        BY <1>b, <2>2, <3>2, <3>3, <3>4, ChainEmpty
      <3>6. ASSUME NEW u \in Ids PROVE Follows(u)' /\ (~Underway(u) => ~Underway(u)')
        BY <1>0, <1>b, <2>2, <3>4, <3>5, ChainStays
      <3> QED
        BY <1>0, <1>a, <1>b, <2>2, <3>6, CompletionThen
    <2> QED
      BY <2>3, <2>4
  <1>6. CASE Restart
    <2>1. \A u \in Ids : phase'[u] = "none" /\ writes'[u] = <<>>
      BY <1>6 DEF Restart
    <2>2. \A u \in Ids : Follows(u)'
      BY <2>1, ChainEmpty
    <2>3. Saves' = {}
      BY <1>6 DEF Restart, Saves
    <2> QED
      BY <2>2, <2>3 DEF CompletionInv, Follows
  <1> QED
    BY <1>1, <1>2, <1>3, <1>4, <1>5, <1>6

\* A save is queued that sets the flag last or does not unset it.
LEMMA QueuedSaveLast ==
    ASSUME TypeOK', CompletionInv, NEW w, w.id \in Ids,
           \A i \in Saves' : i = Len(dbQueue) + 1 \/ (i \in Saves /\ dbQueue'[i] = dbQueue[i]),
           dbQueue'[Len(dbQueue) + 1] = w,
           IF w.record.done THEN ~Underway(w.id) ELSE ~Complete(w.id),
           \A id \in Ids : ~Complete(id) => ~Complete(id)',
           \A id \in Ids : Follows(id)' /\ (~Underway(id) => ~Underway(id)')
    PROVE  CompletionInv'
  <1>1. \A i \in Saves' : dbQueue'[i].id \in Ids
    <2>1. TypeOK' => (\A i \in Saves : dbQueue[i].id \in Ids)'
      BY SavesOfChapters, PTL
    <2> QED
      BY <2>1
  <1>2. ASSUME NEW i \in Saves' PROVE SavedLast(i)'
    <2>1. PICK v : v = dbQueue'[i]
      OBVIOUS
    <2>2. IF v.record.done THEN ~Underway(v.id) ELSE ~Complete(v.id)
      <3>1. CASE i = Len(dbQueue) + 1
        BY <2>1, <3>1
      <3>2. CASE i \in Saves /\ dbQueue'[i] = dbQueue[i]
        BY <2>1, <3>2 DEF CompletionInv, SavedLast
      <3> QED
        BY <3>1, <3>2
    <2>3. v.id \in Ids
      BY <1>1, <2>1
    <2>4. IF v.record.done THEN ~Underway(v.id)' ELSE ~Complete(v.id)'
      BY <2>2, <2>3
    <2> QED
      BY <2>1, <2>4 DEF SavedLast, Underway, Complete
  <1> QED
    BY <1>2 DEF CompletionInv, Follows

\* A step of the progress chain: its save sets the flag after all other progress,
\* or the chapter is not complete.
LEMMA ProgressKeepsCompletion ==
    ASSUME AttemptInv, AttemptInv', CompletionInv, NEW id \in Ids, SetProgress(id)
    PROVE  CompletionInv'
  <1>0. /\ TypeOK /\ TypeOK' /\ SavesAwaited /\ OneSaveAtATime
        /\ \A u \in Ids : Follows(u)
        /\ writes \in [Ids -> Seq(Entries)] /\ phase \in [Ids -> Phases]
    <2>1. TypeOK /\ TypeOK' /\ SavesAwaited /\ OneSaveAtATime
      BY DEF AttemptInv, HeldByAttempts
    <2> QED
      BY <2>1 DEF TypeOK, Entries, CompletionInv, Follows
  <1>1. /\ writes[id] # <<>> /\ Head(writes[id]) = writes[id][1]
        /\ writes[id][1] \in {"progress", "completed", "converted"}
        /\ 1 \in 1 .. Len(writes[id])
        /\ UNCHANGED <<record, phase>>
    BY <1>0, ChainMoves DEF SetProgress, ChainReady
  <1>2. \A u \in Ids : ~Complete(u) => ~Complete(u)'
    BY <1>1 DEF Complete
  <1>3. CASE record[id] = NoRecord
    <2>1. dbQueue' = dbQueue
      BY <1>3 DEF SetProgress
    <2>2. SavesFrom(0)
      <3>1. \A i \in Saves : i + 0 = i
        BY DEF Saves
      <3> QED
        BY <2>1, <3>1 DEF SavesFrom, Saves
    <2>3. PICK c : /\ c = Tail(writes[id])
                   /\ \A i \in 1 .. Len(c) : c[i] = writes[id][i + 1] /\ i + 1 \in 2 .. Len(writes[id])
      BY <1>0, <1>1, ChainMoves
    <2>4. writes'[id] = c /\ \A u \in Ids : u # id => writes'[u] = writes[u]
      BY <1>0, <1>3, <2>3 DEF SetProgress
    <2>5. \A i \in 1 .. Len(writes'[id]) :
              /\ i + 1 \in 1 .. Len(writes[id])
              /\ writes'[id][i] = "progress" => writes[id][i + 1] = "progress"
              /\ writes'[id][i] \in Completing => writes[id][i + 1] \in Completing
      BY <2>3, <2>4
    <2>6. Follows(id)' /\ (~Underway(id) => ~Underway(id)')
      BY <1>0, <1>1, <1>2, <2>5, ChainShrinks
    <2>7. ASSUME NEW u \in Ids PROVE Follows(u)' /\ (~Underway(u) => ~Underway(u)')
      BY <1>0, <1>1, <1>2, <2>4, <2>6, ChainStays
    <2> QED
      BY <1>0, <1>2, <2>2, <2>7, CompletionThen
  <1>4. CASE record[id] # NoRecord
    <2> DEFINE r == [record[id] EXCEPT !.done = Head(writes[id]) # "progress"]
               w == Save(id, r, "progress")
    <2>1. /\ dbQueue' = Append(dbQueue, w)
          /\ writes' = [writes EXCEPT ![id][1] = "saving"]
      BY <1>4 DEF SetProgress
    <2>2. /\ w \in DbOps /\ w.op = "save" /\ w.id = id /\ w.by = "progress"
          /\ w.record.done = (writes[id][1] # "progress")
      <3>1. record[id] \in [start : BOOLEAN, done : BOOLEAN]
        BY <1>0, <1>4 DEF TypeOK
      <3>2. r \in [start : BOOLEAN, done : BOOLEAN] /\ r.done = (writes[id][1] # "progress")
        BY <1>1, <3>1
      <3> QED
        BY <3>2 DEF Save, DbOps
    <2> HIDE DEF w
    <2>3. PICK c : /\ c = [writes[id] EXCEPT ![1] = "saving"]
                   /\ c # <<>> /\ Len(c) = Len(writes[id]) /\ Len(c) \in Nat /\ c[1] = "saving"
                   /\ \A i \in 2 .. Len(c) : c[i] = writes[id][i]
      <3>1. PICK c : c = [writes[id] EXCEPT ![1] = "saving"]
        OBVIOUS
      <3>2. /\ c # <<>> /\ Len(c) = Len(writes[id]) /\ Len(c) \in Nat /\ c[1] = "saving"
            /\ \A i \in 2 .. Len(c) : c[i] = writes[id][i]
        BY <1>0, <1>1, <3>1, ChainMoves DEF Entries
      <3> QED
        BY <3>1, <3>2
    <2>4. writes'[id] = c /\ \A u \in Ids : u # id => writes'[u] = writes[u]
      BY <1>0, <2>1, <2>3
    <2>5. \A i \in 1 .. Len(c) : i = 1 \/ i \in 2 .. Len(c)
      BY <2>3
    <2>6. \A i \in 1 .. Len(c) : /\ i + 0 = i /\ i \in 1 .. Len(writes[id])
                                 /\ c[i] = "progress" => writes[id][i] = "progress"
                                 /\ c[i] \in Completing => writes[id][i] \in Completing
      BY <2>3, <2>5 DEF Completing
    <2>7. Follows(id)' /\ (~Underway(id) => ~Underway(id)')
      BY <1>0, <1>1, <1>2, <2>4, <2>6, ChainShrinks
    <2>8. ASSUME NEW u \in Ids PROVE Follows(u)' /\ (~Underway(u) => ~Underway(u)')
      BY <1>0, <1>1, <1>2, <2>4, <2>7, ChainStays
    <2>9. /\ \A i \in Saves' : i = Len(dbQueue) + 1 \/ (i \in Saves /\ dbQueue'[i] = dbQueue[i])
          /\ dbQueue'[Len(dbQueue) + 1] = w
      <3>1. \A i \in Saves : dbQueue[i].id # id
        BY <1>0, NothingToSave DEF SetProgress
      <3> QED
        BY <1>0, <1>1, <2>1, <2>2, <2>3, <2>4, <3>1, SaveQueued
    <2>10. CASE writes[id][1] = "progress"
      <3>1. ~Complete(id)
        BY <1>0, <1>1, <2>10 DEF Follows, IncompleteUntilLast, Underway
      <3> QED
        BY <1>0, <1>2, <2>2, <2>8, <2>9, <2>10, <3>1, QueuedSaveLast
    <2>11. CASE writes[id][1] # "progress"
      <3>1. writes[id][1] \in Completing
        BY <1>1, <2>11 DEF Completing
      <3>2. phase[id] \notin {"running", "merging"}
        BY <1>0, <1>1, <3>1 DEF Follows, ChainFollowsAttempt
      <3>3. \A k \in 1 .. Len(writes[id]) : writes[id][k] # "progress"
        <4>1. \A k \in 1 .. Len(writes[id]) : writes[id][k] = "progress" => k < 1
          BY <1>0, <1>1, <3>1 DEF Follows, ChainFollowsAttempt
        <4> QED
          BY <4>1
      <3>4. ~Underway(id)
        BY <3>2, <3>3 DEF Underway
      <3> QED
        BY <1>0, <1>2, <2>2, <2>8, <2>9, <2>11, <3>4, QueuedSaveLast
    <2> QED
      BY <2>10, <2>11
  <1> QED
    BY <1>3, <1>4

\* A failure is only saved for a chapter that is not complete.
LEMMA FailureKeepsCompletion ==
    ASSUME AttemptInv, AttemptInv', CompletionInv, NEW id \in Ids, MarkDownloadFailed(id)
    PROVE  CompletionInv'
  <1>0. /\ TypeOK /\ TypeOK' /\ SavesAwaited /\ OneSaveAtATime
        /\ \A u \in Ids : Follows(u)
        /\ phase \in [Ids -> Phases]
    <2>1. TypeOK /\ TypeOK' /\ SavesAwaited /\ OneSaveAtATime
      BY DEF AttemptInv, HeldByAttempts
    <2> QED
      BY <2>1 DEF TypeOK, CompletionInv, Follows
  <1>1. UNCHANGED <<record, writes>> /\ phase[id] = "failing" /\ ChainOver(id)
    BY DEF MarkDownloadFailed
  <1>2. \A u \in Ids : ~Complete(u) => ~Complete(u)'
    BY <1>1 DEF Complete
  <1>3. PICK p \in {"unwinding", "saving"} : Goto(id, p)
    BY DEF MarkDownloadFailed
  <1>4. phase'[id] = p /\ \A u \in Ids : u # id => phase'[u] = phase[u]
    BY <1>0, <1>3 DEF Goto
  <1>5. ASSUME NEW u \in Ids PROVE Follows(u)' /\ (~Underway(u) => ~Underway(u)')
    <2>1. phase'[u] = phase[u] \/ phase'[u] \in {"saving", "unwinding"}
      BY <1>4
    <2> QED
      BY <1>0, <1>1, <1>2, <2>1, ChainStays
  <1>6. CASE record[id] = NoRecord \/ record[id].done
    <2>1. dbQueue' = dbQueue
      BY <1>6 DEF MarkDownloadFailed
    <2>2. SavesFrom(0)
      <3>1. \A i \in Saves : i + 0 = i
        BY DEF Saves
      <3> QED
        BY <2>1, <3>1 DEF SavesFrom, Saves
    <2> QED
      BY <1>0, <1>2, <1>5, <2>2, CompletionThen
  <1>7. CASE ~(record[id] = NoRecord \/ record[id].done)
    <2> DEFINE r == [record[id] EXCEPT !.start = FALSE]
               w == Save(id, r, "attempt")
    <2>1. Goto(id, "saving") /\ dbQueue' = Append(dbQueue, w)
      BY <1>7 DEF MarkDownloadFailed
    <2>2. /\ w \in DbOps /\ w.op = "save" /\ w.id = id /\ w.by = "attempt"
          /\ w.record.done = FALSE
      <3>1. record[id] \in [start : BOOLEAN, done : BOOLEAN]
        BY <1>0, <1>7 DEF TypeOK
      <3>2. r \in [start : BOOLEAN, done : BOOLEAN] /\ r.done = FALSE
        BY <1>7, <3>1
      <3> QED
        BY <3>2 DEF Save, DbOps
    <2> HIDE DEF w
    <2>3. /\ \A i \in Saves' : i = Len(dbQueue) + 1 \/ (i \in Saves /\ dbQueue'[i] = dbQueue[i])
          /\ dbQueue'[Len(dbQueue) + 1] = w
      <3>1. \A i \in Saves : dbQueue[i].id # id
        BY <1>0, <1>1, NothingToSave
      <3>2. phase'[id] = "saving"
        BY <1>0, <2>1 DEF Goto
      <3> QED
        BY <1>0, <1>1, <1>4, <2>1, <2>2, <3>1, <3>2, SaveQueued
    <2>4. ~Complete(id)
      BY <1>7 DEF Complete
    <2> QED
      BY <1>0, <1>2, <1>5, <2>2, <2>3, <2>4, QueuedSaveLast
  <1> QED
    BY <1>6, <1>7

\* A write runs: a save that sets the flag does so when nothing else is to come.
LEMMA WriteKeepsCompletion ==
    ASSUME AttemptInv, AttemptInv', CompletionInv, [Next]_vars, RunWrite
    PROVE  CompletionInv'
  <1>0. /\ TypeOK /\ TypeOK' /\ SavesAwaited
        /\ \A u \in Ids : Follows(u)
        /\ writes \in [Ids -> Seq(Entries)] /\ phase \in [Ids -> Phases]
    <2>1. TypeOK /\ TypeOK' /\ SavesAwaited
      BY DEF AttemptInv, HeldByAttempts
    <2> QED
      BY <2>1 DEF TypeOK, Entries, CompletionInv, Follows
  <1>1. PICK w : w = dbQueue[1]
    OBVIOUS
  <1>2. 1 \in 1 .. Len(dbQueue) /\ SavesFrom(1)
    BY <1>0, WriteLeaves DEF RunWrite, WriteReady
  <1>3. /\ w.id \in Ids /\ w.op \in {"enqueue", "save", "delete"}
        /\ w.op = "save" => w.by \in {"progress", "attempt"}
    BY <1>0, <1>1, <1>2, WrittenRecord, QueuedWrites
  <1>4. /\ w.op # "save" => UNCHANGED <<phase, writes>>
        /\ w.op = "save" /\ w.by = "attempt" =>
              writes' = writes /\ phase' = [phase EXCEPT ![w.id] = "unwinding"]
        /\ w.op = "save" /\ w.by = "progress" =>
              /\ writes[w.id] # <<>> /\ writes[w.id][1] = "saving" /\ phase' = phase
              /\ writes' = [writes EXCEPT ![w.id] = Tail(@)]
        /\ w.op = "save" => \A i \in Saves' : dbQueue'[i].id # w.id
    BY <1>0, <1>1, WriteResumes
  <1>5. w.op = "save" => IF w.record.done THEN ~Underway(w.id) ELSE ~Complete(w.id)
    BY <1>1, <1>2 DEF CompletionInv, SavedLast, Saves
  <1>6. ASSUME NEW u \in Ids, ~Complete(u), u # w.id \/ w.op # "save" \/ ~w.record.done
        PROVE  ~Complete(u)'
    BY <1>0, <1>1, <1>6, IncompleteStays
  <1>7. CASE w.op # "save"
    BY <1>0, <1>2, <1>4, <1>6, <1>7, ChainStays, CompletionThen
  <1>8. CASE w.op = "save"
    <2>1. Underway(w.id) /\ ~Complete(w.id) => ~Complete(w.id)'
      BY <1>3, <1>5, <1>6
    <2>2. Follows(w.id)'
      <3>1. CASE w.by = "attempt"
        <4>1. writes'[w.id] = writes[w.id] /\ phase'[w.id] = "unwinding"
          BY <1>0, <1>3, <1>4, <1>8, <3>1
        <4> QED
          BY <1>0, <1>3, <2>1, <4>1
             DEF Follows, ChainFollowsAttempt, IncompleteUntilLast, Underway
      <3>2. CASE w.by = "progress"
        <4>1. writes[w.id] # <<>> /\ phase'[w.id] = phase[w.id]
          BY <1>4, <1>8, <3>2
        <4>2. PICK c : /\ c = Tail(writes[w.id])
                       /\ \A i \in 1 .. Len(c) : /\ c[i] = writes[w.id][i + 1]
                                                 /\ i + 1 \in 2 .. Len(writes[w.id])
          BY <1>0, <1>3, <4>1, ChainMoves
        <4>3. writes'[w.id] = c
          BY <1>0, <1>3, <1>4, <1>8, <3>2, <4>2
        <4>4. \A i \in 1 .. Len(writes'[w.id]) :
                  /\ i + 1 \in 1 .. Len(writes[w.id])
                  /\ writes'[w.id][i] = "progress" => writes[w.id][i + 1] = "progress"
                  /\ writes'[w.id][i] \in Completing => writes[w.id][i + 1] \in Completing
          BY <4>2, <4>3
        <4> QED
          BY <1>0, <1>3, <2>1, <4>1, <4>4, ChainShrinks
      <3> QED
        BY <1>3, <1>8, <3>1, <3>2
    <2>3. ASSUME NEW u \in Ids, u # w.id
          PROVE  Follows(u)' /\ (~Underway(u) => ~Underway(u)') /\ (~Complete(u) => ~Complete(u)')
      <3>1. phase'[u] = phase[u] /\ writes'[u] = writes[u]
        <4>1. w.by = "attempt" => phase'[u] = phase[u] /\ writes'[u] = writes[u]
          BY <1>0, <1>4, <1>8, <2>3
        <4>2. w.by = "progress" => phase'[u] = phase[u] /\ writes'[u] = writes[u]
          BY <1>0, <1>4, <1>8, <2>3
        <4> QED
          BY <1>3, <1>8, <4>1, <4>2
      <3>2. ~Complete(u) => ~Complete(u)'
        BY <1>6, <2>3
      <3> QED
        BY <1>0, <3>1, <3>2, ChainStays
    <2>4. \A u \in Ids : Follows(u)'
      BY <2>2, <2>3
    <2>5. \A u \in Ids : (\E i \in Saves' : dbQueue'[i].id = u) => u # w.id
      BY <1>4, <1>8
    <2> QED
      BY <1>0, <1>2, <2>3, <2>4, <2>5, CompletionThen
  <1> QED
    BY <1>7, <1>8

\* No step disturbs the second layer.
LEMMA CompletionStep ==
    ASSUME AttemptInv, AttemptInv', CompletionInv, [Next]_vars
    PROVE  CompletionInv'
  <1>0. TypeOK /\ HeldByAttempts
    BY DEF AttemptInv, HeldByAttempts
  <1>1. ASSUME NEW id \in Ids,
               \/ Resume(id) \/ Prepare(id) \/ TaskEnds(id) \/ TaskProgress(id)
               \/ TaskAnswered(id) \/ MergeEnds(id) \/ SubtitlesEnd(id) \/ Finish(id) \/ ScanEnds(id)
        PROVE  CompletionInv'
    BY <1>0, <1>1, AttemptMoves, MoveKeepsCompletion
  <1>2. ASSUME \/ \E id \in Ids : StartDownload(id) \/ AddDownloadToQueue(id) \/ CancelDownloads(id)
               \/ Open \/ ReadPending \/ ProcessDownloads
               \/ OtherWriteBegins \/ OtherWriteEnds \/ UNCHANGED vars
        PROVE  CompletionInv'
    BY <1>0, <1>2, RequestsSpare, OthersKeepCompletion
  <1>3. ASSUME \/ \E id \in Ids : SlotGranted(id) \/ ConvertEnds(id) \/ Unwind(id)
               \/ Claim \/ Restart
        PROVE  CompletionInv'
    BY <1>3, OthersKeepCompletion
  <1>4. ASSUME NEW id \in Ids, SetProgress(id) PROVE CompletionInv'
    BY <1>4, ProgressKeepsCompletion
  <1>5. ASSUME NEW id \in Ids, MarkDownloadFailed(id) PROVE CompletionInv'
    BY <1>5, FailureKeepsCompletion
  <1>6. CASE RunWrite
    BY <1>6, WriteKeepsCompletion
  <1> QED
    BY <1>1, <1>2, <1>3, <1>4, <1>5, <1>6 DEF Next, Event, Microtask

\* The second layer holds at the start.
LEMMA CompletionInit == Init => CompletionInv
  <1> SUFFICES ASSUME Init PROVE CompletionInv
    OBVIOUS
  <1>1. Saves = {}
    BY DEF Init, Saves
  <1>2. ASSUME NEW u \in Ids PROVE ChainFollowsAttempt(u) /\ IncompleteUntilLast(u)
    <2>1. phase[u] = "none" /\ writes[u] = <<>> /\ record[u] = NoRecord
      BY DEF Init
    <2>2. \A i \in 1 .. Len(<<>>) : FALSE
      OBVIOUS
    <2> QED
      BY <2>1, <2>2 DEF ChainFollowsAttempt, IncompleteUntilLast, Underway
  <1> QED
    BY <1>1, <1>2 DEF CompletionInv

\* The first two layers of the invariant of the specification.
LEMMA CompletionInvHolds == Spec => [](AttemptInv /\ CompletionInv)
  <1>1. AttemptInv /\ CompletionInv /\ [Next]_vars => (AttemptInv /\ CompletionInv)'
    <2> SUFFICES ASSUME AttemptInv, CompletionInv, [Next]_vars
                 PROVE  AttemptInv' /\ CompletionInv'
      OBVIOUS
    <2>1. AttemptInv'
      BY AttemptStep
    <2> QED
      BY <2>1, CompletionStep
  <1> QED
    BY <1>1, AttemptInit, CompletionInit, PTL DEF Spec

\* A step takes the flag of a complete chapter back by deleting its record only.
LEMMA FlagStays ==
    ASSUME TypeOK, CompletionInv, [Next]_vars, NEW id \in Ids, Complete(id)
    PROVE  record'[id] = NoRecord \/ record'[id].done
  <1>1. CASE RunWrite
    <2>1. PICK w : w = dbQueue[1]
      OBVIOUS
    <2>2. /\ w.id \in Ids /\ w.op \in {"enqueue", "save", "delete"}
          /\ \A u \in Ids \ {w.id} : record'[u] = record[u]
          /\ w.op = "enqueue" => record'[w.id] = Enqueued(record[w.id])
          /\ w.op = "save" => record'[w.id] = w.record
          /\ w.op = "delete" => record'[w.id] = NoRecord
      BY <1>1, <2>1, WrittenRecord
    <2>3. 1 \in 1 .. Len(dbQueue)
      BY <1>1, WriteLeaves DEF RunWrite, WriteReady
    <2>4. CASE id = w.id /\ w.op = "save"
      <3>1. w.record.done
        BY <2>1, <2>3, <2>4 DEF CompletionInv, SavedLast, Saves
      <3> QED
        BY <2>2, <2>4, <3>1
    <2>5. CASE id = w.id /\ w.op = "enqueue"
      BY <2>2, <2>5 DEF Complete, Enqueued
    <2> QED
      BY <2>2, <2>4, <2>5 DEF Complete
  <1>2. CASE ~RunWrite
    <2>1. record' = record
      BY <1>2, RecordsWritten
    <2> QED
      BY <2>1 DEF Complete
  <1> QED
    BY <1>1, <1>2

\* No failure, no late progress and no repeated request takes the flag of a
\* complete download back (download_repository.dart, setProgress,
\* markDownloadFailed and enqueue).
THEOREM CompletionIsFinal == Spec => CompleteStaysComplete
  <1>1. AttemptInv /\ CompletionInv /\ [Next]_vars =>
           [\A id \in Ids : record[id] # NoRecord /\ record[id].done =>
               record'[id] = NoRecord \/ record'[id].done]_vars
    <2> SUFFICES ASSUME AttemptInv, CompletionInv, [Next]_vars, NEW id \in Ids,
                        record[id] # NoRecord /\ record[id].done
                 PROVE  record'[id] = NoRecord \/ record'[id].done
      OBVIOUS
    <2>1. TypeOK
      BY DEF AttemptInv, HeldByAttempts
    <2> QED
      BY <2>1, FlagStays DEF Complete
  <1> QED
    BY <1>1, CompletionInvHolds, PTL DEF Spec, CompleteStaysComplete

-----------------------------------------------------------------------------
(* Third layer: what happens to a download that was cancelled.             *)

\* The download of a chapter is cancelled and nothing brings it back.
Away(id) ==
    /\ record[id] = NoRecord
    /\ \A i \in 1 .. Len(dbQueue) : dbQueue[i].op = "enqueue" => dbQueue[i].id # id
    /\ \A i \in 1 .. Len(resumed) : resumed[i].id # id
    /\ phase[id] \in {"none", "waiting", "unwinding"}

\* There is no delete in the queue, and every cancel has had its effect.
Clear ==
    /\ \A i \in 1 .. Len(dbQueue) : dbQueue[i] # OtherWrite /\ dbQueue[i].op # "delete"
    /\ \A i \in Saves : record[dbQueue[i].id] # NoRecord
    /\ \A id \in revoked : Away(id)

\* Then the third layer holds.
LEMMA ClearIsEnough == Clear => CancelInv
  BY DEF Clear, Away, CancelInv, DeletesAlone, RevokedStaysAway

\* The same after a step.
LEMMA ClearThen ==
    ASSUME Clear' PROVE CancelInv'
  <1>1. Clear' => CancelInv'
    BY ClearIsEnough, PTL
  <1> QED
    BY <1>1

\* A delete in the queue leaves nothing else to do but to run it.
LEMMA ClearBefore ==
    ASSUME TypeOK, DeletesAlone, RevokedStaysAway,
           Drained \/ resumed # <<>> \/ \E id \in Ids : ChainReady(id) \/ AttemptReady(id)
    PROVE  Clear
  <1>1. \A i \in 1 .. Len(dbQueue) : dbQueue[i].op # "delete"
    <2> SUFFICES ASSUME NEW i \in 1 .. Len(dbQueue), dbQueue[i].op = "delete" PROVE FALSE
      OBVIOUS
    <2>1. Len(dbQueue) = 1 /\ Quiet /\ dbQueue[i] # OtherWrite
      BY DEF DeletesAlone
    <2>2. Drained
      BY <2>1 DEF Quiet
    <2>3. dbQueue \in Seq(DbOps) /\ i = 1
      BY <2>1 DEF TypeOK
    <2>4. dbQueue # <<>> /\ Head(dbQueue) = dbQueue[1]
      BY <2>1, <2>3
    <2> QED
      BY <2>1, <2>2, <2>3, <2>4 DEF Drained, WriteReady
  <1>2. ASSUME NEW id \in revoked PROVE Away(id)
    <2>1. \A i \in 1 .. Len(dbQueue) : dbQueue[i] # Delete(id)
      BY <1>1 DEF Delete
    <2> QED
      BY <2>1 DEF RevokedStaysAway, Away
  <1> QED
    BY <1>1, <1>2 DEF Clear, DeletesAlone

\* The queue is empty when the event loop gets to its next event.
LEMMA EmptyWhenDrained ==
    ASSUME TypeOK, DeletesAlone, Drained
    PROVE  dbQueue = <<>> /\ Quiet
  <1>1. ASSUME dbQueue # <<>> PROVE FALSE
    <2>1. dbQueue \in Seq(DbOps)
      BY DEF TypeOK
    <2>2. 1 \in 1 .. Len(dbQueue) /\ Head(dbQueue) = dbQueue[1]
      BY <1>1, <2>1, EmptySeq
    <2> QED
      BY <1>1, <2>2 DEF DeletesAlone, Drained, WriteReady
  <1> QED
    BY <1>1 DEF Drained, Quiet

\* Steps after which no new write is queued and no record changes.
LEMMA ClearStays ==
    ASSUME Clear, UNCHANGED <<record, dbQueue, resumed>>, revoked' \subseteq revoked,
           \A id \in revoked' : phase'[id] \in {"none", "waiting", "unwinding"}
    PROVE  Clear'
  BY DEF Clear, Away, Saves

\* Steps that queue a write, not a delete, for a chapter that is not revoked.
LEMMA ClearAppends ==
    ASSUME TypeOK, Clear, NEW w \in DbOps, dbQueue' = Append(dbQueue, w),
           w # OtherWrite, w.op # "delete",
           w.op = "save" => record[w.id] # NoRecord,
           w.op = "enqueue" => w.id \notin revoked',
           record' = record, revoked' \subseteq revoked,
           \A id \in revoked' : /\ \A i \in 1 .. Len(resumed') : resumed'[i].id # id
                                /\ phase'[id] \in {"none", "waiting", "unwinding"}
    PROVE  Clear'
  <1>1. /\ \A i \in 1 .. Len(dbQueue) : dbQueue'[i] = dbQueue[i]
        /\ dbQueue'[Len(dbQueue) + 1] = w
        /\ \A i \in 1 .. Len(dbQueue') : i \in 1 .. Len(dbQueue) \/ i = Len(dbQueue) + 1
    BY WriteQueued
  <1>2. \A i \in 1 .. Len(dbQueue') : dbQueue'[i] # OtherWrite /\ dbQueue'[i].op # "delete"
    BY <1>1 DEF Clear
  <1>3. \A i \in Saves' : record'[dbQueue'[i].id] # NoRecord
    <2> SUFFICES ASSUME NEW i \in Saves' PROVE record'[dbQueue'[i].id] # NoRecord
      OBVIOUS
    <2>1. i \in 1 .. Len(dbQueue') /\ dbQueue'[i].op = "save"
      BY DEF Saves
    <2>2. CASE i \in 1 .. Len(dbQueue)
      BY <1>1, <2>1, <2>2 DEF Clear, Saves
    <2>3. CASE i = Len(dbQueue) + 1
      BY <1>1, <2>1, <2>3
    <2> QED
      BY <1>1, <2>1, <2>2, <2>3
  <1>4. ASSUME NEW id \in revoked' PROVE Away(id)'
    <2>1. Away(id)
      BY DEF Clear
    <2>2. \A i \in 1 .. Len(dbQueue') : dbQueue'[i].op = "enqueue" => dbQueue'[i].id # id
      BY <1>1, <2>1 DEF Away
    <2> QED
      BY <2>1, <2>2 DEF Away
  <1> QED
    BY <1>2, <1>3, <1>4 DEF Clear

\* The writes of a request and of a cancel.
LEMMA RequestedWrites ==
    ASSUME NEW id \in Ids
    PROVE  /\ \A then \in {"rest", "open", "claim"} :
                 \E w \in DbOps : w = Enqueue(id, then) /\ w.op = "enqueue" /\ w.id = id
           /\ \E w \in DbOps : w = Delete(id) /\ w.op = "delete" /\ w # OtherWrite
  <1>1. ASSUME NEW then \in {"rest", "open", "claim"}
        PROVE  Enqueue(id, then) \in DbOps /\ Enqueue(id, then).op = "enqueue"
               /\ Enqueue(id, then).id = id
    BY DEF Enqueue, DbOps
  <1>2. Delete(id) \in DbOps /\ Delete(id).op = "delete" /\ OtherWrite.op = "other"
    BY DEF Delete, DbOps, OtherWrite
  <1> QED
    BY <1>1, <1>2

\* The requests, and the continuations of the first of them.
LEMMA RequestsKeepCancel ==
    ASSUME TypeOK, DeletesAlone, RevokedStaysAway, others' = 0, others = 0,
           \/ \E id \in Ids : StartDownload(id) \/ AddDownloadToQueue(id) \/ CancelDownloads(id)
           \/ Open \/ Claim \/ ReadPending \/ ProcessDownloads
           \/ OtherWriteBegins \/ OtherWriteEnds
    PROVE  CancelInv'
  <1>1. ASSUME NEW id \in Ids, StartDownload(id) \/ AddDownloadToQueue(id) PROVE CancelInv'
    <2>1. Drained
      BY <1>1 DEF StartDownload, AddDownloadToQueue, UserActs
    <2>2. Clear
      BY <2>1, ClearBefore
    <2>3. PICK then \in {"open", "rest"} : dbQueue' = Append(dbQueue, Enqueue(id, then))
      BY <1>1 DEF StartDownload, AddDownloadToQueue
    <2>4. PICK w \in DbOps : w = Enqueue(id, then) /\ w.op = "enqueue" /\ w.id = id
      BY RequestedWrites
    <2>5. w # OtherWrite
      BY <2>4 DEF OtherWrite
    <2>6. UNCHANGED <<record, phase, resumed>> /\ revoked' = revoked \ {id}
      BY <1>1 DEF StartDownload, AddDownloadToQueue
    <2>7. \A u \in revoked' : /\ \A i \in 1 .. Len(resumed') : resumed'[i].id # u
                              /\ phase'[u] \in {"none", "waiting", "unwinding"}
      BY <2>2, <2>6 DEF Clear, Away
    <2>8. Clear'
      BY <2>2, <2>3, <2>4, <2>5, <2>6, <2>7, ClearAppends
    <2> QED
      BY <2>8, ClearThen
  <1>2. ASSUME NEW id \in Ids, CancelDownloads(id) PROVE CancelInv'
    <2>1. Drained
      BY <1>2 DEF CancelDownloads, UserActs
    <2>2. Clear /\ dbQueue = <<>> /\ Quiet
      BY <2>1, ClearBefore, EmptyWhenDrained
    <2>3. PICK w \in DbOps : w = Delete(id) /\ w.op = "delete" /\ w # OtherWrite
      BY RequestedWrites
    <2>4. Len(dbQueue') = 1 /\ dbQueue'[1] = w /\ \A i \in 1 .. Len(dbQueue') : i = 1
      <3>1. dbQueue' = Append(dbQueue, w) /\ Len(dbQueue) = 0
        BY <1>2, <2>2, <2>3 DEF CancelDownloads
      <3>2. Len(dbQueue') = 0 + 1 /\ dbQueue'[0 + 1] = w
        BY <3>1, WriteQueued
      <3> QED
        BY <3>2
    <2>5. Quiet'
      <3>1. UNCHANGED <<resumed, phase, writes, holding>>
        BY <1>2 DEF CancelDownloads, gateVars
      <3> QED
        BY <2>2, <3>1 DEF Quiet, ChainReady, AttemptReady, ChainOver
    <2>6. DeletesAlone'
      <3>1. Saves' = {}
        BY <2>3, <2>4 DEF Saves
      <3> QED
        BY <2>3, <2>4, <2>5, <3>1 DEF DeletesAlone
    <2>7. ASSUME NEW u \in revoked'
          PROVE  /\ record'[u] = NoRecord \/ \E i \in 1 .. Len(dbQueue') : dbQueue'[i] = Delete(u)
                 /\ \A i \in 1 .. Len(dbQueue') : dbQueue'[i].op = "enqueue" => dbQueue'[i].id # u
                 /\ \A i \in 1 .. Len(resumed') : resumed'[i].id # u
                 /\ phase'[u] \in {"none", "waiting", "unwinding"}
      <3>0. UNCHANGED <<record, phase, resumed>>
        BY <1>2 DEF CancelDownloads
      <3>1. resumed = <<>> /\ Len(resumed) = 0
        BY <2>2 DEF Quiet
      <3>2. \A i \in 1 .. Len(dbQueue') : dbQueue'[i].op # "enqueue"
        BY <2>3, <2>4
      <3>3. CASE u \in revoked
        BY <2>2, <3>0, <3>2, <3>3 DEF Clear, Away
      <3>4. CASE u \notin revoked
        <4>1. u = id /\ phase[id] = "waiting"
          BY <1>2, <3>4 DEF CancelDownloads
        <4>2. 1 \in 1 .. Len(dbQueue') /\ dbQueue'[1] = Delete(u)
          BY <2>3, <2>4, <4>1
        <4> QED
          BY <3>0, <3>1, <3>2, <4>1, <4>2
      <3> QED
        BY <3>3, <3>4
    <2> QED
      BY <2>6, <2>7 DEF CancelInv, RevokedStaysAway
  <1>3. CASE Open
    <2>1. Clear
      BY <1>3, ClearBefore DEF Open
    <2>2. /\ Head(resumed).id \in Ids /\ Head(resumed) = resumed[1] /\ 1 \in 1 .. Len(resumed)
          /\ \A i \in 1 .. Len(Tail(resumed)) :
                Tail(resumed)[i] = resumed[i + 1] /\ i + 1 \in 1 .. Len(resumed)
      BY <1>3, NextContinuation DEF Open
    <2>3. PICK w \in DbOps : w = Enqueue(Head(resumed).id, "claim") /\ w.op = "enqueue"
                             /\ w.id = Head(resumed).id
      BY <2>2, RequestedWrites
    <2>4. /\ dbQueue' = Append(dbQueue, w) /\ resumed' = Tail(resumed)
          /\ UNCHANGED <<record, phase, revoked>>
      BY <1>3, <2>3 DEF Open
    <2>5. w # OtherWrite
      BY <2>3 DEF OtherWrite
    <2>6. w.id \notin revoked
      BY <2>1, <2>2, <2>3 DEF Clear, Away
    <2>7. \A u \in revoked' : /\ \A i \in 1 .. Len(resumed') : resumed'[i].id # u
                              /\ phase'[u] \in {"none", "waiting", "unwinding"}
      BY <2>1, <2>2, <2>4 DEF Clear, Away
    <2>8. Clear'
      BY <2>1, <2>3, <2>4, <2>5, <2>6, <2>7, ClearAppends
    <2> QED
      BY <2>8, ClearThen
  <1>4. CASE Claim
    <2>1. Clear
      BY <1>4, ClearBefore DEF Claim
    <2>2. /\ Head(resumed).id \in Ids /\ Head(resumed) = resumed[1] /\ 1 \in 1 .. Len(resumed)
          /\ \A i \in 1 .. Len(Tail(resumed)) :
                Tail(resumed)[i] = resumed[i + 1] /\ i + 1 \in 1 .. Len(resumed)
      BY <1>4, NextContinuation DEF Claim
    <2>3. resumed' = Tail(resumed) /\ UNCHANGED <<record, dbQueue, revoked>>
      BY <1>4 DEF Claim
    <2>4. PICK id \in Ids : id = Head(resumed).id
      BY <2>2
    <2>5. \A u \in revoked : u # id
      BY <2>1, <2>2, <2>4 DEF Clear, Away
    <2>6. phase' = phase \/ \E p : phase' = [phase EXCEPT ![id] = p]
      BY <1>4, <2>4 DEF Claim, Goto
    <2>7. \A u \in revoked : phase'[u] = phase[u]
      BY <2>5, <2>6 DEF TypeOK
    <2>8. Clear'
      BY <2>1, <2>2, <2>3, <2>7 DEF Clear, Away, Saves
    <2> QED
      BY <2>8, ClearThen
  <1>5. CASE ReadPending
    <2>1. Clear
      BY <1>5, ClearBefore DEF ReadPending, UserActs
    <2>2. Clear'
      BY <1>5, <2>1, ClearStays DEF ReadPending, Clear, Away
    <2> QED
      BY <2>2, ClearThen
  <1>6. CASE ProcessDownloads
    <2> DEFINE S == pending \ scheduled
    <2>1. Clear /\ dbQueue = <<>>
      BY <1>6, ClearBefore, EmptyWhenDrained DEF ProcessDownloads
    <2>2. PICK line \in [1 .. Cardinality(S) -> S] :
              dbQueue' = dbQueue \o [i \in DOMAIN line |-> Enqueue(line[i], "claim")]
      BY <1>6 DEF ProcessDownloads
    <2> DEFINE q == [i \in DOMAIN line |-> Enqueue(line[i], "claim")]
    <2>3. S \subseteq Ids /\ Cardinality(S) \in Nat
      BY GateAssumption, FS_Subset, FS_CardinalityType DEF GateAssumption, TypeOK
    <2>4. q \in Seq(DbOps)
      <3>1. \A i \in DOMAIN line : Enqueue(line[i], "claim") \in DbOps
        BY <2>3 DEF Enqueue, DbOps
      <3>2. q \in [1 .. Cardinality(S) -> DbOps]
        BY <3>1
      <3>3. ASSUME NEW n \in Nat, NEW f \in [1 .. n -> DbOps] PROVE f \in Seq(DbOps)
        BY SeqDef
      <3> QED
        BY <2>3, <3>2, <3>3
    <2>5. \A i \in 1 .. Len(q) : /\ q[i].op = "enqueue" /\ q[i].id \in S
      <3>1. DOMAIN q = 1 .. Len(q)
        BY <2>4, LenProperties
      <3>2. \A i \in DOMAIN q : q[i].op = "enqueue" /\ q[i].id \in S
        BY DEF Enqueue
      <3> QED
        BY <3>1, <3>2
    <2> HIDE DEF q
    <2>6. dbQueue' = q
      BY <2>1, <2>2, <2>4, ConcatEmptySeq DEF q
    <2>7. UNCHANGED <<record, phase, resumed>> /\ revoked' = revoked \ S
      BY <1>6 DEF ProcessDownloads
    <2>8. \A i \in 1 .. Len(dbQueue') : dbQueue'[i] # OtherWrite
      BY <2>5, <2>6 DEF OtherWrite
    <2>9. Saves' = {}
      BY <2>5, <2>6 DEF Saves
    <2>10. \A u \in revoked' : Away(u)'
      BY <2>1, <2>5, <2>6, <2>7 DEF Clear, Away
    <2>11. Clear'
      BY <2>5, <2>6, <2>8, <2>9, <2>10 DEF Clear
    <2> QED
      BY <2>11, ClearThen
  <1>7. CASE OtherWriteBegins
    BY <1>7 DEF OtherWriteBegins
  <1>8. CASE OtherWriteEnds
    BY <1>8, EmptyWhenDrained DEF OtherWriteEnds
  <1> QED
    BY <1>1, <1>2, <1>3, <1>4, <1>5, <1>6, <1>7, <1>8

\* The writes that save a record.
LEMMA SavedWrites ==
    ASSUME NEW id \in Ids, NEW r \in [start : BOOLEAN, done : BOOLEAN]
    PROVE  \A by \in {"progress", "attempt"} :
               \E w \in DbOps : w = Save(id, r, by) /\ w.op = "save" /\ w.id = id /\ w # OtherWrite
  <1>1. ASSUME NEW by \in {"progress", "attempt"}
        PROVE  /\ Save(id, r, by) \in DbOps /\ Save(id, r, by).op = "save"
               /\ Save(id, r, by).id = id
    BY DEF Save, DbOps
  <1>2. OtherWrite.op = "other"
    BY DEF OtherWrite
  <1> QED
    BY <1>1, <1>2

\* The handlers of the attempts, which queue nothing but saves.
LEMMA HandlersKeepCancel ==
    ASSUME AttemptInv, DeletesAlone, RevokedStaysAway, NEW id \in Ids,
           \/ \E p \in Phases, ws \in ChainSteps : Moves(id, p, ws)
           \/ SlotGranted(id) \/ ConvertEnds(id) \/ SetProgress(id)
           \/ MarkDownloadFailed(id) \/ Unwind(id)
    PROVE  CancelInv'
  <1>0. /\ TypeOK /\ phase \in [Ids -> Phases]
    BY DEF AttemptInv, HeldByAttempts, TypeOK
  <1>1. Clear
    <2>1. Drained \/ ChainReady(id) \/ AttemptReady(id)
      BY DEF Moves, SlotGranted, ConvertEnds, SetProgress, MarkDownloadFailed, Unwind, AttemptReady
    <2> QED
      BY <1>0, <2>1, ClearBefore
  <1>2. \A u \in revoked : u \in Ids /\ Away(u) /\ phase[u] \in {"none", "waiting", "unwinding"}
    BY <1>0, <1>1 DEF Clear, Away, TypeOK
  <1>3. ASSUME NEW p \in Phases, NEW ws \in ChainSteps, Moves(id, p, ws) PROVE CancelInv'
    <2>1. UNCHANGED <<record, dbQueue, resumed, revoked>>
      BY <1>3 DEF Moves
    <2>2. ASSUME id \in revoked PROVE p = "unwinding"
      <3>1. record[id] = NoRecord /\ phase[id] \in {"none", "waiting", "unwinding"}
        BY <1>2, <2>2 DEF Away
      <3> QED
        BY <1>3, <3>1 DEF Moves, MayGo
    <2>3. \A u \in Ids : phase'[u] = IF u = id THEN p ELSE phase[u]
      BY <1>0, <1>3 DEF Moves
    <2>4. \A u \in revoked' : phase'[u] \in {"none", "waiting", "unwinding"}
      BY <1>2, <2>1, <2>2, <2>3
    <2>5. Clear'
      BY <1>1, <2>1, <2>4, ClearStays
    <2> QED
      BY <2>5, ClearThen
  <1>4. CASE SlotGranted(id) \/ ConvertEnds(id)
    <2>1. UNCHANGED <<record, dbQueue, resumed, revoked, phase>>
      BY <1>4 DEF SlotGranted, ConvertEnds, chapterVars
    <2>2. Clear'
      BY <1>1, <1>2, <2>1, ClearStays
    <2> QED
      BY <2>2, ClearThen
  <1>5. CASE Unwind(id)
    <2>1. UNCHANGED <<record, dbQueue, resumed, revoked>> /\ phase' = [phase EXCEPT ![id] = "none"]
      BY <1>5 DEF Unwind, Goto
    <2>2. \A u \in revoked' : phase'[u] \in {"none", "waiting", "unwinding"}
      BY <1>0, <1>2, <2>1
    <2>3. Clear'
      BY <1>1, <2>1, <2>2, ClearStays
    <2> QED
      BY <2>3, ClearThen
  <1>6. CASE SetProgress(id)
    <2>1. UNCHANGED <<record, resumed, revoked, phase>>
      BY <1>6 DEF SetProgress
    <2>2. CASE record[id] = NoRecord
      <3>1. dbQueue' = dbQueue
        BY <1>6, <2>2 DEF SetProgress
      <3>2. Clear'
        BY <1>1, <1>2, <2>1, <3>1, ClearStays
      <3> QED
        BY <3>2, ClearThen
    <2>3. CASE record[id] # NoRecord
      <3> DEFINE r == [record[id] EXCEPT !.done = Head(writes[id]) # "progress"]
      <3>1. r \in [start : BOOLEAN, done : BOOLEAN]
        BY <1>0, <2>3 DEF TypeOK
      <3>2. dbQueue' = Append(dbQueue, Save(id, r, "progress"))
        BY <1>6, <2>3 DEF SetProgress
      <3> HIDE DEF r
      <3>3. PICK w \in DbOps : w = Save(id, r, "progress") /\ w.op = "save" /\ w.id = id
                               /\ w # OtherWrite
        BY <3>1, SavedWrites
      <3>4. \A u \in revoked' : /\ \A i \in 1 .. Len(resumed') : resumed'[i].id # u
                                /\ phase'[u] \in {"none", "waiting", "unwinding"}
        BY <1>2, <2>1 DEF Away
      <3>5. Clear'
        BY <1>0, <1>1, <2>1, <2>3, <3>2, <3>3, <3>4, ClearAppends
      <3> QED
        BY <3>5, ClearThen
    <2> QED
      BY <2>2, <2>3
  <1>7. CASE MarkDownloadFailed(id)
    <2>1. UNCHANGED <<record, resumed, revoked>> /\ id \notin revoked
      BY <1>2, <1>7 DEF MarkDownloadFailed
    <2>2. \E p : phase' = [phase EXCEPT ![id] = p]
      BY <1>7 DEF MarkDownloadFailed, Goto
    <2>3. \A u \in revoked' : phase'[u] \in {"none", "waiting", "unwinding"}
      BY <1>0, <1>2, <2>1, <2>2
    <2>4. CASE record[id] = NoRecord \/ record[id].done
      <3>1. dbQueue' = dbQueue
        BY <1>7, <2>4 DEF MarkDownloadFailed
      <3>2. Clear'
        BY <1>1, <2>1, <2>3, <3>1, ClearStays
      <3> QED
        BY <3>2, ClearThen
    <2>5. CASE ~(record[id] = NoRecord \/ record[id].done)
      <3> DEFINE r == [record[id] EXCEPT !.start = FALSE]
      <3>1. r \in [start : BOOLEAN, done : BOOLEAN]
        BY <1>0, <2>5 DEF TypeOK
      <3>2. dbQueue' = Append(dbQueue, Save(id, r, "attempt"))
        BY <1>7, <2>5 DEF MarkDownloadFailed
      <3> HIDE DEF r
      <3>3. PICK w \in DbOps : w = Save(id, r, "attempt") /\ w.op = "save" /\ w.id = id
                               /\ w # OtherWrite
        BY <3>1, SavedWrites
      <3>4. \A u \in revoked' : /\ \A i \in 1 .. Len(resumed') : resumed'[i].id # u
                                /\ phase'[u] \in {"none", "waiting", "unwinding"}
        BY <1>2, <2>1, <2>3 DEF Away
      <3>5. Clear'
        BY <1>0, <1>1, <2>1, <2>5, <3>2, <3>3, <3>4, ClearAppends
      <3> QED
        BY <3>5, ClearThen
    <2> QED
      BY <2>4, <2>5
  <1> QED
    BY <1>3, <1>4, <1>5, <1>6, <1>7

\* A write runs: a delete, or one for a chapter that is not revoked.
LEMMA WriteKeepsCancel ==
    ASSUME AttemptInv, DeletesAlone, RevokedStaysAway, RunWrite
    PROVE  CancelInv'
  <1>0. /\ TypeOK /\ SavesAwaited /\ phase \in [Ids -> Phases] /\ revoked \subseteq Ids
        /\ resumed \in Seq([id : Ids, then : {"open", "claim"}])
    BY DEF AttemptInv, HeldByAttempts, TypeOK
  <1>1. PICK w : w = dbQueue[1]
    OBVIOUS
  <1>2. /\ 1 \in 1 .. Len(dbQueue) /\ SavesFrom(1)
        /\ Len(dbQueue') = Len(dbQueue) - 1 /\ Len(dbQueue) \in Nat
        /\ \A i \in 1 .. Len(dbQueue') : /\ dbQueue'[i] = dbQueue[i + 1]
                                         /\ i + 1 \in 1 .. Len(dbQueue) /\ i + 1 # 1
    BY <1>0, WriteLeaves DEF RunWrite, WriteReady
  <1>3. /\ w.id \in Ids /\ w.op \in {"enqueue", "save", "delete"}
        /\ \A u \in Ids \ {w.id} : record'[u] = record[u]
        /\ w.op = "enqueue" => record'[w.id] = Enqueued(record[w.id])
        /\ w.op = "save" => record'[w.id] = w.record
        /\ w.op = "delete" => record'[w.id] = NoRecord
    BY <1>0, <1>1, WrittenRecord
  <1>4. /\ w.op # "save" => phase' = phase
        /\ phase' = phase \/ phase' = [phase EXCEPT ![w.id] = "unwinding"]
        /\ w.op # "enqueue" => resumed' = resumed
        /\ w.op = "enqueue" =>
              resumed' = IF w.then = "rest" THEN resumed
                         ELSE Append(resumed, [id |-> w.id, then |-> w.then])
    <2>1. w.op = "save" => w.by \in {"progress", "attempt"}
      BY <1>0, <1>1, <1>2, QueuedWrites
    <2> QED
      BY <1>0, <1>1, <2>1, WriteResumes
  <1>5. revoked' = revoked
    BY DEF RunWrite
  <1>6. CASE w.op = "delete"
    <2>1. Len(dbQueue) = 1 /\ Len(dbQueue') = 0
      BY <1>1, <1>2, <1>6 DEF DeletesAlone
    <2>2. (\A i \in 1 .. Len(dbQueue') : FALSE) /\ Saves' = {}
      BY <2>1 DEF Saves
    <2>3. ASSUME NEW u \in revoked PROVE record'[u] = NoRecord
      <3>1. CASE record[u] = NoRecord
        BY <1>0, <1>3, <1>6, <3>1
      <3>2. CASE \E i \in 1 .. Len(dbQueue) : dbQueue[i] = Delete(u)
        <4>1. dbQueue[1] = Delete(u)
          BY <2>1, <3>2
        <4>2. w.id = u
          BY <1>1, <4>1 DEF Delete
        <4> QED
          BY <1>3, <1>6, <4>2
      <3> QED
        BY <3>1, <3>2 DEF RevokedStaysAway
    <2>4. \A u \in revoked : /\ \A i \in 1 .. Len(resumed) : resumed[i].id # u
                             /\ phase[u] \in {"none", "waiting", "unwinding"}
      BY DEF RevokedStaysAway
    <2>5. UNCHANGED <<resumed, phase>>
      BY <1>4, <1>6
    <2>6. Clear'
      BY <1>5, <2>2, <2>3, <2>4, <2>5 DEF Clear, Away
    <2> QED
      BY <2>6, ClearThen
  <1>7. CASE w.op # "delete"
    <2>1. \A i \in 1 .. Len(dbQueue) : dbQueue[i].op # "delete"
      <3>1. ASSUME NEW i \in 1 .. Len(dbQueue), dbQueue[i].op = "delete" PROVE FALSE
        <4>1. Len(dbQueue) = 1
          BY <3>1 DEF DeletesAlone
        <4>2. i = 1
          BY <4>1
        <4> QED
          BY <1>1, <1>7, <3>1, <4>2
      <3> QED
        BY <3>1
    <2>2. \A i \in 1 .. Len(dbQueue') : dbQueue'[i] # OtherWrite /\ dbQueue'[i].op # "delete"
      BY <1>2, <2>1 DEF DeletesAlone
    <2>3. ASSUME NEW u \in revoked
          PROVE  /\ record[u] = NoRecord
                 /\ \A i \in 1 .. Len(dbQueue) : dbQueue[i].op = "enqueue" => dbQueue[i].id # u
                 /\ \A i \in 1 .. Len(resumed) : resumed[i].id # u
                 /\ phase[u] \in {"none", "waiting", "unwinding"}
      <3>1. \A i \in 1 .. Len(dbQueue) : dbQueue[i] # Delete(u)
        BY <2>1 DEF Delete
      <3> QED
        BY <3>1 DEF RevokedStaysAway
    <2>4. \A u \in revoked : u # w.id
      <3>1. CASE w.op = "enqueue"
        BY <1>1, <1>2, <2>3, <3>1
      <3>2. CASE w.op = "save"
        <4>1. record[w.id] # NoRecord
          BY <1>1, <1>2, <3>2 DEF DeletesAlone, Saves
        <4> QED
          BY <2>3, <4>1
      <3> QED
        BY <1>3, <1>7, <3>1, <3>2
    <2>5. record'[w.id] # NoRecord
      <3>1. CASE w.op = "enqueue"
        <4>1. Queued \in [start : BOOLEAN, done : BOOLEAN]
          BY DEF Queued
        <4>2. Queued # NoRecord
          BY <4>1, ChapterAssumption DEF ChapterAssumption
        <4> QED
          BY <1>3, <3>1, <4>2 DEF Enqueued
      <3>2. CASE w.op = "save"
        BY <1>0, <1>1, <1>2, <1>3, <3>2, QueuedWrites, ChapterAssumption DEF ChapterAssumption
      <3> QED
        BY <1>3, <1>7, <3>1, <3>2
    <2>6. \A i \in Saves' : record'[dbQueue'[i].id] # NoRecord
      <3> SUFFICES ASSUME NEW i \in Saves' PROVE record'[dbQueue'[i].id] # NoRecord
        OBVIOUS
      <3>1. PICK v : v = dbQueue'[i]
        OBVIOUS
      <3>2. i + 1 \in Saves /\ v = dbQueue[i + 1]
        BY <1>2, <3>1 DEF SavesFrom
      <3>3. record[v.id] # NoRecord
        BY <3>2 DEF DeletesAlone
      <3>4. v.id \in Ids
        BY <1>0, <3>2, SavesOfChapters
      <3>5. record'[v.id] # NoRecord
        BY <1>3, <2>5, <3>3, <3>4
      <3> QED
        BY <3>1, <3>5
    <2>7. ASSUME NEW u \in revoked' PROVE Away(u)'
      <3>1. u \in Ids /\ u \in revoked /\ u # w.id
        BY <1>0, <1>5, <2>4
      <3>2. record'[u] = NoRecord
        BY <1>3, <2>3, <3>1
      <3>3. \A i \in 1 .. Len(dbQueue') : dbQueue'[i].op = "enqueue" => dbQueue'[i].id # u
        BY <1>2, <2>3, <3>1
      <3>4. \A i \in 1 .. Len(resumed') : resumed'[i].id # u
        <4>1. \A i \in 1 .. Len(resumed) : resumed[i].id # u
          BY <2>3, <3>1
        <4>2. CASE resumed' = resumed
          BY <4>1, <4>2
        <4>3. CASE w.op = "enqueue" /\ w.then # "rest"
          <5>1. PICK e : e = [id |-> w.id, then |-> w.then]
            OBVIOUS
          <5>2. w.then \in {"open", "claim"}
            BY <1>0, <1>1, <1>2, <4>3, QueuedWrites
          <5>3. e \in [id : Ids, then : {"open", "claim"}] /\ e.id = w.id
            BY <1>3, <5>1, <5>2
          <5>4. resumed' = Append(resumed, e)
            BY <1>4, <4>3, <5>1
          <5>5. /\ Len(resumed') = Len(resumed) + 1 /\ Len(resumed) \in Nat
                /\ \A i \in 1 .. Len(resumed) : resumed'[i] = resumed[i]
                /\ resumed'[Len(resumed) + 1] = e
            BY <1>0, <5>3, <5>4, AppendProperties, LenProperties
          <5>6. \A i \in 1 .. Len(resumed') : i \in 1 .. Len(resumed) \/ i = Len(resumed) + 1
            BY <5>5
          <5> QED
            BY <3>1, <4>1, <5>3, <5>5, <5>6
        <4>4. w.op # "enqueue" \/ w.then = "rest" => resumed' = resumed
          BY <1>4
        <4> QED
          BY <4>2, <4>3, <4>4
      <3>5. phase'[u] \in {"none", "waiting", "unwinding"}
        <4>1. phase'[u] = phase[u]
          BY <1>0, <1>4, <3>1
        <4> QED
          BY <2>3, <3>1, <4>1
      <3> QED
        BY <3>2, <3>3, <3>4, <3>5 DEF Away
    <2>8. Clear'
      BY <2>2, <2>6, <2>7 DEF Clear
    <2> QED
      BY <2>8, ClearThen
  <1> QED
    BY <1>6, <1>7

\* Once another part of the app has held the queue, it has.
LEMMA OthersCounted ==
    ASSUME TypeOK, [Next]_vars, others' = 0
    PROVE  others = 0
  <1>1. others \in Nat
    BY ChapterAssumption DEF TypeOK, ChapterAssumption
  <1>2. CASE OtherWriteBegins
    BY <1>1, <1>2 DEF OtherWriteBegins
  <1>3. CASE ~OtherWriteBegins
    <2>1. others' = others
      BY <1>3 DEF Next, Event, Microtask, Prepare, vars, chapterVars, StartDownload,
         AddDownloadToQueue, CancelDownloads, TaskProgress, SlotGranted, NoWifi, PrepareFails,
         PrepareEnds, ListingFails, NothingToFetch, NovelFetched, SubmitTask, TaskEnds,
         TaskAnswered, MergeEnds, SubtitlesEnd, ConvertEnds, Resume, SetProgress,
         MarkDownloadFailed, Unwind, Finish, ScanEnds, RunWrite, Open, Claim, ReadPending,
         ProcessDownloads, OtherWriteEnds, Restart, Advance
    <2> QED
      BY <2>1
  <1> QED
    BY <1>2, <1>3

\* No step disturbs the third layer.
LEMMA CancelStep ==
    ASSUME AttemptInv, CancelInv, [Next]_vars
    PROVE  CancelInv'
  <1>0. TypeOK /\ HeldByAttempts
    BY DEF AttemptInv, HeldByAttempts
  <1>1. CASE others' # 0
    BY <1>1 DEF CancelInv
  <1>2. CASE others' = 0
    <2>0. others = 0 /\ DeletesAlone /\ RevokedStaysAway
      BY <1>0, <1>2, OthersCounted DEF CancelInv
    <2>1. ASSUME NEW id \in Ids,
                 \/ Resume(id) \/ Prepare(id) \/ TaskEnds(id) \/ TaskProgress(id)
                 \/ TaskAnswered(id) \/ MergeEnds(id) \/ SubtitlesEnd(id) \/ Finish(id) \/ ScanEnds(id)
          PROVE  CancelInv'
      BY <1>0, <2>0, <2>1, AttemptMoves, HandlersKeepCancel
    <2>2. ASSUME NEW id \in Ids,
                 \/ SlotGranted(id) \/ ConvertEnds(id) \/ SetProgress(id)
                 \/ MarkDownloadFailed(id) \/ Unwind(id)
          PROVE  CancelInv'
      BY <2>0, <2>2, HandlersKeepCancel
    <2>3. ASSUME \/ \E id \in Ids : StartDownload(id) \/ AddDownloadToQueue(id) \/ CancelDownloads(id)
                 \/ Open \/ Claim \/ ReadPending \/ ProcessDownloads
                 \/ OtherWriteBegins \/ OtherWriteEnds
          PROVE  CancelInv'
      BY <1>0, <1>2, <2>0, <2>3, RequestsKeepCancel
    <2>4. CASE RunWrite
      BY <2>0, <2>4, WriteKeepsCancel
    <2>5. CASE Restart
      <3>1. dbQueue' = <<>> /\ revoked' = {} /\ Saves' = {}
        BY <2>5 DEF Restart, Saves
      <3>2. \A i \in 1 .. Len(<<>>) : FALSE
        OBVIOUS
      <3> QED
        BY <3>1, <3>2 DEF CancelInv, DeletesAlone, RevokedStaysAway
    <2>6. CASE UNCHANGED vars
      <3>1. UNCHANGED <<record, phase, writes, dbQueue, resumed, revoked, holding>>
        BY <2>6 DEF vars, chapterVars, gateVars
      <3> QED
        BY <2>0, <3>1 DEF CancelInv, DeletesAlone, RevokedStaysAway, Saves, Quiet, ChainReady,
           AttemptReady, ChainOver
    <2> QED
      BY <2>1, <2>2, <2>3, <2>4, <2>5, <2>6 DEF Next, Event, Microtask
  <1> QED
    BY <1>1, <1>2

\* The third layer holds at the start.
LEMMA CancelInit == Init => CancelInv
  <1> SUFFICES ASSUME Init PROVE CancelInv
    OBVIOUS
  <1>1. dbQueue = <<>> /\ revoked = {} /\ Saves = {}
    BY DEF Init, Saves
  <1>2. \A i \in 1 .. Len(<<>>) : FALSE
    OBVIOUS
  <1> QED
    BY <1>1, <1>2 DEF CancelInv, DeletesAlone, RevokedStaysAway

\* The first and the third layer of the invariant of the specification.
LEMMA CancelInvHolds == Spec => [](AttemptInv /\ CancelInv)
  <1>1. AttemptInv /\ CancelInv /\ [Next]_vars => (AttemptInv /\ CancelInv)'
    <2> SUFFICES ASSUME AttemptInv, CancelInv, [Next]_vars
                 PROVE  AttemptInv' /\ CancelInv'
      OBVIOUS
    <2> QED
      BY AttemptStep, CancelStep
  <1> QED
    BY <1>1, AttemptInit, CancelInit, PTL DEF Spec

\* A download that was cancelled while it waited in the gate, and not requested
\* since, does not go on when its slot comes (download_provider.dart, the check
\* after acquire), as long as nothing but downloads has used the write queue.
THEOREM CancelStopsAWaiter == Spec => []CancelledWaiterStops
  <1>1. CancelInv => CancelledWaiterStops
    BY DEF CancelInv, RevokedStaysAway, CancelledWaiterStops
  <1> QED
    BY <1>1, CancelInvHolds, PTL

\* No late progress and no late failure of a cancelled download brings its record
\* back (download_repository.dart, setProgress and markDownloadFailed), as long as
\* nothing but downloads has used the write queue.
THEOREM NoLateWriteRecreates == Spec => LateWriteRecreatesNothing
  <1>1. AttemptInv /\ CancelInv /\ [Next]_vars =>
           [\A id \in Ids : others = 0 /\ LateWrite /\ record[id] = NoRecord
               => record'[id] = NoRecord]_vars
    <2> SUFFICES ASSUME AttemptInv, CancelInv, [Next]_vars, NEW id \in Ids,
                        others = 0 /\ LateWrite /\ record[id] = NoRecord
                 PROVE  record'[id] = NoRecord
      OBVIOUS
    <2>1. TypeOK /\ DeletesAlone
      BY DEF AttemptInv, HeldByAttempts, CancelInv
    <2>2. CASE RunWrite
      <3>1. /\ dbQueue[1].id \in Ids /\ \A u \in Ids \ {dbQueue[1].id} : record'[u] = record[u]
        BY <2>1, <2>2, WrittenRecord
      <3>2. 1 \in Saves
        BY <2>1, <2>2, WriteLeaves DEF RunWrite, WriteReady, LateWrite, Saves
      <3>3. record[dbQueue[1].id] # NoRecord
        BY <2>1, <3>2 DEF DeletesAlone
      <3> QED
        BY <3>1, <3>3
    <2>3. CASE ~RunWrite
      BY <2>3, RecordsWritten
    <2> QED
      BY <2>2, <2>3
  <1> QED
    BY <1>1, CancelInvHolds, PTL DEF Spec, LateWriteRecreatesNothing
=============================================================================
