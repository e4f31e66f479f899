-------------------------- MODULE ChapterDownload --------------------------
(***************************************************************************)
(* One attempt to download a chapter, from the request to the end          *)
(* (modules/manga/download/providers/download_provider.dart), with the     *)
(* queue records it leaves in the database (repositories/                  *)
(* download_repository.dart) and the queue every database write goes       *)
(* through (repositories/db_write_queue.dart).  It composes the gate       *)
(* (DownloadGate, whose variables it extends) with what the worker pool    *)
(* promises (DownloadTasks).                                               *)
(*                                                                         *)
(* Everything here runs on the main isolate.  What follows an await that   *)
(* is already over is a microtask; microtasks run before the next event (a *)
(* tap, a timer, a message from a port, the end of some I/O), so every     *)
(* event below waits for Drained.  The database is read without the queue  *)
(* and written through it, and a write that another part of the app makes  *)
(* in an asynchronous transaction occupies the queue across events.        *)
(***************************************************************************)
EXTENDS DownloadGate

CONSTANTS
    Kinds,         \* what each chapter may be: "pages", "video", "hls" or "novel"
    NoRecord,      \* there is no Download record with this id
    MaxPending,    \* writes in the queue when the user may still add one
    MaxOthers,     \* asynchronous transactions of other parts of the app
    MaxRestarts    \* how often the app is killed and started again

ASSUME ChapterAssumption ==
    /\ Kinds \subseteq [Ids -> {"pages", "video", "hls", "novel"}]
    /\ NoRecord \notin [start : BOOLEAN, done : BOOLEAN]
    /\ MaxPending \in Nat /\ MaxOthers \in Nat /\ MaxRestarts \in Nat

VARIABLES
    record,       \* the Download records: [start, done], the two flags that
                  \* say "queued" and "downloaded"
    phase,        \* where the attempt that has claimed each id stands
    scheduled,    \* _scheduledDownloadIds
    task,         \* the pool's side of each attempt (DownloadTasks)
    writes,       \* progressWrites: the chain of setProgress calls of each id
    dbQueue,      \* dbWriteQueue
    resumed,      \* continuations of finished enqueues, not yet run
    pending,      \* what a running processDownloads read from the database
    revoked,      \* history: cancelled in the gate and not requested since
    others, restarts,
    kind          \* what each chapter is: fixed, one of Kinds

chapterVars == <<record, phase, scheduled, task, writes, dbQueue, resumed,
                 pending, revoked, others, restarts, kind>>
vars == <<gateVars, chapterVars>>

Pool == INSTANCE DownloadTasks WITH Tasks <- Ids

Queued == [start |-> TRUE, done |-> FALSE]
Phases == {"none", "waiting", "preparing", "listing", "running", "merging", "subtitles",
           "finishing", "scanning", "failing", "saving", "unwinding"}

OtherWrite == [op |-> "other"]
Enqueue(id, then) == [op |-> "enqueue", id |-> id, then |-> then]
Save(id, r, by) == [op |-> "save", id |-> id, record |-> r, by |-> by]
Delete(id) == [op |-> "delete", id |-> id]

DbOps ==
    {OtherWrite} \cup [op : {"enqueue"}, id : Ids, then : {"rest", "open", "claim"}]
    \cup [op : {"save"}, id : Ids, record : [start : BOOLEAN, done : BOOLEAN],
          by : {"progress", "attempt"}]
    \cup [op : {"delete"}, id : Ids]

-----------------------------------------------------------------------------
Init ==
    /\ GateInit
    /\ record = [id \in Ids |-> NoRecord]
    /\ phase = [id \in Ids |-> "none"]
    /\ scheduled = {}
    /\ Pool!Init
    /\ writes = [id \in Ids |-> <<>>]
    /\ dbQueue = <<>> /\ resumed = <<>>
    /\ pending = {} /\ revoked = {}
    /\ others = 0 /\ restarts = 0
    /\ kind \in Kinds

\* A continuation or a queued write is ready to run.
WriteReady == dbQueue # <<>> /\ Head(dbQueue) # OtherWrite
ChainReady(id) == writes[id] # <<>> /\ Head(writes[id]) \in {"progress", "completed", "converted"}
ChainOver(id) == writes[id] \in {<<>>, <<"broken">>}
AttemptReady(id) ==
    \/ phase[id] = "waiting" /\ id \in holding
    \/ phase[id] \in {"finishing", "failing", "unwinding"} /\ ChainOver(id)
Drained ==
    /\ ~WriteReady /\ resumed = <<>>
    /\ \A id \in Ids : ~ChainReady(id) /\ ~AttemptReady(id)

Goto(id, p) == phase' = [phase EXCEPT ![id] = p]
\* The user may act: the instance bounds how far he gets ahead of the database.
UserActs == Drained /\ Len(dbQueue) < MaxPending

-----------------------------------------------------------------------------
(* Requests.                                                               *)

\* The download button of a chapter: it enqueues the record, then calls
\* downloadChapter, which enqueues it again before it claims the id.
StartDownload(id) ==
    /\ UserActs /\ id \notin scheduled
    /\ dbQueue' = Append(dbQueue, Enqueue(id, "open"))
    /\ revoked' = revoked \ {id}
    /\ UNCHANGED <<gateVars, record, phase, scheduled, task, writes, resumed,
                   pending, others, restarts, kind>>

\* addDownloadToQueue and its kin: only the record; processDownloads follows.
AddDownloadToQueue(id) ==
    /\ UserActs
    /\ dbQueue' = Append(dbQueue, Enqueue(id, "rest"))
    /\ revoked' = revoked \ {id}
    /\ UNCHANGED <<gateVars, record, phase, scheduled, task, writes, resumed,
                   pending, others, restarts, kind>>

\* processDownloads reads the queued records in an asynchronous query ...
ReadPending ==
    /\ UserActs /\ pending = {}
    /\ pending' = {id \in Ids : record[id] = Queued}
    /\ UNCHANGED <<gateVars, record, phase, scheduled, task, writes, dbQueue,
                   resumed, revoked, others, restarts, kind>>

\* ... and calls downloadChapter for those no attempt has claimed, in the
\* order it sorted them into.
ProcessDownloads ==
    /\ Drained /\ pending # {}
    /\ LET S == pending \ scheduled
       IN  /\ \E line \in [1 .. Cardinality(S) -> S] :
                 /\ \A id \in S : \E i \in DOMAIN line : line[i] = id
                 /\ dbQueue' = dbQueue \o [i \in DOMAIN line |-> Enqueue(line[i], "claim")]
           /\ revoked' = revoked \ S
    /\ pending' = {}
    /\ UNCHANGED <<gateVars, record, phase, scheduled, task, writes, resumed,
                   others, restarts, kind>>

\* cancelDownloads: the pool settles the task, the record is to be deleted.
CancelDownloads(id) ==
    /\ UserActs /\ (record[id] # NoRecord \/ id \in scheduled)
    /\ Pool!Cancel(id)
    /\ dbQueue' = Append(dbQueue, Delete(id))
    /\ revoked' = IF phase[id] = "waiting" THEN revoked \cup {id} ELSE revoked
    /\ UNCHANGED <<gateVars, record, phase, scheduled, writes, resumed, pending,
                   others, restarts, kind>>

-----------------------------------------------------------------------------
(* The database.                                                           *)

\* enqueue keeps completed and queued records; failed ones become queued.
Enqueued(r) == IF r # NoRecord /\ (r.done \/ r.start) THEN r ELSE Queued

\* The first write of the queue runs in a synchronous transaction.  Whoever
\* awaits it goes on in a later microtask.
RunWrite ==
    /\ WriteReady
    /\ LET w == Head(dbQueue)
       IN  /\ record' = [record EXCEPT ![w.id] =
                            CASE w.op = "enqueue" -> Enqueued(@)
                              [] w.op = "save"    -> w.record
                              [] w.op = "delete"  -> NoRecord]
           /\ resumed' = IF w.op = "enqueue" /\ w.then # "rest"
                         THEN Append(resumed, [id |-> w.id, then |-> w.then])
                         ELSE resumed
           /\ phase' = IF w.op = "save" /\ w.by = "attempt"
                       THEN [phase EXCEPT ![w.id] = "unwinding"] ELSE phase
           /\ writes' = IF w.op = "save" /\ w.by = "progress"
                        THEN [writes EXCEPT ![w.id] = Tail(@)] ELSE writes
    /\ dbQueue' = Tail(dbQueue)
    /\ UNCHANGED <<gateVars, scheduled, task, pending, revoked, others, restarts, kind>>

\* Another part of the app starts, and ends, an asynchronous transaction.
OtherWriteBegins ==
    /\ UserActs /\ others < MaxOthers
    /\ others' = others + 1
    /\ dbQueue' = Append(dbQueue, OtherWrite)
    /\ UNCHANGED <<gateVars, record, phase, scheduled, task, writes, resumed,
                   pending, revoked, restarts, kind>>

OtherWriteEnds ==
    /\ Drained /\ dbQueue # <<>>
    /\ dbQueue' = Tail(dbQueue)
    /\ UNCHANGED <<gateVars, record, phase, scheduled, task, writes, resumed,
                   pending, revoked, others, restarts, kind>>

-----------------------------------------------------------------------------
(* The start of an attempt.                                                *)

\* The button's handler goes on: it calls downloadChapter.
Open ==
    /\ resumed # <<>> /\ Head(resumed).then = "open"
    /\ resumed' = Tail(resumed)
    /\ dbQueue' = Append(dbQueue, Enqueue(Head(resumed).id, "claim"))
    /\ UNCHANGED <<gateVars, record, phase, scheduled, task, writes, pending,
                   revoked, others, restarts, kind>>

\* downloadChapter goes on.  A second attempt for a claimed id is a no-op; the
\* attempt that gets the claim enters the gate, unless the chapter is complete.
Claim ==
    /\ resumed # <<>> /\ Head(resumed).then = "claim"
    /\ resumed' = Tail(resumed)
    /\ LET id == Head(resumed).id
       IN  \/ /\ id \in scheduled
              /\ UNCHANGED <<gateVars, phase, scheduled>>
           \/ /\ id \notin scheduled
              /\ scheduled' = scheduled \cup {id}
              /\ IF record[id] # NoRecord /\ record[id].done
                 THEN Goto(id, "unwinding") /\ UNCHANGED gateVars
                 ELSE /\ Goto(id, "waiting")
                      /\ \E s \in SourcesOf[id], m \in Limits : Acquire(id, s, m)
    /\ UNCHANGED <<record, task, writes, dbQueue, pending, revoked, others, restarts, kind>>

\* The gate's start delay is over.
SlotGranted(id) ==
    /\ Drained
    /\ StartTimer(id)
    /\ UNCHANGED chapterVars

\* Mutant of Resume: a missing record is not taken for a cancel.
ResumeUnchecked(id) ==
    /\ phase[id] = "waiting" /\ id \in holding
    /\ Goto(id, "preparing")
    /\ UNCHANGED <<gateVars, record, scheduled, task, writes, dbQueue, resumed,
                   pending, revoked, others, restarts, kind>>

\* Mutant of Resume: acquire is not awaited.
ResumeEarly(id) ==
    /\ phase[id] = "waiting" /\ Drained
    /\ Goto(id, IF record[id] = NoRecord THEN "unwinding" ELSE "preparing")
    /\ UNCHANGED <<gateVars, record, scheduled, task, writes, dbQueue, resumed,
                   pending, revoked, others, restarts, kind>>

\* acquire has returned.  An attempt whose record is gone was cancelled.
Resume(id) ==
    /\ phase[id] = "waiting" /\ id \in holding
    /\ Goto(id, IF record[id] = NoRecord THEN "unwinding" ELSE "preparing")
    /\ UNCHANGED <<gateVars, record, scheduled, task, writes, dbQueue, resumed,
                   pending, revoked, others, restarts, kind>>

\* Mutant of NoWifi: the early return is outside the try, so nothing is undone.
NoWifiReturns(id) ==
    /\ Drained /\ phase[id] = "preparing"
    /\ Goto(id, "none")
    /\ UNCHANGED <<gateVars, record, scheduled, task, writes, dbQueue, resumed,
                   pending, revoked, others, restarts, kind>>

\* Only-on-wifi is set and there is none: the record stays queued.
NoWifi(id) ==
    /\ Drained /\ phase[id] = "preparing"
    /\ Goto(id, "unwinding")
    /\ UNCHANGED <<gateVars, record, scheduled, task, writes, dbQueue, resumed,
                   pending, revoked, others, restarts, kind>>

-----------------------------------------------------------------------------
(* Preparing and fetching.                                                 *)

\* Adds the steps ws to the progress chain of id and moves the attempt to p.
\* The step of a manga that completes starts with the archive conversion.
Completed(id) == IF kind[id] = "pages" THEN "converting" ELSE "completed"
Advance(id, p, ws) ==
    /\ Drained
    /\ Goto(id, p)
    /\ writes' = [writes EXCEPT ![id] = @ \o ws]
    /\ UNCHANGED <<gateVars, record, scheduled, dbQueue, resumed, pending,
                   revoked, others, restarts, kind>>

\* The source could not be resolved in time, or something threw on the way.
PrepareFails(id) ==
    /\ phase[id] = "preparing"
    /\ Advance(id, "failing", <<>>)
    /\ UNCHANGED task

\* The source is resolved.  Cancelled in the meantime?  Then the attempt ends
\* before it writes a file.  From here on a cancel only reaches the pool.
PrepareEnds(id) ==
    /\ phase[id] = "preparing"
    /\ Advance(id, IF record[id] = NoRecord THEN "unwinding" ELSE "listing", <<>>)
    /\ UNCHANGED task

\* Listing the files to fetch, or loading the playlist, throws.
ListingFails(id) ==
    /\ phase[id] = "listing"
    /\ Advance(id, "failing", <<>>)
    /\ UNCHANGED task

\* Every page is on disk already, or the archive, or a video that could not be deleted.
NothingToFetch(id) ==
    /\ phase[id] = "listing" /\ kind[id] \in {"pages", "video"}
    /\ Advance(id, "finishing", <<Completed(id)>>)
    /\ UNCHANGED task

\* The text of a novel is fetched here; an empty one leaves the record queued.
NovelFetched(id) ==
    /\ phase[id] = "listing" /\ kind[id] = "novel"
    /\ \E ws \in {<<>>, <<"completed">>} : Advance(id, "finishing", ws)
    /\ UNCHANGED task

SubmitTask(id) ==
    /\ phase[id] = "listing" /\ kind[id] # "novel"
    /\ Pool!Submit(id)
    /\ Advance(id, "running", <<>>)

\* The pool's worker is done or gives up; a cancel gets its answer at once.
TaskEnds(id) ==
    /\ Drained
    /\ \E a \in Pool!Answers : Pool!Answer(id, a)
    /\ UNCHANGED <<gateVars, record, phase, scheduled, writes, dbQueue, resumed,
                   pending, revoked, others, restarts, kind>>

\* A progress callback that setProgress does not drop.  One is kept at a time.
TaskProgress(id) ==
    /\ phase[id] = "running" /\ writes[id] = <<>>
    /\ Advance(id, "running", <<"progress">>)
    /\ UNCHANGED task

\* The answer reaches the downloader.  Segments are merged first.
TaskAnswered(id) ==
    /\ phase[id] = "running"
    /\ \/ /\ task[id] = "error"
          /\ Advance(id, "failing", <<>>)
          /\ Pool!Return(id)
       \/ /\ task[id] = "complete" /\ kind[id] = "hls"
          /\ Advance(id, "merging", <<>>)
          /\ UNCHANGED task
       \/ /\ task[id] = "complete" /\ kind[id] # "hls"
          /\ Advance(id, "subtitles", <<Completed(id)>>)
          /\ UNCHANGED task

MergeEnds(id) ==
    /\ phase[id] = "merging"
    /\ \/ Advance(id, "subtitles", <<Completed(id)>>) /\ UNCHANGED task
       \/ Advance(id, "failing", <<>>) /\ Pool!Return(id)

\* The subtitles are the last thing a downloader fetches, and may fail.
SubtitlesEnd(id) ==
    /\ phase[id] = "subtitles"
    /\ \E p \in {"finishing", "failing"} : Advance(id, p, <<>>)
    /\ Pool!Return(id)

-----------------------------------------------------------------------------
(* Progress and the end of an attempt.                                     *)

\* The cover is exported and the archive of a manga converted.  A failure of the
\* archive is only reported; one of the cover breaks the chain.
ConvertEnds(id) ==
    /\ Drained /\ writes[id] # <<>> /\ Head(writes[id]) = "converting"
    /\ \/ writes' = [writes EXCEPT ![id][1] = "converted"]
       \/ writes' = [writes EXCEPT ![id] = <<"broken">>]
    /\ UNCHANGED <<gateVars, record, phase, scheduled, task, dbQueue, resumed,
                   pending, revoked, others, restarts, kind>>

\* Mutant of SetProgress: a missing record is created.
SetProgressUpserts(id) ==
    /\ ChainReady(id)
    /\ writes' = [writes EXCEPT ![id][1] = "saving"]
    /\ dbQueue' = Append(dbQueue,
           Save(id, [start |-> TRUE, done |-> Head(writes[id]) # "progress"], "progress"))
    /\ UNCHANGED <<gateVars, record, phase, scheduled, task, resumed, pending,
                   revoked, others, restarts, kind>>

\* setProgress reads the record and queues it with the new progress.  The copy
\* it saves is the one it read.
SetProgress(id) ==
    /\ ChainReady(id)
    /\ IF record[id] = NoRecord
       THEN /\ writes' = [writes EXCEPT ![id] = Tail(@)]
            /\ UNCHANGED dbQueue
       ELSE /\ writes' = [writes EXCEPT ![id][1] = "saving"]
            /\ dbQueue' = Append(dbQueue,
                   Save(id, [record[id] EXCEPT !.done = Head(writes[id]) # "progress"],
                        "progress"))
    /\ UNCHANGED <<gateVars, record, phase, scheduled, task, resumed, pending,
                   revoked, others, restarts, kind>>

\* Mutant of MarkDownloadFailed: the progress chain is not awaited first.
MarkFailedAtOnce(id) ==
    /\ phase[id] = "failing"
    /\ IF record[id] = NoRecord \/ record[id].done
       THEN Goto(id, "unwinding") /\ UNCHANGED dbQueue
       ELSE /\ Goto(id, "saving")
            /\ dbQueue' = Append(dbQueue,
                   Save(id, [record[id] EXCEPT !.start = FALSE], "attempt"))
    /\ UNCHANGED <<gateVars, record, scheduled, task, writes, resumed, pending,
                   revoked, others, restarts, kind>>

\* The catch: once the progress chain is over, markDownloadFailed makes the
\* record retryable unless it is gone or complete.
MarkDownloadFailed(id) ==
    /\ phase[id] = "failing" /\ ChainOver(id)
    /\ IF record[id] = NoRecord \/ record[id].done
       THEN Goto(id, "unwinding") /\ UNCHANGED dbQueue
       ELSE /\ Goto(id, "saving")
            /\ dbQueue' = Append(dbQueue,
                   Save(id, [record[id] EXCEPT !.start = FALSE], "attempt"))
    /\ UNCHANGED <<gateVars, record, scheduled, task, writes, resumed, pending,
                   revoked, others, restarts, kind>>

\* The chain is awaited before an attempt that succeeded goes on.
Finish(id) ==
    /\ phase[id] = "finishing" /\ ChainOver(id)
    /\ Goto(id, IF writes[id] = <<>> THEN "scanning" ELSE "failing")
    /\ UNCHANGED <<gateVars, record, scheduled, task, writes, dbQueue, resumed,
                   pending, revoked, others, restarts, kind>>

\* The cover, an empty directory and the library scan, in which it may still throw.
ScanEnds(id) ==
    /\ phase[id] = "scanning"
    /\ \E p \in {"failing", "unwinding"} : Advance(id, p, <<>>)
    /\ UNCHANGED task

\* Mutant of Unwind: an attempt whose record is gone keeps its slot.
UnwindKeepsSlot(id) ==
    /\ phase[id] = "unwinding" /\ ChainOver(id)
    /\ Goto(id, "none")
    /\ scheduled' = scheduled \ {id}
    /\ writes' = [writes EXCEPT ![id] = <<>>]
    /\ IF id \in holding /\ record[id] # NoRecord THEN Release(id) ELSE UNCHANGED gateVars
    /\ UNCHANGED <<record, task, dbQueue, resumed, pending, revoked,
                   others, restarts, kind>>

\* The finally: the slot is released and the claim given up.
Unwind(id) ==
    /\ phase[id] = "unwinding" /\ ChainOver(id)
    /\ Goto(id, "none")
    /\ scheduled' = scheduled \ {id}
    /\ writes' = [writes EXCEPT ![id] = <<>>]
    /\ IF id \in holding THEN Release(id) ELSE UNCHANGED gateVars
    /\ UNCHANGED <<record, task, dbQueue, resumed, pending, revoked,
                   others, restarts, kind>>

\* The app is killed and started again: only the records survive.
Restart ==
    /\ restarts < MaxRestarts
    /\ restarts' = restarts + 1
    /\ phase' = [id \in Ids |-> "none"]
    /\ task' = [id \in Ids |-> "idle"]
    /\ writes' = [id \in Ids |-> <<>>]
    /\ scheduled' = {} /\ dbQueue' = <<>> /\ resumed' = <<>>
    /\ pending' = {} /\ revoked' = {}
    /\ place' = [id \in {} |-> 0] /\ source' = [id \in Ids |-> NoSource]
    /\ active' = 0 /\ activeSources' = {} /\ maxConcurrent' = 1
    /\ starting' = {} /\ holding' = {}
    /\ UNCHANGED <<record, order, others, kind>>

-----------------------------------------------------------------------------
Microtask(id) == Resume(id) \/ SetProgress(id) \/ MarkDownloadFailed(id) \/ Unwind(id) \/ Finish(id)
Prepare(id) ==
    \/ NoWifi(id) \/ PrepareFails(id) \/ PrepareEnds(id) \/ ListingFails(id)
    \/ NothingToFetch(id) \/ NovelFetched(id) \/ SubmitTask(id)
Event(id) ==
    \/ SlotGranted(id) \/ Prepare(id)
    \/ TaskEnds(id) \/ TaskAnswered(id) \/ MergeEnds(id) \/ SubtitlesEnd(id)
    \/ ConvertEnds(id) \/ ScanEnds(id)

Next ==
    \/ \E id \in Ids :
          \/ StartDownload(id) \/ AddDownloadToQueue(id) \/ CancelDownloads(id)
          \/ TaskProgress(id) \/ Event(id) \/ Microtask(id)
    \/ RunWrite \/ Open \/ Claim
    \/ ReadPending \/ ProcessDownloads
    \/ OtherWriteBegins \/ OtherWriteEnds
    \/ Restart

Spec == Init /\ [][Next]_vars

\* The event loop runs every microtask and serves every event in its turn; the
\* gate's timers fire, the pool answers, and the network, file and platform
\* calls of an attempt return.
Fairness ==
    /\ WF_vars(RunWrite) /\ WF_vars(Open) /\ WF_vars(Claim) /\ SF_vars(OtherWriteEnds)
    /\ \A id \in Ids : /\ WF_vars(Microtask(id))
                       /\ SF_vars(Event(id))

FairSpec == Spec /\ Fairness

-----------------------------------------------------------------------------
TypeOK ==
    /\ GateTypeOK
    /\ record \in [Ids -> {NoRecord} \cup [start : BOOLEAN, done : BOOLEAN]]
    /\ phase \in [Ids -> Phases]
    /\ scheduled \subseteq Ids
    /\ task \in [Ids -> Pool!TaskStates]
    /\ writes \in [Ids -> Seq({"progress", "completed", "converting", "converted", "saving",
                             "broken"})]
    /\ dbQueue \in Seq(DbOps)
    /\ resumed \in Seq([id : Ids, then : {"open", "claim"}])
    /\ pending \subseteq Ids /\ revoked \subseteq Ids
    /\ others \in 0 .. MaxOthers /\ restarts \in 0 .. MaxRestarts
    /\ kind \in Kinds

\* A claim, a place in the gate and a task of the pool are held by a live
\* attempt and by nothing else, so none of them outlives it, whichever way it
\* ends, and no second attempt ever meets a first one's.
HeldByAttempts ==
    TypeOK /\ \A id \in Ids :
        /\ id \in scheduled <=> phase[id] # "none"
        /\ phase[id] \in {"none", "waiting", "unwinding"} \/ id \in holding
        /\ phase[id] = "none" => id \notin waiting \cup granted
        /\ task[id] # "idle" <=> phase[id] \in {"running", "merging", "subtitles"}

\* "keeps a single source strictly serial" all the way: the pool never works
\* for two chapters of one source, and never for more chapters than slots.
PoolSerialPerSource ==
    LET busy == {id \in Ids : task[id] # "idle"}
    IN  /\ \A a, b \in busy : a # b => source[a] # source[b]
        /\ Cardinality(busy) <= active

\* A write to the records by a running attempt: all but enqueues and deletes.
LateWrite == dbQueue # <<>> /\ Head(dbQueue).op = "save" /\ dbQueue' = Tail(dbQueue)

\* "Cancellation deletes the queue record. A late progress callback must not
\* recreate it and make a cancelled item reappear."  It holds as long as no other
\* part of the app has held the write queue.
LateWriteRecreatesNothing ==
    [][\A id \in Ids : others = 0 /\ LateWrite /\ record[id] = NoRecord => record'[id] = NoRecord]_vars

\* A complete download stays complete until its record is deleted: no failure,
\* no late progress and no repeated request takes the flag back.
CompleteStaysComplete ==
    [][\A id \in Ids : record[id] # NoRecord /\ record[id].done =>
          record'[id] = NoRecord \/ record'[id].done]_vars

\* "a cancel that lands while it waits must actually stop it": a download that
\* was cancelled in the gate and not requested again never starts to prepare, as
\* long as no other part of the app has held the write queue.
CancelledWaiterStops ==
    \A id \in Ids : others = 0 /\ id \in revoked => phase[id] \in {"none", "waiting", "unwinding"}

\* The gate keeps its promise for the attempts, whatever they run into: as long as
\* the app runs, no step of theirs takes, gives back or fills a slot but as
\* DownloadSlots allows.
SlotsKept == [][restarts' = restarts => Slots!Next \/ UNCHANGED Slots!slotVars]_vars

\* Every attempt ends, and so gives its slot and its claim back.
AttemptEnds == \A id \in Ids : phase[id] # "none" ~> phase[id] = "none"
=============================================================================
