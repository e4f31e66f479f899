---------------------------- MODULE DownloadPool ----------------------------
(***************************************************************************)
(* The pool of download workers                                            *)
(* (lib/services/download_manager/download_isolate_pool.dart).  A caller   *)
(* submits a task under its task id and waits for one answer.  Tasks queue *)
(* for a fixed set of isolates; cancelling a running task kills its        *)
(* isolate, and the pool spawns another in its place.                      *)
(*                                                                         *)
(* Main isolate and workers talk through ports only, so a message sent is  *)
(* not yet received: `replies' carries what an isolate sent to the port of *)
(* its task, `inbox' what was forwarded to the port of the caller, and an  *)
(* obituary tells the main isolate that a worker exited.                   *)
(***************************************************************************)
EXTENDS Integers, FiniteSets, Sequences

CONSTANTS
    Tasks,        \* task ids; one caller at a time uses an id
    Segmented,    \* the HLS tasks among them; the others download plain files
    Workers,      \* worker indices, 0 .. poolSize - 1
    NoTask,
    MaxFaults,    \* how many spawns may fail
    MaxDeaths     \* how many isolates may exit by themselves

ASSUME PoolAssumption ==
    /\ IsFiniteSet(Tasks) /\ IsFiniteSet(Workers) /\ Workers # {}
    /\ NoTask \notin Tasks /\ Segmented \subseteq Tasks
    /\ MaxFaults \in Nat /\ MaxDeaths \in Nat

VARIABLES
    init,         \* _initialized / _initializing
    caller,       \* where the submission of each task id stands
    flag,         \* downloadTaskCancellation
    queue,        \* _taskQueue
    available,    \* _availableWorkers
    current,      \* the task whose _cancelCurrent each worker holds, which is
                  \* also the inverse of _runningTasks
    respawning,   \* terminated workers whose replacement is being spawned
    lost,         \* indices whose replacement could not be spawned
    isolate,      \* what each isolate does: [phase, task, open]
    strays,       \* tasks each isolate has reported as failed while files of
                  \* the same batch are still being fetched and written
    mail,         \* the task sent to each isolate and not yet taken up
    replies,      \* messages on their way to the task port of each worker
    inbox,        \* messages on their way to the receive port of each task
    obituary,     \* exits the main isolate has not heard of yet
    finished,     \* history: this submission's files were all downloaded
    faults, deaths

poolVars == <<init, caller, flag, queue, available, current, respawning, lost,
              isolate, strays, mail, replies, inbox, obituary, finished, faults,
              deaths>>

Idle == [phase |-> "idle", task |-> NoTask, open |-> FALSE]
Dead == [phase |-> "dead", task |-> NoTask, open |-> FALSE]

Terminal == {"complete", "error"}
Queued == {queue[i] : i \in 1 .. Len(queue)}
Running == {t \in Tasks : \E w \in Workers : current[w] = t}
\* The task's receive port is open: the caller waits for an answer.
Listening == {t \in Tasks : caller[t] = "listening"}

PoolTypeOK ==
    /\ init \in {"no", "running", "ready"}
    /\ caller \in [Tasks -> {"none", "preparing", "listening", "done", "failed"}]
    /\ flag \in [Tasks -> {"absent", "live", "cancelled"}]
    /\ queue \in Seq(Tasks)
    /\ available \subseteq Workers
    /\ current \in [Workers -> Tasks \cup {NoTask}]
    /\ respawning \subseteq Workers /\ lost \subseteq Workers
    /\ isolate \in [Workers -> {Idle, Dead} \cup
                       [phase : {"work", "failing"}, task : Tasks, open : BOOLEAN]]
    /\ strays \in [Workers -> SUBSET Tasks]
    /\ mail \in [Workers -> Tasks \cup {NoTask}]
    /\ replies \in [Workers -> Seq({"progress"} \cup Terminal)]
    /\ inbox \in [Tasks -> Seq({"progress"} \cup Terminal)]
    /\ obituary \subseteq Workers
    /\ finished \subseteq Tasks
    /\ faults \in 0 .. MaxFaults /\ deaths \in 0 .. MaxDeaths

PoolInit ==
    /\ init = "no"
    /\ caller = [t \in Tasks |-> "none"]
    /\ flag = [t \in Tasks |-> "absent"]
    /\ queue = <<>>
    /\ available = {} /\ respawning = {} /\ lost = {}
    /\ current = [w \in Workers |-> NoTask]
    /\ isolate = [w \in Workers |-> Dead]
    /\ strays = [w \in Workers |-> {}]
    /\ mail = [w \in Workers |-> NoTask]
    /\ replies = [w \in Workers |-> <<>>]
    /\ inbox = [t \in Tasks |-> <<>>]
    /\ obituary = {} /\ finished = {}
    /\ faults = 0 /\ deaths = 0

-----------------------------------------------------------------------------
\* _processQueue: hand the head of the queue q to a free worker until one of the
\* two runs out.  `cur' and `ml' are current and mail as the caller leaves them.
\* A task sent to an isolate that is gone is never taken up.
ProcessQueue(q, free, cur, ml) ==
    LET n == IF Len(q) <= Cardinality(free) THEN Len(q) ELSE Cardinality(free)
    IN  \E pick \in [1 .. n -> free] :
            /\ \A i, j \in 1 .. n : i # j => pick[i] # pick[j]
            /\ LET taken == {pick[i] : i \in 1 .. n}
                   of(w) == q[CHOOSE i \in 1 .. n : pick[i] = w]
               IN  /\ queue' = SubSeq(q, n + 1, Len(q))
                   /\ available' = free \ taken
                   /\ current' = [w \in Workers |->
                                     IF w \in taken THEN of(w) ELSE cur[w]]
                   /\ mail' = [w \in Workers |->
                                  IF w \in taken THEN of(w) ELSE ml[w]]

\* removeWhere: what is left of the queue q, in its order, without the task t.
Without(q, t) ==
    LET kept   == {i \in 1 .. Len(q) : q[i] # t}
        nth(n) == CHOOSE i \in kept : Cardinality({j \in kept : j < i}) = n - 1
    IN  [n \in 1 .. Cardinality(kept) |-> q[nth(n)]]

\* The task port of w closes: what the isolate still sends to it is dropped.
ClosePort(w) == [isolate EXCEPT ![w].open = FALSE]

-----------------------------------------------------------------------------
\* submitFileDownload / submitM3u8Download.  An uninitialised pool is started
\* first, and the submission waits for that.
Submit(t) ==
    /\ caller[t] = "none"
    /\ flag' = [flag EXCEPT ![t] = "live"]
    /\ finished' = finished \ {t}
    /\ IF init = "ready"
       THEN /\ caller' = [caller EXCEPT ![t] = "listening"]
            /\ ProcessQueue(Append(queue, t), available, current, mail)
            /\ UNCHANGED init
       ELSE /\ init' = "running"
            /\ caller' = [caller EXCEPT ![t] = "preparing"]
            /\ UNCHANGED <<queue, available, current, mail>>
    /\ UNCHANGED <<respawning, lost, isolate, strays, replies, inbox, obituary, faults, deaths>>

\* All workers spawned.
InitSucceeds ==
    /\ init = "running"
    /\ init' = "ready"
    /\ available' = Workers
    /\ isolate' = [w \in Workers |-> Idle]
    /\ UNCHANGED <<strays, caller, flag, queue, current, respawning, lost, mail, replies,
                   inbox, obituary, finished, faults, deaths>>

\* One worker failed to spawn: the others are disposed of, every submission
\* that waited is refused, and the next one starts over.
InitFails ==
    /\ init = "running" /\ faults < MaxFaults
    /\ init' = "no"
    /\ faults' = faults + 1
    /\ caller' = [t \in Tasks |-> IF caller[t] = "preparing" THEN "failed" ELSE caller[t]]
    /\ flag' = [t \in Tasks |-> IF caller[t] = "preparing" THEN "absent" ELSE flag[t]]
    /\ UNCHANGED <<queue, available, current, respawning, lost, isolate, strays, mail,
                   replies, inbox, obituary, finished, deaths>>

\* Mutant of Resume: a cancel during the start of the pool is forgotten.
ResumeDespiteCancel(t) ==
    /\ caller[t] = "preparing" /\ init = "ready"
    /\ caller' = [caller EXCEPT ![t] = "listening"]
    /\ ProcessQueue(Append(queue, t), available, current, mail)
    /\ UNCHANGED <<flag, init, respawning, lost, isolate, strays, replies, inbox,
                   obituary, finished, faults, deaths>>

\* The rest of a submission that waited for the pool.
Resume(t) ==
    /\ caller[t] = "preparing" /\ init = "ready"
    /\ IF flag[t] = "cancelled"
       THEN /\ flag' = [flag EXCEPT ![t] = "absent"]
            /\ caller' = [caller EXCEPT ![t] = "failed"]
            /\ UNCHANGED <<queue, available, current, mail>>
       ELSE /\ caller' = [caller EXCEPT ![t] = "listening"]
            /\ ProcessQueue(Append(queue, t), available, current, mail)
            /\ UNCHANGED flag
    /\ UNCHANGED <<init, respawning, lost, isolate, strays, replies, inbox, obituary,
                   finished, faults, deaths>>

\* Mutant of Terminate: the task port stays open for what is on its way.
TerminateKeepsPort(w) ==
    /\ current' = [current EXCEPT ![w] = NoTask]
    /\ isolate' = [isolate EXCEPT ![w] = Dead]
    /\ strays' = [strays EXCEPT ![w] = {}]
    /\ mail' = [mail EXCEPT ![w] = NoTask]
    /\ obituary' = obituary \ {w}
    /\ inbox' = [inbox EXCEPT ![current[w]] = Append(@, "error")]
    /\ respawning' = respawning \cup {w}
    /\ UNCHANGED replies

\* _cancelCurrent of worker w: the isolate is killed, its ports are closed, the
\* caller is told and the pool starts to replace the worker.
Terminate(w) ==
    /\ current' = [current EXCEPT ![w] = NoTask]
    /\ isolate' = [isolate EXCEPT ![w] = Dead]
    /\ strays' = [strays EXCEPT ![w] = {}]
    /\ mail' = [mail EXCEPT ![w] = NoTask]
    /\ replies' = [replies EXCEPT ![w] = <<>>]
    /\ obituary' = obituary \ {w}
    /\ inbox' = [inbox EXCEPT ![current[w]] = Append(@, "error")]
    /\ respawning' = respawning \cup {w}

\* Mutant of CancelTask: a queued task is answered but left in the queue.
CancelLeavesQueue(t) ==
    /\ flag' = [flag EXCEPT ![t] = IF @ = "absent" THEN @ ELSE "cancelled"]
    /\ queue' = queue
    /\ \/ /\ t \in Queued
          /\ inbox' = [inbox EXCEPT ![t] = Append(@, "error")]
          /\ UNCHANGED <<current, isolate, strays, mail, replies, obituary, respawning>>
       \/ \E w \in Workers : current[w] = t /\ Terminate(w)
       \/ /\ t \notin Queued \cup Running
          /\ UNCHANGED <<current, isolate, strays, mail, replies, obituary, respawning, inbox>>

\* Mutant of CancelTask: a queued task is dropped without an answer.
CancelDropsQueued(t) ==
    /\ flag' = [flag EXCEPT ![t] = IF @ = "absent" THEN @ ELSE "cancelled"]
    /\ queue' = Without(queue, t)
    /\ \/ \E w \in Workers : current[w] = t /\ Terminate(w)
       \/ /\ t \notin Running
          /\ UNCHANGED <<current, isolate, strays, mail, replies, obituary, respawning, inbox>>

\* cancelTask: by the user at any time, and by the caller when it is answered.
CancelTask(t) ==
    /\ flag' = [flag EXCEPT ![t] = IF @ = "absent" THEN @ ELSE "cancelled"]
    /\ queue' = Without(queue, t)
    /\ \/ /\ t \in Queued
          /\ inbox' = [inbox EXCEPT ![t] = Append(@, "error")]
          /\ UNCHANGED <<current, isolate, strays, mail, replies, obituary, respawning>>
       \/ \E w \in Workers : current[w] = t /\ Terminate(w)
       \/ /\ t \notin Queued \cup Running
          /\ UNCHANGED <<current, isolate, strays, mail, replies, obituary, respawning, inbox>>

Cancel(t) ==
    /\ CancelTask(t)
    /\ UNCHANGED <<init, caller, available, lost, finished, faults, deaths>>

-----------------------------------------------------------------------------
\* The isolate takes up the task it was sent.
Take(w) ==
    /\ isolate[w].phase = "idle" /\ mail[w] # NoTask
    /\ isolate' = [isolate EXCEPT ![w] = [phase |-> "work", task |-> mail[w], open |-> TRUE]]
    /\ mail' = [mail EXCEPT ![w] = NoTask]
    /\ UNCHANGED <<strays, init, caller, flag, queue, available, current, respawning, lost,
                   replies, inbox, obituary, finished, faults, deaths>>

Reply(w, m) == replies' = [replies EXCEPT ![w] = IF isolate[w].open THEN Append(@, m) ELSE @]

\* A page or a chunk is done.  Only one such message is kept in flight.
InFlight(box, S) == "progress" \in UNION {{box[x][i] : i \in 1 .. Len(box[x])} : x \in S}

Progress(w) ==
    /\ isolate[w].phase = "work"
    /\ ~InFlight(replies, Workers) /\ ~InFlight(inbox, Tasks)
    /\ Reply(w, "progress")
    /\ UNCHANGED <<init, caller, flag, queue, available, current, respawning, lost,
                   isolate, strays, mail, inbox, obituary, finished, faults, deaths>>

\* Everything is on disk.
Complete(w) ==
    /\ isolate[w].phase = "work"
    /\ Reply(w, "complete")
    /\ finished' = finished \cup {isolate[w].task}
    /\ isolate' = [isolate EXCEPT ![w] = Idle]
    /\ UNCHANGED <<strays, init, caller, flag, queue, available, current, respawning, lost,
                   mail, inbox, obituary, faults, deaths>>

\* A file or a segment failed for good.  The HLS workers settle every segment
\* first and report once.  A file download reports the file and then the task,
\* waiting for none of the other files of the batch (eagerError), so they may
\* still be written, and the worker may be free again, before the second report.
Fail(w) ==
    /\ isolate[w].phase \in {"work", "failing"}
    /\ Reply(w, "error")
    /\ \/ isolate' = [isolate EXCEPT ![w] = Idle]
       \/ /\ isolate[w].phase = "work" /\ isolate[w].task \notin Segmented
          /\ isolate' = [isolate EXCEPT ![w].phase = "failing"]
    /\ \/ UNCHANGED strays
       \/ /\ isolate[w].phase = "work" /\ isolate[w].task \notin Segmented
          /\ strays' = [strays EXCEPT ![w] = @ \cup {isolate[w].task}]
    /\ UNCHANGED <<init, caller, flag, queue, available, current, respawning, lost,
                   mail, inbox, obituary, finished, faults, deaths>>

\* The last file an isolate still wrote for a failed task is done.
StrayEnds(w, t) ==
    /\ t \in strays[w]
    /\ strays' = [strays EXCEPT ![w] = @ \ {t}]
    /\ UNCHANGED <<init, caller, flag, queue, available, current, respawning, lost,
                   isolate, mail, replies, inbox, obituary, finished, faults, deaths>>

\* An uncaught error or an exit ends the isolate.
WorkerDies(w) ==
    /\ isolate[w].phase # "dead" /\ deaths < MaxDeaths
    /\ deaths' = deaths + 1
    /\ isolate' = [isolate EXCEPT ![w] = Dead]
    /\ strays' = [strays EXCEPT ![w] = {}]
    /\ mail' = [mail EXCEPT ![w] = NoTask]
    /\ obituary' = obituary \cup {w}
    /\ UNCHANGED <<init, caller, flag, queue, available, current, respawning, lost,
                   replies, inbox, finished, faults>>

-----------------------------------------------------------------------------
\* Mutant of Forward: the queue is not looked at when a worker gets free.
ForwardStopsThere(w) ==
    /\ current[w] # NoTask /\ replies[w] # <<>>
    /\ inbox' = [inbox EXCEPT ![current[w]] = Append(@, Head(replies[w]))]
    /\ IF Head(replies[w]) \in Terminal
       THEN /\ replies' = [replies EXCEPT ![w] = <<>>]
            /\ isolate' = ClosePort(w)
            /\ available' = available \cup {w}
            /\ current' = [current EXCEPT ![w] = NoTask]
            /\ UNCHANGED <<queue, mail>>
       ELSE /\ replies' = [replies EXCEPT ![w] = Tail(@)]
            /\ UNCHANGED <<isolate, queue, available, current, mail>>
    /\ UNCHANGED <<strays, init, caller, flag, respawning, lost, obituary, finished, faults, deaths>>

\* The task port of w receives a message: it is forwarded, and an answer frees
\* the worker for the next task.
Forward(w) ==
    /\ current[w] # NoTask /\ replies[w] # <<>>
    /\ inbox' = [inbox EXCEPT ![current[w]] = Append(@, Head(replies[w]))]
    /\ IF Head(replies[w]) \in Terminal
       THEN /\ replies' = [replies EXCEPT ![w] = <<>>]
            /\ isolate' = ClosePort(w)
            /\ ProcessQueue(queue, available \cup {w},
                            [current EXCEPT ![w] = NoTask], mail)
       ELSE /\ replies' = [replies EXCEPT ![w] = Tail(@)]
            /\ UNCHANGED <<isolate, queue, available, current, mail>>
    /\ UNCHANGED <<strays, init, caller, flag, respawning, lost, obituary, finished, faults, deaths>>

\* Mutant of HearObituary: an idle worker is replaced while it is in the pool.
HearAnyObituary(w) ==
    /\ w \in obituary
    /\ obituary' = obituary \ {w}
    /\ respawning' = respawning \cup {w}
    /\ inbox' = [t \in Tasks |-> IF current[w] = t THEN Append(inbox[t], "error") ELSE inbox[t]]
    /\ current' = [current EXCEPT ![w] = NoTask]
    /\ replies' = [replies EXCEPT ![w] = <<>>]
    /\ UNCHANGED <<init, caller, flag, queue, available, lost, isolate, strays, mail,
                   finished, faults, deaths>>

\* The main isolate learns that a worker exited.  It settles the task the
\* worker has, if any; an idle worker stays in the pool.
HearObituary(w) ==
    /\ w \in obituary
    /\ IF current[w] # NoTask
       THEN Terminate(w)
       ELSE /\ obituary' = obituary \ {w}
            /\ UNCHANGED <<current, isolate, strays, mail, replies, inbox, respawning>>
    /\ UNCHANGED <<init, caller, flag, queue, available, lost, finished, faults, deaths>>

\* The spawn of a replacement ends.
Respawn(w) ==
    /\ w \in respawning
    /\ respawning' = respawning \ {w}
    /\ isolate' = [isolate EXCEPT ![w] = Idle]
    /\ ProcessQueue(queue, available \cup {w}, current, mail)
    /\ UNCHANGED <<strays, init, caller, flag, lost, replies, inbox, obituary, finished,
                   faults, deaths>>

\* The spawn throws in the then callback: the index is never available again.
RespawnFails(w) ==
    /\ w \in respawning /\ faults < MaxFaults
    /\ faults' = faults + 1
    /\ respawning' = respawning \ {w}
    /\ lost' = lost \cup {w}
    /\ UNCHANGED <<init, caller, flag, queue, available, current, isolate, strays, mail,
                   replies, inbox, obituary, finished, deaths>>

\* The caller's receive port gets a message; an answer closes the port.
Deliver(t) ==
    /\ caller[t] = "listening" /\ inbox[t] # <<>>
    /\ LET m == Head(inbox[t])
       IN  IF m \in Terminal
           THEN /\ flag' = [flag EXCEPT ![t] = "absent"]
                /\ inbox' = [inbox EXCEPT ![t] = <<>>]
                /\ caller' = [caller EXCEPT ![t] =
                                 IF m = "complete" THEN "done" ELSE "failed"]
           ELSE /\ inbox' = [inbox EXCEPT ![t] = Tail(@)]
                /\ UNCHANGED <<flag, caller>>
    /\ UNCHANGED <<init, queue, available, current, respawning, lost, isolate, strays, mail,
                   replies, obituary, finished, faults, deaths>>

\* The downloader returns or throws; its finally cancels the task id.
CallerReturns(t) ==
    /\ caller[t] \in {"done", "failed"}
    /\ caller' = [caller EXCEPT ![t] = "none"]
    /\ CancelTask(t)
    /\ UNCHANGED <<init, available, lost, finished, faults, deaths>>

PoolStep ==
    \/ InitSucceeds
    \/ \E t \in Tasks : Resume(t) \/ Deliver(t) \/ CallerReturns(t)
    \/ \E w \in Workers :
           Take(w) \/ Complete(w) \/ Fail(w) \/ Forward(w) \/ HearObituary(w) \/ Respawn(w)

PoolNext ==
    \/ PoolStep
    \/ InitFails
    \/ \E t \in Tasks : Submit(t) \/ Cancel(t)
    \/ \E w \in Workers : Progress(w) \/ WorkerDies(w) \/ RespawnFails(w)
    \/ \E w \in Workers, t \in Tasks : StrayEnds(w, t)

PoolSpec == PoolInit /\ [][PoolNext]_poolVars

\* Messages are delivered, microtasks run, spawns end (they time out after 30 s)
\* and a worker ends what it took up: every request and every stream has a
\* timeout and a bounded number of attempts.
PoolFairness ==
    /\ WF_poolVars(InitSucceeds)
    /\ \A t \in Tasks : WF_poolVars(Resume(t)) /\ WF_poolVars(Deliver(t))
                        /\ WF_poolVars(CallerReturns(t))
    /\ \A w \in Workers : /\ WF_poolVars(Take(w)) /\ WF_poolVars(Complete(w) \/ Fail(w))
                          /\ WF_poolVars(Forward(w)) /\ WF_poolVars(HearObituary(w))
                          /\ WF_poolVars(Respawn(w))

FairPoolSpec == PoolSpec /\ PoolFairness

-----------------------------------------------------------------------------
\* No worker index is dropped or counted twice: each is free, has a task, is
\* being replaced, or is lost because its replacement could not be spawned.  None
\* is free while a task is queued.
WorkersAccounted ==
    /\ PoolTypeOK
    /\ init = "ready" =>
          \A w \in Workers :
              Cardinality({s \in {"free", "busy", "respawning", "lost"} :
                  \/ s = "free" /\ w \in available
                  \/ s = "busy" /\ current[w] # NoTask
                  \/ s = "respawning" /\ w \in respawning
                  \/ s = "lost" /\ w \in lost}) = 1
    /\ queue # <<>> => available = {}

\* An isolate writes files of the task.
Writes(w, t) == t \in strays[w] \/ (isolate[w].phase = "work" /\ isolate[w].task = t)

\* A submission is in one place: queued, with one worker, or answered.  Two
\* answers, or an answer to a task still queued, would settle it twice.  No
\* isolate works for one whose caller was told that it is cancelled, and the
\* segments of an episode are written by the worker it is with and by no other
\* ("Settle all writers before reporting failure or reusing this worker").
AnsweredOnce ==
    \A t \in Tasks :
        LET answers == {i \in 1 .. Len(inbox[t]) : inbox[t][i] \in Terminal}
            holders == {w \in Workers : current[w] = t}
            places  == {i \in 1 .. Len(queue) : queue[i] = t}
        IN  /\ t \in Listening =>
                  Cardinality(answers) + Cardinality(holders) + Cardinality(places) = 1
            /\ t \notin Listening => answers = {} /\ holders = {} /\ places = {}
            /\ flag[t] = "cancelled" =>
                  \A w \in Workers : isolate[w].phase = "work" => isolate[w].task # t
            /\ t \in Segmented =>
                  \A w \in Workers : Writes(w, t) => holders = {w}

\* A caller is told "complete" only if a worker downloaded everything for this
\* very submission, not for an earlier one with the same id.
DoneMeansDone ==
    \A t \in Tasks :
        caller[t] = "done" \/ (\E i \in 1 .. Len(inbox[t]) : inbox[t][i] = "complete")
        => t \in finished

\* The pool keeps its promise to the callers: what the workers, the ports and
\* the respawns do in between is invisible to them.
TaskState ==
    [t \in Tasks |->
        LET answers == {m \in Terminal : \E i \in 1 .. Len(inbox[t]) : inbox[t][i] = m}
        IN  CASE caller[t] = "none" -> "idle"
              [] caller[t] = "done" -> "complete"
              [] caller[t] = "failed" -> "error"
              [] caller[t] = "preparing" ->
                     IF flag[t] = "cancelled" THEN "doomed" ELSE "pending"
              [] caller[t] = "listening" ->
                     IF answers = {} THEN "pending" ELSE CHOOSE m \in answers : TRUE]
Promise == INSTANCE DownloadTasks WITH task <- TaskState
KeepsPromise == Promise!Spec

\* Every submission is answered, as long as no isolate exits by itself and a
\* worker is left.  An idle isolate that exits stays in the pool, and the task
\* it is given next hangs until it is cancelled.
EverySubmissionAnswered ==
    [](deaths = 0 /\ lost # Workers) =>
        \A t \in Tasks : caller[t] \in {"preparing", "listening"} ~> caller[t] \in {"done", "failed"}

\* "settle the waiting downloader": a cancelled submission is answered even if
\* its worker is gone or every worker is lost.
CancelSettles ==
    \A t \in Tasks : flag[t] = "cancelled" ~> flag[t] # "cancelled"
=============================================================================
