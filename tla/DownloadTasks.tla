---------------------------- MODULE DownloadTasks ----------------------------
(***************************************************************************)
(* What the pool of download workers promises to its callers: a submission *)
(* is answered exactly once, and a submission cancelled before its answer  *)
(* was decided is answered with an error.  DownloadPool implements it, and *)
(* ChapterDownload relies on nothing else of the pool.                     *)
(***************************************************************************)
CONSTANT Tasks

VARIABLE task    \* where the submission of each task id stands

Answers == {"complete", "error"}
TaskStates == {"idle", "pending", "doomed"} \cup Answers

Init == task = [t \in Tasks |-> "idle"]

Submit(t) == task[t] = "idle" /\ task' = [task EXCEPT ![t] = "pending"]

\* The pool decides the answer of a submission.
Answer(t, a) ==
    /\ task[t] = "pending" \/ (task[t] = "doomed" /\ a = "error")
    /\ task' = [task EXCEPT ![t] = a]

\* A cancel settles a pending submission, now or once the pool is up.  It has
\* no effect on a submission whose answer is decided.
Cancel(t) ==
    \E s \in IF task[t] = "pending" THEN {"doomed", "error"} ELSE {task[t]} :
        task' = [task EXCEPT ![t] = s]

\* The pool cannot start: it refuses every submission that waits for it.
Refuse(S) ==
    /\ \A t \in S : task[t] \in {"pending", "doomed"}
    /\ task' = [t \in Tasks |-> IF t \in S THEN "error" ELSE task[t]]

\* The caller has got its answer and closes the task.
Return(t) == task[t] \in Answers /\ task' = [task EXCEPT ![t] = "idle"]

Next ==
    \/ \E t \in Tasks : Submit(t) \/ Cancel(t) \/ Return(t)
    \/ \E t \in Tasks, a \in Answers : Answer(t, a)
    \/ \E S \in SUBSET Tasks : Refuse(S)

Spec == Init /\ [][Next]_task
=============================================================================
