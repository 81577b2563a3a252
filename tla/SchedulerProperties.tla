------------------------ MODULE SchedulerProperties -------------------------
(***************************************************************************)
(* What the controller promises about jobs, workers and renders, whatever  *)
(* the interleaving of its threads, the faults and the restarts.           *)
(***************************************************************************)
EXTENDS Scheduler

-----------------------------------------------------------------------------
(* Safety.                                                                 *)

\* A job waiting for a dispatch has an attempt left (JobManager.retryable
\* guards every return to the queue, next_in_queue every dispatch), so no
\* sequence of faults, restarts and cancels buys a job a render more than
\* max_retries + 1.
RetryBudget ==
    \A j \in Jobs :
        /\ attempt_count[j] <= MaxRetries + 1
        /\ status[j] = "QUEUED" => attempt_count[j] <= MaxRetries

\* A job is FAILED for one of the two reasons docs/ARCHITECTURE.md gives: its
\* last error is PERMANENT (fail), or all its attempts are used (_maybe_retry).
\* No fault, however timed, fails a job that could still be retried.  (Whether
\* a job whose error is permanent fails at once is PermanentIsNotRetried.)
FailedMeansExhausted ==
    \A j \in Jobs :
        status[j] = "FAILED" =>
            error_class[j] = "PERMANENT" \/ attempt_count[j] = MaxRetries + 1

\* A COMPLETED job can be downloaded, and what is downloaded was rendered for
\* this job by its latest attempt: not by an attempt given up earlier, and
\* never before file and artifact row are there (_complete, _remote).
CompletedHasOwnOutput ==
    \A j \in Jobs :
        status[j] = "COMPLETED" =>
            /\ j \in result_artifact_id
            /\ j \in artifact
            /\ output[j] = <<j, attempt_count[j]>>

\* The two tables agree although no session writes both: a row is BUSY exactly
\* while it names a job, that job's worker_id names it back, and the job is
\* not waiting in the queue for a second worker.  So _recover_worker, which
\* looks for a job held by a worker that is not BUSY, never finds one.
HolderIsAssigned ==
    \A w \in Workers :
        /\ wstatus[w] = "WORKER_BUSY" <=> current_job_id[w] # NoJob
        /\ current_job_id[w] # NoJob =>
              /\ worker_id[current_job_id[w]] = w
              /\ status[current_job_id[w]] # "QUEUED"

\* Unless the reply to a submission is lost, a GPU renders a job only for the
\* job's latest attempt and on the worker assigned to it: the controller never
\* has two GPUs rendering one job, whatever else fails.
RenderIsLatestAttempt ==
    "lostReply" \notin events =>
        \A w \in Workers, id \in RemoteIds :
            Live(w, id) => /\ worker_id[id[1]] = w
                           /\ attempt_count[id[1]] = id[2]

\* An outcome is kept: the only step that leaves COMPLETED or FAILED is the
\* write of a cancel whose check came before the outcome.
OutcomeIsKept ==
    [][\A j \in Jobs :
         status[j] \in {"COMPLETED", "FAILED"} /\ status'[j] # status[j]
            => status'[j] = "CANCELLED" /\ j \in cancelling]_vars

\* As long as nobody cancels, a client sees every job move along the edges of
\* JobLifecycle (docs/ARCHITECTURE.md's diagram, drawn by JobManager's methods):
\* each session moves one job along one edge, begins an attempt only within the
\* budget, fails the job at once only with a PERMANENT error and otherwise gives
\* it up only beyond the budget, across worker deaths and controller restarts.
\* It does not say that a permanent error takes the PERMANENT edge, which is
\* PermanentIsNotRetried and violated, and it knows nothing of the DOWNLOADING
\* that jobs.py puts before COMPLETED and nothing writes.  (A cancel may
\* overwrite any status: a behaviour that admits cancels shows no job here.)
Unseen == "cancel" \in events

Lifecycle == INSTANCE JobLifecycle WITH
                Job <- Jobs,
                phase <- [j \in Jobs |-> IF Unseen THEN Absent ELSE status[j]],
                tries <- [j \in Jobs |-> IF Unseen THEN 0 ELSE attempt_count[j]],
                error <- [j \in Jobs |-> IF Unseen THEN "NONE" ELSE error_class[j]]

ImplementsLifecycle == Lifecycle!Spec

-----------------------------------------------------------------------------
(* Liveness, under FairSpec.                                               *)

\* Every job that is created reaches an outcome: no fault among those admitted
\* strands it in the queue, STARTING, RUNNING or RETRYING.
JobSettles == \A j \in Jobs : status[j] = "QUEUED" ~> status[j] \in Terminal

\* No worker stays BUSY under the faults admitted (missed health checks, failed
\* or lost submissions, polls and disk writes): completion or failure frees it.
WorkerIsFreed ==
    \A w \in Workers : wstatus[w] = "WORKER_BUSY" ~> wstatus[w] # "WORKER_BUSY"

-----------------------------------------------------------------------------
(* What the documentation says, and the code does not do.                  *)

\* jobs.py: "Retry policy distinguishes TRANSIENT (retry elsewhere) from
\* PERMANENT (do not retry) workflow errors."  _submit raises transient=False
\* for a job whose first frame is missing, so it begins no second attempt.
PermanentIsNotRetried ==
    \A j \in Jobs : input[j] = "missing" => attempt_count[j] <= 1

\* jobs.py calls COMPLETED, FAILED and CANCELLED _TERMINAL: a job does not
\* leave them.
TerminalIsFinal ==
    [][\A j \in Jobs : status[j] \in Terminal => status'[j] = status[j]]_vars

\* docs/ARCHITECTURE.md: "A hard health failure marks the worker OFFLINE; any
\* job it was running is requeued as TRANSIENT."
LostJobIsRequeued ==
    \A j \in Jobs :
        status[j] = "RUNNING" /\ worker_id[j] \in Workers \ alive
            ~> status[j] # "RUNNING"

\* docs/ARCHITECTURE.md, the job state machine: "fail TRANSIENT" leads to
\* RETRYING, and RETRYING is requeued.  After a failed download nobody does.
RetryIsTaken ==
    \A j \in Jobs : status[j] = "RETRYING" ~> status[j] # "RETRYING"

\* scheduler.py, _recover_worker: a health miss must not lead to a submission
\* to a worker that is still rendering (409, and an attempt burnt).
NoSubmissionWhileRendering == pc = "submit" => ~AgentBusy(worker)
=============================================================================
