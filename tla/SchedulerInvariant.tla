------------------------- MODULE SchedulerInvariant -------------------------
(***************************************************************************)
(* The inductive invariant behind the controller's safety properties: what *)
(* the scheduler thread may rely on between two of its database sessions,  *)
(* although cancels are written and the process may die in between.        *)
(***************************************************************************)
EXTENDS SchedulerProperties

\* An attempt is under way, or one has been cut short by a cancel or a crash.
Active == {"STARTING", "RUNNING", "RETRYING", "CANCELLED"}

\* Steps of _run_on before start_attempt; steps with an attempt of the job in
\* hand; steps at which no row of the worker table names the job in hand.
BeforeAttempt == {"pick", "assign", "start"}
InAttempt == {"submit", "running", "busy", "note", "fail", "error", "release",
              "retry", "download", "artifact", "complete"}
Unheld == BeforeAttempt \cup {"submit", "running", "busy", "retry"}

\* Without a job in hand the thread is at the top of one of its loops.
HandOK ==
    /\ pc \in {"sleep", "heartbeat", "monitor"} <=> job = NoJob
    /\ pc \in InAttempt \cup {"assign", "start", "idle"} => worker \in Workers

\* The attempt in hand.
AttemptOK ==
    /\ pc \in BeforeAttempt =>
          /\ status[job] \in {"QUEUED", "CANCELLED"}
          /\ attempt_count[job] <= MaxRetries
    /\ pc \in InAttempt =>
          /\ status[job] \in Active
          /\ attempt_count[job] \in Attempts
    /\ pc \in InAttempt \cup {"start", "idle"} => worker_id[job] = worker

\* monitor_running holds a list that only a cancel can make stale, and
\* pick_ready a list that nothing makes stale.
TodoOK ==
    /\ \A j \in jtodo \ {job} : /\ status[j] \in {"RUNNING", "CANCELLED"}
                               /\ attempt_count[j] \in Attempts
    /\ pc = "pick" => \A w \in wtodo : wstatus[w] = "WORKER_READY"

\* A row named by a worker has had an attempt, and the job in hand is not
\* named by any row until mark_busy.
HeldOK ==
    /\ HolderIsAssigned
    /\ \A w \in Workers :
          current_job_id[w] # NoJob => status[current_job_id[w]] # Absent
    /\ pc \in Unheld => \A w \in Workers : current_job_id[w] # job

\* What a status says of the attempts; every error is recorded as transient.
BudgetOK ==
    /\ RetryBudget
    /\ FailedMeansExhausted
    /\ \A j \in Jobs : /\ error_class[j] # "PERMANENT"
                       /\ status[j] = Absent => attempt_count[j] = 0
                       /\ status[j] = "RUNNING" => attempt_count[j] \in Attempts

\* The attempt row with the highest number names its own render or none.
RemoteOK ==
    /\ \A j \in Jobs : prompt_id[j] \in {NoRef, <<j, attempt_count[j]>>}
    /\ pc = "download" => prompt_id[job] # NoRef

OutputOK ==
    /\ CompletedHasOwnOutput
    /\ pc \in {"artifact", "complete"} => output[job] = <<job, attempt_count[job]>>
    /\ pc = "complete" => job \in artifact

IInv ==
    /\ StateTypeOK
    /\ HandOK
    /\ AttemptOK
    /\ TodoOK
    /\ HeldOK
    /\ BudgetOK
    /\ RemoteOK
    /\ OutputOK

-----------------------------------------------------------------------------
(* Beyond IInv: what RenderIsLatestAttempt and ImplementsLifecycle need.   *)

\* A worker is polled, picked and assigned only with a URL, which no row loses.
TunnelOK ==
    /\ pc = "heartbeat" => wtodo \subseteq tunnel_url
    /\ \A w \in Workers :
          wstatus[w] \in {"WORKER_READY", "WORKER_BUSY"} => w \in tunnel_url
    /\ pc \in {"assign", "start"} => worker \in tunnel_url
    /\ \A j \in Jobs : worker_id[j] # NoWorker => worker_id[j] \in tunnel_url

\* Steps at which nobody renders the job in hand: before a submission and
\* after it failed.
Unrendered == BeforeAttempt \cup {"submit", "fail", "error", "release", "retry"}

\* Nobody renders a job that waits in the queue.
RenderOK ==
    "lostReply" \notin events =>
        \A w \in Workers, id \in RemoteIds :
            Live(w, id) => /\ status[id[1]] # "QUEUED"
                           /\ pc \in Unrendered => id[1] # job

\* A worker the thread is about to poll or to assign can be reached, and no GPU
\* renders a job that waits or is about to start its next attempt: a lost worker's
\* render never meets the retry of its job.
RenderInv == TunnelOK /\ RenderIsLatestAttempt /\ RenderOK

\* The thread knows the status of each job it has in hand.
LifeParts ==
    /\ cancelling = {}
    /\ pc \in BeforeAttempt => status[job] = "QUEUED"
    /\ pc \in {"submit", "running", "fail"} => status[job] = "STARTING"
    /\ pc \in {"busy", "note", "download", "artifact", "complete"}
          => status[job] = "RUNNING"
    /\ pc \in {"error", "release", "retry"} => status[job] = "RETRYING"
    /\ \A j \in jtodo \ {job} : status[j] = "RUNNING"

\* What the scheduler's thread takes for granted of the rows it read in earlier
\* sessions is still so, unless a cancel intervenes: a job picked from the queue
\* waits there until its attempt starts, and one listed for polling runs until
\* its own poll.
LifeInv == "cancel" \notin events => LifeParts
=============================================================================
