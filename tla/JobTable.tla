------------------------------ MODULE JobTable ------------------------------
(***************************************************************************)
(* The job registry: the rows of the jobs, job_attempts and artifacts      *)
(* tables, the output files, and one operator per method of JobManager     *)
(* (controller/jobs.py).  A method is one database session, hence one      *)
(* atomic write, except cancel: it reads the status and writes it back,    *)
(* and SQLite takes no lock until the write, so the two are separate steps *)
(* and "cancelling" holds the requests that are between them.              *)
(***************************************************************************)
EXTENDS Domain, FiniteSets

CONSTANTS
    Priorities,   \* the priorities clients use
    Inputs        \* the kinds of input clients send

ASSUME JobTableAssumption ==
    /\ Priorities \subseteq Nat
    /\ Inputs \subseteq InputKind

VARIABLES
    status,               \* Job.status, or Absent
    priority,             \* Job.priority
    input,                \* Job.input: which kind of input it carries
    attempt_count,        \* Job.attempt_count
    error_class,          \* Job.error_class
    worker_id,            \* Job.worker_id
    prompt_id,            \* JobAttempt.prompt_id of the job's latest attempt
    output,               \* whose render the file <job_id>.mp4 holds
    artifact,             \* jobs with a row in artifacts
    result_artifact_id,   \* jobs whose row points at an artifact
    cancelling            \* cancel requests past their check, before their write

jobVars == <<status, priority, input, attempt_count, error_class, worker_id,
             prompt_id, output, artifact, result_artifact_id, cancelling>>

JobInit ==
    /\ status = [j \in Jobs |-> Absent]
    /\ priority = [j \in Jobs |-> 0]
    /\ input = [j \in Jobs |-> "text"]
    /\ attempt_count = [j \in Jobs |-> 0]
    /\ error_class = [j \in Jobs |-> "NONE"]
    /\ worker_id = [j \in Jobs |-> NoWorker]
    /\ prompt_id = [j \in Jobs |-> NoRef]
    /\ output = [j \in Jobs |-> NoRef]
    /\ artifact = {}
    /\ result_artifact_id = {}
    /\ cancelling = {}

JobTypeOK ==
    /\ status \in [Jobs -> JobStatus \cup {Absent}]
    /\ priority \in [Jobs -> Nat]
    /\ input \in [Jobs -> InputKind]
    /\ attempt_count \in [Jobs -> 0 .. MaxRetries + 1]
    /\ error_class \in [Jobs -> ErrorClass]
    /\ worker_id \in [Jobs -> Workers \cup {NoWorker}]
    /\ prompt_id \in [Jobs -> RemoteIds \cup {NoRef}]
    /\ output \in [Jobs -> RemoteIds \cup {NoRef}]
    /\ artifact \subseteq Jobs
    /\ result_artifact_id \subseteq Jobs
    /\ cancelling \subseteq Jobs

-----------------------------------------------------------------------------
(* Queries.                                                                *)

WithStatus(s) == {j \in Jobs : status[j] = s}

\* ORDER BY priority DESC, created_at ASC
Before(i, j) ==
    \/ priority[i] > priority[j]
    \/ priority[i] = priority[j] /\ i <= j

\* next_in_queue
HeadOfQueue(j) ==
    /\ j \in WithStatus("QUEUED")
    /\ \A i \in WithStatus("QUEUED") : Before(j, i)

\* Mutant of Newest: the status filter is dropped.
NewestOfAll(s, limit) ==
    {j \in Jobs : status[j] # Absent
                   /\ Cardinality({i \in WithStatus(s) : i > j}) < limit}

\* list(status, limit): the "limit" newest rows with that status
Newest(s, limit) ==
    {j \in WithStatus(s) : Cardinality({i \in WithStatus(s) : i > j}) < limit}

\* Mutants of Retryable: the budget is not looked at, is one too large, is one
\* too small.
RetryableAlways(j) == error_class[j] \in {"TRANSIENT", "NONE"}

RetryableOnceMore(j) ==
    /\ error_class[j] \in {"TRANSIENT", "NONE"}
    /\ attempt_count[j] <= MaxRetries + 1

RetryableOnceLess(j) ==
    /\ error_class[j] \in {"TRANSIENT", "NONE"}
    /\ attempt_count[j] < MaxRetries

Retryable(j) ==
    /\ error_class[j] \in {"TRANSIENT", "NONE"}
    /\ attempt_count[j] <= MaxRetries

-----------------------------------------------------------------------------
(* Updates.                                                                *)

\* create: the next job, because jobs are numbered in creation order
Create(j) ==
    /\ status[j] = Absent
    /\ \A i \in Jobs : i < j => status[i] # Absent
    /\ status' = [status EXCEPT ![j] = "QUEUED"]
    /\ \E p \in Priorities : priority' = [priority EXCEPT ![j] = p]
    /\ \E k \in Inputs : input' = [input EXCEPT ![j] = k]
    /\ UNCHANGED <<attempt_count, error_class, worker_id, prompt_id, output,
                   artifact, result_artifact_id, cancelling>>

SetStatus(j, s) ==
    /\ status' = [status EXCEPT ![j] = s]
    /\ UNCHANGED <<priority, input, attempt_count, error_class, worker_id,
                   prompt_id, output, artifact, result_artifact_id, cancelling>>

Assign(j, w) ==
    /\ worker_id' = [worker_id EXCEPT ![j] = w]
    /\ UNCHANGED <<status, priority, input, attempt_count, error_class,
                   prompt_id, output, artifact, result_artifact_id, cancelling>>

\* Mutant of StartAttempt: the attempt row is reused, with its prompt_id.
RestartAttempt(j) ==
    /\ attempt_count' = [attempt_count EXCEPT ![j] = @ + 1]
    /\ status' = [status EXCEPT ![j] = "STARTING"]
    /\ UNCHANGED <<priority, input, error_class, worker_id, prompt_id, output,
                   artifact, result_artifact_id, cancelling>>

\* The new job_attempts row becomes the latest one; its prompt_id is NULL.
StartAttempt(j) ==
    /\ attempt_count' = [attempt_count EXCEPT ![j] = @ + 1]
    /\ status' = [status EXCEPT ![j] = "STARTING"]
    /\ prompt_id' = [prompt_id EXCEPT ![j] = NoRef]
    /\ UNCHANGED <<priority, input, error_class, worker_id, output, artifact,
                   result_artifact_id, cancelling>>

\* Mutant of Fail: back to the queue at once, without _maybe_retry's check.
FailToQueue(j, class) ==
    /\ error_class' = [error_class EXCEPT ![j] = class]
    /\ status' = [status EXCEPT ![j] =
                    IF class = "PERMANENT" THEN "FAILED" ELSE "QUEUED"]
    /\ UNCHANGED <<priority, input, attempt_count, worker_id, prompt_id, output,
                   artifact, result_artifact_id, cancelling>>

Fail(j, class) ==
    /\ error_class' = [error_class EXCEPT ![j] = class]
    /\ status' = [status EXCEPT ![j] =
                    IF class = "PERMANENT" THEN "FAILED" ELSE "RETRYING"]
    /\ UNCHANGED <<priority, input, attempt_count, worker_id, prompt_id, output,
                   artifact, result_artifact_id, cancelling>>

Complete(j) ==
    /\ status' = [status EXCEPT ![j] = "COMPLETED"]
    /\ result_artifact_id' = result_artifact_id \cup {j}
    /\ UNCHANGED <<priority, input, attempt_count, error_class, worker_id,
                   prompt_id, output, artifact, cancelling>>

\* cancel, first half: the row is read and found not terminal
CancelRead(j) ==
    /\ status[j] \in JobStatus \ Terminal
    /\ j \notin cancelling
    /\ cancelling' = cancelling \cup {j}
    /\ UNCHANGED <<status, priority, input, attempt_count, error_class, worker_id,
                   prompt_id, output, artifact, result_artifact_id>>

\* cancel, second half: the write, whatever the status has become
CancelWrite(j) ==
    /\ j \in cancelling
    /\ cancelling' = cancelling \ {j}
    /\ status' = [status EXCEPT ![j] = "CANCELLED"]
    /\ UNCHANGED <<priority, input, attempt_count, error_class, worker_id,
                   prompt_id, output, artifact, result_artifact_id>>
=============================================================================
