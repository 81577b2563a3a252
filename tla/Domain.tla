------------------------------- MODULE Domain -------------------------------
(***************************************************************************)
(* The identities and the enumerations every other module shares: jobs,    *)
(* workers, render attempts, and the status strings of                     *)
(* controller/constants.py.  Jobs are numbered in the order of created_at  *)
(* and workers in the order of their id, because the code's queries order  *)
(* by those columns.                                                       *)
(***************************************************************************)
EXTENDS Naturals

CONSTANTS
    MaxJobs,      \* bound: how many jobs clients ever create
    NumWorkers,   \* GPU workers that may come to exist
    MaxRetries    \* settings.max_job_retries, stored in every job's row

ASSUME DomainAssumption ==
    /\ MaxJobs \in Nat \ {0}
    /\ NumWorkers \in Nat \ {0}
    /\ MaxRetries \in Nat

Jobs == 1 .. MaxJobs
Workers == 1 .. NumWorkers
Attempts == 1 .. MaxRetries + 1

\* The agent's own job id, "<worker>-<8 hex digits>": the code never submits
\* twice within one attempt, so the attempt that asked for a render names it.
RemoteIds == Jobs \X Attempts

NoJob == 0
NoWorker == 0
NoRef == <<0, 0>>   \* a NULL prompt_id

\* Nothing in the repository ever writes DOWNLOADING.
JobStatus == {"QUEUED", "STARTING", "RUNNING", "DOWNLOADING", "COMPLETED",
              "FAILED", "CANCELLED", "RETRYING"}
Terminal == {"COMPLETED", "FAILED", "CANCELLED"}

WorkerStatus == {"UNREGISTERED", "WORKER_STARTING", "WORKER_READY",
                 "WORKER_BUSY", "WORKER_ERROR", "WORKER_OFFLINE"}

ErrorClass == {"NONE", "TRANSIENT", "PERMANENT"}

\* What a submission carries: frames the controller uploads first, text only
\* (multishot or R2V without references), or a first frame missing on disk.
InputKind == {"frames", "text", "missing"}

\* The status of a row that does not exist.
Absent == "ABSENT"
=============================================================================
