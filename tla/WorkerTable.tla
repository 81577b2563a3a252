---------------------------- MODULE WorkerTable -----------------------------
(***************************************************************************)
(* The worker registry: the rows of the workers table and one operator per *)
(* method of WorkerManager (controller/workers.py) that changes them.      *)
(* Heartbeat timestamps are left out: the code writes them and never reads *)
(* them back.                                                              *)
(***************************************************************************)
EXTENDS Domain

VARIABLES
    wstatus,          \* Worker.status, or Absent
    current_job_id,   \* Worker.current_job_id
    tunnel_url        \* workers whose row has a tunnel_url

workerVars == <<wstatus, current_job_id, tunnel_url>>

WorkerInit ==
    /\ wstatus = [w \in Workers |-> Absent]
    /\ current_job_id = [w \in Workers |-> NoJob]
    /\ tunnel_url = {}

WorkerTypeOK ==
    /\ wstatus \in [Workers -> WorkerStatus \cup {Absent}]
    /\ current_job_id \in [Workers -> Jobs \cup {NoJob}]
    /\ tunnel_url \subseteq Workers

ReadyWorkers == {w \in Workers : wstatus[w] = "WORKER_READY"}

\* The inbound registration inserts the row or gives it its URL (a later one,
\* which only replaces the URL, changes nothing seen here); it leaves
\* the status of an existing row alone.
Register(w) ==
    /\ w \notin tunnel_url
    /\ tunnel_url' = tunnel_url \cup {w}
    /\ wstatus' = [wstatus EXCEPT ![w] = IF @ = Absent THEN "WORKER_STARTING" ELSE @]
    /\ UNCHANGED current_job_id

\* provisioned: placeholder rows for the workers of a notebook just started
Provisioned(ws) ==
    /\ wstatus' = [w \in Workers |->
                     IF w \in ws /\ wstatus[w] = Absent THEN "UNREGISTERED" ELSE wstatus[w]]
    /\ UNCHANGED <<current_job_id, tunnel_url>>

MarkReady(w) ==
    /\ wstatus' = [wstatus EXCEPT ![w] = "WORKER_READY"]
    /\ UNCHANGED <<current_job_id, tunnel_url>>

MarkBusy(w, j) ==
    /\ wstatus' = [wstatus EXCEPT ![w] = "WORKER_BUSY"]
    /\ current_job_id' = [current_job_id EXCEPT ![w] = j]
    /\ UNCHANGED tunnel_url

MarkIdle(w) ==
    /\ wstatus' = [wstatus EXCEPT ![w] = "WORKER_READY"]
    /\ current_job_id' = [current_job_id EXCEPT ![w] = NoJob]
    /\ UNCHANGED tunnel_url

MarkError(w) ==
    /\ wstatus' = [wstatus EXCEPT ![w] = "WORKER_ERROR"]
    /\ current_job_id' = [current_job_id EXCEPT ![w] = NoJob]
    /\ UNCHANGED tunnel_url

\* Mutants of MarkOffline: the row loses its URL, keeps its job.
MarkOfflineUnlisted(w) ==
    /\ wstatus' = [wstatus EXCEPT ![w] = "WORKER_OFFLINE"]
    /\ current_job_id' = [current_job_id EXCEPT ![w] = NoJob]
    /\ tunnel_url' = tunnel_url \ {w}

MarkOfflineHolding(w) ==
    /\ wstatus' = [wstatus EXCEPT ![w] = "WORKER_OFFLINE"]
    /\ UNCHANGED <<current_job_id, tunnel_url>>

MarkOffline(w) ==
    /\ wstatus' = [wstatus EXCEPT ![w] = "WORKER_OFFLINE"]
    /\ current_job_id' = [current_job_id EXCEPT ![w] = NoJob]
    /\ UNCHANGED tunnel_url
=============================================================================
