----------------------------- MODULE Scheduler ------------------------------
(***************************************************************************)
(* The controller: the scheduler thread of controller/scheduler.py, one    *)
(* step per database session or HTTP call, interleaved with the API        *)
(* threads (create, cancel, agents/register), the agents, and the crash    *)
(* and restart of the controller process.                                  *)
(*                                                                         *)
(* A behaviour plays in one of the Scenarios: the environment's events it  *)
(* admits, and how often in all those of them happen that are faults.      *)
(***************************************************************************)
EXTENDS JobTable, WorkerTable, AgentPool

EventKind == {
    "cancel",         \* a client cancels a job
    "missHealth",     \* a /health call fails or answers "starting"
    "submitError",    \* a submission is refused: HTTP error, nothing accepted
    "lostReply",      \* a submission is accepted and its response lost
    "uploadError",    \* a transport error in _upload_to_worker
    "pollError",      \* a transport error in job_status
    "downloadError",  \* a failed or empty download
    "diskError",      \* write_output or the artifact insert raises
    "agentDeath",     \* an agent dies; it may come back with empty memory
    "crash"}          \* the controller process dies and is restarted

CONSTANTS
    PollLimit,   \* JobManager.list's limit: 100 in the code
    Scenarios    \* bound: the events, and how many faults, of a behaviour

ASSUME SchedulerAssumption ==
    /\ PollLimit \in Nat \ {0}
    /\ Scenarios \subseteq [events : SUBSET EventKind, faults : Nat]

VARIABLES
    pc,       \* where the scheduler thread is in its tick
    wtodo,    \* workers the current for loop has still to visit
    jtodo,    \* jobs monitor_running has still to poll
    job,      \* the job in hand
    worker,   \* the worker in hand
    ret,      \* where _maybe_retry returns to
    events,   \* the events this behaviour admits
    faults    \* how many faults it still admits

schedVars == <<pc, wtodo, jtodo, job, worker, ret>>
acting == <<jobVars, workerVars, agentVars, schedVars, faults>>
vars == <<acting, events>>

\* Named after the call the thread is about to make.
PC == {"sleep", "heartbeat", "monitor", "dispatch", "pick",
       "assign", "start", "submit", "running", "busy", "note",
       "fail", "error", "release", "retry",
       "download", "artifact", "complete", "idle"}

Init ==
    /\ JobInit
    /\ WorkerInit
    /\ AgentInit
    /\ pc = "sleep"
    /\ wtodo = {}
    /\ jtodo = {}
    /\ job = NoJob
    /\ worker = NoWorker
    /\ ret = "sleep"
    /\ \E s \in Scenarios : events = s.events /\ faults = s.faults

StateTypeOK ==
    /\ JobTypeOK
    /\ WorkerTypeOK
    /\ AgentTypeOK
    /\ pc \in PC
    /\ wtodo \subseteq Workers
    /\ jtodo \subseteq Jobs
    /\ job \in Jobs \cup {NoJob}
    /\ worker \in Workers \cup {NoWorker}
    /\ ret \in {"sleep", "monitor"}
    /\ faults \in Nat

TypeOK == StateTypeOK /\ events \subseteq EventKind

-----------------------------------------------------------------------------
(* Helpers.                                                                *)

Fault(e) ==
    /\ e \in events
    /\ faults > 0
    /\ faults' = faults - 1

NoFault == UNCHANGED faults

\* The thread moves on, keeping what it has in hand.
Goto(next) ==
    /\ pc' = next
    /\ UNCHANGED <<wtodo, jtodo, job, worker, ret>>

\* The tick ends: normally, or by an exception that _loop catches and logs.
EndTick ==
    /\ pc' = "sleep"
    /\ wtodo' = {}
    /\ jtodo' = {}
    /\ job' = NoJob
    /\ worker' = NoWorker
    /\ ret' = "sleep"

\* The loop over workers ORDER BY id, and over jobs ORDER BY created_at DESC.
NextWorker(w) == w \in wtodo /\ \A v \in wtodo : w <= v
NextJob(j) == j \in jtodo /\ \A i \in jtodo : i <= j

\* The thread visits worker w of the loop and stays in it.
Visited(w) ==
    /\ wtodo' = wtodo \ {w}
    /\ UNCHANGED <<pc, jtodo, job, worker, ret>>

\* _poll returns, and monitor_running goes on with the next job.
Polled(j) ==
    /\ pc' = "monitor"
    /\ jtodo' = jtodo \ {j}
    /\ job' = NoJob
    /\ worker' = NoWorker
    /\ ret' = "sleep"
    /\ UNCHANGED wtodo

\* _poll goes on to handle the reply about job j, which ran on w.
Handle(next, j, w) ==
    /\ pc' = next
    /\ job' = j
    /\ worker' = w
    /\ ret' = "monitor"
    /\ UNCHANGED <<wtodo, jtodo>>

\* GET /health without an answer "ready": a dead agent, or a fault.
NotReady(w) == IF w \in alive THEN Fault("missHealth") ELSE NoFault

-----------------------------------------------------------------------------
(* The tick, first part: heartbeat_all.                                    *)

Tick ==
    /\ pc = "sleep"
    /\ pc' = "heartbeat"
    /\ wtodo' = tunnel_url
    /\ UNCHANGED <<jtodo, job, worker, ret>>
    /\ NoFault
    /\ UNCHANGED <<jobVars, workerVars, agentVars>>

\* poll_health with an answer "ready" leaves a BUSY row alone.
HeartbeatReady(w) ==
    /\ pc = "heartbeat"
    /\ NextWorker(w)
    /\ w \in alive
    /\ IF wstatus[w] = "WORKER_BUSY" THEN UNCHANGED workerVars ELSE MarkReady(w)
    /\ Visited(w)
    /\ NoFault
    /\ UNCHANGED <<jobVars, agentVars>>

\* Mutant of Recover: the check for a BUSY worker is dropped.
RecoverBusy(w) ==
    LET j == current_job_id[w] IN
    IF j \in Jobs /\ status[j] = "RUNNING"
    THEN /\ status' = [status EXCEPT ![j] = "QUEUED"]
         /\ error_class' = [error_class EXCEPT ![j] = "TRANSIENT"]
         /\ UNCHANGED <<priority, input, attempt_count, worker_id, prompt_id,
                        output, artifact, result_artifact_id, cancelling>>
    ELSE UNCHANGED jobVars

\* _recover_worker: a BUSY worker is left alone; any other gives its job back.
Recover(w) ==
    LET j == current_job_id[w] IN
    IF wstatus[w] = "WORKER_READY" /\ j \in Jobs /\ status[j] = "RUNNING"
    THEN /\ status' = [status EXCEPT ![j] = "QUEUED"]
         /\ error_class' = [error_class EXCEPT ![j] = "TRANSIENT"]
         /\ UNCHANGED <<priority, input, attempt_count, worker_id, prompt_id,
                        output, artifact, result_artifact_id, cancelling>>
    ELSE UNCHANGED jobVars

HeartbeatMiss(w) ==
    /\ pc = "heartbeat"
    /\ NextWorker(w)
    /\ NotReady(w)
    /\ Recover(w)
    /\ MarkOffline(w)
    /\ Visited(w)
    /\ UNCHANGED agentVars

-----------------------------------------------------------------------------
(* Second part: monitor_running.                                           *)

ListRunning ==
    /\ pc = "heartbeat"
    /\ wtodo = {}
    /\ pc' = "monitor"
    /\ jtodo' = Newest("RUNNING", PollLimit)
    /\ UNCHANGED <<wtodo, job, worker, ret>>
    /\ NoFault
    /\ UNCHANGED <<jobVars, workerVars, agentVars>>

\* What _poll learns about job j.  Without a prompt_id the controller asks for
\* its own job id, which no agent knows: 404, like a render the agent forgot.
Reply(j) ==
    LET w == worker_id[j] IN
    IF w = NoWorker THEN "unassigned"
    ELSE IF w \notin tunnel_url THEN "lost"
    ELSE IF w \notin alive \/ prompt_id[j] = NoRef THEN "error"
    ELSE render[w][prompt_id[j]]

PollNothing(j) ==
    /\ pc = "monitor"
    /\ NextJob(j)
    /\ Reply(j) # "lost"
    /\ IF Reply(j) \in {"DONE", "FAILED"} THEN Fault("pollError") ELSE NoFault
    /\ Polled(j)
    /\ UNCHANGED <<jobVars, workerVars, agentVars>>

PollDone(j) ==
    /\ pc = "monitor"
    /\ NextJob(j)
    /\ Reply(j) = "DONE"
    /\ Handle("download", j, worker_id[j])
    /\ NoFault
    /\ UNCHANGED <<jobVars, workerVars, agentVars>>

PollFailed(j) ==
    /\ pc = "monitor"
    /\ NextJob(j)
    /\ Reply(j) \in {"FAILED", "lost"}
    /\ Fail(j, "TRANSIENT")
    /\ Handle("release", j, worker_id[j])
    /\ NoFault
    /\ UNCHANGED <<workerVars, agentVars>>

\* _complete, up to write_output
Download ==
    /\ pc = "download"
    /\ worker \in alive
    /\ render[worker][prompt_id[job]] = "DONE"
    /\ output' = [output EXCEPT ![job] = prompt_id[job]]
    /\ Goto("artifact")
    /\ NoFault
    /\ UNCHANGED <<status, priority, input, attempt_count, error_class, worker_id,
                   prompt_id, artifact, result_artifact_id, cancelling>>
    /\ UNCHANGED <<workerVars, agentVars>>

\* The download fails or is empty: the job is failed, and nothing retries it.
DownloadFails ==
    /\ pc = "download"
    /\ IF worker \in alive /\ render[worker][prompt_id[job]] = "DONE"
       THEN Fault("downloadError") ELSE NoFault
    /\ Fail(job, "TRANSIENT")
    /\ Polled(job)
    /\ UNCHANGED <<workerVars, agentVars>>

\* write_output or the insert of the artifact raises: the tick is abandoned.
DiskFails ==
    /\ pc \in {"download", "artifact"}
    /\ Fault("diskError")
    /\ EndTick
    /\ UNCHANGED <<jobVars, workerVars, agentVars>>

\* Mutant of SaveArtifact: the job is completed first.
CompleteFirst ==
    /\ pc = "artifact"
    /\ Complete(job)
    /\ Goto("complete")
    /\ NoFault
    /\ UNCHANGED <<workerVars, agentVars>>

SaveArtifact ==
    /\ pc = "artifact"
    /\ artifact' = artifact \cup {job}
    /\ Goto("complete")
    /\ NoFault
    /\ UNCHANGED <<status, priority, input, attempt_count, error_class, worker_id,
                   prompt_id, output, result_artifact_id, cancelling>>
    /\ UNCHANGED <<workerVars, agentVars>>

CompleteJob ==
    /\ pc = "complete"
    /\ Complete(job)
    /\ Goto("idle")
    /\ NoFault
    /\ UNCHANGED <<workerVars, agentVars>>

\* Mutant of FreeWorker: mark_idle is forgotten.
KeepWorker ==
    /\ pc = "idle"
    /\ Polled(job)
    /\ NoFault
    /\ UNCHANGED <<jobVars, workerVars, agentVars>>

FreeWorker ==
    /\ pc = "idle"
    /\ MarkIdle(worker)
    /\ Polled(job)
    /\ NoFault
    /\ UNCHANGED <<jobVars, agentVars>>

-----------------------------------------------------------------------------
(* Third part: dispatch_job, for the head of the queue.                    *)

NextInQueue(j) ==
    /\ pc = "monitor"
    /\ jtodo = {}
    /\ HeadOfQueue(j)
    /\ pc' = "dispatch"
    /\ job' = j
    /\ UNCHANGED <<wtodo, jtodo, worker, ret>>
    /\ NoFault
    /\ UNCHANGED <<jobVars, workerVars, agentVars>>

QueueEmpty ==
    /\ pc = "monitor"
    /\ jtodo = {}
    /\ WithStatus("QUEUED") = {}
    /\ EndTick
    /\ NoFault
    /\ UNCHANGED <<jobVars, workerVars, agentVars>>

\* dispatch_job reads the job again, then pick_ready lists the READY workers.
DispatchJob ==
    /\ pc = "dispatch"
    /\ status[job] = "QUEUED"
    /\ pc' = "pick"
    /\ wtodo' = ReadyWorkers
    /\ UNCHANGED <<jtodo, job, worker, ret>>
    /\ NoFault
    /\ UNCHANGED <<jobVars, workerVars, agentVars>>

DispatchGone ==
    /\ pc = "dispatch"
    /\ status[job] # "QUEUED"
    /\ EndTick
    /\ NoFault
    /\ UNCHANGED <<jobVars, workerVars, agentVars>>

PickReady(w) ==
    /\ pc = "pick"
    /\ NextWorker(w)
    /\ w \in alive
    /\ MarkReady(w)
    /\ pc' = "assign"
    /\ worker' = w
    /\ wtodo' = {}
    /\ UNCHANGED <<jtodo, job, ret>>
    /\ NoFault
    /\ UNCHANGED <<jobVars, agentVars>>

\* An HTTP error marks the worker offline; the answer "starting" does not.
PickMiss(w) ==
    /\ pc = "pick"
    /\ NextWorker(w)
    /\ NotReady(w)
    /\ \/ MarkOffline(w)
       \/ w \in alive /\ UNCHANGED workerVars
    /\ Visited(w)
    /\ UNCHANGED <<jobVars, agentVars>>

\* No worker is ready.  _lazy_start may start a notebook, whose workers then
\* get placeholder rows; which account it uses is not modelled here.
PickNone ==
    /\ pc = "pick"
    /\ wtodo = {}
    /\ \E ws \in SUBSET Workers : Provisioned(ws)
    /\ EndTick
    /\ NoFault
    /\ UNCHANGED <<jobVars, agentVars>>

AssignWorker ==
    /\ pc = "assign"
    /\ Assign(job, worker)
    /\ Goto("start")
    /\ NoFault
    /\ UNCHANGED <<workerVars, agentVars>>

BeginAttempt ==
    /\ pc = "start"
    /\ StartAttempt(job)
    /\ Goto("submit")
    /\ NoFault
    /\ UNCHANGED <<workerVars, agentVars>>

\* The render this attempt asks for.
ThisRender == <<job, attempt_count[job]>>

SubmitAccepted ==
    /\ pc = "submit"
    /\ input[job] # "missing"
    /\ Accept(worker, ThisRender)
    /\ Goto("running")
    /\ NoFault
    /\ UNCHANGED <<jobVars, workerVars>>

\* Every WorkerClientError is handled alike: a missing first frame, 409 from a
\* busy agent, an upload or a POST /jobs answered with an error (by the tunnel's
\* edge when the agent is dead).  The transient flag is not looked at.
SubmitRejected ==
    /\ pc = "submit"
    /\ IF \/ input[job] = "missing"
          \/ worker \notin alive
          \/ AgentBusy(worker)
       THEN NoFault ELSE Fault("submitError")
    /\ Goto("fail")
    /\ UNCHANGED <<jobVars, workerVars, agentVars>>

SubmitReplyLost ==
    /\ pc = "submit"
    /\ input[job] # "missing"
    /\ Fault("lostReply")
    /\ Accept(worker, ThisRender)
    /\ Goto("fail")
    /\ UNCHANGED <<jobVars, workerVars>>

\* _upload_to_worker calls httpx directly: its TransportError is not a
\* WorkerClientError, so it leaves _run_on and ends the tick.
UploadRaises ==
    /\ pc = "submit"
    /\ input[job] = "frames"
    /\ IF worker \notin alive THEN NoFault ELSE Fault("uploadError")
    /\ EndTick
    /\ UNCHANGED <<jobVars, workerVars, agentVars>>

SetRunning ==
    /\ pc = "running"
    /\ SetStatus(job, "RUNNING")
    /\ Goto("busy")
    /\ NoFault
    /\ UNCHANGED <<workerVars, agentVars>>

SetBusy ==
    /\ pc = "busy"
    /\ MarkBusy(worker, job)
    /\ Goto("note")
    /\ NoFault
    /\ UNCHANGED <<jobVars, agentVars>>

\* Mutant of NoteRemote: the worker's own job id is not remembered.
ForgetRemote ==
    /\ pc = "note"
    /\ EndTick
    /\ NoFault
    /\ UNCHANGED <<jobVars, workerVars, agentVars>>

\* _note_remote: prompt_id of the attempt row with the highest number
NoteRemote ==
    /\ pc = "note"
    /\ prompt_id' = [prompt_id EXCEPT ![job] = ThisRender]
    /\ EndTick
    /\ NoFault
    /\ UNCHANGED <<status, priority, input, attempt_count, error_class, worker_id,
                   output, artifact, result_artifact_id, cancelling>>
    /\ UNCHANGED <<workerVars, agentVars>>

FailAttempt ==
    /\ pc = "fail"
    /\ Fail(job, "TRANSIENT")
    /\ Goto("error")
    /\ NoFault
    /\ UNCHANGED <<workerVars, agentVars>>

SetError ==
    /\ pc = "error"
    /\ MarkError(worker)
    /\ Goto("release")
    /\ NoFault
    /\ UNCHANGED <<jobVars, agentVars>>

\* _maybe_retry, first half: the worker is idle again, whatever its status was
ReleaseWorker ==
    /\ pc = "release"
    /\ MarkIdle(worker)
    /\ Goto("retry")
    /\ NoFault
    /\ UNCHANGED <<jobVars, agentVars>>

\* _maybe_retry, second half
RetryOrFail ==
    /\ pc = "retry"
    /\ SetStatus(job, IF Retryable(job) THEN "QUEUED" ELSE "FAILED")
    /\ IF ret = "monitor" THEN Polled(job) ELSE EndTick
    /\ NoFault
    /\ UNCHANGED <<workerVars, agentVars>>

-----------------------------------------------------------------------------
(* The other threads and processes.                                        *)

CreateJob(j) ==
    /\ Create(j)
    /\ NoFault
    /\ UNCHANGED <<workerVars, agentVars, schedVars>>

CancelJobRead(j) ==
    /\ "cancel" \in events
    /\ CancelRead(j)
    /\ NoFault
    /\ UNCHANGED <<workerVars, agentVars, schedVars>>

CancelJobWrite(j) ==
    /\ CancelWrite(j)
    /\ NoFault
    /\ UNCHANGED <<workerVars, agentVars, schedVars>>

\* The notebook's runner registers an agent once its tunnel answers.
RegisterWorker(w) ==
    /\ w \in alive
    /\ Register(w)
    /\ NoFault
    /\ UNCHANGED <<jobVars, agentVars, schedVars>>

AgentStep(w) ==
    /\ \E id \in RemoteIds : ExecuteStart(w, id) \/ ExecuteEnd(w, id)
    /\ NoFault
    /\ UNCHANGED <<jobVars, workerVars, schedVars>>

AgentLost(w) ==
    /\ Fault("agentDeath")
    /\ AgentDies(w)
    /\ UNCHANGED <<jobVars, workerVars, schedVars>>

AgentBack(w) ==
    /\ AgentRestarts(w)
    /\ NoFault
    /\ UNCHANGED <<jobVars, workerVars, schedVars>>

\* The process dies and comes back: the database and the files survive, the
\* thread's place in its tick and the API requests in progress do not.
Crash ==
    /\ Fault("crash")
    /\ EndTick
    /\ cancelling' = {}
    /\ UNCHANGED <<status, priority, input, attempt_count, error_class, worker_id,
                   prompt_id, output, artifact, result_artifact_id>>
    /\ UNCHANGED <<workerVars, agentVars>>

-----------------------------------------------------------------------------

Heartbeat == Tick \/ \E w \in Workers : HeartbeatReady(w) \/ HeartbeatMiss(w)

Monitor ==
    \/ ListRunning
    \/ \E j \in Jobs : PollNothing(j) \/ PollDone(j) \/ PollFailed(j)
    \/ Download \/ DownloadFails \/ DiskFails
    \/ SaveArtifact \/ CompleteJob \/ FreeWorker

Dispatch ==
    \/ \E j \in Jobs : NextInQueue(j)
    \/ QueueEmpty \/ DispatchJob \/ DispatchGone
    \/ \E w \in Workers : PickReady(w) \/ PickMiss(w)
    \/ PickNone \/ AssignWorker \/ BeginAttempt
    \/ SubmitAccepted \/ SubmitRejected \/ SubmitReplyLost \/ UploadRaises
    \/ SetRunning \/ SetBusy \/ NoteRemote

Retry == FailAttempt \/ SetError \/ ReleaseWorker \/ RetryOrFail

\* One step of the scheduler thread.
SchedulerStep == Heartbeat \/ Monitor \/ Dispatch \/ Retry

Environment ==
    \/ \E j \in Jobs : CreateJob(j) \/ CancelJobRead(j) \/ CancelJobWrite(j)
    \/ \E w \in Workers : RegisterWorker(w) \/ AgentStep(w) \/ AgentLost(w) \/ AgentBack(w)
    \/ Crash

Next ==
    /\ SchedulerStep \/ Environment
    /\ UNCHANGED events

Spec == Init /\ [][Next]_vars

\* The thread never stops (_loop catches everything), the runner registers
\* every agent that is up, and a render ends because wait_for_history has a
\* deadline.  Clients, faults and restarts are owed nothing.
Fairness ==
    /\ WF_acting(SchedulerStep)
    /\ \A w \in Workers : WF_acting(RegisterWorker(w)) /\ WF_acting(AgentStep(w))

FairSpec == Spec /\ Fairness
=============================================================================
