---------------------------- MODULE RenderProofs -----------------------------
(***************************************************************************)
(* No GPU renders a job but for the job's latest attempt, on the worker    *)
(* assigned to it, for any number of jobs, workers, retries and faults.    *)
(*                                                                         *)
(* Three parts: no row loses its tunnel URL, so that _poll never takes an  *)
(* assigned worker for lost (TunnelOK); a step that neither assigns, nor   *)
(* begins an attempt, nor submits keeps RenderInv (RenderFrame); and the   *)
(* few that do find no live render of the job in hand.                     *)
(***************************************************************************)
EXTENDS SchedulerProofs

-----------------------------------------------------------------------------
(* A worker that is polled, picked or assigned has a URL.                  *)

LEMMA TunnelAtFirst == Init => TunnelOK
BY DEF Init, JobInit, WorkerInit, TunnelOK, Absent

LEMMA TunnelHeartbeat ==
    ASSUME IInv, TunnelOK, Heartbeat
    PROVE  TunnelOK'
<1>1. CASE Tick
  BY <1>1 DEF Tick, TunnelOK, jobVars, workerVars
<1>2. ASSUME NEW w \in Workers, HeartbeatReady(w)
      PROVE  TunnelOK'
  BY <1>2 DEF IInv, StateTypeOK, WorkerTypeOK, HeartbeatReady, NextWorker, Visited,
         MarkReady, TunnelOK, jobVars, workerVars
<1>3. ASSUME NEW w \in Workers, HeartbeatMiss(w)
      PROVE  TunnelOK'
  <2>1. UNCHANGED jobVars
    BY <1>3, NoneIsNone DEF HeartbeatMiss, Recover, IInv, HeldOK, HolderIsAssigned
  <2> QED
    BY <1>3, <2>1 DEF IInv, StateTypeOK, WorkerTypeOK, HeartbeatMiss, Visited,
           MarkOffline, TunnelOK, jobVars
<1> QED
  BY <1>1, <1>2, <1>3 DEF Heartbeat

LEMMA TunnelMonitor ==
    ASSUME IInv, TunnelOK, Monitor
    PROVE  TunnelOK'
<1>1. CASE ListRunning
  BY <1>1 DEF ListRunning, TunnelOK, jobVars, workerVars
<1>2. ASSUME NEW j \in Jobs, PollNothing(j) \/ PollDone(j) \/ PollFailed(j)
      PROVE  TunnelOK'
  BY <1>2 DEF PollNothing, PollDone, PollFailed, Fail, Polled, Handle, TunnelOK,
         jobVars, workerVars
<1>3. CASE Download \/ DownloadFails \/ DiskFails \/ SaveArtifact \/ CompleteJob
  BY <1>3 DEF Download, DownloadFails, DiskFails, SaveArtifact, CompleteJob, Complete,
         Fail, Polled, Goto, EndTick, TunnelOK, jobVars, workerVars
<1>4. CASE FreeWorker
  BY <1>4, NoneIsNone
     DEF IInv, StateTypeOK, WorkerTypeOK, HandOK, AttemptOK, FreeWorker, MarkIdle,
         Polled, TunnelOK, jobVars
<1> QED
  BY <1>1, <1>2, <1>3, <1>4 DEF Monitor

LEMMA TunnelDispatch ==
    ASSUME IInv, TunnelOK, Dispatch
    PROVE  TunnelOK'
<1>1. CASE (\E j \in Jobs : NextInQueue(j)) \/ QueueEmpty \/ DispatchJob \/ DispatchGone
  BY <1>1 DEF NextInQueue, QueueEmpty, DispatchJob, DispatchGone, EndTick, TunnelOK,
         jobVars, workerVars
<1>2. ASSUME NEW w \in Workers, PickReady(w)
      PROVE  TunnelOK'
  BY <1>2 DEF IInv, StateTypeOK, WorkerTypeOK, TodoOK, PickReady, NextWorker,
         MarkReady, TunnelOK, jobVars
<1>3. ASSUME NEW w \in Workers, PickMiss(w)
      PROVE  TunnelOK'
  BY <1>3 DEF IInv, StateTypeOK, WorkerTypeOK, PickMiss, MarkOffline, Visited,
         TunnelOK, jobVars, workerVars
<1>4. CASE PickNone
  BY <1>4 DEF IInv, StateTypeOK, WorkerTypeOK, PickNone, Provisioned, EndTick,
         TunnelOK, jobVars
<1>5. CASE AssignWorker
  BY <1>5 DEF IInv, StateTypeOK, JobTypeOK, AssignWorker, Assign, Goto, TunnelOK,
         workerVars
<1>6. CASE BeginAttempt \/ SubmitAccepted \/ SubmitRejected \/ SubmitReplyLost
           \/ UploadRaises \/ SetRunning \/ NoteRemote
  BY <1>6 DEF BeginAttempt, StartAttempt, SubmitAccepted, SubmitRejected,
         SubmitReplyLost, UploadRaises, SetRunning, SetStatus, NoteRemote, Goto,
         EndTick, TunnelOK, jobVars, workerVars
<1>7. CASE SetBusy
  BY <1>7, NoneIsNone
     DEF IInv, StateTypeOK, WorkerTypeOK, HandOK, AttemptOK, InAttempt, SetBusy,
         MarkBusy, Goto, TunnelOK, jobVars
<1> QED
  BY <1>1, <1>2, <1>3, <1>4, <1>5, <1>6, <1>7 DEF Dispatch

LEMMA TunnelRetry ==
    ASSUME IInv, TunnelOK, Retry
    PROVE  TunnelOK'
<1>1. CASE FailAttempt \/ RetryOrFail
  BY <1>1 DEF FailAttempt, RetryOrFail, Fail, SetStatus, Goto, Polled, EndTick,
         TunnelOK, workerVars
<1>2. CASE SetError \/ ReleaseWorker
  BY <1>2, NoneIsNone
     DEF IInv, StateTypeOK, WorkerTypeOK, HandOK, AttemptOK, InAttempt, SetError,
         MarkError, ReleaseWorker, MarkIdle, Goto, TunnelOK, jobVars
<1> QED
  BY <1>1, <1>2 DEF Retry

LEMMA TunnelEnvironment ==
    ASSUME IInv, TunnelOK, Environment
    PROVE  TunnelOK'
<1>1. ASSUME NEW j \in Jobs, CreateJob(j) \/ CancelJobRead(j) \/ CancelJobWrite(j)
      PROVE  TunnelOK'
  BY <1>1 DEF CreateJob, Create, CancelJobRead, CancelRead, CancelJobWrite,
         CancelWrite, TunnelOK, workerVars, schedVars
<1>2. ASSUME NEW w \in Workers, RegisterWorker(w)
      PROVE  TunnelOK'
  BY <1>2 DEF IInv, StateTypeOK, WorkerTypeOK, RegisterWorker, Register, TunnelOK,
         jobVars, schedVars
<1>3. ASSUME NEW w \in Workers, AgentStep(w) \/ AgentLost(w) \/ AgentBack(w)
      PROVE  TunnelOK'
  BY <1>3 DEF AgentStep, AgentLost, AgentBack, TunnelOK, jobVars, workerVars, schedVars
<1>4. CASE Crash
  BY <1>4 DEF Crash, EndTick, TunnelOK, workerVars
<1> QED
  BY <1>1, <1>2, <1>3, <1>4 DEF Environment

LEMMA TunnelStep == IInv /\ TunnelOK /\ [Next]_vars => TunnelOK'
<1>1. ASSUME TunnelOK, UNCHANGED vars
      PROVE  TunnelOK'
  BY <1>1 DEF TunnelOK, vars, acting, jobVars, workerVars, schedVars
<1> QED
  BY <1>1, TunnelHeartbeat, TunnelMonitor, TunnelDispatch, TunnelRetry,
     TunnelEnvironment DEF Next, SchedulerStep

-----------------------------------------------------------------------------
(* Renders.                                                                *)

\* Nobody renders job j.
Idle(j) == \A w \in Workers, id \in RemoteIds : Live(w, id) => id[1] # j

Latest ==
    \A w \in Workers, id \in RemoteIds :
        Live(w, id) => /\ worker_id[id[1]] = w
                       /\ attempt_count[id[1]] = id[2]

\* RenderInv's part on renders, job by job.
RenderParts ==
    "lostReply" \notin events =>
        /\ Latest
        /\ \A j \in Jobs : status[j] = "QUEUED" => Idle(j)
        /\ pc \in Unrendered => Idle(job)

LEMMA Parts == RenderParts <=> RenderIsLatestAttempt /\ RenderOK
BY DEF RenderParts, Latest, Idle, RenderIsLatestAttempt, RenderOK, RemoteIds

\* A step that starts no render and changes neither the worker nor the attempts
\* of a job, but puts only idle jobs into the queue and takes only idle jobs in
\* hand where nobody may be rendering them.
LEMMA RenderFrame ==
    ASSUME RenderParts, UNCHANGED <<events, worker_id, attempt_count>>,
           \A w \in Workers, id \in RemoteIds : Live(w, id)' => Live(w, id),
           "lostReply" \notin events =>
               /\ \A j \in Jobs : status'[j] = "QUEUED" => status[j] = "QUEUED" \/ Idle(j)
               /\ pc' \in Unrendered => Idle(job')
    PROVE  RenderParts'
BY DEF RenderParts, Latest, Idle

\* What nobody touches.
LEMMA SameRenders ==
    UNCHANGED agentVars =>
        \A w \in Workers, id \in RemoteIds : Live(w, id)' <=> Live(w, id)
BY DEF agentVars, Live

LEMMA RenderHeartbeat ==
    ASSUME IInv, RenderParts, Heartbeat, UNCHANGED events
    PROVE  RenderParts'
<1>1. UNCHANGED <<jobVars, job, agentVars>> /\ pc' \notin Unrendered
  <2>1. CASE Tick
    BY <2>1 DEF Tick, Unrendered, BeforeAttempt
  <2>2. ASSUME NEW w \in Workers, HeartbeatReady(w) \/ HeartbeatMiss(w)
        PROVE  UNCHANGED <<jobVars, job, agentVars>> /\ pc' \notin Unrendered
    BY <2>2, NoneIsNone
       DEF HeartbeatReady, HeartbeatMiss, Recover, Visited, IInv, HeldOK,
           HolderIsAssigned, Unrendered, BeforeAttempt
  <2> QED
    BY <2>1, <2>2 DEF Heartbeat
<1> QED
  BY <1>1, RenderFrame, SameRenders DEF jobVars

\* A render that failed was the only one of its job: prompt_id names the render
\* of the latest attempt, and no other may be live.
LEMMA FailedIsIdle ==
    ASSUME IInv, TunnelOK, Latest, NEW j \in Jobs, Reply(j) \in {"FAILED", "lost"}
    PROVE  Idle(j)
<1>1. worker_id[j] \in tunnel_url /\ prompt_id[j] = <<j, attempt_count[j]>>
      /\ render[worker_id[j]][prompt_id[j]] = "FAILED"
  <2>1. worker_id[j] # NoWorker /\ worker_id[j] \in tunnel_url
    BY DEF TunnelOK, Reply
  <2>2. prompt_id[j] # NoRef /\ render[worker_id[j]][prompt_id[j]] = "FAILED"
    <3>1. worker_id[j] \in Workers /\ prompt_id[j] \in RemoteIds \cup {NoRef}
      BY <2>1 DEF IInv, StateTypeOK, JobTypeOK
    <3>2. prompt_id[j] # NoRef /\ Reply(j) = render[worker_id[j]][prompt_id[j]]
      BY <2>1 DEF Reply
    <3>3. render[worker_id[j]][prompt_id[j]] \in RenderStatus
      BY <3>1, <3>2 DEF IInv, StateTypeOK, AgentTypeOK
    <3> QED
      BY <3>2, <3>3 DEF RenderStatus
  <2> QED
    BY <2>1, <2>2 DEF IInv, RemoteOK
<1>2. ASSUME NEW w \in Workers, NEW id \in RemoteIds, Live(w, id), id[1] = j
      PROVE  FALSE
  <2>1. id = <<j, attempt_count[j]>> /\ w = worker_id[j]
    BY <1>2 DEF Latest, RemoteIds
  <2> QED
    BY <1>1, <1>2, <2>1 DEF Live
<1> QED
  BY <1>2 DEF Idle

LEMMA RenderMonitor ==
    ASSUME IInv, TunnelOK, RenderParts, Monitor, UNCHANGED events
    PROVE  RenderParts'
<1>1. CASE ListRunning
  BY <1>1, RenderFrame, SameRenders DEF ListRunning, jobVars, Unrendered, BeforeAttempt
<1>2. ASSUME NEW j \in Jobs, PollNothing(j) \/ PollDone(j)
      PROVE  RenderParts'
  BY <1>2, RenderFrame, SameRenders
     DEF PollNothing, PollDone, Polled, Handle, jobVars, Unrendered, BeforeAttempt
<1>3. ASSUME NEW j \in Jobs, PollFailed(j)
      PROVE  RenderParts'
  <2>1. "lostReply" \notin events => Idle(j)
    BY <1>3, FailedIsIdle DEF PollFailed, RenderParts
  <2>2. UNCHANGED <<worker_id, attempt_count, agentVars>> /\ job' = j
        /\ \A i \in Jobs : status'[i] = "QUEUED" => status[i] = "QUEUED"
    BY <1>3 DEF PollFailed, Fail, Handle, IInv, StateTypeOK, JobTypeOK
  <2> QED
    BY <2>1, <2>2, RenderFrame, SameRenders
<1>4. CASE Download \/ DiskFails \/ SaveArtifact \/ FreeWorker
  BY <1>4, RenderFrame, SameRenders
     DEF Download, DiskFails, SaveArtifact, FreeWorker, Polled, Goto, EndTick, jobVars,
         Unrendered, BeforeAttempt
<1>5. CASE DownloadFails \/ CompleteJob
  <2>1. UNCHANGED <<worker_id, attempt_count, agentVars>> /\ pc' \notin Unrendered
        /\ \A i \in Jobs : status'[i] = "QUEUED" => status[i] = "QUEUED"
    BY <1>5
       DEF DownloadFails, CompleteJob, Complete, Fail, Polled, Goto, Unrendered,
           BeforeAttempt, IInv, StateTypeOK, JobTypeOK
  <2> QED
    BY <2>1, RenderFrame, SameRenders
<1> QED
  BY <1>1, <1>2, <1>3, <1>4, <1>5 DEF Monitor

LEMMA RenderDispatch ==
    ASSUME IInv, RenderParts, Dispatch, UNCHANGED events
    PROVE  RenderParts'
<1>1. CASE (\E j \in Jobs : NextInQueue(j)) \/ QueueEmpty \/ DispatchGone \/ PickNone
  BY <1>1, RenderFrame, SameRenders
     DEF NextInQueue, QueueEmpty, DispatchGone, PickNone, EndTick, jobVars, Unrendered,
         BeforeAttempt
<1>2. CASE DispatchJob
  <2>1. job \in Jobs
    BY <1>2 DEF DispatchJob, IInv, HandOK, StateTypeOK
  <2> QED
    BY <1>2, <2>1, RenderFrame, SameRenders DEF DispatchJob, RenderParts, jobVars
<1>3. ASSUME NEW w \in Workers, PickReady(w) \/ PickMiss(w)
      PROVE  RenderParts'
  BY <1>3, RenderFrame, SameRenders
     DEF PickReady, PickMiss, Visited, RenderParts, jobVars, Unrendered, BeforeAttempt
<1>4. CASE AssignWorker
  <2>1. /\ UNCHANGED <<status, attempt_count, job, agentVars>>
        /\ "lostReply" \notin events => Idle(job)
        /\ \A j \in Jobs \ {job} : worker_id'[j] = worker_id[j]
    BY <1>4 DEF AssignWorker, Assign, Goto, RenderParts, Unrendered, BeforeAttempt, IInv,
           StateTypeOK, JobTypeOK
  <2> QED
    BY <2>1, SameRenders DEF RenderParts, Latest, Idle, RemoteIds
<1>5. CASE BeginAttempt
  <2>1. /\ UNCHANGED <<worker_id, job, agentVars>>
        /\ "lostReply" \notin events => Idle(job)
        /\ \A j \in Jobs \ {job} : attempt_count'[j] = attempt_count[j]
        /\ \A j \in Jobs : status'[j] = "QUEUED" => status[j] = "QUEUED"
    BY <1>5 DEF BeginAttempt, StartAttempt, Goto, RenderParts, Unrendered, BeforeAttempt,
           IInv, StateTypeOK, JobTypeOK
  <2> QED
    BY <2>1, SameRenders DEF RenderParts, Latest, Idle, RemoteIds
<1>6. CASE SubmitAccepted
  <2>1. /\ UNCHANGED <<status, worker_id, attempt_count, job>>
        /\ worker_id[job] = worker /\ status[job] # "QUEUED"
        /\ pc' \notin Unrendered
    BY <1>6 DEF SubmitAccepted, Goto, jobVars, Unrendered, BeforeAttempt, IInv,
           AttemptOK, InAttempt, Active
  <2>2. \A w \in Workers, id \in RemoteIds :
           Live(w, id)' => Live(w, id) \/ (w = worker /\ id = ThisRender)
    BY <1>6 DEF SubmitAccepted, Accept, Live, IInv, StateTypeOK, AgentTypeOK
  <2> QED
    BY <2>1, <2>2 DEF RenderParts, Latest, Idle, ThisRender, RemoteIds
<1>7. CASE SubmitReplyLost
  BY <1>7 DEF SubmitReplyLost, Fault, RenderParts
<1>8. CASE SubmitRejected \/ UploadRaises \/ SetBusy \/ NoteRemote
  BY <1>8, RenderFrame, SameRenders
     DEF SubmitRejected, UploadRaises, SetBusy, NoteRemote, Goto, EndTick, RenderParts,
         jobVars, Unrendered, BeforeAttempt
<1>9. CASE SetRunning
  <2>1. UNCHANGED <<worker_id, attempt_count, agentVars>> /\ pc' \notin Unrendered
        /\ \A i \in Jobs : status'[i] = "QUEUED" => status[i] = "QUEUED"
    BY <1>9 DEF SetRunning, SetStatus, Goto, Unrendered, BeforeAttempt, IInv,
           StateTypeOK, JobTypeOK
  <2> QED
    BY <2>1, RenderFrame, SameRenders
<1> QED
  BY <1>1, <1>2, <1>3, <1>4, <1>5, <1>6, <1>7, <1>8, <1>9 DEF Dispatch

LEMMA RenderRetry ==
    ASSUME IInv, RenderParts, Retry, UNCHANGED events
    PROVE  RenderParts'
<1>1. "lostReply" \notin events => Idle(job)
  BY DEF RenderParts, Retry, FailAttempt, SetError, ReleaseWorker, RetryOrFail, Unrendered
<1>2. UNCHANGED <<worker_id, attempt_count, agentVars>>
      /\ \A j \in Jobs \ {job} : status'[j] = status[j]
  BY DEF Retry, FailAttempt, Fail, SetError, ReleaseWorker, RetryOrFail, SetStatus,
         jobVars, IInv, StateTypeOK, JobTypeOK
<1>3. pc' \in Unrendered => job' = job
  BY DEF Retry, FailAttempt, SetError, ReleaseWorker, RetryOrFail, Goto, Polled,
         EndTick, Unrendered, BeforeAttempt
<1> QED
  BY <1>1, <1>2, <1>3, RenderFrame, SameRenders

LEMMA RenderEnvironment ==
    ASSUME IInv, RenderParts, Environment, UNCHANGED events
    PROVE  RenderParts'
<1>1. ASSUME NEW j \in Jobs, CreateJob(j)
      PROVE  RenderParts'
  <2>1. "lostReply" \notin events => Idle(j)
    BY <1>1, AttemptsAreNat
       DEF CreateJob, Create, IInv, BudgetOK, RenderParts, Latest, Idle, RemoteIds
  <2>2. UNCHANGED <<worker_id, attempt_count, agentVars, pc, job>>
        /\ \A i \in Jobs \ {j} : status'[i] = status[i]
    BY <1>1 DEF CreateJob, Create, schedVars, IInv, StateTypeOK, JobTypeOK
  <2> QED
    BY <2>1, <2>2, RenderFrame, SameRenders DEF RenderParts
<1>2. ASSUME NEW j \in Jobs, CancelJobRead(j) \/ CancelJobWrite(j)
      PROVE  RenderParts'
  <2>1. UNCHANGED <<worker_id, attempt_count, agentVars, pc, job>>
        /\ \A i \in Jobs : status'[i] = "QUEUED" => status[i] = "QUEUED"
    BY <1>2 DEF CancelJobRead, CancelRead, CancelJobWrite, CancelWrite, schedVars, IInv,
           StateTypeOK, JobTypeOK
  <2> QED
    BY <2>1, RenderFrame, SameRenders DEF RenderParts
<1>3. ASSUME NEW w \in Workers, RegisterWorker(w)
      PROVE  RenderParts'
  BY <1>3, RenderFrame, SameRenders DEF RegisterWorker, jobVars, schedVars, RenderParts
<1>4. ASSUME NEW w \in Workers, AgentStep(w) \/ AgentLost(w) \/ AgentBack(w)
      PROVE  RenderParts'
  <2>1. \A v \in Workers, id \in RemoteIds : Live(v, id)' => Live(v, id)
    BY <1>4
       DEF AgentStep, ExecuteStart, ExecuteEnd, AgentLost, AgentDies, AgentBack,
           AgentRestarts, Forgotten, Live, IInv, StateTypeOK, AgentTypeOK
  <2> QED
    BY <1>4, <2>1, RenderFrame
       DEF AgentStep, AgentLost, AgentBack, jobVars, schedVars, RenderParts
<1>5. CASE Crash
  BY <1>5, RenderFrame, SameRenders DEF Crash, EndTick, Unrendered, BeforeAttempt
<1> QED
  BY <1>1, <1>2, <1>3, <1>4, <1>5 DEF Environment

LEMMA RenderStep ==
    IInv /\ TunnelOK /\ RenderParts /\ [Next]_vars => RenderParts'
<1>1. ASSUME RenderParts, UNCHANGED vars
      PROVE  RenderParts'
  BY <1>1, RenderFrame, SameRenders
     DEF vars, acting, jobVars, schedVars, RenderParts
<1> QED
  BY <1>1, RenderHeartbeat, RenderMonitor, RenderDispatch, RenderRetry,
     RenderEnvironment DEF Next, SchedulerStep

LEMMA RenderAtFirst == Init => RenderParts
BY DEF Init, AgentInit, Forgotten, Live, RenderParts, Latest, Idle, Unrendered,
       BeforeAttempt

\* A worker the thread is about to poll or to assign has a URL; no GPU renders a
\* job that is queued or about to start an attempt.
THEOREM RenderInvHolds == Spec => []RenderInv
<1> DEFINE Inv == IInv /\ TunnelOK /\ RenderParts
<1>1. Init => Inv
  BY InitInv, TunnelAtFirst, RenderAtFirst
<1>2. Inv /\ [Next]_vars => Inv'
  BY StepInv, TunnelStep, RenderStep
<1>3. Inv => RenderInv
  BY Parts DEF RenderInv
<1> QED
  BY <1>1, <1>2, <1>3, PTL DEF Spec

\* Unless a reply to a submission is lost, every live render is that of its job's
\* latest attempt, on the job's worker: no two GPUs render one job.
THEOREM RenderIsLatestAttemptHolds == Spec => []RenderIsLatestAttempt
<1>1. RenderInv => RenderIsLatestAttempt
  BY DEF RenderInv
<1> QED
  BY <1>1, RenderInvHolds, PTL
=============================================================================
