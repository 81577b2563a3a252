--------------------------- MODULE SchedulerProofs ---------------------------
(***************************************************************************)
(* The inductive invariant of the scheduler and the safety properties it   *)
(* implies, for any number of jobs, workers, retries and faults.           *)
(*                                                                         *)
(* One lemma per action shows that the action preserves IInv, part by      *)
(* part: types first (from the lemmas on the tables), then                 *)
(* what the thread holds in its hands, who holds whom, the retry budget,   *)
(* and what prompt_id and the output files are worth.                      *)
(***************************************************************************)
EXTENDS SchedulerInvariant, TLAPS

-----------------------------------------------------------------------------
(* Each operator on the tables of the controller and of the agents keeps   *)
(* the types of the columns it writes; a table that is not written keeps   *)
(* its types.                                                              *)

LEMMA FrameType ==
    /\ JobTypeOK /\ UNCHANGED jobVars => JobTypeOK'
    /\ WorkerTypeOK /\ UNCHANGED workerVars => WorkerTypeOK'
    /\ AgentTypeOK /\ UNCHANGED agentVars => AgentTypeOK'
BY DEF JobTypeOK, jobVars, WorkerTypeOK, workerVars, AgentTypeOK, agentVars

LEMMA NoneIsNone == NoJob \notin Jobs /\ NoWorker \notin Workers
BY DEF NoJob, NoWorker, Jobs, Workers

-----------------------------------------------------------------------------
(* The job registry.                                                       *)

LEMMA CreateType ==
    ASSUME JobTypeOK, NEW j \in Jobs, Create(j)
    PROVE  JobTypeOK'
BY JobTableAssumption DEF JobTypeOK, Create, JobStatus

LEMMA SetStatusType ==
    ASSUME JobTypeOK, NEW j \in Jobs, NEW s \in JobStatus, SetStatus(j, s)
    PROVE  JobTypeOK'
BY DEF JobTypeOK, SetStatus

LEMMA AssignType ==
    ASSUME JobTypeOK, NEW j \in Jobs, NEW w \in Workers, Assign(j, w)
    PROVE  JobTypeOK'
BY DEF JobTypeOK, Assign

\* The one operator that counts: it needs an attempt left.
LEMMA StartAttemptType ==
    ASSUME JobTypeOK, NEW j \in Jobs, attempt_count[j] <= MaxRetries, StartAttempt(j)
    PROVE  JobTypeOK'
<1>1. attempt_count' \in [Jobs -> 0 .. MaxRetries + 1]
  BY DomainAssumption DEF JobTypeOK, StartAttempt
<1>2. status' \in [Jobs -> JobStatus \cup {Absent}]
  BY DEF JobTypeOK, StartAttempt, JobStatus
<1>3. QED
  BY <1>1, <1>2 DEF JobTypeOK, StartAttempt

LEMMA FailType ==
    ASSUME JobTypeOK, NEW j \in Jobs, NEW class \in ErrorClass, Fail(j, class)
    PROVE  JobTypeOK'
BY DEF JobTypeOK, Fail, JobStatus

LEMMA CompleteType ==
    ASSUME JobTypeOK, NEW j \in Jobs, Complete(j)
    PROVE  JobTypeOK'
BY DEF JobTypeOK, Complete, JobStatus

LEMMA CancelType ==
    ASSUME JobTypeOK, NEW j \in Jobs, CancelRead(j) \/ CancelWrite(j)
    PROVE  JobTypeOK'
BY DEF JobTypeOK, CancelRead, CancelWrite, JobStatus

-----------------------------------------------------------------------------
(* The worker registry.                                                    *)

LEMMA RegisterType ==
    ASSUME WorkerTypeOK, NEW w \in Workers, Register(w)
    PROVE  WorkerTypeOK'
BY DEF WorkerTypeOK, Register, WorkerStatus

LEMMA ProvisionedType ==
    ASSUME WorkerTypeOK, NEW ws \in SUBSET Workers, Provisioned(ws)
    PROVE  WorkerTypeOK'
BY DEF WorkerTypeOK, Provisioned, WorkerStatus

LEMMA MarkBusyType ==
    ASSUME WorkerTypeOK, NEW w \in Workers, NEW j \in Jobs, MarkBusy(w, j)
    PROVE  WorkerTypeOK'
BY DEF WorkerTypeOK, MarkBusy, WorkerStatus

LEMMA MarkType ==
    ASSUME WorkerTypeOK, NEW w \in Workers,
           MarkReady(w) \/ MarkIdle(w) \/ MarkError(w) \/ MarkOffline(w)
    PROVE  WorkerTypeOK'
BY DEF WorkerTypeOK, MarkReady, MarkIdle, MarkError, MarkOffline, WorkerStatus

-----------------------------------------------------------------------------
(* The agents.                                                             *)

LEMMA AcceptType ==
    ASSUME AgentTypeOK, NEW w \in Workers, NEW id, Accept(w, id)
    PROVE  AgentTypeOK'
BY DEF AgentTypeOK, Accept, RenderStatus

LEMMA ExecuteType ==
    ASSUME AgentTypeOK, NEW w \in Workers, NEW id \in RemoteIds,
           ExecuteStart(w, id) \/ ExecuteEnd(w, id)
    PROVE  AgentTypeOK'
BY DEF AgentTypeOK, ExecuteStart, ExecuteEnd, RenderStatus

LEMMA AgentLifeType ==
    ASSUME AgentTypeOK, NEW w \in Workers, AgentDies(w) \/ AgentRestarts(w)
    PROVE  AgentTypeOK'
BY DEF AgentTypeOK, AgentDies, AgentRestarts, Forgotten, RenderStatus

-----------------------------------------------------------------------------
(* Counters.                                                               *)

LEMMA FaultsInRange ==
    ASSUME faults \in Nat, NoFault \/ \E e : Fault(e)
    PROVE  faults' \in Nat
BY DEF Fault, NoFault

LEMMA FaultsAtFirst == Init => faults \in Nat
BY SchedulerAssumption DEF Init

LEMMA AttemptsAreNat ==
    /\ MaxRetries \in Nat
    /\ \A n \in 0 .. MaxRetries + 1 :
          /\ n \in Nat
          /\ n <= MaxRetries => n + 1 \in Attempts
          /\ n \in Attempts => n # 0
    /\ 0 <= MaxRetries /\ 0 \in 0 .. MaxRetries + 1
BY DomainAssumption DEF Attempts

-----------------------------------------------------------------------------
(* heartbeat_all.                                                          *)

LEMMA TickStep ==
    ASSUME IInv, Tick
    PROVE  IInv'
<1>1. JobTypeOK' /\ WorkerTypeOK' /\ AgentTypeOK'
  BY FrameType DEF IInv, Tick, StateTypeOK
<1>2. StateTypeOK'
  BY <1>1, FaultsInRange DEF IInv, Tick, StateTypeOK, WorkerTypeOK, PC
<1>3. HandOK' /\ AttemptOK' /\ TodoOK'
  BY DEF IInv, Tick, jobVars, HandOK, BeforeAttempt, InAttempt, AttemptOK, TodoOK
<1>4. HeldOK'
  BY DEF IInv, Tick, jobVars, workerVars, BeforeAttempt, Unheld, HeldOK,
         HolderIsAssigned
<1>5. BudgetOK'
  BY DEF IInv, Tick, jobVars, BudgetOK, RetryBudget, FailedMeansExhausted
<1>6. RemoteOK' /\ OutputOK'
  BY DEF IInv, Tick, jobVars, RemoteOK, OutputOK, CompletedHasOwnOutput
<1> QED  BY <1>2, <1>3, <1>4, <1>5, <1>6 DEF IInv

LEMMA HeartbeatReadyStep ==
    ASSUME IInv, NEW w \in Workers, HeartbeatReady(w)
    PROVE  IInv'
<1>1. JobTypeOK' /\ WorkerTypeOK' /\ AgentTypeOK'
  BY FrameType, MarkType DEF IInv, HeartbeatReady, StateTypeOK
<1>2. StateTypeOK'
  BY <1>1, FaultsInRange DEF IInv, HeartbeatReady, Visited, StateTypeOK
<1>3. HandOK' /\ AttemptOK' /\ TodoOK'
  BY DEF IInv, HeartbeatReady, Visited, jobVars, HandOK, AttemptOK, TodoOK
<1>4. HeldOK'
  BY DEF IInv, HeartbeatReady, MarkReady, Visited, jobVars, workerVars, StateTypeOK,
         WorkerTypeOK, HeldOK, HolderIsAssigned
<1>5. BudgetOK'
  BY DEF IInv, HeartbeatReady, jobVars, BudgetOK, RetryBudget, FailedMeansExhausted
<1>6. RemoteOK' /\ OutputOK'
  BY DEF IInv, HeartbeatReady, Visited, jobVars, RemoteOK, OutputOK,
         CompletedHasOwnOutput
<1> QED  BY <1>2, <1>3, <1>4, <1>5, <1>6 DEF IInv

LEMMA HeartbeatMissStep ==
    ASSUME IInv, NEW w \in Workers, HeartbeatMiss(w)
    PROVE  IInv'
<1>0. UNCHANGED jobVars
  BY NoneIsNone DEF HeartbeatMiss, Recover, IInv, HeldOK, HolderIsAssigned
<1>1. JobTypeOK' /\ WorkerTypeOK' /\ AgentTypeOK'
  BY <1>0, FrameType, MarkType DEF IInv, HeartbeatMiss, StateTypeOK
<1>2. StateTypeOK'
  BY <1>1, FaultsInRange DEF IInv, HeartbeatMiss, Visited, NotReady, StateTypeOK
<1>3. HandOK' /\ AttemptOK' /\ TodoOK'
  BY <1>0 DEF IInv, HeartbeatMiss, Visited, jobVars, HandOK, AttemptOK, TodoOK
<1>4. HeldOK'
  BY <1>0
     DEF IInv, HeartbeatMiss, MarkOffline, Visited, jobVars, StateTypeOK, WorkerTypeOK,
         BeforeAttempt, HeldOK, HolderIsAssigned, Unheld
<1>5. BudgetOK'
  BY <1>0 DEF IInv, jobVars, BudgetOK, RetryBudget, FailedMeansExhausted
<1>6. RemoteOK' /\ OutputOK'
  BY <1>0
     DEF IInv, HeartbeatMiss, Visited, jobVars, RemoteOK, OutputOK,
         CompletedHasOwnOutput
<1> QED  BY <1>2, <1>3, <1>4, <1>5, <1>6 DEF IInv

-----------------------------------------------------------------------------
(* monitor_running, _poll and _complete.                                   *)

LEMMA ListRunningStep ==
    ASSUME IInv, ListRunning
    PROVE  IInv'
<1>1. JobTypeOK' /\ WorkerTypeOK' /\ AgentTypeOK'
  BY FrameType DEF IInv, ListRunning, StateTypeOK
<1>2. StateTypeOK'
  BY <1>1, FaultsInRange DEF IInv, ListRunning, Newest, WithStatus, StateTypeOK, PC
<1>3. HandOK' /\ AttemptOK' /\ TodoOK'
  BY DEF IInv, ListRunning, Newest, WithStatus, jobVars, HandOK, BeforeAttempt,
         InAttempt, AttemptOK, TodoOK, BudgetOK
<1>4. HeldOK'
  BY DEF IInv, ListRunning, jobVars, workerVars, BeforeAttempt, Unheld, HeldOK,
         HolderIsAssigned
<1>5. BudgetOK'
  BY DEF IInv, ListRunning, jobVars, BudgetOK, RetryBudget, FailedMeansExhausted
<1>6. RemoteOK' /\ OutputOK'
  BY DEF IInv, ListRunning, jobVars, RemoteOK, OutputOK, CompletedHasOwnOutput
<1> QED  BY <1>2, <1>3, <1>4, <1>5, <1>6 DEF IInv

LEMMA PollNothingStep ==
    ASSUME IInv, NEW j \in Jobs, PollNothing(j)
    PROVE  IInv'
<1>1. JobTypeOK' /\ WorkerTypeOK' /\ AgentTypeOK'
  BY FrameType DEF IInv, PollNothing, StateTypeOK
<1>2. StateTypeOK'
  BY <1>1, FaultsInRange DEF IInv, PollNothing, Polled, StateTypeOK
<1>3. HandOK' /\ AttemptOK' /\ TodoOK'
  BY DEF IInv, PollNothing, Polled, jobVars, HandOK, InAttempt, AttemptOK, TodoOK
<1>4. HeldOK'
  BY DEF IInv, PollNothing, Polled, jobVars, workerVars, HandOK, HeldOK,
         HolderIsAssigned
<1>5. BudgetOK'
  BY DEF IInv, PollNothing, jobVars, BudgetOK, RetryBudget, FailedMeansExhausted
<1>6. RemoteOK' /\ OutputOK'
  BY DEF IInv, PollNothing, Polled, jobVars, RemoteOK, OutputOK,
         CompletedHasOwnOutput
<1> QED  BY <1>2, <1>3, <1>4, <1>5, <1>6 DEF IInv

LEMMA PollDoneStep ==
    ASSUME IInv, NEW j \in Jobs, PollDone(j)
    PROVE  IInv'
<1>1. JobTypeOK' /\ WorkerTypeOK' /\ AgentTypeOK'
  BY FrameType DEF IInv, PollDone, StateTypeOK
<1>2. StateTypeOK'
  <2>1. worker_id[j] \in Workers
    BY DEF IInv, PollDone, Reply, StateTypeOK, JobTypeOK
  <2> QED
    BY <1>1, <2>1, FaultsInRange DEF IInv, PollDone, Handle, StateTypeOK, PC
<1>3. HandOK' /\ AttemptOK' /\ TodoOK'
  BY NoneIsNone
     DEF IInv, PollDone, Reply, NextJob, Handle, jobVars, StateTypeOK, JobTypeOK,
         HandOK, BeforeAttempt, Active, AttemptOK, TodoOK
<1>4. HeldOK'
  BY DEF IInv, PollDone, Handle, jobVars, workerVars, BeforeAttempt, Unheld,
         HeldOK, HolderIsAssigned
<1>5. BudgetOK'
  BY DEF IInv, PollDone, jobVars, BudgetOK, RetryBudget, FailedMeansExhausted
<1>6. RemoteOK' /\ OutputOK'
  BY DEF IInv, PollDone, Reply, Handle, jobVars, RemoteOK, OutputOK,
         CompletedHasOwnOutput
<1> QED  BY <1>2, <1>3, <1>4, <1>5, <1>6 DEF IInv

LEMMA PollFailedStep ==
    ASSUME IInv, NEW j \in Jobs, PollFailed(j)
    PROVE  IInv'
<1>1. JobTypeOK' /\ WorkerTypeOK' /\ AgentTypeOK'
  BY FrameType, FailType DEF IInv, PollFailed, StateTypeOK, ErrorClass
<1>2. StateTypeOK'
  <2>1. worker_id[j] \in Workers
    BY DEF IInv, PollFailed, Reply, StateTypeOK, JobTypeOK
  <2> QED
    BY <1>1, <2>1, FaultsInRange DEF IInv, PollFailed, Handle, StateTypeOK, PC
<1>3. HandOK' /\ AttemptOK' /\ TodoOK'
  BY NoneIsNone
     DEF IInv, PollFailed, Reply, Fail, NextJob, Handle, StateTypeOK, JobTypeOK, HandOK,
         BeforeAttempt, Active, AttemptOK, TodoOK
<1>4. HeldOK'
  BY DEF IInv, PollFailed, Fail, Handle, workerVars, BeforeAttempt, Unheld, HeldOK,
         HolderIsAssigned, Absent
<1>5. BudgetOK'
  BY DEF IInv, PollFailed, Fail, BudgetOK, RetryBudget, FailedMeansExhausted, Absent
<1>6. RemoteOK' /\ OutputOK'
  BY DEF IInv, PollFailed, Fail, Handle, RemoteOK, OutputOK, CompletedHasOwnOutput
<1> QED  BY <1>2, <1>3, <1>4, <1>5, <1>6 DEF IInv

LEMMA DownloadStep ==
    ASSUME IInv, Download
    PROVE  IInv'
<1>1. JobTypeOK' /\ WorkerTypeOK' /\ AgentTypeOK'
  BY FrameType DEF IInv, Download, StateTypeOK, JobTypeOK, HandOK
<1>2. StateTypeOK'
  BY <1>1, FaultsInRange DEF IInv, Download, Goto, StateTypeOK, PC
<1>3. HandOK' /\ AttemptOK' /\ TodoOK'
  BY DEF IInv, Download, Goto, HandOK, BeforeAttempt, InAttempt, AttemptOK, TodoOK
<1>4. HeldOK'
  BY DEF IInv, Download, Goto, workerVars, BeforeAttempt, Unheld, HeldOK,
         HolderIsAssigned
<1>5. BudgetOK'
  BY DEF IInv, Download, BudgetOK, RetryBudget, FailedMeansExhausted
<1>6. RemoteOK' /\ OutputOK'
  BY DEF IInv, Download, Goto, StateTypeOK, JobTypeOK, HandOK, RemoteOK, OutputOK,
         CompletedHasOwnOutput
<1> QED  BY <1>2, <1>3, <1>4, <1>5, <1>6 DEF IInv

LEMMA DownloadFailsStep ==
    ASSUME IInv, DownloadFails
    PROVE  IInv'
<1>1. JobTypeOK' /\ WorkerTypeOK' /\ AgentTypeOK'
  BY FrameType, FailType DEF IInv, DownloadFails, StateTypeOK, HandOK, ErrorClass
<1>2. StateTypeOK'
  BY <1>1, FaultsInRange DEF IInv, DownloadFails, Polled, StateTypeOK, PC
<1>3. HandOK' /\ AttemptOK' /\ TodoOK'
  BY DEF IInv, DownloadFails, Fail, Polled, HandOK, BeforeAttempt, InAttempt,
         AttemptOK, TodoOK
<1>4. HeldOK'
  BY DEF IInv, DownloadFails, Fail, Polled, workerVars, BeforeAttempt, Unheld,
         HeldOK, HolderIsAssigned, Absent
<1>5. BudgetOK'
  BY DEF IInv, DownloadFails, Fail, BudgetOK, RetryBudget, FailedMeansExhausted,
         Absent
<1>6. RemoteOK' /\ OutputOK'
  BY DEF IInv, DownloadFails, Fail, Polled, RemoteOK, OutputOK,
         CompletedHasOwnOutput
<1> QED  BY <1>2, <1>3, <1>4, <1>5, <1>6 DEF IInv

LEMMA DiskFailsStep ==
    ASSUME IInv, DiskFails
    PROVE  IInv'
<1>1. JobTypeOK' /\ WorkerTypeOK' /\ AgentTypeOK'
  BY FrameType DEF IInv, DiskFails, StateTypeOK
<1>2. StateTypeOK'
  BY <1>1, FaultsInRange DEF IInv, DiskFails, EndTick, StateTypeOK, PC
<1>3. HandOK' /\ AttemptOK' /\ TodoOK'
  BY DEF DiskFails, EndTick, HandOK, BeforeAttempt, InAttempt, AttemptOK, TodoOK
<1>4. HeldOK'
  BY DEF IInv, DiskFails, EndTick, jobVars, workerVars, BeforeAttempt, Unheld,
         HeldOK, HolderIsAssigned
<1>5. BudgetOK'
  BY DEF IInv, DiskFails, jobVars, BudgetOK, RetryBudget, FailedMeansExhausted
<1>6. RemoteOK' /\ OutputOK'
  BY DEF IInv, DiskFails, EndTick, jobVars, RemoteOK, OutputOK,
         CompletedHasOwnOutput
<1> QED  BY <1>2, <1>3, <1>4, <1>5, <1>6 DEF IInv

LEMMA SaveArtifactStep ==
    ASSUME IInv, SaveArtifact
    PROVE  IInv'
<1>1. JobTypeOK' /\ WorkerTypeOK' /\ AgentTypeOK'
  BY FrameType DEF IInv, SaveArtifact, StateTypeOK, JobTypeOK, HandOK
<1>2. StateTypeOK'
  BY <1>1, FaultsInRange DEF IInv, SaveArtifact, Goto, StateTypeOK, PC
<1>3. HandOK' /\ AttemptOK' /\ TodoOK'
  BY DEF IInv, SaveArtifact, Goto, HandOK, BeforeAttempt, InAttempt, AttemptOK,
         TodoOK
<1>4. HeldOK'
  BY DEF IInv, SaveArtifact, Goto, workerVars, BeforeAttempt, Unheld, HeldOK,
         HolderIsAssigned
<1>5. BudgetOK'
  BY DEF IInv, SaveArtifact, BudgetOK, RetryBudget, FailedMeansExhausted
<1>6. RemoteOK' /\ OutputOK'
  BY DEF IInv, SaveArtifact, Goto, RemoteOK, OutputOK, CompletedHasOwnOutput
<1> QED  BY <1>2, <1>3, <1>4, <1>5, <1>6 DEF IInv

LEMMA CompleteJobStep ==
    ASSUME IInv, CompleteJob
    PROVE  IInv'
<1>1. JobTypeOK' /\ WorkerTypeOK' /\ AgentTypeOK'
  BY FrameType, CompleteType DEF IInv, CompleteJob, StateTypeOK, HandOK
<1>2. StateTypeOK'
  BY <1>1, FaultsInRange DEF IInv, CompleteJob, Goto, StateTypeOK, PC
<1>3. HandOK' /\ AttemptOK' /\ TodoOK'
  BY DEF IInv, CompleteJob, Complete, Goto, HandOK, BeforeAttempt, InAttempt,
         AttemptOK, TodoOK
<1>4. HeldOK'
  BY DEF IInv, CompleteJob, Complete, Goto, workerVars, BeforeAttempt, Unheld,
         HeldOK, HolderIsAssigned, Absent
<1>5. BudgetOK'
  BY DEF IInv, CompleteJob, Complete, BudgetOK, RetryBudget, FailedMeansExhausted,
         Absent
<1>6. RemoteOK' /\ OutputOK'
  BY DEF IInv, CompleteJob, Complete, Goto, RemoteOK, OutputOK,
         CompletedHasOwnOutput
<1> QED  BY <1>2, <1>3, <1>4, <1>5, <1>6 DEF IInv

LEMMA FreeWorkerStep ==
    ASSUME IInv, FreeWorker
    PROVE  IInv'
<1>1. JobTypeOK' /\ WorkerTypeOK' /\ AgentTypeOK'
  BY FrameType, MarkType DEF IInv, FreeWorker, StateTypeOK, HandOK
<1>2. StateTypeOK'
  BY <1>1, FaultsInRange DEF IInv, FreeWorker, Polled, StateTypeOK, PC
<1>3. HandOK' /\ AttemptOK' /\ TodoOK'
  BY DEF IInv, FreeWorker, Polled, jobVars, HandOK, BeforeAttempt, InAttempt,
         AttemptOK, TodoOK
<1>4. HeldOK'
  BY DEF IInv, FreeWorker, MarkIdle, Polled, jobVars, StateTypeOK, WorkerTypeOK,
         BeforeAttempt, Unheld, HeldOK, HolderIsAssigned
<1>5. BudgetOK'
  BY DEF IInv, FreeWorker, jobVars, BudgetOK, RetryBudget, FailedMeansExhausted
<1>6. RemoteOK' /\ OutputOK'
  BY DEF IInv, FreeWorker, Polled, jobVars, RemoteOK, OutputOK,
         CompletedHasOwnOutput
<1> QED  BY <1>2, <1>3, <1>4, <1>5, <1>6 DEF IInv

-----------------------------------------------------------------------------
(* dispatch_job, pick_ready and _run_on.                                   *)

LEMMA NextInQueueStep ==
    ASSUME IInv, NEW j \in Jobs, NextInQueue(j)
    PROVE  IInv'
<1>1. JobTypeOK' /\ WorkerTypeOK' /\ AgentTypeOK'
  BY FrameType DEF IInv, NextInQueue, StateTypeOK
<1>2. StateTypeOK'
  BY <1>1, FaultsInRange DEF IInv, NextInQueue, StateTypeOK, PC
<1>3. HandOK' /\ AttemptOK' /\ TodoOK'
  BY NoneIsNone DEF NextInQueue, HandOK, BeforeAttempt, InAttempt, AttemptOK, TodoOK
<1>4. HeldOK'
  BY DEF IInv, NextInQueue, jobVars, workerVars, BeforeAttempt, Unheld, HeldOK,
         HolderIsAssigned
<1>5. BudgetOK'
  BY DEF IInv, NextInQueue, jobVars, BudgetOK, RetryBudget, FailedMeansExhausted
<1>6. RemoteOK' /\ OutputOK'
  BY DEF IInv, NextInQueue, jobVars, RemoteOK, OutputOK, CompletedHasOwnOutput
<1> QED  BY <1>2, <1>3, <1>4, <1>5, <1>6 DEF IInv

LEMMA QueueEmptyStep ==
    ASSUME IInv, QueueEmpty
    PROVE  IInv'
<1>1. JobTypeOK' /\ WorkerTypeOK' /\ AgentTypeOK'
  BY FrameType DEF IInv, QueueEmpty, StateTypeOK
<1>2. StateTypeOK'
  BY <1>1, FaultsInRange DEF IInv, QueueEmpty, EndTick, StateTypeOK, PC
<1>3. HandOK' /\ AttemptOK' /\ TodoOK'
  BY DEF QueueEmpty, EndTick, HandOK, BeforeAttempt, InAttempt, AttemptOK, TodoOK
<1>4. HeldOK'
  BY DEF IInv, QueueEmpty, EndTick, jobVars, workerVars, BeforeAttempt, Unheld,
         HeldOK, HolderIsAssigned
<1>5. BudgetOK'
  BY DEF IInv, QueueEmpty, jobVars, BudgetOK, RetryBudget, FailedMeansExhausted
<1>6. RemoteOK' /\ OutputOK'
  BY DEF IInv, QueueEmpty, EndTick, jobVars, RemoteOK, OutputOK,
         CompletedHasOwnOutput
<1> QED  BY <1>2, <1>3, <1>4, <1>5, <1>6 DEF IInv

LEMMA DispatchJobStep ==
    ASSUME IInv, DispatchJob
    PROVE  IInv'
<1>1. JobTypeOK' /\ WorkerTypeOK' /\ AgentTypeOK'
  BY FrameType DEF IInv, DispatchJob, StateTypeOK
<1>2. StateTypeOK'
  BY <1>1, FaultsInRange DEF IInv, DispatchJob, ReadyWorkers, StateTypeOK, PC
<1>3. HandOK' /\ AttemptOK' /\ TodoOK'
  BY DEF IInv, DispatchJob, ReadyWorkers, jobVars, workerVars, StateTypeOK, HandOK,
         InAttempt, AttemptOK, TodoOK, BudgetOK, RetryBudget
<1>4. HeldOK'
  BY DEF IInv, DispatchJob, jobVars, workerVars, HandOK, HeldOK, HolderIsAssigned
<1>5. BudgetOK'
  BY DEF IInv, DispatchJob, jobVars, BudgetOK, RetryBudget, FailedMeansExhausted
<1>6. RemoteOK' /\ OutputOK'
  BY DEF IInv, DispatchJob, jobVars, RemoteOK, OutputOK, CompletedHasOwnOutput
<1> QED  BY <1>2, <1>3, <1>4, <1>5, <1>6 DEF IInv

LEMMA DispatchGoneStep ==
    ASSUME IInv, DispatchGone
    PROVE  IInv'
<1>1. JobTypeOK' /\ WorkerTypeOK' /\ AgentTypeOK'
  BY FrameType DEF IInv, DispatchGone, StateTypeOK
<1>2. StateTypeOK'
  BY <1>1, FaultsInRange DEF IInv, DispatchGone, EndTick, StateTypeOK, PC
<1>3. HandOK' /\ AttemptOK' /\ TodoOK'
  BY DEF DispatchGone, EndTick, HandOK, BeforeAttempt, InAttempt, AttemptOK, TodoOK
<1>4. HeldOK'
  BY DEF IInv, DispatchGone, EndTick, jobVars, workerVars, BeforeAttempt, Unheld,
         HeldOK, HolderIsAssigned
<1>5. BudgetOK'
  BY DEF IInv, DispatchGone, jobVars, BudgetOK, RetryBudget, FailedMeansExhausted
<1>6. RemoteOK' /\ OutputOK'
  BY DEF IInv, DispatchGone, EndTick, jobVars, RemoteOK, OutputOK,
         CompletedHasOwnOutput
<1> QED  BY <1>2, <1>3, <1>4, <1>5, <1>6 DEF IInv

LEMMA PickReadyStep ==
    ASSUME IInv, NEW w \in Workers, PickReady(w)
    PROVE  IInv'
<1>1. JobTypeOK' /\ WorkerTypeOK' /\ AgentTypeOK'
  BY FrameType, MarkType DEF IInv, PickReady, StateTypeOK
<1>2. StateTypeOK'
  BY <1>1, FaultsInRange DEF IInv, PickReady, StateTypeOK, PC
<1>3. HandOK' /\ AttemptOK' /\ TodoOK'
  BY DEF IInv, PickReady, jobVars, HandOK, BeforeAttempt, InAttempt, AttemptOK,
         TodoOK
<1>4. HeldOK'
  BY DEF IInv, PickReady, MarkReady, NextWorker, jobVars, BeforeAttempt, Unheld,
         TodoOK, HeldOK, HolderIsAssigned
<1>5. BudgetOK'
  BY DEF IInv, PickReady, jobVars, BudgetOK, RetryBudget, FailedMeansExhausted
<1>6. RemoteOK' /\ OutputOK'
  BY DEF IInv, PickReady, jobVars, RemoteOK, OutputOK, CompletedHasOwnOutput
<1> QED  BY <1>2, <1>3, <1>4, <1>5, <1>6 DEF IInv

LEMMA PickMissStep ==
    ASSUME IInv, NEW w \in Workers, PickMiss(w)
    PROVE  IInv'
<1>1. JobTypeOK' /\ WorkerTypeOK' /\ AgentTypeOK'
  BY FrameType, MarkType DEF IInv, PickMiss, StateTypeOK
<1>2. StateTypeOK'
  BY <1>1, FaultsInRange DEF IInv, PickMiss, Visited, NotReady, StateTypeOK
<1>3. HandOK' /\ AttemptOK' /\ TodoOK'
  BY DEF IInv, PickMiss, MarkOffline, Visited, jobVars, workerVars, StateTypeOK,
         WorkerTypeOK, HandOK, AttemptOK, TodoOK
<1>4. HeldOK'
  BY DEF IInv, PickMiss, MarkOffline, Visited, jobVars, workerVars, StateTypeOK,
         WorkerTypeOK, HandOK, HeldOK, HolderIsAssigned
<1>5. BudgetOK'
  BY DEF IInv, PickMiss, jobVars, BudgetOK, RetryBudget, FailedMeansExhausted
<1>6. RemoteOK' /\ OutputOK'
  BY DEF IInv, PickMiss, Visited, jobVars, RemoteOK, OutputOK, CompletedHasOwnOutput
<1> QED  BY <1>2, <1>3, <1>4, <1>5, <1>6 DEF IInv

LEMMA PickNoneStep ==
    ASSUME IInv, PickNone
    PROVE  IInv'
<1>1. JobTypeOK' /\ WorkerTypeOK' /\ AgentTypeOK'
  BY FrameType, ProvisionedType DEF IInv, PickNone, StateTypeOK
<1>2. StateTypeOK'
  BY <1>1, FaultsInRange DEF IInv, PickNone, EndTick, StateTypeOK, PC
<1>3. HandOK' /\ AttemptOK' /\ TodoOK'
  BY DEF PickNone, EndTick, HandOK, BeforeAttempt, InAttempt, AttemptOK, TodoOK
<1>4. HeldOK'
  BY DEF IInv, PickNone, Provisioned, EndTick, jobVars, BeforeAttempt, Unheld,
         HeldOK, HolderIsAssigned, Absent
<1>5. BudgetOK'
  BY DEF IInv, PickNone, jobVars, BudgetOK, RetryBudget, FailedMeansExhausted
<1>6. RemoteOK' /\ OutputOK'
  BY DEF IInv, PickNone, EndTick, jobVars, RemoteOK, OutputOK, CompletedHasOwnOutput
<1> QED  BY <1>2, <1>3, <1>4, <1>5, <1>6 DEF IInv

LEMMA AssignWorkerStep ==
    ASSUME IInv, AssignWorker
    PROVE  IInv'
<1>1. JobTypeOK' /\ WorkerTypeOK' /\ AgentTypeOK'
  BY FrameType, AssignType DEF IInv, AssignWorker, StateTypeOK, HandOK
<1>2. StateTypeOK'
  BY <1>1, FaultsInRange DEF IInv, AssignWorker, Goto, StateTypeOK, PC
<1>3. HandOK' /\ AttemptOK' /\ TodoOK'
  BY DEF IInv, AssignWorker, Assign, Goto, StateTypeOK, JobTypeOK, HandOK,
         BeforeAttempt, InAttempt, AttemptOK, TodoOK
<1>4. HeldOK'
  BY DEF IInv, AssignWorker, Assign, Goto, workerVars, BeforeAttempt, Unheld,
         HeldOK, HolderIsAssigned
<1>5. BudgetOK'
  BY DEF IInv, AssignWorker, Assign, BudgetOK, RetryBudget, FailedMeansExhausted
<1>6. RemoteOK' /\ OutputOK'
  BY DEF IInv, AssignWorker, Assign, Goto, RemoteOK, OutputOK, CompletedHasOwnOutput
<1> QED  BY <1>2, <1>3, <1>4, <1>5, <1>6 DEF IInv

LEMMA BeginAttemptStep ==
    ASSUME IInv, BeginAttempt
    PROVE  IInv'
<1>1. JobTypeOK' /\ WorkerTypeOK' /\ AgentTypeOK'
  BY FrameType, StartAttemptType
     DEF IInv, BeginAttempt, StateTypeOK, HandOK, BeforeAttempt, AttemptOK
<1>2. StateTypeOK'
  BY <1>1, FaultsInRange DEF IInv, BeginAttempt, Goto, StateTypeOK, PC
<1>3. HandOK' /\ AttemptOK' /\ TodoOK'
  BY AttemptsAreNat
     DEF IInv, BeginAttempt, StartAttempt, Goto, StateTypeOK, JobTypeOK, HandOK,
         BeforeAttempt, Active, AttemptOK, TodoOK
<1>4. HeldOK'
  BY DEF IInv, BeginAttempt, StartAttempt, Goto, workerVars, BeforeAttempt, Unheld,
         HeldOK, HolderIsAssigned
<1>5. BudgetOK'
  BY AttemptsAreNat
     DEF IInv, BeginAttempt, StartAttempt, StateTypeOK, JobTypeOK, BeforeAttempt,
         AttemptOK, BudgetOK, RetryBudget, FailedMeansExhausted, Absent
<1>6. RemoteOK' /\ OutputOK'
  BY DEF IInv, BeginAttempt, StartAttempt, Goto, StateTypeOK, JobTypeOK, RemoteOK,
         OutputOK, CompletedHasOwnOutput
<1> QED  BY <1>2, <1>3, <1>4, <1>5, <1>6 DEF IInv

LEMMA SubmitAcceptedStep ==
    ASSUME IInv, SubmitAccepted
    PROVE  IInv'
<1>1. JobTypeOK' /\ WorkerTypeOK' /\ AgentTypeOK'
  BY FrameType, AcceptType DEF IInv, SubmitAccepted, StateTypeOK, HandOK, InAttempt
<1>2. StateTypeOK'
  BY <1>1, FaultsInRange DEF IInv, SubmitAccepted, Goto, StateTypeOK, PC
<1>3. HandOK' /\ AttemptOK' /\ TodoOK'
  BY DEF IInv, SubmitAccepted, Goto, jobVars, HandOK, BeforeAttempt, InAttempt,
         AttemptOK, TodoOK
<1>4. HeldOK'
  BY DEF IInv, SubmitAccepted, Goto, jobVars, workerVars, Unheld, HeldOK,
         HolderIsAssigned
<1>5. BudgetOK'
  BY DEF IInv, SubmitAccepted, jobVars, BudgetOK, RetryBudget, FailedMeansExhausted
<1>6. RemoteOK' /\ OutputOK'
  BY DEF IInv, SubmitAccepted, Goto, jobVars, RemoteOK, OutputOK,
         CompletedHasOwnOutput
<1> QED  BY <1>2, <1>3, <1>4, <1>5, <1>6 DEF IInv

LEMMA SubmitRejectedStep ==
    ASSUME IInv, SubmitRejected
    PROVE  IInv'
<1>1. JobTypeOK' /\ WorkerTypeOK' /\ AgentTypeOK'
  BY FrameType DEF IInv, SubmitRejected, StateTypeOK
<1>2. StateTypeOK'
  BY <1>1, FaultsInRange DEF IInv, SubmitRejected, Goto, StateTypeOK, PC
<1>3. HandOK' /\ AttemptOK' /\ TodoOK'
  BY DEF IInv, SubmitRejected, Goto, jobVars, HandOK, BeforeAttempt, InAttempt,
         AttemptOK, TodoOK
<1>4. HeldOK'
  BY DEF IInv, SubmitRejected, Goto, jobVars, workerVars, Unheld, HeldOK,
         HolderIsAssigned
<1>5. BudgetOK'
  BY DEF IInv, SubmitRejected, jobVars, BudgetOK, RetryBudget, FailedMeansExhausted
<1>6. RemoteOK' /\ OutputOK'
  BY DEF IInv, SubmitRejected, Goto, jobVars, RemoteOK, OutputOK,
         CompletedHasOwnOutput
<1> QED  BY <1>2, <1>3, <1>4, <1>5, <1>6 DEF IInv

LEMMA SubmitReplyLostStep ==
    ASSUME IInv, SubmitReplyLost
    PROVE  IInv'
<1>1. JobTypeOK' /\ WorkerTypeOK' /\ AgentTypeOK'
  BY FrameType, AcceptType DEF IInv, SubmitReplyLost, StateTypeOK, HandOK, InAttempt
<1>2. StateTypeOK'
  BY <1>1, FaultsInRange DEF IInv, SubmitReplyLost, Goto, StateTypeOK, PC
<1>3. HandOK' /\ AttemptOK' /\ TodoOK'
  BY DEF IInv, SubmitReplyLost, Goto, jobVars, HandOK, BeforeAttempt, InAttempt,
         AttemptOK, TodoOK
<1>4. HeldOK'
  BY DEF IInv, SubmitReplyLost, Goto, jobVars, workerVars, Unheld, HeldOK,
         HolderIsAssigned
<1>5. BudgetOK'
  BY DEF IInv, SubmitReplyLost, jobVars, BudgetOK, RetryBudget, FailedMeansExhausted
<1>6. RemoteOK' /\ OutputOK'
  BY DEF IInv, SubmitReplyLost, Goto, jobVars, RemoteOK, OutputOK,
         CompletedHasOwnOutput
<1> QED  BY <1>2, <1>3, <1>4, <1>5, <1>6 DEF IInv

LEMMA UploadRaisesStep ==
    ASSUME IInv, UploadRaises
    PROVE  IInv'
<1>1. JobTypeOK' /\ WorkerTypeOK' /\ AgentTypeOK'
  BY FrameType DEF IInv, UploadRaises, StateTypeOK
<1>2. StateTypeOK'
  BY <1>1, FaultsInRange DEF IInv, UploadRaises, EndTick, StateTypeOK, PC
<1>3. HandOK' /\ AttemptOK' /\ TodoOK'
  BY DEF UploadRaises, EndTick, HandOK, BeforeAttempt, InAttempt, AttemptOK, TodoOK
<1>4. HeldOK'
  BY DEF IInv, UploadRaises, EndTick, jobVars, workerVars, BeforeAttempt, Unheld,
         HeldOK, HolderIsAssigned
<1>5. BudgetOK'
  BY DEF IInv, UploadRaises, jobVars, BudgetOK, RetryBudget, FailedMeansExhausted
<1>6. RemoteOK' /\ OutputOK'
  BY DEF IInv, UploadRaises, EndTick, jobVars, RemoteOK, OutputOK,
         CompletedHasOwnOutput
<1> QED  BY <1>2, <1>3, <1>4, <1>5, <1>6 DEF IInv

LEMMA SetRunningStep ==
    ASSUME IInv, SetRunning
    PROVE  IInv'
<1>1. JobTypeOK' /\ WorkerTypeOK' /\ AgentTypeOK'
  BY FrameType, SetStatusType DEF IInv, SetRunning, StateTypeOK, HandOK, JobStatus
<1>2. StateTypeOK'
  BY <1>1, FaultsInRange DEF IInv, SetRunning, Goto, StateTypeOK, PC
<1>3. HandOK' /\ AttemptOK' /\ TodoOK'
  BY DEF IInv, SetRunning, SetStatus, Goto, HandOK, BeforeAttempt, InAttempt,
         Active, AttemptOK, TodoOK
<1>4. HeldOK'
  BY DEF IInv, SetRunning, SetStatus, Goto, workerVars, Unheld, HeldOK,
         HolderIsAssigned
<1>5. BudgetOK'
  BY DEF IInv, SetRunning, SetStatus, InAttempt, AttemptOK, BudgetOK, RetryBudget,
         FailedMeansExhausted, Absent
<1>6. RemoteOK' /\ OutputOK'
  BY DEF IInv, SetRunning, SetStatus, Goto, RemoteOK, OutputOK,
         CompletedHasOwnOutput
<1> QED  BY <1>2, <1>3, <1>4, <1>5, <1>6 DEF IInv

LEMMA SetBusyStep ==
    ASSUME IInv, SetBusy
    PROVE  IInv'
<1>1. JobTypeOK' /\ WorkerTypeOK' /\ AgentTypeOK'
  BY FrameType, MarkBusyType DEF IInv, SetBusy, StateTypeOK, HandOK, InAttempt
<1>2. StateTypeOK'
  BY <1>1, FaultsInRange DEF IInv, SetBusy, Goto, StateTypeOK, PC
<1>3. HandOK' /\ AttemptOK' /\ TodoOK'
  BY DEF IInv, SetBusy, Goto, jobVars, HandOK, BeforeAttempt, InAttempt, AttemptOK,
         TodoOK
<1>4. HeldOK'
  BY DEF IInv, SetBusy, MarkBusy, Goto, jobVars, StateTypeOK, WorkerTypeOK, HandOK,
         BeforeAttempt, InAttempt, Active, Unheld, AttemptOK, HeldOK,
         HolderIsAssigned, Absent
<1>5. BudgetOK'
  BY DEF IInv, SetBusy, jobVars, BudgetOK, RetryBudget, FailedMeansExhausted
<1>6. RemoteOK' /\ OutputOK'
  BY DEF IInv, SetBusy, Goto, jobVars, RemoteOK, OutputOK, CompletedHasOwnOutput
<1> QED  BY <1>2, <1>3, <1>4, <1>5, <1>6 DEF IInv

LEMMA NoteRemoteStep ==
    ASSUME IInv, NoteRemote
    PROVE  IInv'
<1>1. JobTypeOK' /\ WorkerTypeOK' /\ AgentTypeOK'
  <2>1. ThisRender \in RemoteIds
    BY DEF IInv, NoteRemote, ThisRender, RemoteIds, StateTypeOK, HandOK, AttemptOK,
           InAttempt
  <2> QED
    BY <2>1, FrameType DEF IInv, NoteRemote, StateTypeOK, JobTypeOK
<1>2. StateTypeOK'
  BY <1>1, FaultsInRange DEF IInv, NoteRemote, EndTick, StateTypeOK, PC
<1>3. HandOK' /\ AttemptOK' /\ TodoOK'
  BY DEF NoteRemote, EndTick, HandOK, BeforeAttempt, InAttempt, AttemptOK, TodoOK
<1>4. HeldOK'
  BY DEF IInv, NoteRemote, EndTick, workerVars, BeforeAttempt, Unheld, HeldOK,
         HolderIsAssigned
<1>5. BudgetOK'
  BY DEF IInv, NoteRemote, BudgetOK, RetryBudget, FailedMeansExhausted
<1>6. RemoteOK' /\ OutputOK'
  BY DEF IInv, NoteRemote, ThisRender, EndTick, RemoteOK, OutputOK,
         CompletedHasOwnOutput
<1> QED  BY <1>2, <1>3, <1>4, <1>5, <1>6 DEF IInv

-----------------------------------------------------------------------------
(* _run_on's handler and _maybe_retry.                                     *)

LEMMA FailAttemptStep ==
    ASSUME IInv, FailAttempt
    PROVE  IInv'
<1>1. JobTypeOK' /\ WorkerTypeOK' /\ AgentTypeOK'
  BY FrameType, FailType DEF IInv, FailAttempt, StateTypeOK, HandOK, ErrorClass
<1>2. StateTypeOK'
  BY <1>1, FaultsInRange DEF IInv, FailAttempt, Goto, StateTypeOK, PC
<1>3. HandOK' /\ AttemptOK' /\ TodoOK'
  BY DEF IInv, FailAttempt, Fail, Goto, HandOK, BeforeAttempt, InAttempt, Active,
         AttemptOK, TodoOK
<1>4. HeldOK'
  BY DEF IInv, FailAttempt, Fail, Goto, workerVars, BeforeAttempt, Unheld, HeldOK,
         HolderIsAssigned, Absent
<1>5. BudgetOK'
  BY DEF IInv, FailAttempt, Fail, BudgetOK, RetryBudget, FailedMeansExhausted,
         Absent
<1>6. RemoteOK' /\ OutputOK'
  BY DEF IInv, FailAttempt, Fail, Goto, RemoteOK, OutputOK, CompletedHasOwnOutput
<1> QED  BY <1>2, <1>3, <1>4, <1>5, <1>6 DEF IInv

LEMMA SetErrorStep ==
    ASSUME IInv, SetError
    PROVE  IInv'
<1>1. JobTypeOK' /\ WorkerTypeOK' /\ AgentTypeOK'
  BY FrameType, MarkType DEF IInv, SetError, StateTypeOK, HandOK, InAttempt
<1>2. StateTypeOK'
  BY <1>1, FaultsInRange DEF IInv, SetError, Goto, StateTypeOK, PC
<1>3. HandOK' /\ AttemptOK' /\ TodoOK'
  BY DEF IInv, SetError, Goto, jobVars, HandOK, BeforeAttempt, InAttempt,
         AttemptOK, TodoOK
<1>4. HeldOK'
  BY DEF IInv, SetError, MarkError, Goto, jobVars, StateTypeOK, WorkerTypeOK,
         BeforeAttempt, Unheld, HeldOK, HolderIsAssigned
<1>5. BudgetOK'
  BY DEF IInv, SetError, jobVars, BudgetOK, RetryBudget, FailedMeansExhausted
<1>6. RemoteOK' /\ OutputOK'
  BY DEF IInv, SetError, Goto, jobVars, RemoteOK, OutputOK, CompletedHasOwnOutput
<1> QED  BY <1>2, <1>3, <1>4, <1>5, <1>6 DEF IInv

LEMMA ReleaseWorkerStep ==
    ASSUME IInv, ReleaseWorker
    PROVE  IInv'
<1>1. JobTypeOK' /\ WorkerTypeOK' /\ AgentTypeOK'
  BY FrameType, MarkType DEF IInv, ReleaseWorker, StateTypeOK, HandOK, InAttempt
<1>2. StateTypeOK'
  BY <1>1, FaultsInRange DEF IInv, ReleaseWorker, Goto, StateTypeOK, PC
<1>3. HandOK' /\ AttemptOK' /\ TodoOK'
  BY DEF IInv, ReleaseWorker, Goto, jobVars, HandOK, BeforeAttempt, InAttempt,
         AttemptOK, TodoOK
<1>4. HeldOK'
  BY DEF IInv, ReleaseWorker, MarkIdle, Goto, jobVars, StateTypeOK, WorkerTypeOK,
         HandOK, InAttempt, AttemptOK, HeldOK, HolderIsAssigned
<1>5. BudgetOK'
  BY DEF IInv, ReleaseWorker, jobVars, BudgetOK, RetryBudget, FailedMeansExhausted
<1>6. RemoteOK' /\ OutputOK'
  BY DEF IInv, ReleaseWorker, Goto, jobVars, RemoteOK, OutputOK,
         CompletedHasOwnOutput
<1> QED  BY <1>2, <1>3, <1>4, <1>5, <1>6 DEF IInv

LEMMA RetryOrFailStep ==
    ASSUME IInv, RetryOrFail
    PROVE  IInv'
<1>1. JobTypeOK' /\ WorkerTypeOK' /\ AgentTypeOK'
  BY FrameType, SetStatusType DEF IInv, RetryOrFail, StateTypeOK, HandOK, JobStatus
<1>2. StateTypeOK'
  BY <1>1, FaultsInRange DEF IInv, RetryOrFail, Polled, EndTick, StateTypeOK, PC
<1>3. HandOK' /\ AttemptOK' /\ TodoOK'
  BY DEF IInv, RetryOrFail, SetStatus, Polled, EndTick, HandOK, BeforeAttempt,
         InAttempt, AttemptOK, TodoOK
<1>4. HeldOK'
  BY DEF IInv, RetryOrFail, SetStatus, Polled, EndTick, workerVars, BeforeAttempt,
         Unheld, HeldOK, HolderIsAssigned
<1>5. BudgetOK'
  <2>1. /\ job \in Jobs
        /\ attempt_count[job] \in Attempts
        /\ error_class[job] \in {"NONE", "TRANSIENT"}
    BY DEF IInv, RetryOrFail, StateTypeOK, JobTypeOK, HandOK, AttemptOK, InAttempt,
           BudgetOK, ErrorClass
  <2>2. /\ attempt_count[job] \in Nat /\ MaxRetries \in Nat
        /\ attempt_count[job] <= MaxRetries + 1
    BY <2>1, DomainAssumption DEF Attempts
  <2>3. CASE Retryable(job)
    BY <2>1, <2>2, <2>3
       DEF IInv, RetryOrFail, SetStatus, Retryable, BudgetOK, RetryBudget,
           FailedMeansExhausted, Absent
  <2>4. CASE ~Retryable(job)
    BY <2>1, <2>2, <2>4
       DEF IInv, RetryOrFail, SetStatus, Retryable, BudgetOK, RetryBudget,
           FailedMeansExhausted, Absent
  <2> QED
    BY <2>3, <2>4
<1>6. RemoteOK' /\ OutputOK'
  BY DEF IInv, RetryOrFail, SetStatus, Polled, EndTick, RemoteOK, OutputOK,
         CompletedHasOwnOutput
<1> QED  BY <1>2, <1>3, <1>4, <1>5, <1>6 DEF IInv

-----------------------------------------------------------------------------
(* The API, the agents, the runner and the process.                        *)

LEMMA CreateJobStep ==
    ASSUME IInv, NEW j \in Jobs, CreateJob(j)
    PROVE  IInv'
<1>1. JobTypeOK' /\ WorkerTypeOK' /\ AgentTypeOK'
  BY FrameType, CreateType DEF IInv, CreateJob, StateTypeOK
<1>2. StateTypeOK'
  BY <1>1, FaultsInRange DEF IInv, CreateJob, schedVars, StateTypeOK
<1>3. HandOK' /\ AttemptOK' /\ TodoOK'
  BY AttemptsAreNat
     DEF IInv, CreateJob, Create, schedVars, workerVars, HandOK, AttemptOK, TodoOK,
         BudgetOK
<1>4. HeldOK'
  BY DEF IInv, CreateJob, Create, schedVars, workerVars, HeldOK, HolderIsAssigned
<1>5. BudgetOK'
  BY AttemptsAreNat
     DEF IInv, CreateJob, Create, BudgetOK, RetryBudget, FailedMeansExhausted
<1>6. RemoteOK' /\ OutputOK'
  BY DEF IInv, CreateJob, Create, schedVars, RemoteOK, OutputOK,
         CompletedHasOwnOutput
<1> QED  BY <1>2, <1>3, <1>4, <1>5, <1>6 DEF IInv

LEMMA CancelJobReadStep ==
    ASSUME IInv, NEW j \in Jobs, CancelJobRead(j)
    PROVE  IInv'
<1>1. JobTypeOK' /\ WorkerTypeOK' /\ AgentTypeOK'
  BY FrameType, CancelType DEF IInv, CancelJobRead, StateTypeOK
<1>2. StateTypeOK'
  BY <1>1, FaultsInRange DEF IInv, CancelJobRead, schedVars, StateTypeOK
<1>3. HandOK' /\ AttemptOK' /\ TodoOK'
  BY DEF IInv, CancelJobRead, CancelRead, schedVars, workerVars, HandOK, AttemptOK,
         TodoOK
<1>4. HeldOK'
  BY DEF IInv, CancelJobRead, CancelRead, schedVars, workerVars, HeldOK,
         HolderIsAssigned
<1>5. BudgetOK'
  BY DEF IInv, CancelJobRead, CancelRead, BudgetOK, RetryBudget,
         FailedMeansExhausted
<1>6. RemoteOK' /\ OutputOK'
  BY DEF IInv, CancelJobRead, CancelRead, schedVars, RemoteOK, OutputOK,
         CompletedHasOwnOutput
<1> QED  BY <1>2, <1>3, <1>4, <1>5, <1>6 DEF IInv

LEMMA CancelJobWriteStep ==
    ASSUME IInv, NEW j \in Jobs, CancelJobWrite(j)
    PROVE  IInv'
<1>1. JobTypeOK' /\ WorkerTypeOK' /\ AgentTypeOK'
  BY FrameType, CancelType DEF IInv, CancelJobWrite, StateTypeOK
<1>2. StateTypeOK'
  BY <1>1, FaultsInRange DEF IInv, CancelJobWrite, schedVars, StateTypeOK
<1>3. HandOK' /\ AttemptOK' /\ TodoOK'
  BY DEF IInv, CancelJobWrite, CancelWrite, schedVars, workerVars, HandOK, Active,
         AttemptOK, TodoOK
<1>4. HeldOK'
  BY DEF IInv, CancelJobWrite, CancelWrite, schedVars, workerVars, HeldOK,
         HolderIsAssigned, Absent
<1>5. BudgetOK'
  BY DEF IInv, CancelJobWrite, CancelWrite, BudgetOK, RetryBudget,
         FailedMeansExhausted, Absent
<1>6. RemoteOK' /\ OutputOK'
  BY DEF IInv, CancelJobWrite, CancelWrite, schedVars, RemoteOK, OutputOK,
         CompletedHasOwnOutput
<1> QED  BY <1>2, <1>3, <1>4, <1>5, <1>6 DEF IInv

LEMMA RegisterWorkerStep ==
    ASSUME IInv, NEW w \in Workers, RegisterWorker(w)
    PROVE  IInv'
<1>1. JobTypeOK' /\ WorkerTypeOK' /\ AgentTypeOK'
  BY FrameType, RegisterType DEF IInv, RegisterWorker, StateTypeOK
<1>2. StateTypeOK'
  BY <1>1, FaultsInRange DEF IInv, RegisterWorker, schedVars, StateTypeOK
<1>3. HandOK' /\ AttemptOK' /\ TodoOK'
  BY DEF IInv, RegisterWorker, Register, schedVars, jobVars, HandOK, AttemptOK,
         TodoOK, Absent
<1>4. HeldOK'
  BY DEF IInv, RegisterWorker, Register, schedVars, jobVars, HeldOK,
         HolderIsAssigned, Absent
<1>5. BudgetOK'
  BY DEF IInv, RegisterWorker, jobVars, BudgetOK, RetryBudget, FailedMeansExhausted
<1>6. RemoteOK' /\ OutputOK'
  BY DEF IInv, RegisterWorker, schedVars, jobVars, RemoteOK, OutputOK,
         CompletedHasOwnOutput
<1> QED  BY <1>2, <1>3, <1>4, <1>5, <1>6 DEF IInv

LEMMA AgentStepStep ==
    ASSUME IInv, NEW w \in Workers, AgentStep(w)
    PROVE  IInv'
<1>1. JobTypeOK' /\ WorkerTypeOK' /\ AgentTypeOK'
  BY FrameType, ExecuteType DEF IInv, AgentStep, StateTypeOK
<1>2. StateTypeOK'
  BY <1>1, FaultsInRange DEF IInv, AgentStep, schedVars, StateTypeOK
<1>3. HandOK' /\ AttemptOK' /\ TodoOK'
  BY DEF IInv, AgentStep, schedVars, jobVars, workerVars, HandOK, AttemptOK, TodoOK
<1>4. HeldOK'
  BY DEF IInv, AgentStep, schedVars, jobVars, workerVars, HeldOK, HolderIsAssigned
<1>5. BudgetOK'
  BY DEF IInv, AgentStep, jobVars, BudgetOK, RetryBudget, FailedMeansExhausted
<1>6. RemoteOK' /\ OutputOK'
  BY DEF IInv, AgentStep, schedVars, jobVars, RemoteOK, OutputOK,
         CompletedHasOwnOutput
<1> QED  BY <1>2, <1>3, <1>4, <1>5, <1>6 DEF IInv

LEMMA AgentLostStep ==
    ASSUME IInv, NEW w \in Workers, AgentLost(w)
    PROVE  IInv'
<1>1. JobTypeOK' /\ WorkerTypeOK' /\ AgentTypeOK'
  BY FrameType, AgentLifeType DEF IInv, AgentLost, StateTypeOK
<1>2. StateTypeOK'
  BY <1>1, FaultsInRange DEF IInv, AgentLost, schedVars, StateTypeOK
<1>3. HandOK' /\ AttemptOK' /\ TodoOK'
  BY DEF IInv, AgentLost, schedVars, jobVars, workerVars, HandOK, AttemptOK, TodoOK
<1>4. HeldOK'
  BY DEF IInv, AgentLost, schedVars, jobVars, workerVars, HeldOK, HolderIsAssigned
<1>5. BudgetOK'
  BY DEF IInv, AgentLost, jobVars, BudgetOK, RetryBudget, FailedMeansExhausted
<1>6. RemoteOK' /\ OutputOK'
  BY DEF IInv, AgentLost, schedVars, jobVars, RemoteOK, OutputOK,
         CompletedHasOwnOutput
<1> QED  BY <1>2, <1>3, <1>4, <1>5, <1>6 DEF IInv

LEMMA AgentBackStep ==
    ASSUME IInv, NEW w \in Workers, AgentBack(w)
    PROVE  IInv'
<1>1. JobTypeOK' /\ WorkerTypeOK' /\ AgentTypeOK'
  BY FrameType, AgentLifeType DEF IInv, AgentBack, StateTypeOK
<1>2. StateTypeOK'
  BY <1>1, FaultsInRange DEF IInv, AgentBack, schedVars, StateTypeOK
<1>3. HandOK' /\ AttemptOK' /\ TodoOK'
  BY DEF IInv, AgentBack, schedVars, jobVars, workerVars, HandOK, AttemptOK, TodoOK
<1>4. HeldOK'
  BY DEF IInv, AgentBack, schedVars, jobVars, workerVars, HeldOK, HolderIsAssigned
<1>5. BudgetOK'
  BY DEF IInv, AgentBack, jobVars, BudgetOK, RetryBudget, FailedMeansExhausted
<1>6. RemoteOK' /\ OutputOK'
  BY DEF IInv, AgentBack, schedVars, jobVars, RemoteOK, OutputOK,
         CompletedHasOwnOutput
<1> QED  BY <1>2, <1>3, <1>4, <1>5, <1>6 DEF IInv

LEMMA CrashStep ==
    ASSUME IInv, Crash
    PROVE  IInv'
<1>1. JobTypeOK' /\ WorkerTypeOK' /\ AgentTypeOK'
  BY FrameType DEF IInv, Crash, StateTypeOK, JobTypeOK
<1>2. StateTypeOK'
  BY <1>1, FaultsInRange DEF IInv, Crash, EndTick, StateTypeOK, PC
<1>3. HandOK' /\ AttemptOK' /\ TodoOK'
  BY DEF Crash, EndTick, HandOK, BeforeAttempt, InAttempt, AttemptOK, TodoOK
<1>4. HeldOK'
  BY DEF IInv, Crash, EndTick, workerVars, BeforeAttempt, Unheld, HeldOK,
         HolderIsAssigned
<1>5. BudgetOK'
  BY DEF IInv, Crash, BudgetOK, RetryBudget, FailedMeansExhausted
<1>6. RemoteOK' /\ OutputOK'
  BY DEF IInv, Crash, EndTick, RemoteOK, OutputOK, CompletedHasOwnOutput
<1> QED  BY <1>2, <1>3, <1>4, <1>5, <1>6 DEF IInv

-----------------------------------------------------------------------------
(* The invariant holds.                                                    *)

LEMMA InitInv == Init => IInv
<1> SUFFICES ASSUME Init PROVE IInv
  OBVIOUS
<1>1. JobTypeOK
  BY DomainAssumption DEF Init, JobInit, JobTypeOK, InputKind, ErrorClass
<1>2. WorkerTypeOK /\ AgentTypeOK
  BY DEF Init, WorkerInit, WorkerTypeOK, AgentInit, AgentTypeOK, Forgotten,
         RenderStatus
<1>3. StateTypeOK
  BY <1>1, <1>2, FaultsAtFirst DEF Init, StateTypeOK, PC
<1>4. HandOK /\ AttemptOK /\ TodoOK
  BY DEF Init, HandOK, AttemptOK, TodoOK, BeforeAttempt, InAttempt
<1>5. HeldOK
  BY DEF Init, WorkerInit, HeldOK, HolderIsAssigned, Unheld, BeforeAttempt, Absent
<1>6. BudgetOK
  BY DomainAssumption
     DEF Init, JobInit, BudgetOK, RetryBudget, FailedMeansExhausted, Absent
<1>7. RemoteOK /\ OutputOK
  BY DEF Init, JobInit, RemoteOK, OutputOK, CompletedHasOwnOutput, Absent
<1> QED
  BY <1>3, <1>4, <1>5, <1>6, <1>7 DEF IInv

LEMMA StutterInv ==
    ASSUME IInv, UNCHANGED vars
    PROVE  IInv'
<1>1. StateTypeOK'
  BY FrameType DEF IInv, StateTypeOK, vars, acting, schedVars
<1>2. HandOK' /\ AttemptOK' /\ TodoOK'
  BY DEF IInv, HandOK, AttemptOK, TodoOK, vars, acting, schedVars, jobVars, workerVars
<1>3. HeldOK' /\ BudgetOK'
  BY DEF IInv, HeldOK, HolderIsAssigned, BudgetOK, RetryBudget,
         FailedMeansExhausted, vars, acting, schedVars, jobVars, workerVars
<1>4. RemoteOK' /\ OutputOK'
  BY DEF IInv, RemoteOK, OutputOK, CompletedHasOwnOutput, vars, acting, schedVars, jobVars
<1> QED
  BY <1>1, <1>2, <1>3, <1>4 DEF IInv

LEMMA StepInv == IInv /\ [Next]_vars => IInv'
<1> SUFFICES ASSUME IInv, [Next]_vars PROVE IInv'
  OBVIOUS
<1>1. CASE Heartbeat
  BY <1>1, TickStep, HeartbeatReadyStep, HeartbeatMissStep DEF Heartbeat
<1>2. CASE Monitor
  BY <1>2, ListRunningStep, PollNothingStep, PollDoneStep, PollFailedStep,
     DownloadStep, DownloadFailsStep, DiskFailsStep, SaveArtifactStep,
     CompleteJobStep, FreeWorkerStep DEF Monitor
<1>3. CASE Dispatch
  BY <1>3, NextInQueueStep, QueueEmptyStep, DispatchJobStep, DispatchGoneStep,
     PickReadyStep, PickMissStep, PickNoneStep, AssignWorkerStep, BeginAttemptStep,
     SubmitAcceptedStep, SubmitRejectedStep, SubmitReplyLostStep, UploadRaisesStep,
     SetRunningStep, SetBusyStep, NoteRemoteStep DEF Dispatch
<1>4. CASE Retry
  BY <1>4, FailAttemptStep, SetErrorStep, ReleaseWorkerStep, RetryOrFailStep DEF
         Retry
<1>5. CASE Environment
  BY <1>5, CreateJobStep, CancelJobReadStep, CancelJobWriteStep,
     RegisterWorkerStep, AgentStepStep, AgentLostStep, AgentBackStep, CrashStep
     DEF Environment
<1>6. CASE UNCHANGED vars
  BY <1>6, StutterInv
<1> QED
  BY <1>1, <1>2, <1>3, <1>4, <1>5, <1>6 DEF Next, SchedulerStep

\* The invariant of SchedulerInvariant holds in every reachable state: between
\* any two sessions of the scheduler thread the tables, the files and what the
\* thread has in hand fit together.
THEOREM Invariance == Spec => []IInv
<1>1. Init => IInv
  BY InitInv
<1>2. IInv /\ [Next]_vars => IInv'
  BY StepInv
<1> QED
  BY <1>1, <1>2, PTL DEF Spec

\* Every column and every local of the scheduler thread keeps its type; in
\* particular attempt_count never passes max_retries + 1, which no session
\* checks when it increments it.
THEOREM TypeCorrect == Spec => []TypeOK
<1> DEFINE EventsOK == events \subseteq EventKind
<1>1. Init => EventsOK
  BY SchedulerAssumption DEF Init
<1>2. EventsOK /\ [Next]_vars => EventsOK'
  BY DEF Next, vars
<1>3. IInv /\ EventsOK => TypeOK
  BY DEF IInv, TypeOK
<1> QED
  BY <1>1, <1>2, <1>3, Invariance, PTL DEF Spec

\* Whatever faults, restarts and cancels happen, a job in the queue has an
\* attempt left, and no job is rendered more than max_retries + 1 times.
THEOREM RetryBudgetHolds == Spec => []RetryBudget
<1>1. IInv => RetryBudget
  BY DEF IInv, BudgetOK
<1> QED
  BY <1>1, Invariance, PTL

\* A job is FAILED only with a PERMANENT error or once its attempts are used.
THEOREM FailedMeansExhaustedHolds == Spec => []FailedMeansExhausted
<1>1. IInv => FailedMeansExhausted
  BY DEF IInv, BudgetOK
<1> QED
  BY <1>1, Invariance, PTL

\* A COMPLETED job has its artifact row and its file, and the file is the one
\* its latest attempt rendered.
THEOREM CompletedHasOwnOutputHolds == Spec => []CompletedHasOwnOutput
<1>1. IInv => CompletedHasOwnOutput
  BY DEF IInv, OutputOK
<1> QED
  BY <1>1, Invariance, PTL

\* The two tables agree on who holds what, though no session writes both.
THEOREM HolderIsAssignedHolds == Spec => []HolderIsAssigned
<1>1. IInv => HolderIsAssigned
  BY DEF IInv, HeldOK
<1> QED
  BY <1>1, Invariance, PTL

-----------------------------------------------------------------------------
(* Outcomes are kept: an action property from the same invariant.          *)

\* What a step may do to a job that is COMPLETED or FAILED.
KeptBy(j) ==
    status[j] \in {"COMPLETED", "FAILED"} /\ status'[j] # status[j]
        => status'[j] = "CANCELLED" /\ j \in cancelling

LEMMA KeptByHeartbeat ==
    ASSUME IInv, Heartbeat, NEW j \in Jobs
    PROVE  KeptBy(j)
BY DEF IInv, StateTypeOK, JobTypeOK, KeptBy, Heartbeat, Tick, HeartbeatReady,
       HeartbeatMiss, Recover, jobVars

LEMMA KeptByMonitor ==
    ASSUME IInv, Monitor, NEW j \in Jobs
    PROVE  KeptBy(j)
<1> USE DEF KeptBy, jobVars
<1>1. CASE ListRunning
  BY <1>1 DEF ListRunning
<1>2. ASSUME NEW i \in Jobs, PollNothing(i) \/ PollDone(i)
      PROVE  KeptBy(j)
  BY <1>2 DEF PollNothing, PollDone
<1>3. ASSUME NEW i \in Jobs, PollFailed(i)
      PROVE  KeptBy(j)
  BY <1>3, NoneIsNone DEF IInv, HandOK, TodoOK, PollFailed, NextJob, Fail
<1>4. CASE Download \/ DiskFails \/ SaveArtifact \/ FreeWorker
  BY <1>4 DEF Download, DiskFails, SaveArtifact, FreeWorker
<1>5. CASE DownloadFails
  BY <1>5 DEF IInv, AttemptOK, InAttempt, Active, DownloadFails, Fail
<1>6. CASE CompleteJob
  BY <1>6 DEF IInv, AttemptOK, InAttempt, Active, CompleteJob, Complete
<1> QED
  BY <1>1, <1>2, <1>3, <1>4, <1>5, <1>6 DEF Monitor

LEMMA KeptByDispatch ==
    ASSUME IInv, Dispatch, NEW j \in Jobs
    PROVE  KeptBy(j)
<1> USE DEF KeptBy, jobVars
<1>1. CASE BeginAttempt
  BY <1>1 DEF IInv, AttemptOK, BeforeAttempt, BeginAttempt, StartAttempt
<1>2. CASE SetRunning
  BY <1>2 DEF IInv, AttemptOK, InAttempt, Active, SetRunning, SetStatus
<1>3. CASE ~BeginAttempt /\ ~SetRunning
  BY <1>3
     DEF Dispatch, NextInQueue, QueueEmpty, DispatchJob, DispatchGone, PickReady,
         PickMiss, PickNone, AssignWorker, Assign, SubmitAccepted, SubmitRejected,
         SubmitReplyLost, UploadRaises, SetBusy, NoteRemote
<1> QED
  BY <1>1, <1>2, <1>3

LEMMA KeptByRetry ==
    ASSUME IInv, Retry, NEW j \in Jobs
    PROVE  KeptBy(j)
BY DEF IInv, AttemptOK, InAttempt, Active, StateTypeOK, JobTypeOK, KeptBy, jobVars,
       Retry, FailAttempt, Fail, SetError, ReleaseWorker, RetryOrFail, SetStatus

LEMMA KeptByEnvironment ==
    ASSUME IInv, Environment, NEW j \in Jobs
    PROVE  KeptBy(j)
BY DEF IInv, StateTypeOK, JobTypeOK, KeptBy, jobVars, Absent, Environment, CreateJob,
       Create, CancelJobRead, CancelRead, CancelJobWrite, CancelWrite,
       RegisterWorker, AgentStep, AgentLost, AgentBack, Crash

\* A COMPLETED or FAILED job leaves its outcome only through a cancel whose
\* check came before the outcome was written.
THEOREM OutcomeIsKeptHolds == Spec => OutcomeIsKept
<1>1. IInv /\ [Next]_vars =>
        [\A j \in Jobs :
           status[j] \in {"COMPLETED", "FAILED"} /\ status'[j] # status[j]
              => status'[j] = "CANCELLED" /\ j \in cancelling]_vars
  BY KeptByHeartbeat, KeptByMonitor, KeptByDispatch, KeptByRetry, KeptByEnvironment
     DEF Next, SchedulerStep, KeptBy
<1> QED
  BY <1>1, Invariance, PTL DEF Spec, OutcomeIsKept
=============================================================================
