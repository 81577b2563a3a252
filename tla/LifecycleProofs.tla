--------------------------- MODULE LifecycleProofs ---------------------------
(***************************************************************************)
(* The controller implements the state diagram of a job (JobLifecycle) as  *)
(* long as nobody cancels, for any number of jobs, workers, retries,       *)
(* faults and restarts.                                                    *)
(*                                                                         *)
(* Without cancels the thread knows the status of the job in hand (LifeInv *)
(* of SchedulerInvariant), so each write of a status is one edge of the    *)
(* diagram; IInv bounds the attempts.                                      *)
(***************************************************************************)
EXTENDS SchedulerProofs

\* A job's row, as the diagram sees it, does not move.
SameJobs == UNCHANGED <<status, attempt_count, error_class>>

\* One edge of the diagram, in terms of the job table.
Step(j, from, to) ==
    /\ status[j] = from
    /\ status' = [status EXCEPT ![j] = to]

\* An edge that moves nothing but the status.
Edge(j, from, to) == Step(j, from, to) /\ UNCHANGED <<attempt_count, error_class>>

Edges(j) ==
    \/ Edge(j, Absent, "QUEUED")
    \/ /\ Step(j, "QUEUED", "STARTING")
       /\ attempt_count[j] <= MaxRetries
       /\ attempt_count' = [attempt_count EXCEPT ![j] = @ + 1]
       /\ UNCHANGED error_class
    \/ Edge(j, "STARTING", "RUNNING")
    \/ /\ \E from \in {"STARTING", "RUNNING"} : Step(j, from, "RETRYING")
       /\ error_class' = [error_class EXCEPT ![j] = "TRANSIENT"]
       /\ UNCHANGED attempt_count
    \/ Edge(j, "RETRYING", "QUEUED") /\ attempt_count[j] <= MaxRetries
    \/ Edge(j, "RETRYING", "FAILED") /\ ~(attempt_count[j] <= MaxRetries)
    \/ Edge(j, "RUNNING", "COMPLETED")

Moved == SameJobs \/ \E j \in Jobs : Edges(j)

LEMMA JobInHand == IInv /\ pc \notin {"sleep", "heartbeat", "monitor"} => job \in Jobs
BY DEF IInv, HandOK, StateTypeOK

-----------------------------------------------------------------------------
(* Every step of the thread and of its environment.                        *)

LEMMA LifeHeartbeat ==
    ASSUME IInv, LifeParts, Heartbeat
    PROVE  LifeParts' /\ Moved
<1>1. CASE Tick
  BY <1>1 DEF Tick, jobVars, LifeParts, BeforeAttempt, Moved, SameJobs
<1>2. ASSUME NEW w \in Workers, HeartbeatReady(w) \/ HeartbeatMiss(w)
      PROVE  LifeParts' /\ Moved
  <2>1. UNCHANGED jobVars
    BY <1>2, NoneIsNone
       DEF HeartbeatReady, HeartbeatMiss, Recover, IInv, HeldOK, HolderIsAssigned
  <2> QED
    BY <1>2, <2>1
       DEF HeartbeatReady, HeartbeatMiss, Visited, jobVars, LifeParts, Moved, SameJobs
<1> QED
  BY <1>1, <1>2 DEF Heartbeat

LEMMA LifeMonitor ==
    ASSUME IInv, LifeParts, Monitor
    PROVE  LifeParts' /\ Moved
<1>1. CASE ListRunning
  BY <1>1
     DEF ListRunning, Newest, WithStatus, jobVars, LifeParts, BeforeAttempt, Moved, SameJobs
<1>2. ASSUME NEW j \in Jobs, PollNothing(j)
      PROVE  LifeParts' /\ Moved
  BY <1>2, NoneIsNone
     DEF PollNothing, Polled, jobVars, IInv, HandOK, StateTypeOK, LifeParts,
         BeforeAttempt, Moved, SameJobs
<1>3. ASSUME NEW j \in Jobs, PollDone(j) \/ PollFailed(j)
      PROVE  LifeParts' /\ Moved
  <2>1. j \in jtodo \ {job} /\ job = NoJob /\ status[j] = "RUNNING"
    BY <1>3, NoneIsNone DEF PollDone, PollFailed, NextJob, IInv, HandOK, LifeParts
  <2>2. CASE PollDone(j)
    BY <2>1, <2>2, NoneIsNone
       DEF PollDone, Handle, jobVars, LifeParts, IInv, StateTypeOK, BeforeAttempt, Moved,
           SameJobs
  <2>3. CASE PollFailed(j)
    <3>1. Edges(j) /\ UNCHANGED <<cancelling, jtodo>> /\ pc' = "release" /\ job' = j
      BY <2>1, <2>3 DEF PollFailed, Fail, Handle, Edges, Edge, Step
    <3> QED
      BY <2>1, <2>3, <3>1, NoneIsNone
         DEF PollFailed, Fail, LifeParts, IInv, StateTypeOK, JobTypeOK, BeforeAttempt, Moved
  <2> QED
    BY <1>3, <2>2, <2>3
<1>4. CASE Download \/ DiskFails \/ SaveArtifact \/ FreeWorker
  BY <1>4
     DEF Download, DiskFails, SaveArtifact, FreeWorker, Polled, Goto, EndTick, jobVars,
         LifeParts, BeforeAttempt, Moved, SameJobs
<1>5. CASE DownloadFails \/ CompleteJob
  <2>1. job \in Jobs /\ status[job] = "RUNNING"
    BY <1>5, JobInHand DEF DownloadFails, CompleteJob, LifeParts
  <2>2. Edges(job) /\ UNCHANGED cancelling /\ pc' \in {"monitor", "idle"}
    BY <1>5, <2>1
       DEF DownloadFails, CompleteJob, Complete, Fail, Polled, Goto, Edges, Edge, Step
  <2>3. /\ \A j \in jtodo' \ {job'} : j \in jtodo \ {job}
        /\ \A j \in Jobs \ {job} : status'[j] = status[j]
    BY <1>5, NoneIsNone
       DEF DownloadFails, CompleteJob, Complete, Fail, Polled, Goto, IInv, StateTypeOK,
           JobTypeOK
  <2> QED
    BY <2>1, <2>2, <2>3 DEF LifeParts, IInv, StateTypeOK, BeforeAttempt, Moved
<1> QED
  BY <1>1, <1>2, <1>3, <1>4, <1>5 DEF Monitor

LEMMA LifeDispatch ==
    ASSUME IInv, LifeParts, Dispatch
    PROVE  LifeParts' /\ Moved
<1>1. CASE (\E j \in Jobs : NextInQueue(j)) \/ QueueEmpty \/ DispatchJob \/ DispatchGone
           \/ PickNone
  BY <1>1, NoneIsNone
     DEF NextInQueue, QueueEmpty, DispatchJob, DispatchGone, PickNone, EndTick, jobVars,
         IInv, HandOK, StateTypeOK, LifeParts, BeforeAttempt, Moved, SameJobs
<1>2. ASSUME NEW w \in Workers, PickReady(w) \/ PickMiss(w)
      PROVE  LifeParts' /\ Moved
  BY <1>2 DEF PickReady, PickMiss, Visited, jobVars, LifeParts, BeforeAttempt, Moved,
         SameJobs
<1>3. CASE AssignWorker \/ SubmitAccepted \/ SubmitRejected \/ SubmitReplyLost
           \/ UploadRaises \/ SetBusy \/ NoteRemote
  BY <1>3
     DEF AssignWorker, Assign, SubmitAccepted, SubmitRejected, SubmitReplyLost,
         UploadRaises, SetBusy, NoteRemote, Goto, EndTick, jobVars, LifeParts,
         BeforeAttempt, Moved, SameJobs
<1>4. CASE BeginAttempt \/ SetRunning
  <2>1. job \in Jobs
    BY <1>4, JobInHand DEF BeginAttempt, SetRunning
  <2>2. Edges(job) /\ UNCHANGED <<cancelling, jtodo, job>>
    BY <1>4, <2>1
       DEF BeginAttempt, StartAttempt, SetRunning, SetStatus, Goto, Edges, Edge, Step,
           LifeParts, BeforeAttempt, IInv, AttemptOK
  <2>3. /\ \/ pc' = "submit" /\ status'[job] = "STARTING"
           \/ pc' = "busy" /\ status'[job] = "RUNNING"
        /\ \A j \in Jobs \ {job} : status'[j] = status[j]
    BY <1>4, <2>1
       DEF BeginAttempt, StartAttempt, SetRunning, SetStatus, Goto, IInv, StateTypeOK,
           JobTypeOK
  <2> QED
    BY <2>1, <2>2, <2>3 DEF LifeParts, IInv, StateTypeOK, BeforeAttempt, Moved
<1> QED
  BY <1>1, <1>2, <1>3, <1>4 DEF Dispatch

LEMMA LifeRetry ==
    ASSUME IInv, LifeParts, Retry
    PROVE  LifeParts' /\ Moved
<1>1. CASE SetError \/ ReleaseWorker
  BY <1>1
     DEF SetError, ReleaseWorker, Goto, jobVars, LifeParts, BeforeAttempt, Moved, SameJobs
<1>2. CASE FailAttempt
  <2>1. job \in Jobs /\ status[job] = "STARTING"
    BY <1>2, JobInHand DEF FailAttempt, LifeParts
  <2>2. Edges(job) /\ UNCHANGED <<cancelling, jtodo, job>> /\ pc' = "error"
    BY <1>2, <2>1 DEF FailAttempt, Fail, Goto, Edges, Edge, Step
  <2>3. status'[job] = "RETRYING" /\ \A j \in Jobs \ {job} : status'[j] = status[j]
    BY <1>2, <2>1 DEF FailAttempt, Fail, IInv, StateTypeOK, JobTypeOK
  <2> QED
    BY <2>1, <2>2, <2>3 DEF LifeParts, IInv, StateTypeOK, BeforeAttempt, Moved
<1>3. CASE RetryOrFail
  <2>1. job \in Jobs /\ status[job] = "RETRYING" /\ error_class[job] # "PERMANENT"
    BY <1>3, JobInHand DEF RetryOrFail, LifeParts, IInv, BudgetOK
  <2>2. Retryable(job) <=> attempt_count[job] <= MaxRetries
    BY <2>1 DEF Retryable, ErrorClass, IInv, StateTypeOK, JobTypeOK
  <2>3. Edges(job) /\ UNCHANGED cancelling /\ pc' \in {"sleep", "monitor"}
    BY <1>3, <2>1, <2>2 DEF RetryOrFail, SetStatus, Polled, EndTick, Edges, Edge, Step
  <2>4. /\ \A j \in jtodo' \ {job'} : j \in jtodo \ {job}
        /\ \A j \in Jobs \ {job} : status'[j] = status[j]
    BY <1>3 DEF RetryOrFail, SetStatus, Polled, EndTick, IInv, StateTypeOK, JobTypeOK
  <2> QED
    BY <2>1, <2>3, <2>4 DEF LifeParts, IInv, StateTypeOK, BeforeAttempt, Moved
<1> QED
  BY <1>1, <1>2, <1>3 DEF Retry

LEMMA LifeEnvironment ==
    ASSUME IInv, LifeParts, Environment, "cancel" \notin events
    PROVE  LifeParts' /\ Moved
<1>1. ASSUME NEW j \in Jobs, CreateJob(j)
      PROVE  LifeParts' /\ Moved
  <2>1. Edges(j) /\ UNCHANGED <<cancelling, schedVars>>
    BY <1>1 DEF CreateJob, Create, Edges, Edge, Step
  <2>2. status[j] = Absent /\ \A i \in Jobs \ {j} : status'[i] = status[i]
    BY <1>1 DEF CreateJob, Create, IInv, StateTypeOK, JobTypeOK
  <2>3. pc \in BeforeAttempt \cup InAttempt => job \in Jobs \ {j}
    BY <2>2, JobInHand DEF IInv, AttemptOK, BeforeAttempt, InAttempt, Active, Absent
  <2>4. j \notin jtodo \ {job}
    BY <2>2 DEF LifeParts, Absent
  <2> QED
    BY <2>1, <2>2, <2>3, <2>4
       DEF LifeParts, IInv, StateTypeOK, BeforeAttempt, InAttempt, schedVars, Moved
<1>2. ASSUME NEW j \in Jobs, CancelJobRead(j) \/ CancelJobWrite(j)
      PROVE  LifeParts' /\ Moved
  BY <1>2 DEF CancelJobRead, CancelJobWrite, CancelWrite, LifeParts
<1>3. ASSUME NEW w \in Workers,
             RegisterWorker(w) \/ AgentStep(w) \/ AgentLost(w) \/ AgentBack(w)
      PROVE  LifeParts' /\ Moved
  BY <1>3
     DEF RegisterWorker, AgentStep, AgentLost, AgentBack, jobVars, schedVars, LifeParts,
         Moved, SameJobs
<1>4. CASE Crash
  BY <1>4 DEF Crash, EndTick, LifeParts, BeforeAttempt, Moved, SameJobs
<1> QED
  BY <1>1, <1>2, <1>3, <1>4 DEF Environment

LEMMA LifeStep ==
    ASSUME IInv, LifeParts, "cancel" \notin events, [Next]_vars
    PROVE  LifeParts' /\ Moved
<1>1. CASE UNCHANGED vars
  BY <1>1 DEF vars, acting, jobVars, schedVars, LifeParts, Moved, SameJobs
<1> QED
  BY <1>1, LifeHeartbeat, LifeMonitor, LifeDispatch, LifeRetry, LifeEnvironment
     DEF Next, SchedulerStep

-----------------------------------------------------------------------------
(* The refinement.                                                         *)

Phase == [j \in Jobs |-> IF Unseen THEN Absent ELSE status[j]]
Count == [j \in Jobs |-> IF Unseen THEN 0 ELSE attempt_count[j]]
Class == [j \in Jobs |-> IF Unseen THEN "NONE" ELSE error_class[j]]

LEMMA EdgeIsStep ==
    ASSUME ~Unseen, UNCHANGED events, StateTypeOK, StateTypeOK', Moved
    PROVE  [Lifecycle!Next]_(Lifecycle!lifeVars)
<1>1. /\ Phase = status /\ Phase' = status'
      /\ Count = attempt_count /\ Count' = attempt_count'
      /\ Class = error_class /\ Class' = error_class'
  BY DEF Phase, Count, Class, Unseen, StateTypeOK, JobTypeOK
<1>2. CASE SameJobs
  BY <1>1, <1>2 DEF SameJobs, Phase, Count, Class, Lifecycle!lifeVars
<1>3. ASSUME NEW j \in Jobs, Edges(j)
      PROVE  Lifecycle!Next
  <2> USE DEF Phase, Count, Class, Edge, Step, Lifecycle!Move
  <2>1. Edge(j, Absent, "QUEUED") => Lifecycle!Create(j)
    BY <1>1 DEF Lifecycle!Create, Absent
  <2>2. (/\ Step(j, "QUEUED", "STARTING")
         /\ attempt_count[j] <= MaxRetries
         /\ attempt_count' = [attempt_count EXCEPT ![j] = @ + 1]
         /\ UNCHANGED error_class)
          => Lifecycle!Begin(j)
    BY <1>1 DEF Lifecycle!Begin
  <2>3. Edge(j, "STARTING", "RUNNING") => Lifecycle!Run(j)
    BY <1>1 DEF Lifecycle!Run
  <2>4. (/\ \E from \in {"STARTING", "RUNNING"} : Step(j, from, "RETRYING")
         /\ error_class' = [error_class EXCEPT ![j] = "TRANSIENT"]
         /\ UNCHANGED attempt_count)
          => Lifecycle!AttemptFails(j, "TRANSIENT")
    BY <1>1 DEF Lifecycle!AttemptFails
  <2>5. Edge(j, "RETRYING", "QUEUED") /\ attempt_count[j] <= MaxRetries
          => Lifecycle!Requeue(j)
    BY <1>1 DEF Lifecycle!Requeue
  <2>6. Edge(j, "RETRYING", "FAILED") /\ ~(attempt_count[j] <= MaxRetries)
          => Lifecycle!GiveUp(j)
    BY <1>1, DomainAssumption DEF Lifecycle!GiveUp, StateTypeOK, JobTypeOK
  <2>7. Edge(j, "RUNNING", "COMPLETED") => Lifecycle!Finish(j)
    BY <1>1 DEF Lifecycle!Finish
  <2> QED
    BY <1>3, <2>1, <2>2, <2>3, <2>4, <2>5, <2>6, <2>7 DEF Edges, Lifecycle!Next
<1> QED
  BY <1>2, <1>3 DEF Moved

\* In behaviours without cancels the rows still have the status the thread took
\* from an earlier session.
THEOREM LifeInvHolds == Spec => []LifeInv
<1>1. Init => LifeInv
  BY DEF Init, JobInit, LifeInv, LifeParts, BeforeAttempt
<1>2. IInv /\ LifeInv /\ [Next]_vars => LifeInv'
  BY LifeStep DEF LifeInv, Next, vars
<1> QED
  BY <1>1, <1>2, Invariance, PTL DEF Spec

\* As long as nobody cancels, the sessions of the scheduler and of the API move
\* every job along the edges of the diagram a client relies on.
THEOREM ImplementsLifecycleHolds == Spec => ImplementsLifecycle
<1>1. Init => Lifecycle!Init
  BY DEF Init, JobInit, Lifecycle!Init, Absent
<1>2. IInv /\ IInv' /\ LifeInv /\ [Next]_vars => [Lifecycle!Next]_(Lifecycle!lifeVars)
  <2> SUFFICES ASSUME IInv, IInv', LifeInv, [Next]_vars
               PROVE  [Lifecycle!Next]_(Lifecycle!lifeVars)
    OBVIOUS
  <2>1. UNCHANGED events
    BY DEF Next, vars
  <2>2. CASE Unseen
    BY <2>1, <2>2 DEF Unseen, Lifecycle!lifeVars
  <2>3. CASE ~Unseen
    BY <2>1, <2>3, LifeStep, EdgeIsStep DEF Unseen, LifeInv, IInv
  <2> QED
    BY <2>2, <2>3
<1> QED
  BY <1>1, <1>2, Invariance, LifeInvHolds, PTL DEF Spec, ImplementsLifecycle, Lifecycle!Spec
=============================================================================
