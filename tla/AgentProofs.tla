---------------------------- MODULE AgentProofs -----------------------------
(***************************************************************************)
(* The safety properties of the worker agent, for any number of renders.   *)
(***************************************************************************)
EXTENDS AgentProperties, TLAPS

\* While a render's thread is at work its status is not an outcome the thread
\* wrote, and before "done" the file is there.
ThreadOK ==
    \A id \in RemoteIds :
        /\ thread[id] # "none" => status[id] \in {"QUEUED", "RUNNING", "CANCELLED"}
        /\ thread[id] = "done" => id \in result_path /\ prompt[id] = "files"

AgentInv ==
    /\ ThreadsTypeOK
    /\ ThreadOK
    /\ DoneHasOutput
    /\ BusyMeansWorking

LEMMA AgentInvInit == Init => AgentInv
BY AgentEventsAssumption DEF Init, AgentInv, ThreadsTypeOK, JobState, ThreadState, PromptState,
       ThreadOK, DoneHasOutput, BusyMeansWorking

LEMMA ThreadsType ==
    ASSUME ThreadsTypeOK, [Next]_<<agentState, events>>
    PROVE  ThreadsTypeOK'
<1>0. UNCHANGED events
  BY DEF Next
<1> USE <1>0 DEF ThreadsTypeOK, JobState, ThreadState, PromptState
<1>1. ASSUME NEW id \in RemoteIds, RunJob(id) \/ JobCancelRead(id) \/ JobCancelWrite(id)
      PROVE  ThreadsTypeOK'
  BY <1>1 DEF RunJob, JobCancelRead, JobCancelWrite
<1>2. ASSUME NEW id \in RemoteIds, Begin(id) \/ SubmitPrompt(id) \/ PrepareFails(id)
      PROVE  ThreadsTypeOK'
  BY <1>2 DEF Begin, SubmitPrompt, PrepareFails, GoOn, EndThread
<1>3. ASSUME NEW id \in RemoteIds,
             \/ HistoryFound(id) \/ WaitFails(id) \/ FetchOutput(id)
             \/ FetchFails(id) \/ SetDone(id) \/ ThreadDies(id)
      PROVE  ThreadsTypeOK'
  BY <1>3 DEF HistoryFound, WaitFails, FetchOutput, FetchFails, SetDone, ThreadDies,
              GoOn, EndThread
<1>4. ASSUME NEW id \in RemoteIds, PromptStarts(id) \/ PromptEnds(id)
      PROVE  ThreadsTypeOK'
  BY <1>4 DEF PromptStarts, PromptEnds
<1>5. CASE SessionEnds \/ SessionStarts
  BY <1>5 DEF SessionEnds, SessionStarts
<1>6. CASE UNCHANGED <<agentState, events>>
  BY <1>6 DEF agentState
<1> QED
  BY <1>1, <1>2, <1>3, <1>4, <1>5, <1>6 DEF Next, AgentStep, Execute

LEMMA AgentInvStep ==
    ASSUME AgentInv, [Next]_<<agentState, events>>
    PROVE  AgentInv'
<1>0. UNCHANGED events
  BY DEF Next
<1>1. ThreadsTypeOK'
  BY ThreadsType DEF AgentInv
<1> DEFINE Rest == ThreadOK /\ DoneHasOutput /\ BusyMeansWorking
<1>2. Rest'
  <2> USE <1>0 DEF AgentInv, ThreadsTypeOK, ThreadOK, DoneHasOutput, BusyMeansWorking
  <2>1. ASSUME NEW id \in RemoteIds, RunJob(id) \/ JobCancelRead(id) \/ JobCancelWrite(id)
        PROVE  Rest'
    BY <2>1 DEF RunJob, JobCancelRead, JobCancelWrite
  <2>2. ASSUME NEW id \in RemoteIds, Begin(id) \/ SubmitPrompt(id) \/ PrepareFails(id)
        PROVE  Rest'
    BY <2>2 DEF Begin, SubmitPrompt, PrepareFails, GoOn, EndThread
  <2>3. ASSUME NEW id \in RemoteIds,
               \/ HistoryFound(id) \/ WaitFails(id) \/ FetchOutput(id)
               \/ FetchFails(id) \/ SetDone(id)
        PROVE  Rest'
    BY <2>3 DEF HistoryFound, WaitFails, FetchOutput, FetchFails, SetDone, GoOn, EndThread
  <2>4. ASSUME NEW id \in RemoteIds, ThreadDies(id)
        PROVE  Rest'
    BY <2>4 DEF ThreadDies, GoOn
  <2>5. ASSUME NEW id \in RemoteIds, PromptStarts(id) \/ PromptEnds(id)
        PROVE  Rest'
    BY <2>5 DEF PromptStarts, PromptEnds
  <2>6. CASE SessionEnds \/ SessionStarts
    BY <2>6 DEF SessionEnds, SessionStarts
  <2>7. CASE UNCHANGED agentState
    BY <2>7 DEF agentState
  <2> QED
    BY <2>1, <2>2, <2>3, <2>4, <2>5, <2>6, <2>7 DEF Next, AgentStep, Execute
<1> QED
  BY <1>1, <1>2 DEF AgentInv

LEMMA AgentInvariance == Spec => []AgentInv
<1>1. AgentInv /\ [Next]_<<agentState, events>> => AgentInv'
  BY AgentInvStep
<1> QED
  BY <1>1, AgentInvInit, PTL DEF Spec

\* The agent's table, its threads and ComfyUI's queue keep their types.
THEOREM AgentTypeCorrect == Spec => []ThreadsTypeOK
<1>1. AgentInv => ThreadsTypeOK
  BY DEF AgentInv
<1> QED
  BY <1>1, AgentInvariance, PTL

\* A render reported DONE has a file its own prompt produced.
THEOREM DoneHasOutputHolds == Spec => []DoneHasOutput
<1>1. AgentInv => DoneHasOutput
  BY DEF AgentInv
<1> QED
  BY <1>1, AgentInvariance, PTL

\* As long as _execute catches every exception, 409 is answered only while a
\* thread is at work.
THEOREM BusyMeansWorkingHolds == Spec => []BusyMeansWorking
<1>1. AgentInv => BusyMeansWorking
  BY DEF AgentInv
<1> QED
  BY <1>1, AgentInvariance, PTL

\* A status DONE or FAILED is left only by a cancel or by the end of the session.
THEOREM RenderOutcomeIsKeptHolds == Spec => RenderOutcomeIsKept
<1> DEFINE Kept ==
      \A id \in RemoteIds :
         status[id] \in {"DONE", "FAILED"} /\ status'[id] # status[id] /\ up'
            => status'[id] = "CANCELLED" /\ id \in cancelling
<1>1. AgentInv /\ [Next]_<<agentState, events>> => [Kept]_<<agentState, events>>
  <2> SUFFICES ASSUME AgentInv, Next PROVE Kept
    OBVIOUS
  <2> USE DEF AgentInv, ThreadsTypeOK, ThreadOK
  <2>1. ASSUME NEW id \in RemoteIds, RunJob(id) \/ JobCancelRead(id) \/ JobCancelWrite(id)
        PROVE  Kept
    BY <2>1 DEF RunJob, JobCancelRead, JobCancelWrite
  <2>2. ASSUME NEW id \in RemoteIds, Execute(id) \/ ThreadDies(id)
        PROVE  Kept
    BY <2>2 DEF Execute, Begin, SubmitPrompt, PrepareFails, HistoryFound, WaitFails,
                FetchOutput, FetchFails, SetDone, ThreadDies, GoOn, EndThread
  <2>3. ASSUME NEW id \in RemoteIds, PromptStarts(id) \/ PromptEnds(id)
        PROVE  Kept
    BY <2>3 DEF PromptStarts, PromptEnds
  <2>4. CASE SessionEnds \/ SessionStarts
    BY <2>4 DEF SessionEnds, SessionStarts
  <2> QED
    BY <2>1, <2>2, <2>3, <2>4 DEF Next, AgentStep
<1> QED
  BY <1>1, AgentInvariance, PTL DEF Spec, RenderOutcomeIsKept

-----------------------------------------------------------------------------
(* Without cancels the agent implements the one the scheduler is modelled  *)
(* against.                                                                *)

\* The status says where the thread is.
ThreadShown ==
    /\ cancelling = {}
    /\ \A id \in RemoteIds :
          /\ thread[id] = "new" => status[id] = "QUEUED"
          /\ thread[id] \in {"prepare", "wait", "fetch", "done"} => status[id] = "RUNNING"

LEMMA ThreadShownStep ==
    ASSUME ThreadsTypeOK, ThreadShown, ~Unseen, [Next]_<<agentState, events>>
    PROVE  ThreadShown'
<1> USE DEF ThreadsTypeOK, ThreadShown, Unseen
<1>1. ASSUME NEW id \in RemoteIds, RunJob(id) \/ JobCancelRead(id) \/ JobCancelWrite(id)
      PROVE  ThreadShown'
  BY <1>1 DEF RunJob, JobCancelRead, JobCancelWrite
<1>2. ASSUME NEW id \in RemoteIds, Execute(id) \/ ThreadDies(id)
      PROVE  ThreadShown'
  BY <1>2 DEF Execute, Begin, SubmitPrompt, PrepareFails, HistoryFound, WaitFails,
              FetchOutput, FetchFails, SetDone, ThreadDies, GoOn, EndThread
<1>3. ASSUME NEW id \in RemoteIds, PromptStarts(id) \/ PromptEnds(id)
      PROVE  ThreadShown'
  BY <1>3 DEF PromptStarts, PromptEnds
<1>4. CASE SessionEnds \/ SessionStarts \/ UNCHANGED <<agentState, events>>
  BY <1>4 DEF SessionEnds, SessionStarts, agentState
<1> QED
  BY <1>1, <1>2, <1>3, <1>4 DEF Next, AgentStep

LEMMA OneWorker == Pool!Workers = {1}
BY DEF Pool!Workers

LEMMA PoolInit == Init => Pool!AgentInit
BY OneWorker DEF Init, Pool!AgentInit, Pool!Forgotten, Pool!RemoteIds, RemoteIds,
                 Pool!Jobs, Jobs, Pool!Attempts, Attempts, ShownStatus

LEMMA PoolIdle ==
    ASSUME Unseen, UNCHANGED events
    PROVE  UNCHANGED Pool!agentVars
BY DEF Unseen, ShownStatus, Pool!agentVars

LEMMA PoolStep ==
    ASSUME ThreadsTypeOK, ThreadShown, ~Unseen, [Next]_<<agentState, events>>
    PROVE  [Pool!AgentNext]_(Pool!agentVars)
<1>u. UNCHANGED events /\ ~Unseen /\ ~Unseen'
  BY DEF Next, Unseen
<1> USE <1>u, OneWorker DEF ThreadsTypeOK, ThreadShown, ShownStatus
<1>0. Pool!RemoteIds = RemoteIds
  BY DEF Pool!RemoteIds, RemoteIds, Pool!Jobs, Jobs, Pool!Attempts, Attempts
<1>1. ASSUME NEW id \in RemoteIds, RunJob(id)
      PROVE  Pool!Accept(1, id)
  BY <1>0, <1>1 DEF RunJob, Busy, Pool!Accept, Pool!AgentBusy
<1>2. ASSUME NEW id \in RemoteIds, Begin(id)
      PROVE  Pool!ExecuteStart(1, id)
  BY <1>2 DEF Begin, Pool!ExecuteStart
<1>3. ASSUME NEW id \in RemoteIds,
             PrepareFails(id) \/ WaitFails(id) \/ FetchFails(id) \/ SetDone(id)
      PROVE  Pool!ExecuteEnd(1, id)
  <2>1. CASE PrepareFails(id)
    BY <2>1 DEF PrepareFails, EndThread, Pool!ExecuteEnd
  <2>2. CASE WaitFails(id)
    BY <2>2 DEF WaitFails, EndThread, Pool!ExecuteEnd
  <2>3. CASE FetchFails(id)
    BY <2>3 DEF FetchFails, EndThread, Pool!ExecuteEnd
  <2>4. CASE SetDone(id)
    BY <2>4 DEF SetDone, EndThread, Pool!ExecuteEnd
  <2> QED
    BY <1>3, <2>1, <2>2, <2>3, <2>4
<1>4. ASSUME NEW id \in RemoteIds,
             \/ SubmitPrompt(id) \/ HistoryFound(id) \/ FetchOutput(id)
             \/ ThreadDies(id) \/ PromptStarts(id) \/ PromptEnds(id)
             \/ JobCancelRead(id) \/ JobCancelWrite(id)
      PROVE  UNCHANGED Pool!agentVars
  BY <1>4 DEF SubmitPrompt, HistoryFound, FetchOutput, ThreadDies, GoOn,
              PromptStarts, PromptEnds, JobCancelRead, JobCancelWrite, Pool!agentVars
<1>5. ASSUME SessionEnds
      PROVE  Pool!AgentDies(1)
  BY <1>0, <1>5 DEF SessionEnds, Pool!AgentDies, Pool!Forgotten
<1>6. ASSUME SessionStarts
      PROVE  Pool!AgentRestarts(1)
  BY <1>6 DEF SessionStarts, Pool!AgentRestarts
<1>7. ASSUME UNCHANGED <<agentState, events>>
      PROVE  UNCHANGED Pool!agentVars
  BY <1>7 DEF agentState, Pool!agentVars
<1> QED
  BY <1>0, <1>1, <1>2, <1>3, <1>4, <1>5, <1>6, <1>7 DEF Next, AgentStep, Execute, Pool!AgentNext

\* What the scheduler's model assumes of an agent (AgentPool) is what the
\* agent does, as long as nobody cancels a render.
THEOREM AgentImplementsPool == Spec => ImplementsAgentPool
<1> DEFINE Shown == Unseen \/ ThreadShown
<1>1. Init => Shown
  BY DEF Init, ThreadShown
<1>2. AgentInv => ThreadsTypeOK
  BY DEF AgentInv
<1>3. ThreadsTypeOK /\ Shown /\ [Next]_<<agentState, events>> => Shown'
  BY ThreadShownStep DEF Next, Unseen
<1>4. ThreadsTypeOK /\ Shown /\ [Next]_<<agentState, events>>
          => [Pool!AgentNext]_(Pool!agentVars)
  <2> SUFFICES ASSUME ThreadsTypeOK, Shown, [Next]_<<agentState, events>>
               PROVE  [Pool!AgentNext]_(Pool!agentVars)
    OBVIOUS
  <2>1. CASE Unseen
    <3>1. UNCHANGED events
      BY DEF Next
    <3> QED
      BY <2>1, <3>1, PoolIdle
  <2>2. CASE ~Unseen
    BY <2>2, PoolStep
  <2> QED
    BY <2>1, <2>2
<1> HIDE DEF Shown
<1> QED
  BY <1>1, <1>2, <1>3, <1>4, PoolInit, AgentInvariance, PTL
  DEF Spec, ImplementsAgentPool, Pool!AgentSpec
=============================================================================
