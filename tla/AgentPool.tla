----------------------------- MODULE AgentPool ------------------------------
(***************************************************************************)
(* What the controller can observe of the worker agents (worker/agent.py), *)
(* one per GPU: whether the process answers, and the in-memory table of    *)
(* renders it has accepted.  The agent keeps nothing on disk, so a restart *)
(* forgets every render.                                                   *)
(***************************************************************************)
EXTENDS Domain

VARIABLES
    alive,    \* agents whose process and tunnel are up
    render    \* render[w][id]: RunnableJob.status, or "NONE" when unknown to w

agentVars == <<alive, render>>

RenderStatus == {"NONE", "QUEUED", "RUNNING", "DONE", "FAILED"}

Forgotten == [id \in RemoteIds |-> "NONE"]

AgentInit ==
    /\ alive = Workers
    /\ render = [w \in Workers |-> Forgotten]

AgentTypeOK ==
    /\ alive \subseteq Workers
    /\ render \in [Workers -> [RemoteIds -> RenderStatus]]

\* run_job refuses with 409 while one of its jobs is RUNNING.  A job already
\* accepted whose thread has not run yet is still QUEUED and does not count.
AgentBusy(w) == \E id \in RemoteIds : render[w][id] = "RUNNING"

Live(w, id) == render[w][id] \in {"QUEUED", "RUNNING"}

\* run_job: the render enters the table and its thread is started
Accept(w, id) ==
    /\ w \in alive
    /\ ~AgentBusy(w)
    /\ render' = [render EXCEPT ![w][id] = "QUEUED"]
    /\ UNCHANGED alive

\* _execute: first statement of the render thread
ExecuteStart(w, id) ==
    /\ render[w][id] = "QUEUED"
    /\ render' = [render EXCEPT ![w][id] = "RUNNING"]
    /\ UNCHANGED alive

\* _execute: the video was produced, or an error or the timeout was recorded
ExecuteEnd(w, id) ==
    /\ render[w][id] = "RUNNING"
    /\ \E s \in {"DONE", "FAILED"} : render' = [render EXCEPT ![w][id] = s]
    /\ UNCHANGED alive

\* The notebook session ends, with everything in its memory.
AgentDies(w) ==
    /\ w \in alive
    /\ alive' = alive \ {w}
    /\ render' = [render EXCEPT ![w] = Forgotten]

AgentRestarts(w) ==
    /\ w \notin alive
    /\ alive' = alive \cup {w}
    /\ UNCHANGED render

-----------------------------------------------------------------------------
(* The agents on their own, for any controller: what WorkerAgent is shown   *)
(* to implement.                                                           *)

AgentNext ==
    \E w \in Workers :
        \/ \E id \in RemoteIds : Accept(w, id) \/ ExecuteStart(w, id) \/ ExecuteEnd(w, id)
        \/ AgentDies(w)
        \/ AgentRestarts(w)

AgentSpec == AgentInit /\ [][AgentNext]_agentVars
=============================================================================
