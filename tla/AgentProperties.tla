-------------------------- MODULE AgentProperties ---------------------------
(***************************************************************************)
(* What an agent promises to whoever submits renders to it.                *)
(***************************************************************************)
EXTENDS WorkerAgent

\* A render that is reported DONE has a file, and its own prompt produced it
\* (_execute sets result_path before the status, and DONE only after a fetch),
\* however many renders were accepted before one was RUNNING.  Whether
\* that file is the .mp4 or what download_output falls back to is not told apart.
DoneHasOutput ==
    \A id \in RemoteIds :
        status[id] = "DONE" => id \in result_path /\ prompt[id] = "files"

\* 409 "worker busy" has a reason: as long as every exception is one _execute
\* catches, a job is RUNNING only while its thread is at work.
BusyMeansWorking ==
    "uncaught" \notin events =>
        \A id \in RemoteIds : status[id] = "RUNNING" => thread[id] # "none"

\* What was reported DONE or FAILED changes only through a cancel: neither a
\* late answer of ComfyUI nor a timeout rewrites the outcome.
RenderOutcomeIsKept ==
    [][\A id \in RemoteIds :
         status[id] \in {"DONE", "FAILED"} /\ status'[id] # status[id] /\ up'
            => status'[id] = "CANCELLED" /\ id \in cancelling]_<<agentState, events>>

\* Every accepted render ends for good, although ComfyUI may hang and cancels
\* race with the thread: the agent is not lost to a render.  (A thread that dies
\* of an uncaught exception and the end of the session are left out.)
RenderEnds ==
    \A id \in RemoteIds :
        status[id] = "QUEUED" /\ events \subseteq {"cancel"} ~> [](status[id] \in Ended)

\* The agent as the controller sees it.  The mapping hides threads and ComfyUI;
\* the controller never cancels a render, so a behaviour with cancels says nothing
\* about the pool and shows it idle.
Unseen == "cancel" \in events

ShownStatus == IF Unseen THEN [id \in RemoteIds |-> "NONE"] ELSE status

Pool == INSTANCE AgentPool WITH
            NumWorkers <- 1,
            alive <- IF up \/ Unseen THEN {1} ELSE {},
            render <- [w \in {1} |-> ShownStatus]

\* As long as nobody cancels a render, the agent is one the scheduler's model
\* (AgentPool) allows: a 409 only while a render is RUNNING, an outcome only after
\* it, nothing kept across a restart.
ImplementsAgentPool == Pool!AgentSpec
=============================================================================
