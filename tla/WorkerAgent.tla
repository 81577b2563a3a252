---------------------------- MODULE WorkerAgent -----------------------------
(***************************************************************************)
(* One worker agent (worker/agent.py) with its ComfyUI: the HTTP handlers  *)
(* that accept and cancel renders, one thread per accepted render, and the *)
(* prompt queue of the local ComfyUI, which renders one prompt at a time   *)
(* and is reached by HTTP (worker/comfy_client.py).  The handlers run in a *)
(* pool of threads and only run_job takes the lock.                        *)
(***************************************************************************)
EXTENDS Domain

AgentEventKind == {
    "cancel",    \* POST /jobs/{id}/cancel
    "uncaught",  \* an exception _execute does not catch
    "death"}     \* the notebook session ends

CONSTANT AgentEventSets   \* the sets of events the instance is looked at under

ASSUME AgentEventsAssumption == AgentEventSets \subseteq SUBSET AgentEventKind

VARIABLES
    events,        \* the events this behaviour admits
    up,            \* the process runs
    status,        \* RunnableJob.status, or "NONE" for an id never accepted
    prompt_id,     \* renders whose RunnableJob has a prompt_id
    result_path,   \* renders whose RunnableJob has a result_path
    thread,        \* where the thread that runs _execute is
    cancelling,    \* job_cancel requests that have still to write the status
    prompt         \* the state of a render's prompt in ComfyUI

agentState == <<up, status, prompt_id, result_path, thread, cancelling, prompt>>

JobState == {"NONE", "QUEUED", "RUNNING", "DONE", "FAILED", "CANCELLED"}
Ended == {"DONE", "FAILED", "CANCELLED"}

\* Not started or ended; started by run_job; staging and building the graph;
\* in wait_for_history; in download_output; about to set DONE.
ThreadState == {"none", "new", "prepare", "wait", "fetch", "done"}

\* "files" and "nofile": in the history, with outputs to fetch (the .mp4, sound or
\* pictures) and with none.
PromptState == {"none", "pending", "rendering", "files", "nofile"}

Init ==
    /\ events \in AgentEventSets
    /\ up = TRUE
    /\ status = [id \in RemoteIds |-> "NONE"]
    /\ prompt_id = {}
    /\ result_path = {}
    /\ thread = [id \in RemoteIds |-> "none"]
    /\ cancelling = {}
    /\ prompt = [id \in RemoteIds |-> "none"]

ThreadsTypeOK ==
    /\ events \in SUBSET AgentEventKind
    /\ up \in BOOLEAN
    /\ status \in [RemoteIds -> JobState]
    /\ prompt_id \subseteq RemoteIds
    /\ result_path \subseteq RemoteIds
    /\ thread \in [RemoteIds -> ThreadState]
    /\ cancelling \subseteq RemoteIds
    /\ prompt \in [RemoteIds -> PromptState]

-----------------------------------------------------------------------------
(* POST /jobs.  Under the lock a render that is RUNNING is refused with     *)
(* 409; an accepted one gets a fresh id and a thread.                       *)

Busy == \E id \in RemoteIds : status[id] = "RUNNING"

\* Mutant of RunJob: the busy check is dropped.
RunJobAnyway(id) ==
    /\ up
    /\ status[id] = "NONE"
    /\ status' = [status EXCEPT ![id] = "QUEUED"]
    /\ thread' = [thread EXCEPT ![id] = "new"]
    /\ UNCHANGED <<up, prompt_id, result_path, cancelling, prompt>>

RunJob(id) ==
    /\ up
    /\ status[id] = "NONE"
    /\ ~Busy
    /\ status' = [status EXCEPT ![id] = "QUEUED"]
    /\ thread' = [thread EXCEPT ![id] = "new"]
    /\ UNCHANGED <<up, prompt_id, result_path, cancelling, prompt>>

-----------------------------------------------------------------------------
(* The thread of a render: _execute.                                       *)

\* The thread goes on, its job's status as it is.
GoOn(id, from, to) ==
    /\ thread[id] = from
    /\ thread' = [thread EXCEPT ![id] = to]
    /\ UNCHANGED <<up, status, cancelling>>

\* The thread ends and leaves the status s.
EndThread(id, from, s) ==
    /\ thread[id] = from
    /\ thread' = [thread EXCEPT ![id] = "none"]
    /\ status' = [status EXCEPT ![id] = s]
    /\ UNCHANGED <<up, prompt_id, result_path, cancelling>>

\* The first statement, whatever the status has become since run_job.
Begin(id) ==
    /\ thread[id] = "new"
    /\ thread' = [thread EXCEPT ![id] = "prepare"]
    /\ status' = [status EXCEPT ![id] = "RUNNING"]
    /\ UNCHANGED <<up, prompt_id, result_path, cancelling, prompt>>

SubmitPrompt(id) ==
    /\ GoOn(id, "prepare", "wait")
    /\ prompt_id' = prompt_id \cup {id}
    /\ prompt' = [prompt EXCEPT ![id] = "pending"]
    /\ UNCHANGED result_path

\* Mutant of PrepareFails: the return after the failure is forgotten.
PrepareFailsOn(id) ==
    /\ thread[id] = "prepare"
    /\ thread' = [thread EXCEPT ![id] = "wait"]
    /\ status' = [status EXCEPT ![id] = "FAILED"]
    /\ prompt' \in {prompt, [prompt EXCEPT ![id] = "pending"]}
    /\ UNCHANGED <<up, prompt_id, result_path, cancelling>>

\* Staging, the graph or the submission fails; ComfyUI may have queued the
\* prompt of a submission whose answer is lost.
PrepareFails(id) ==
    /\ EndThread(id, "prepare", "FAILED")
    /\ prompt' \in {prompt, [prompt EXCEPT ![id] = "pending"]}

HistoryFound(id) ==
    /\ prompt[id] \in {"files", "nofile"}
    /\ GoOn(id, "wait", "fetch")
    /\ UNCHANGED <<prompt_id, result_path, prompt>>

\* Mutants of WaitFails: the thread gives up and says nothing; there is no
\* deadline.
WaitFailsSilently(id) ==
    GoOn(id, "wait", "none") /\ UNCHANGED <<prompt_id, result_path, prompt>>

WaitForEver(id) == thread[id] = "wait" /\ UNCHANGED agentState

\* The deadline passes or a call to ComfyUI fails.
WaitFails(id) == EndThread(id, "wait", "FAILED") /\ UNCHANGED prompt

\* Mutant of FetchOutput: the history entry is not looked at.
FetchAnything(id) ==
    /\ GoOn(id, "fetch", "done")
    /\ result_path' = result_path \cup {id}
    /\ UNCHANGED <<prompt_id, prompt>>

\* download_output takes the first .mp4, and if there is none the first file of
\* whatever kind; the agent makes no difference between the two.
FetchOutput(id) ==
    /\ prompt[id] = "files"
    /\ GoOn(id, "fetch", "done")
    /\ result_path' = result_path \cup {id}
    /\ UNCHANGED <<prompt_id, prompt>>

\* No file in the history entry, or /view answers with an error.
FetchFails(id) == EndThread(id, "fetch", "FAILED") /\ UNCHANGED prompt

\* Mutant of SetDone: the controller's word for it.
SetCompleted(id) == EndThread(id, "done", "COMPLETED") /\ UNCHANGED prompt

SetDone(id) == EndThread(id, "done", "DONE") /\ UNCHANGED prompt

\* Only ComfyError is caught around the wait and the download: a transport
\* error of /view, or of writing the file, ends the thread and nothing else.
ThreadDies(id) ==
    /\ "uncaught" \in events
    /\ \E s \in {"wait", "fetch"} : GoOn(id, s, "none")
    /\ UNCHANGED <<prompt_id, result_path, prompt>>

Execute(id) ==
    \/ Begin(id) \/ SubmitPrompt(id) \/ PrepareFails(id)
    \/ HistoryFound(id) \/ WaitFails(id)
    \/ FetchOutput(id) \/ FetchFails(id) \/ SetDone(id)

-----------------------------------------------------------------------------
(* POST /jobs/{id}/cancel.                                                 *)

\* A RUNNING job with a prompt has it deleted from ComfyUI's queue, which is
\* without effect on a prompt that is rendering; a failure is ignored.
JobCancelRead(id) ==
    /\ "cancel" \in events
    /\ up
    /\ status[id] # "NONE"
    /\ id \notin cancelling
    /\ cancelling' = cancelling \cup {id}
    /\ \/ UNCHANGED prompt
       \/ /\ status[id] = "RUNNING" /\ id \in prompt_id /\ prompt[id] = "pending"
          /\ prompt' = [prompt EXCEPT ![id] = "none"]
    /\ UNCHANGED <<up, status, prompt_id, result_path, thread>>

JobCancelWrite(id) ==
    /\ id \in cancelling
    /\ cancelling' = cancelling \ {id}
    /\ status' = [status EXCEPT ![id] = "CANCELLED"]
    /\ UNCHANGED <<up, prompt_id, result_path, thread, prompt>>

-----------------------------------------------------------------------------
(* ComfyUI, and the notebook session both live in.                          *)

PromptStarts(id) ==
    /\ prompt[id] = "pending"
    /\ \A i \in RemoteIds : prompt[i] # "rendering"
    /\ prompt' = [prompt EXCEPT ![id] = "rendering"]
    /\ UNCHANGED <<up, status, prompt_id, result_path, thread, cancelling>>

PromptEnds(id) ==
    /\ prompt[id] = "rendering"
    /\ \E s \in {"files", "nofile"} : prompt' = [prompt EXCEPT ![id] = s]
    /\ UNCHANGED <<up, status, prompt_id, result_path, thread, cancelling>>

SessionEnds ==
    /\ "death" \in events
    /\ up
    /\ up' = FALSE
    /\ status' = [id \in RemoteIds |-> "NONE"]
    /\ prompt_id' = {}
    /\ result_path' = {}
    /\ thread' = [id \in RemoteIds |-> "none"]
    /\ cancelling' = {}
    /\ prompt' = [id \in RemoteIds |-> "none"]

SessionStarts ==
    /\ ~up
    /\ up' = TRUE
    /\ UNCHANGED <<status, prompt_id, result_path, thread, cancelling, prompt>>

-----------------------------------------------------------------------------

AgentStep ==
    \/ \E id \in RemoteIds :
          \/ RunJob(id) \/ Execute(id) \/ ThreadDies(id)
          \/ JobCancelRead(id) \/ JobCancelWrite(id)
          \/ PromptStarts(id) \/ PromptEnds(id)
    \/ SessionEnds \/ SessionStarts

Next == AgentStep /\ UNCHANGED events

Spec == Init /\ [][Next]_<<agentState, events>>

\* A thread that can go on does, wait_for_history because of its deadline.
\* Nothing is assumed of ComfyUI.
FairSpec == Spec /\ \A id \in RemoteIds : WF_agentState(Execute(id))
=============================================================================
