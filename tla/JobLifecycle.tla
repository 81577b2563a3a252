---------------------------- MODULE JobLifecycle ----------------------------
(***************************************************************************)
(* What a client may rely on when it watches one job: the edges which the  *)
(* methods of JobManager (controller/jobs.py) draw between the statuses,   *)
(* with the two ways an attempt fails and the retry budget.  Nothing here  *)
(* knows of workers, threads, sessions or restarts; the scheduler is shown *)
(* to implement it.  No method writes the DOWNLOADING of that file's first *)
(* lines, so RUNNING leads to COMPLETED as in docs/ARCHITECTURE.md.        *)
(***************************************************************************)
EXTENDS Naturals

CONSTANTS
    Job,          \* the jobs clients may create
    MaxRetries    \* how many attempts may fail before the last one

VARIABLES
    phase,    \* phase[j]: the status a client reads
    tries,    \* tries[j]: how many attempts have begun
    error     \* error[j]: the class of the last failure, or "NONE"

lifeVars == <<phase, tries, error>>

Init ==
    /\ phase = [j \in Job |-> "ABSENT"]
    /\ tries = [j \in Job |-> 0]
    /\ error = [j \in Job |-> "NONE"]

\* One job moves from a status of the set "from" to "to", and nothing else.
Move(j, from, to) ==
    /\ phase[j] \in from
    /\ phase' = [phase EXCEPT ![j] = to]
    /\ UNCHANGED <<tries, error>>

Create(j) == Move(j, {"ABSENT"}, "QUEUED")

Begin(j) ==
    /\ phase[j] = "QUEUED"
    /\ tries[j] <= MaxRetries
    /\ phase' = [phase EXCEPT ![j] = "STARTING"]
    /\ tries' = [tries EXCEPT ![j] = @ + 1]
    /\ UNCHANGED error

Run(j) == Move(j, {"STARTING"}, "RUNNING")

\* An error that may go away costs the attempt, one that will not the job.
AttemptFails(j, class) ==
    /\ phase[j] \in {"STARTING", "RUNNING"}
    /\ phase' = [phase EXCEPT ![j] =
                    IF class = "PERMANENT" THEN "FAILED" ELSE "RETRYING"]
    /\ error' = [error EXCEPT ![j] = class]
    /\ UNCHANGED tries

Requeue(j) == tries[j] <= MaxRetries /\ Move(j, {"RETRYING"}, "QUEUED")

GiveUp(j) == tries[j] > MaxRetries /\ Move(j, {"RETRYING"}, "FAILED")

Finish(j) == Move(j, {"RUNNING"}, "COMPLETED")

Cancel(j) == Move(j, {"QUEUED", "STARTING", "RUNNING", "RETRYING"}, "CANCELLED")

Next ==
    \E j \in Job :
        \/ Create(j) \/ Begin(j) \/ Run(j) \/ Finish(j) \/ Cancel(j)
        \/ \E class \in {"TRANSIENT", "PERMANENT"} : AttemptFails(j, class)
        \/ Requeue(j) \/ GiveUp(j)

Spec == Init /\ [][Next]_lifeVars
=============================================================================
