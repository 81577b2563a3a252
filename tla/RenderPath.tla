----------------------------- MODULE RenderPath ------------------------------
(***************************************************************************)
(* The way of the pictures of a job from the client to the rendered video. *)
(* They are handed on by file name through three flat directories, none of *)
(* them per job: the controller's uploads (controller/storage.py,          *)
(* api/jobs.py), the input directory of the agent (_submit of the          *)
(* scheduler, /jobs/input of worker/agent.py) and ComfyUI's input          *)
(* directory (_execute, worker/comfy_client.py); ComfyUI opens a file only *)
(* when it renders the prompt that names it.                               *)
(*                                                                         *)
(* API threads, the scheduler thread, the agent's render threads and       *)
(* ComfyUI interleave file by file; a file is read and written in a step.  *)
(* There is one agent.  Which job is dispatched when is Scheduler's        *)
(* matter: here any queued job may be next.                                *)
(***************************************************************************)
EXTENDS Canvas, Sequences

CONSTANTS
    NumJobs,
    MaxTries,     \* bound: attempts of a job (max_retries + 1)
    Names,        \* file names
    Stocked,      \* names that are in the upload store from the start
    Plans         \* for each behaviour, what the client of each job asks for

Jobs == 1 .. NumJobs
Tries == 1 .. MaxTries
Renders == Jobs \X Tries

\* Who wrote a file: a job's client, or somebody before all jobs.
NoFile == 0
Earlier == NumJobs + 1
Writers == {NoFile, Earlier} \cup Jobs

NoName == ""
NoRequest == [route |-> "none"]

Option(name) == IF name = NoName THEN <<>> ELSE <<name>>

Of(role, names) == [k \in 1 .. Len(names) |-> <<role, names[k]>>]

\* The pictures a request names, in the order _submit stages them: frames for
\* every workflow, the others for the workflow that takes them.
FilesOf(r) ==
    Of("first", Option(r.first)) \o Of("last", Option(r.last))
    \o CASE r.workflow = FL2VA -> <<>>
         [] r.workflow = R2V -> Of("ref", r.refs)
         [] r.workflow = Multishot -> Of("start", Option(r.start)) \o Of("ref", r.refs)

\* The roles the workflow makes use of.
Roles(r) ==
    CASE r.workflow = FL2VA -> {"first", "last"}
      [] r.workflow = R2V -> {"ref"}
      [] r.workflow = Multishot -> {"start", "ref"}

\* JobCreate, or the form of the multipart handler, which knows FL2VA only.
Requests ==
    {r \in [route : {"multipart", "json"}, workflow : {FL2VA, R2V, Multishot},
            first : Names \cup {NoName}, last : Names \cup {NoName},
            start : Names \cup {NoName}, refs : Seq(Names),
            half : Nat, width : Nat \cup {Unset}, height : Nat \cup {Unset},
            shot : Nat \cup {Unset}, script : BOOLEAN, turbo : BOOLEAN, pdd : BOOLEAN, cache : BOOLEAN] :
        r.route = "multipart" => r.workflow = FL2VA /\ r.first # NoName}

ASSUME RenderPathAssumption ==
    /\ NumJobs \in Nat /\ MaxTries \in Nat \ {0}
    /\ Stocked \subseteq Names
    /\ NoName \notin Names
    /\ \A plan \in Plans :
          /\ DOMAIN plan = Jobs
          /\ \A j \in Jobs : plan[j] = NoRequest \/ plan[j] \in Requests

VARIABLES
    request,   \* request[j]: what the client of job j asks for
    phase,     \* how far job j is
    tries,     \* its attempts
    uploads,   \* the upload store: who wrote the file of a name
    sjob,      \* the job _submit has in hand
    todo,      \* the files it has still to stage
    staged,    \* the files it has staged
    inputs,    \* the agent's input directory
    thread,    \* the render thread of an attempt
    left,      \* the pictures it has still to give to ComfyUI
    pics,      \* the pictures it has given to ComfyUI
    comfy,     \* ComfyUI's input directory
    prompt,    \* the prompt in ComfyUI's queue: <<the pictures of its graph>>
    rendered   \* the files ComfyUI opened for it, and who wrote them

clientVars == <<request, phase, tries, uploads>>
submitVars == <<sjob, todo, staged>>
agentVars == <<inputs, thread, left, pics>>
comfyVars == <<comfy, prompt, rendered>>
vars == <<clientVars, submitVars, agentVars, comfyVars>>

NoPrompt == <<>>
NotRendered == {}

\* "saving" and "saved": the multipart handler has written the first, the last
\* frame.  "ended" stands for an outcome and for being stuck.
Phase == {"none", "saving", "saved", "QUEUED", "STARTING", "RUNNING", "ended"}

Role == {"first", "last", "start", "ref"}
Picture == Role \X Names

Init ==
    /\ request \in Plans
    /\ phase = [j \in Jobs |-> "none"]
    /\ tries = [j \in Jobs |-> 0]
    /\ uploads = [n \in Names |-> IF n \in Stocked THEN Earlier ELSE NoFile]
    /\ sjob = 0
    /\ todo = <<>>
    /\ staged = <<>>
    /\ inputs = [n \in Names |-> NoFile]
    /\ thread = [id \in Renders |-> "none"]
    /\ left = [id \in Renders |-> <<>>]
    /\ pics = [id \in Renders |-> <<>>]
    /\ comfy = [n \in Names |-> NoFile]
    /\ prompt = [id \in Renders |-> NoPrompt]
    /\ rendered = [id \in Renders |-> NotRendered]

RenderPathTypeOK ==
    /\ phase \in [Jobs -> Phase]
    /\ tries \in [Jobs -> 0 .. MaxTries]
    /\ uploads \in [Names -> Writers]
    /\ sjob \in Jobs \cup {0}
    /\ todo \in Seq(Picture) /\ staged \in Seq(Picture)
    /\ inputs \in [Names -> Writers]
    /\ thread \in [Renders -> {"none", "new", "prepare", "wait", "ended"}]
    /\ left \in [Renders -> Seq(Picture)] /\ pics \in [Renders -> Seq(Picture)]
    /\ comfy \in [Names -> Writers]
    /\ prompt \in [Renders -> Seq(Seq(Picture))]
    /\ rendered \in [Renders -> SUBSET (Names \X Writers)]

-----------------------------------------------------------------------------
(* The client and the API threads.  The multipart handler writes the files  *)
(* one by one before it inserts the job; a JSON body only names files.      *)

Write(n, j) == uploads' = [uploads EXCEPT ![n] = j]

SaveFirst(j) ==
    /\ request[j].route = "multipart"
    /\ phase[j] = "none"
    /\ Write(request[j].first, j)
    /\ phase' = [phase EXCEPT ![j] = IF request[j].last = NoName THEN "saved" ELSE "saving"]
    /\ UNCHANGED <<request, tries, submitVars, agentVars, comfyVars>>

SaveLast(j) ==
    /\ phase[j] = "saving"
    /\ Write(request[j].last, j)
    /\ phase' = [phase EXCEPT ![j] = "saved"]
    /\ UNCHANGED <<request, tries, submitVars, agentVars, comfyVars>>

\* Mutant of CreateJob: the row is inserted before the files are written.
CreateJobFirst(j) ==
    /\ request[j].route \in {"json", "multipart"} /\ phase[j] = "none"
    /\ phase' = [phase EXCEPT ![j] = "QUEUED"]
    /\ UNCHANGED <<request, tries, uploads, submitVars, agentVars, comfyVars>>

CreateJob(j) ==
    /\ \/ request[j].route = "json" /\ phase[j] = "none"
       \/ phase[j] = "saved"
    /\ phase' = [phase EXCEPT ![j] = "QUEUED"]
    /\ UNCHANGED <<request, tries, uploads, submitVars, agentVars, comfyVars>>

-----------------------------------------------------------------------------
(* The scheduler thread: _submit.                                          *)

\* Mutant of Over: one retry too many.
OverAgain(j) ==
    \E p \in {"ended"} \cup {q \in {"QUEUED"} : tries[j] <= MaxTries} :
        phase' = [phase EXCEPT ![j] = p]

\* An attempt is over: the job is queued again or it is not.
Over(j) ==
    \E p \in {"ended"} \cup {q \in {"QUEUED"} : tries[j] < MaxTries} :
        phase' = [phase EXCEPT ![j] = p]

EmptyHands == sjob' = 0 /\ todo' = <<>> /\ staged' = <<>>

PickJob(j) ==
    /\ sjob = 0
    /\ phase[j] = "QUEUED"
    /\ phase' = [phase EXCEPT ![j] = "STARTING"]
    /\ tries' = [tries EXCEPT ![j] = @ + 1]
    /\ sjob' = j
    /\ todo' = FilesOf(request[j])
    /\ staged' = <<>>
    /\ UNCHANGED <<request, uploads, agentVars, comfyVars>>

\* Mutant of StageFile: what was staged last comes first.
StageFileInFront ==
    /\ sjob # 0 /\ todo # <<>>
    /\ LET n == Head(todo)[2] IN
          /\ uploads[n] # NoFile
          /\ inputs' = [inputs EXCEPT ![n] = uploads[n]]
    /\ staged' = IF Head(todo)[1] \in Roles(request[sjob])
                 THEN <<Head(todo)>> \o staged ELSE staged
    /\ todo' = Tail(todo)
    /\ UNCHANGED <<clientVars, sjob, thread, left, pics, comfyVars>>

\* _upload_to_worker and the agent's upload_input, which keep the file's name.
StageFile ==
    /\ sjob # 0 /\ todo # <<>>
    /\ LET n == Head(todo)[2] IN
          /\ uploads[n] # NoFile
          /\ inputs' = [inputs EXCEPT ![n] = uploads[n]]
    /\ staged' = IF Head(todo)[1] \in Roles(request[sjob])
                 THEN Append(staged, Head(todo)) ELSE staged
    /\ todo' = Tail(todo)
    /\ UNCHANGED <<clientVars, sjob, thread, left, pics, comfyVars>>

\* A file that is not there is passed over without a word.
SkipFile ==
    /\ sjob # 0 /\ todo # <<>>
    /\ uploads[Head(todo)[2]] = NoFile
    /\ todo' = Tail(todo)
    /\ UNCHANGED <<clientVars, sjob, staged, agentVars, comfyVars>>

\* FL2VA needs a first frame, which is also the last one if there is no other.
FrameOK(r, files) ==
    r.workflow = FL2VA => files # <<>> /\ files[1][1] = "first"

Completed(r, files) ==
    IF r.workflow = FL2VA /\ Len(files) = 1
    THEN Append(files, <<"last", files[1][2]>>) ELSE files

\* run_job: only a thread at work makes the agent busy.
AgentBusy == \E id \in Renders : thread[id] \in {"prepare", "wait"}

\* client.submit, accepted; the answer may be lost.
Submit ==
    /\ sjob # 0 /\ todo = <<>>
    /\ FrameOK(request[sjob], staged)
    /\ ~AgentBusy
    /\ LET id == <<sjob, tries[sjob]>> IN
          /\ thread' = [thread EXCEPT ![id] = "new"]
          /\ left' = [left EXCEPT ![id] = Completed(request[sjob], staged)]
    /\ phase' = [phase EXCEPT ![sjob] = "RUNNING"] \/ Over(sjob)
    /\ EmptyHands
    /\ UNCHANGED <<request, tries, uploads, inputs, pics, comfyVars>>

\* An upload or the submission fails, or the agent is busy.
SubmitFails ==
    /\ sjob # 0
    /\ Over(sjob)
    /\ EmptyHands
    /\ UNCHANGED <<request, tries, uploads, agentVars, comfyVars>>

\* The render is done with, or the controller gives it up while it goes on.
Settle(j) ==
    /\ phase[j] = "RUNNING"
    /\ Over(j)
    /\ UNCHANGED <<request, tries, uploads, submitVars, agentVars, comfyVars>>

-----------------------------------------------------------------------------
(* The agent: _execute.                                                    *)

Begin(id) ==
    /\ thread[id] = "new"
    /\ thread' = [thread EXCEPT ![id] = "prepare"]
    /\ UNCHANGED <<clientVars, submitVars, inputs, left, pics, comfyVars>>

\* upload_image overwrites; a file that is not staged is passed over.
UploadImage(id) ==
    /\ thread[id] = "prepare" /\ left[id] # <<>>
    /\ LET picture == Head(left[id])
           n == picture[2]
       IN  IF inputs[n] = NoFile THEN UNCHANGED <<comfy, pics>>
           ELSE /\ comfy' = [comfy EXCEPT ![n] = inputs[n]]
                /\ pics' = [pics EXCEPT ![id] = Append(@, picture)]
    /\ left' = [left EXCEPT ![id] = Tail(@)]
    /\ UNCHANGED <<clientVars, submitVars, inputs, thread, prompt, rendered>>

\* Without pictures the controller has already built the graph, unless its
\* adapter raised: then the agent's adapter is asked, with its own defaults.
Builder(r, files) ==
    IF r.workflow # FL2VA /\ files = <<>> /\ Builds(r, "controller")
    THEN "controller" ELSE "agent"

\* Mutant of SubmitPrompt: the graph is submitted before the uploads.
SubmitPromptAtOnce(id) ==
    LET r == request[id[1]]
        files == Completed(r, pics[id] \o left[id])
    IN  /\ thread[id] = "prepare"
        /\ Builds(r, Builder(r, files))
        /\ prompt' = [prompt EXCEPT ![id] = <<files>>]
        /\ thread' = [thread EXCEPT ![id] = "wait"]
        /\ UNCHANGED <<clientVars, submitVars, inputs, left, pics, comfy, rendered>>

\* ComfyUI may have queued the prompt although the agent was told nothing.
SubmitPrompt(id) ==
    LET r == request[id[1]]
        files == Completed(r, pics[id])
    IN  /\ thread[id] = "prepare" /\ left[id] = <<>>
        /\ FrameOK(r, files) /\ Builds(r, Builder(r, files))
        /\ prompt' = [prompt EXCEPT ![id] = <<files>>]
        /\ \E t \in {"wait", "ended"} : thread' = [thread EXCEPT ![id] = t]
        /\ UNCHANGED <<clientVars, submitVars, inputs, left, pics, comfy, rendered>>

\* A call to ComfyUI fails, the adapter raises, or the wait is over.
EndThread(id) ==
    /\ thread[id] \in {"prepare", "wait"}
    /\ thread' = [thread EXCEPT ![id] = "ended"]
    /\ UNCHANGED <<clientVars, submitVars, inputs, left, pics, comfyVars>>

-----------------------------------------------------------------------------
(* ComfyUI.                                                                *)

\* The adapters load at most three references for R2V, nine for multishot.
Shown(r, files) ==
    CASE r.workflow = FL2VA -> 2
      [] r.workflow = R2V -> 3
      [] r.workflow = Multishot ->
            IF files # <<>> /\ files[1][1] = "start" THEN 10 ELSE 9

Loaded(r, files) ==
    {files[k][2] : k \in {k \in 1 .. Len(files) : k <= Shown(r, files)}}

RenderPrompt(id) ==
    /\ prompt[id] # NoPrompt
    /\ rendered[id] = NotRendered
    /\ rendered' = [rendered EXCEPT ![id] =
           {<<n, comfy[n]>> : n \in Loaded(request[id[1]], prompt[id][1])}]
    /\ UNCHANGED <<clientVars, submitVars, agentVars, comfy, prompt>>

-----------------------------------------------------------------------------

Next ==
    \/ \E j \in Jobs : \/ SaveFirst(j) \/ SaveLast(j) \/ CreateJob(j)
                       \/ PickJob(j) \/ Settle(j)
    \/ StageFile \/ SkipFile \/ Submit \/ SubmitFails
    \/ \E id \in Renders : \/ Begin(id) \/ UploadImage(id) \/ SubmitPrompt(id)
                           \/ EndThread(id) \/ RenderPrompt(id)

Spec == Init /\ [][Next]_vars
=============================================================================
