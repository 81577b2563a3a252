# Verification of the MiniMax-H3 orchestrator

TLA+ models of the orchestrator in `src/`, checked with TLC on small instances,
and theorems about them proved with TLAPS for every value of the constants.

The orchestrator runs video renders on rented GPUs. A *controller* (one Python
process, SQLite) takes jobs over a REST API; its scheduler thread polls GPU
*workers*, dispatches queued jobs to them, and starts Kaggle or Colab notebooks
when no worker is ready. A *worker agent* runs beside ComfyUI on each GPU,
reached through a Cloudflare tunnel that the notebook's *runner* keeps alive.

Contents: 1 inventory · 2 modules and the code they model · 3 what the runs show
· 4 bounds, fairness and assumptions · 5 proofs · 6 disagreements between code
and documentation · 7 what is not modelled · 8 plan.

## 1. Inventory

| Component | State | Operations | What makes it correct |
|---|---|---|---|
| Scheduler (`controller/scheduler.py`) | its place in the tick, the lists it iterates over, `_in_flight` | `heartbeat_all`, `monitor_running`, `dispatch_job`, `_run_on`, `_complete`, `_maybe_retry`, `_recover_worker`, `_lazy_start` | every job settles within its retry budget; nobody renders a job twice; tables stay consistent between any two sessions |
| Job registry (`jobs.py`) | rows of `jobs`, `job_attempts`, `artifacts` | `create`, `set_status`, `assign`, `start_attempt`, `fail`, `complete`, `cancel`, `next_in_queue`, `retryable` | the job state diagram; outcomes are kept |
| Worker registry (`workers.py`) | rows of `workers` | `register`, `provisioned`, `mark_*`, `poll_health` | a row names a job exactly while it is BUSY, and frees it again |
| Account registry, providers (`accounts.py`, `providers.py`, `kaggle_manager.py`, `colab_manager.py`) | rows of `accounts`, `notebooks`; cached managers | `sync_from_config`, `start_notebook`, `ensure_notebook` | the cap holds, also for sessions whose start was reported failed; a start always ends |
| Store (`db.py`) | the SQLite file | `session` | a session is atomic |
| REST API (`main.py`, `api/`) | none | create, cancel, register, list, result | an answered cancel stays cancelled |
| Worker client (`worker_client.py`) | none | health, submit, status, download | classifies failures |
| Worker agent (`worker/agent.py`, `comfy_client.py`) | in-memory job table, ComfyUI's queue | `run_job`, `_execute`, `job_status`, `job_result`, `job_cancel`, `wait_for_history` | one render at a time; every accepted render ends |
| Runner, tunnels (`worker/runner.py`, `cloudflare.py`) | tunnel process and URL, registered URL | `_reconcile_worker`, `_keepalive_loop`, `_register` | the registered URL becomes the live one |
| Storage (`storage.py`) | upload and output directories | `write_output`, `save_upload`, `upload_path` | a path holds what its owner wrote |
| Input staging (`api/jobs.py`, `_submit`, `worker/agent.py`, `comfy_client.py`) | three directories: uploads, the agent's inputs, ComfyUI's inputs | multipart upload, `_upload_to_worker`, `upload_input`, `upload_image` | a job is rendered with its own pictures, in the order its client gave them |
| Workflow adapters (`workflow*.py`) | none | `build_prompt`, frame grid, resolution | the graph is executable for every combination of options; lengths and sizes are ones the model takes |
| Client SDK (`client/sdk.py`) | none | `create_video`, waiting loop | uploads of different users stay apart |
| Notebook builder, config, logging, GPU probe, dashboard, scripts | none, or local | text generation, parsing, sequential HTTP calls | – |

Interactions. The scheduler thread and the API's threads share the database and
nothing else; each manager method is one session. The scheduler calls agents over
HTTP between sessions, so every call may fail, be lost after it took effect, or
race with the agent's render thread. The runner calls `agents/register` at any
time. The controller may be killed at any point; the database and the files
survive. An agent keeps everything in memory.

Hard behaviours: a cancel between two sessions of the scheduler; the four
sessions that complete a job; the two that assign it; a lost reply to a
submission; a health miss during a render; agent death and return with an empty
table; exceptions that abandon the tick; priorities and the poll limit;
pictures that several jobs hand on by file name through directories none of which
is per job; prompt graphs put together from independent options. They are
listed, each at its line, under "hazards" in `PROJECT.json`.

## 2. Modules

```
Domain ── JobTable ──┐
       ── WorkerTable ─ Scheduler ─ SchedulerProperties ─ SchedulerInvariant ─ MCScheduler
       ── AgentPool ─┘                 │ (INSTANCE)             │
                                 JobLifecycle           SchedulerProofs
                                                       RenderProofs ┘  └ LifecycleProofs

Domain ── WorkerAgent ─ AgentProperties ─ MCAgent
                           │ (INSTANCE)  └ AgentProofs
                        AgentPool

TunnelKeepalive ─ TunnelProperties ─ MCTunnel, TunnelProofs
Provisioning ─ ProvisionProperties ─ MCProvision, ProvisionProofs

Canvas ─ RenderPath ────┐
       ─ WorkflowGraph ─ RenderPathProperties ─ MCRenderPath
                              └ GraphProofs ─ RenderPathProofs
```

* `Domain` – identities and enumerations of `constants.py`. Jobs are numbered by
  `created_at`, workers by id, because the queries order by those columns. An
  agent's job id is named by the attempt that asked for it (`<<job, attempt>>`):
  the code submits at most once per attempt.
* `JobTable` – one variable per column of `jobs`, plus the latest attempt's
  `prompt_id`, the output file and the artifact rows; one operator per method of
  `JobManager`. A method is one atomic write, except `cancel`: its SELECT takes no
  lock in SQLite, so `CancelRead` and `CancelWrite` are separate. The other
  methods overwrite blindly whatever they read, so their read does not matter.
* `WorkerTable` – the same for `WorkerManager`.
* `AgentPool` – what the controller can observe of the agents: alive or not, and
  the in-memory table of renders with the busy check of `run_job`.
* `Scheduler` – composes the three. `pc` names the call the scheduler thread is
  about to make; every action is one session or one HTTP call with the control
  flow that follows it.

| `pc` | Code | Actions |
|---|---|---|
| `sleep` | `_loop` waits | `Tick` |
| `heartbeat` | `heartbeat_all`, `poll_health`, `_recover_worker` | `HeartbeatReady`, `HeartbeatMiss`, `ListRunning` |
| `monitor` | `monitor_running`, `_poll`, `next_in_queue` | `PollNothing`, `PollDone`, `PollFailed`, `NextInQueue`, `QueueEmpty` |
| `download`, `artifact`, `complete`, `idle` | `_complete`, `_artifact` | `Download`, `DownloadFails`, `DiskFails`, `SaveArtifact`, `CompleteJob`, `FreeWorker` |
| `dispatch`, `pick` | `dispatch_job`, `pick_ready` | `DispatchJob`, `DispatchGone`, `PickReady`, `PickMiss`, `PickNone` |
| `assign`, `start`, `submit` | `_run_on`, `_submit`, `_upload_to_worker` | `AssignWorker`, `BeginAttempt`, `SubmitAccepted`, `SubmitRejected`, `SubmitReplyLost`, `UploadRaises` |
| `running`, `busy`, `note` | `_run_on` after a submission, `_note_remote` | `SetRunning`, `SetBusy`, `NoteRemote` |
| `fail`, `error` | `_run_on`'s handler | `FailAttempt`, `SetError` |
| `release`, `retry` | `_maybe_retry` | `ReleaseWorker`, `RetryOrFail` |
| any | API threads, agents, runner, the process | `CreateJob`, `CancelJobRead`, `CancelJobWrite`, `RegisterWorker`, `AgentStep`, `AgentLost`, `AgentBack`, `Crash` |

* `WorkerAgent` – one agent from inside: the handlers `run_job`, `job_status` and
  `job_cancel`, one thread of `_execute` per accepted render, and ComfyUI as the
  fate of each prompt. `thread[id]` names where `_execute` is: `new` (accepted, the
  thread has not run), `prepare` (frames, graph, `submit_prompt`), `wait`
  (`wait_for_history`), `fetch` (`download_output`), `done` (about to store the
  status), `none`. `job_cancel` checks and writes in two steps without a lock, so
  `JobCancelRead` and `JobCancelWrite` interleave with the threads.
* `AgentProperties` – its properties. `AgentPool` is its abstract specification:
  the mapping shows a one-worker pool, `render[1]` being `status` and `alive` being
  `up`, and hides threads, prompts and ComfyUI. What `Scheduler` assumes of agents
  is thereby shown of their code, as long as nobody cancels a render: the
  controller never does.
* `TunnelKeepalive` – one worker's public URL: `_reconcile_worker`, the two kinds
  of tunnel, cloudflared and the edge. cloudflared processes are numbered and a
  quick tunnel's URL is the number of its process; a named tunnel's is always 1.
  `pc` is the place in `_reconcile_worker`:

| `pc` | Code | Actions |
|---|---|---|
| `sleep` | `_keepalive_loop` sleeps; `known_url`, `proc_dead` | `LookUp`, `NothingToProbe` |
| `probe` | `_probe_tunnel` and the two branches on its answer | `ProbeAnswers`, `ProbeFails`, `ProbeBlips` |
| `start`, `wait` | `start_tunnel`: `start`, `wait_for_url` | `StartTunnel`, `WaitFinds`, `WaitRestarts`, `WaitTimesOut` |
| `post` | `_register` | `NothingToPost`, `Register` |
| any | `is_alive` under `/health`, `/shutdown`, cloudflared, the edge | `HealthSeesUrl`, `ProcessEnds`, `Connects`, `EdgeDrops`, `EdgeReturns` |

* `Provisioning` – the account and notebook rows, `_in_flight`, the three methods
  of the scheduler that start notebooks, and both providers' `ensure_notebook`,
  one action per call of a CLI. `session[a]` is the session at the provider:
  `starting`, `idle`, `booting` (the bootstrap runs), `booted` (it has left its
  marker and the runner is up). `pc` is the place in `_lazy_start`:

| `pc` | Code | Actions |
|---|---|---|
| `idle` | `dispatch_job`: `_can_provision`, `_account_to_start` | `Pick` |
| `insert` | the notebook row, `_in_flight.add` | `InsertNotebook` |
| `call`, `capacity` | `start_notebook`: credential, named tunnel, capacity, body | `NoCredential`, `NamedTunnel`, `CapacityUsable`, `NotStarted` |
| `push` | `KaggleManager.ensure_notebook` | `Push` |
| `look`, `look2`, `new`, `poll`, `upload`, `exec` | `ColabManager.ensure_notebook` | `TakeOver`, `LookAgain`, `SeesSession`, `SeesNoSession`, `NewSession`, `PollReady`, `PollGivesUp`, `Upload`, `Exec` |
| `done`, `fail` | `provisioned`; the row becomes QUOTA_EXHAUSTED | `Provisioned`, `MarkExhausted` |
| any | `_init` after a restart, sessions, `agents/register` | `Restart`, `SessionReady`, `Boots`, `SessionEnds`, `RunnerRegisters` |

* `Canvas` – the arithmetic of the three adapters, in half-frames of 1/48 s:
  Python's rounding to even, `_snap_to_grid`, the alignment of sizes to 32, the
  fallbacks when a size is not given and what `build_prompt` refuses.
* `WorkflowGraph` – the graph each adapter builds, as a function from nodes to
  their class and links: the R2V core with up to three references, the turbo branch
  with its two switches, the PDD branch, the multishot sampler with its batches of
  references and the optional cache.
* `RenderPath` – the way of the pictures from the client to the rendered video.
  Three directories hand them on by name only, so a file is modelled by who wrote
  it. `request[j]` is what a client asks for (route, workflow, names, options).
  `Submit` hands the staged names to a render thread, `SubmitPrompt` queues the
  graph, `SubmitFails`, `EndThread` and `Settle` end an attempt, `PickJob` begins the
  next. `Builds` and `Builder` say which of controller and agent builds the graph.

| Directory | Written by | Read by |
|---|---|---|
| `uploads` | `SaveFirst`, `SaveLast` (the multipart handler, one file at a time) | `StageFile`, `SkipFile` (`_submit`, `_upload_to_worker`) |
| `inputs` | `StageFile` (the agent's `upload_input`) | `UploadImage` (`_execute`, `_stage_path`) |
| `comfy` | `UploadImage` (`upload_image`, overwriting) | `RenderPrompt` (ComfyUI, when it renders) |

* `JobLifecycle` – the abstract specification: the edges that the methods of
  `JobManager` draw between the statuses, with the two ways an attempt fails
  (TRANSIENT to RETRYING, PERMANENT to FAILED) and the retry budget, without
  workers, threads or restarts. Refinement mapping: `phase <- status`,
  `tries <- attempt_count`, `error <- error_class`. It is not the diagram of the
  docstring of `jobs.py`: no method writes its DOWNLOADING, and which errors are
  PERMANENT is the caller's choice (section 6).
* `SchedulerProperties` – the properties; `SchedulerInvariant` – the inductive
  invariant and two strengthenings of it; `MCScheduler`, `MCAgent` – the modules TLC is run on.
* `TunnelProperties`, `ProvisionProperties`, `RenderPathProperties`, `MCTunnel`,
  `MCProvision`, `MCRenderPath` – likewise.
* `SchedulerProofs`, `RenderProofs`, `LifecycleProofs`, `AgentProofs`,
  `TunnelProofs`, `ProvisionProofs`, `RenderPathProofs` – the theorems;
  `GraphProofs` – the lemmas about the graphs that the last one rests on.

Operators commented "Mutant of ..." (`RetryableAlways`, `RecoverBusy`,
`CompleteFirst`, ...) are not part of any specification. Each is a plausible bug;
put in the place of the operator it mutates, it makes TLC find one property
violated, which shows that the property depends on that code.

## 3. Runs

| Run | Instance | Properties |
|---|---|---|
| `SchedulerSafety.cfg` | 2 jobs, 2 workers, 1 retry, in two scenarios: cancels and one fault of any kind; no cancels, two faults, agent deaths, restarts | `TypeOK`, `RetryBudget`, `FailedMeansExhausted`, `CompletedHasOwnOutput`, `HolderIsAssigned`, `IInv`, `RenderIsLatestAttempt`, `RenderInv`, `LifeInv`, `OutcomeIsKept`, `ImplementsLifecycle` |
| `SchedulerLive.cfg` | 2 jobs of any two priorities, 1 worker, two faults, fairness | `JobSettles`, `WorkerIsFreed` |
| `AgentThreads.cfg` | 3 renders, in two scenarios: cancels; exceptions the thread does not catch, death and restart; fairness | `ThreadsTypeOK`, `DoneHasOutput`, `BusyMeansWorking`, `RenderOutcomeIsKept`, `RenderEnds`, `ImplementsAgentPool` |
| `Tunnel.cfg` | both kinds of tunnel, three faults, any number of isolated blips, fairness | `TunnelTypeOK`, `RegisteredIsKnown`, `BlipIsTolerated`, `Rejoins` |
| `Provisioning.cfg` | a Kaggle and a Colab account, cap 1, any failures, restarts and edits, fairness | `ProvisionTypeOK`, `CapHolds`, `StrayIsNext`, `AccountsWithinCap`, `RegisteredStays`, `StartEnds` |
| `RenderPath.cfg` | 2 clients on shared directories; 1 client with every option, picture list, boundary length and size; 2 attempts | `RenderPathTypeOK`, `OwnNamesOwnFrames`, `PromptImagesExist`, `PromptFits`, `PicturesInOrder`, `PromptIsWired`, `OneModel` |
| `CancelRace.cfg`, `WorkerLoss.cfg`, `HealthMiss.cfg`, `DownloadLoss.cfg`, `PermanentRetry.cfg`, `SharedNames.cfg` | the smallest instance that shows it | one documented claim each, violated (section 6) |

A scenario is the set of kinds of events (and the number of faults) a behaviour
may have; the variable `events` holds it from the start and never changes, so one
run explores several environments and a property may be stated for some of them.

What the passing runs show:

* *The budget holds.* `attempt_count` is incremented without a check; that it
  never exceeds `max_retries + 1`, and that a job is FAILED only when it is used
  up or its error is recorded as PERMANENT, holds because every way back into the
  queue passes `retryable`. No error is recorded so, whatever the documentation
  says: `PermanentRetry.cfg`.
* *A COMPLETED job is downloadable and is its own.* Four sessions complete a job,
  a cancel or a crash may fall between any two, and `_remote` reads "the latest
  attempt" each time. The file served is nevertheless the one the latest attempt
  rendered.
* *The two tables agree.* A worker row names a job exactly while it is BUSY and
  the job names it back, although two sessions write them. A corollary:
  `_recover_worker`, which looks for a job held by a worker that is not BUSY,
  never finds one.
* *No second render.* Unless a reply to a submission is lost, a GPU renders a job
  only for its latest attempt. With the BUSY check of `_recover_worker` removed,
  this fails. `RenderInv` says why: a job is back in the queue only after the GPU
  that had it is lost or idle, and no row loses its URL, so `_poll` never takes an
  assigned worker for lost while it renders.
* *Every status change is an edge of `JobLifecycle`* as long as nobody cancels: then
  the statuses the thread read in earlier sessions are still those of the rows when
  it writes (`LifeInv`), although each method writes whatever the row says. The
  DOWNLOADING of the docstring is not among them, and a permanent error does not
  take the edge drawn for it (section 6).
* *The agent keeps its word.* Two renders may both be accepted, because a QUEUED
  one does not count as busy, and then run side by side; each still reports only
  a file of its own prompt, 409 always has a thread behind it, and every render ends although
  ComfyUI may never answer.
* *The agent is what the scheduler's model takes it for*, also when a thread dies
  of an exception it does not catch.
* *A worker rejoins.* Whatever mix of dead processes, zombie tunnels, timeouts and
  lost registrations, the controller ends up with a URL that reaches the agent;
  meanwhile the runner never takes an outdated registration for the current one,
  and isolated failed probes never replace a healthy tunnel.
* *The cap holds, even for sessions nobody counts.* A start that is reported failed
  may have left a session running: the answer of the push or of the exec was lost.
  The notebook row says QUOTA_EXHAUSTED and `_can_provision` does not count it.
  Still no more accounts than `max_concurrent_notebooks` have a session, because
  accounts are tried in a fixed order and never given up: the account of the stray
  session is the one started next. Giving the account up after a failure, as
  OPERATIONS.md describes it, would break the cap: this is the mutant of
  `AccountsWithinCap`. So would an edit of the configuration, hence `~edited`.
* *Own names mean own pictures.* No directory on the way is per job, two threads of
  an agent may stage and upload side by side, answers get lost and attempts are
  repeated. A client whose file names nobody else uploads still gets a video of the
  pictures it uploaded, not of older files of the same names. (With equal names it
  does not: `SharedNames.cfg`.)
* *A queued prompt can be executed.* Whatever the workflow, the options, the number
  of pictures and the ones that are missing: the files the graph names were uploaded
  before it was submitted, every link leads to a node that is there, is
  executed before (`Rank`) and has an output of the type, no node waits for itself or is built in vain, guidance and noise
  schedule come from one model, PDD and turbo are never stacked.
* *The k-th picture asked for is the k-th shown*, if all of them are there; the
  prompt's text counts on it. Two stagings, an upload and the adapter lie
  between, and each of them matches pictures by position.
* *Lengths and sizes fit* on both sides of every boundary: a canvas is a multiple of
  32 within the limits and less than 32 smaller than asked for, an FL2VA or R2V
  video has a length of the form 17k + 5. A shot of multishot is a multiple of 17,
  less than 17 frames shorter than asked for, or an end of the range 5 to 481; that
  is not the documented grid (section 6).
* *Jobs settle* under the faults the code recovers from: health misses, refused
  submissions, lost replies, poll errors, disk errors and inputs missing on disk.
  Workers are freed under the same faults. No cancel, restart, dead agent or failed
  download is among them: after those a job may stay RUNNING or RETRYING for ever
  (section 6), and enough stranded RUNNING jobs push a live one out of the list that
  is polled.

## 4. Bounds, fairness and assumptions

Bounds. `MaxJobs` jobs are ever created; at most as many faults as its scenario says happen in a
behaviour; `PollLimit` is `JobManager.list`'s limit of 100. Two jobs are needed
for a queue, for a stale poll list and for a worker that is reassigned while a
failed attempt is being handled; two workers for a retry elsewhere; one retry for
both answers of `retryable`. `PollLimit = 1` in `SchedulerLive.cfg` makes the limit bite. A
restart of a dead agent, a render that ends badly, a rejection by a busy or dead
agent and a 404 are not counted as faults, so behaviours with several failures
are explored even with one fault. The agent's threads interact through the
busy check and through ComfyUI alone, so three of them
show every kind of overlap. In `Tunnel.cfg` three faults make a fault during the
repair of a fault during a repair; a second failed probe of a good URL in a row
counts as one. `Provisioning` is finite without bounds on faults; two accounts
under a cap of one give a stray session beside the account that is next (the proof
covers any number, also beside active ones). In `RenderPath.cfg` two clients suffice
for a clash of names and two attempts for a first render that is still in ComfyUI's
queue when the second is staged; of the five names three were in the store before
and one is never there. One client at a time tries the options, because a graph
depends on its own request alone; its lengths are those on either side of the
range's ends, of a tie of the rounding and of a point of the grid, its sizes none, 0 and those on
either side of each limit. The proofs need none of these bounds.

Fairness (`FairSpec`). The scheduler thread takes steps for ever: `_loop` catches
every exception. A runner registers an agent that is up (it retries). A render
that was accepted starts and ends: `wait_for_history` has a deadline. Nothing is
assumed of clients, of faults or of dead agents coming back.

For the agent, `FairSpec` says that each render thread takes its steps, the
failing of the wait included: `wait_for_history` gives up at its deadline. Nothing
is assumed of ComfyUI. `_execute` catches `ComfyError` and no other exception
(`worker/agent.py:452`): another one ends the thread with the job RUNNING, and the
agent answers 409 until it is restarted. A scenario selects this (`"uncaught"`);
liveness and `BusyMeansWorking` are stated without it.

For the tunnel, `WF(Runner)`: `_keepalive_loop` is endless and every step in it has
a timeout; `WF(Connects)`: a cloudflared process that is left alone connects to the
edge. A zombie need not come back (`EdgeReturns` is not fair). For provisioning,
`WF(LazyStart)`: every call of a CLI has a timeout, and `poll_until_running` a
deadline. Sessions need neither come up nor end.

Assumptions.

* A session of an agent's notebook does not end in `TunnelKeepalive` (nothing is
  left to rejoin then), starting a process does not raise, and steps of
  `stop` and of `wait_for_url` do not interleave within one iteration of the wait.
* A push of a Kaggle kernel that is running counts as the same session; a name in
  the output of `colab sessions` is the session's own (`slug in stdout` also
  matches a longer name).
* The sessions of `_can_provision`, `_account_to_start` and `_lazy_start` have no
  other writer: the API only reads accounts and notebooks.
* A database session does not fail ("database is locked" is not modelled).
* Session reads other than `cancel`'s do not race: the scheduler thread is the
  only writer of the columns they depend on.
* The agent's statuses FAILED and CANCELLED are one value: `_poll` treats them
  alike, and the controller never cancels a render.
* Provisioning is reduced in `PickNone` to the placeholder rows it may insert.
* `RenderPath` has one agent and lets any queued job be dispatched next. A file is
  read and written in one step (a reader that sees half of a write is not modelled),
  and the agent's session does not restart between a staging and its submission.
* A length is a multiple of half a frame (every other one rounds like a neighbour).
  A size that is not given is `Unset`; a size of 0 is another value, since `or` looks
  at it only if the other size is missing (a width of 0 beside a height is 32, not
  the default). A negative size acts like one of 1 to 31.
* What a prompt leaves behind is a file or nothing: `download_output` prefers an mp4
  and falls back to the first file of any kind, and the kinds are not told apart.
* An answer that is an error from the tunnel's edge and a transport error are one
  outcome wherever the code handles them alike.
* `_poll`'s branch for a worker without tunnel URL is kept (`Reply` = `"lost"`)
  though no registered worker ever loses its URL.

## 5. Proofs

`SchedulerProofs` proves, for all values of the constants allowed by
`DomainAssumption`, `JobTableAssumption` and `SchedulerAssumption`:

| Theorem | Statement |
|---|---|
| `Invariance` | `Spec => []IInv` |
| `TypeCorrect` | `Spec => []TypeOK` |
| `RetryBudgetHolds` | `Spec => []RetryBudget` |
| `FailedMeansExhaustedHolds` | `Spec => []FailedMeansExhausted` |
| `CompletedHasOwnOutputHolds` | `Spec => []CompletedHasOwnOutput` |
| `HolderIsAssignedHolds` | `Spec => []HolderIsAssigned` |
| `OutcomeIsKeptHolds` | `Spec => OutcomeIsKept` |

None of the safety properties is inductive. `HolderIsAssigned` needs to know that
the job the thread is dispatching is named by no row (`HeldOK`); `RetryBudget`
and even `TypeOK` need to know that a job about to start an attempt has one left,
although a cancel may have rewritten its status since it was dequeued
(`AttemptOK`); `CompletedHasOwnOutput` needs that `prompt_id` is never that of an
earlier attempt (`RemoteOK`) and what lies on disk at each step of `_complete`
(`OutputOK`); `FailedMeansExhausted` and `RetryBudget` need how the budget
stands in every status (`BudgetOK`, where no error is ever PERMANENT); and `OutcomeIsKept` needs that the stale list of
`monitor_running` holds no job with an outcome (`TodoOK`). `IInv` is their
conjunction, and TLC checks it in `SchedulerSafety.cfg` first.

`RenderProofs` and `LifecycleProofs` build on it, under the same assumptions:

| Theorem | Statement |
|---|---|
| `RenderInvHolds` | `Spec => []RenderInv` |
| `RenderIsLatestAttemptHolds` | `Spec => []RenderIsLatestAttempt` |
| `LifeInvHolds` | `Spec => []LifeInv` |
| `ImplementsLifecycleHolds` | `Spec => ImplementsLifecycle` |

`RenderIsLatestAttempt` needs that nobody renders a job before its next submission
or after a failed one (`RenderOK`), hence that `_poll` reports an attempt as failed
only when its render has ended, which rests on `TunnelOK`: an assigned worker has a
URL. The refinement needs the status of the job at each `pc` and in the list of
`monitor_running` (`LifeParts`); then every session is one edge of the diagram or
none, and `IInv` bounds the attempts. With cancels the status is not known, and the
mapping shows no job at all.

`AgentProofs` proves, under `DomainAssumption` and `AgentEventsAssumption`:

| Theorem | Statement |
|---|---|
| `AgentTypeCorrect` | `Spec => []ThreadsTypeOK` |
| `DoneHasOutputHolds` | `Spec => []DoneHasOutput` |
| `BusyMeansWorkingHolds` | `Spec => []BusyMeansWorking` |
| `RenderOutcomeIsKeptHolds` | `Spec => RenderOutcomeIsKept` |
| `AgentImplementsPool` | `Spec => ImplementsAgentPool` |

Its invariant says what a thread has achieved by the place it is at (a thread at
`done` holds a file of its own prompt). The refinement needs `ThreadShown`: the
status in the table is the one the thread's place implies. A cancel breaks that,
which is why the mapping shows an idle pool in behaviours with cancels.

`TunnelProofs` proves, under `TunnelAssumption`:

| Theorem | Statement |
|---|---|
| `TunnelTypeCorrect` | `Spec => []TunnelTypeOK` |
| `RegisteredIsKnownHolds` | `Spec => []RegisteredIsKnown` |
| `BlipIsToleratedHolds` | `Spec => []BlipIsTolerated` |

`RegisteredIsKnown` needs `UrlOK`: the gate's URL, once there is one, is the
tunnel's, so that a successful probe does not change it under a registration.
`BlipIsTolerated` needs `BlipOK`: while nothing is wrong, the first tunnel is
connected whenever it is probed and one counted failure means one blip.

`ProvisionProofs` proves, under `ProvisioningAssumption`:

| Theorem | Statement |
|---|---|
| `ProvisionTypeCorrect` | `Spec => []ProvisionTypeOK` |
| `CapHoldsAlways` | `Spec => []CapHolds` |
| `StrayIsNextHolds` | `Spec => []StrayIsNext` |
| `AccountsWithinCapHolds` | `Spec => []AccountsWithinCap` |
| `RegisteredStaysHolds` | `Spec => RegisteredStays` |

`CapHolds` needs that the place found by `Pick` is still free at
`InsertNotebook`. `AccountsWithinCap` needs `StrayOK`: a session outside the
active rows belongs to the first eligible account without an active row, there is
none during a start, and none when the rows reach the cap; `OrderOK` (every
account before the one being started is active) and `RowsOK` (a restart with the
same configuration leaves the rows alone) carry it.

`RenderPathProofs` proves, under `RenderPathAssumption`:

| Theorem | Statement |
|---|---|
| `RenderPathTypeCorrect` | `Spec => []RenderPathTypeOK` |
| `PromptImagesExistAlways` | `Spec => []PromptImagesExist` |
| `OwnNamesOwnFramesHolds` | `Spec => []OwnNamesOwnFrames` |
| `PromptFitsAlways` | `Spec => []PromptFits` |
| `PromptIsWiredAlways` | `Spec => PromptIsWired` |
| `OneModelAlways` | `Spec => OneModel` |
| `PicturesInOrderAlways` | `Spec => PicturesInOrder` |

`PromptImagesExist` needs that what a thread has given to ComfyUI lies in its
directory, from which nothing is ever removed. `OwnNamesOwnFrames` follows a file of
a job with its own names through the directories: once saved it is the job's in
`uploads` (`SavedInv`), hence in `inputs` as soon as it is staged (`SubmitInv`), and
in `comfy` as soon as it is given (`RenderInv`): the names still to be opened are
among those given, which are among those staged, which are among those saved, and no
other job's step may write one of them with another job's picture. `PromptFits` rests
on lemmas about the arithmetic: `OnGridAlways` and `ShotFitsAlways` (for every length)
and `AlignBounds` (the canvas, for every size), with the refusals of `build_prompt`
(`BuildsFits`).

The last three theorems join a static and a dynamic half. `GraphProofs` is the static
one. A list of pictures is `Prompting` for a request if it is what a render may have
been handed: its roles are ones the request's workflow has, each at most once, in
`_submit`'s order, and the picture without which the workflow refuses is there. For
every such list, and every choice of the options,
the graph is wired (`PromptWired`), consistent (`PromptConsistent`) and its sampling
node is given the pictures in the order of the list (`FL2VAPictures`, `R2VPictures`,
`MultishotPictures`). Each adapter's graph is first described node by node (`FL2VAIs`,
`R2VIs`, `MultishotIs`, from the parts they share); that no node waits for itself
follows from `Rank`, one execution order for all graphs. `NamedIs` and `Least` stand in
for induction: two recursive functions (`Named`, which reads the list, and the
pictures at a link) are compared at the first index where they would differ.

The dynamic half is two invariants of `RenderPathProofs`. `OrderInv`: what is staged
precedes what is still to be staged, what is uploaded precedes what is still to be
uploaded, both in `_submit`'s order, and a render is submitted once; hence what is
queued is `Prompting` (`QueuedPrompting`). That suffices for `PromptIsWired` and
`OneModel`, which hold also when pictures are dropped. `PicturesInOrder` needs that
none is: `ExactInv` says that a job's files are in the store before the job is in the
table (`StoreOK`), that what is staged and what is left are together what the request
names (`HandOK`), and that what a render was handed is that, completed (`Complete`).
None of these is inductive without the type invariant and `OrderInv`.

The proof of the scheduler has one lemma per action, `<Action>Step`, that shows
`IInv'` part by part; `StepInv` puts them together along `Next`. Its first section holds the
lemmas on types, one per operator on the tables.

Model-checked only: the liveness properties `JobSettles`, `WorkerIsFreed`,
`RenderEnds`, `Rejoins` and `StartEnds` (liveness and ENABLED are beyond the prover).
Every invariant and every other action property or refinement of the passing runs is
stated by a theorem.

## 6. Where the code disagrees with its documentation

* `CancelRace.cfg`, `TerminalIsFinal` – a cancelled job is revived by the
  scheduler's next write, and a late cancel overwrites COMPLETED.
* `WorkerLoss.cfg`, `LostJobIsRequeued` – ARCHITECTURE.md says the job of a lost
  worker is requeued; it stays RUNNING for ever.
* `HealthMiss.cfg`, `NoSubmissionWhileRendering` – one missed health poll of a
  BUSY worker makes it OFFLINE, the next READY, and a second job is submitted to
  an agent still rendering: the collision `_recover_worker`'s comment means to
  avoid.
* `DownloadLoss.cfg`, `RetryIsTaken` – after a failed download the job stays
  RETRYING and its worker BUSY for ever.
* `PermanentRetry.cfg`, `PermanentIsNotRetried` – six places, among them the headers
  of `jobs.py` and `scheduler.py`, say that a permanent error is not retried. A first
  frame missing on disk is raised with `transient=False`; `_run_on` records every
  error as TRANSIENT, so the job is tried until its attempts are used.
* `SharedNames.cfg`, `OwnFrames` – ARCHITECTURE.md says per-job directories hold the
  files of a job; uploads go to one directory, and the client library names every
  first frame `first.png`: a job is rendered with another user's picture.

Read but not run. `jobs.py:3` draws "RUNNING -> DOWNLOADING -> COMPLETED" and
`constants.py:16` defines DOWNLOADING; nothing writes it, the video is fetched while
the job is RUNNING (ARCHITECTURE.md:36 draws it so). `frames_per_shot` is documented
as a length "on the 17k+5 grid (124 ≈ 5.1s, 243 ≈ 10.1s, 362 ≈ 15.1s)" (README.md:343,
SKILL.md:70); it is floored to a multiple of 17: 119, 238 and 357. OPERATIONS.md:92 says
a failed push falls to the next account; `_lazy_start` marks the notebook row only, and
the same account is started again on every tick (`StrayIsNext` and `AccountsWithinCap`
depend on it). A failed submission leaves the worker READY, not ERROR
(OPERATIONS.md, "Submit failure"), because `_maybe_retry` marks it idle; a retry may go to
the same worker. An agent's cancel of a QUEUED job ("abort a queued/running job",
`worker/agent.py:14`) does not stop its thread, which starts later and overwrites
CANCELLED; a RUNNING one that ends on its own overwrites it too. When
`start_tunnel` times out, `_reconcile_worker` registers the old URL again ("the
stale/dead URL is not resurrected"); two failed probes later it is repaired. The
first pass in `run` never opens a tunnel: with no process and no URL it counts one
failure; a named tunnel's URL is registered with nothing behind it. A tunnel
stopped by `/shutdown` is reopened within two passes. An account that was disabled
once stays ACCOUNT_DISABLED after it is enabled again; one removed from the
configuration stays enabled in its row, fails without a credential on every tick,
and, if it is first, blocks the others. A controller that stops during a start
leaves a NOTEBOOK_STARTING row that is never retried and uses up the cap for good,
as does the row of a notebook that has died. `_lazy_start` runs on the scheduler
thread: polls and dispatch wait for its CLI calls. An agent that does not listen
within 30 s of its start is skipped for good (`worker/runner.py:303`).

In the picture path: a reference that is not on disk is dropped without a word, so
that the later ones move up and `<Picture k>` of the prompt's text means another
picture. `turbo_steps` (README.md:287) is
passed on to the adapter and put in no node, `ref_image_size` (README.md:289) is no field of `JobCreate`.
"The same T4 safe size applies to FL2VA" (README.md:298), whose default is 1344x768.
A multishot job with pictures ignores `use_teacache` and `teacache_thresh`, and fails
without width and height (`round(None)`), for which it has defaults without
pictures. `WorkflowError` says "Permanent job error"; it reaches the controller as a
FAILED render and is retried like any other. `download_output` says it finds "the
generated video" and takes any file if there is none. The library's `seed` is not read by the multipart handler. "`sweep()`
deletes completed jobs" (ARCHITECTURE.md:114): nothing calls it, nor `store_input`.

## 7. What is not modelled

* The notebook builder generates text from templates and has no state; what its
  product does on a worker begins with the runner, which `TunnelKeepalive` models
  from a listening agent on.
* Configuration and logging: the settings are the constants of the modules; parsing
  and redaction of text are not what the properties are about.
* GPU probe, dashboard, tests and fakes: stateless, or read only.
* The SDK's waiting loop: a sequential poll of one job; that jobs settle is
  `JobSettles`.
* Progress percentages, timestamps, error texts and `account_id` are left out of the
  tables; literal inputs other than file names are left out of the graphs.
* The restart of an agent's session between the staging of a file and the submission,
  torn reads of files, several workers on one host (one is configured), the launch of
  ComfyUI and of the agents by `run`, named-tunnel set-up, and the interleaving of
  `/shutdown` with a single iteration of `wait_for_url`.
* `Provisioning`, `TunnelKeepalive` and `RenderPath` are not composed with
  `Scheduler`: it knows of them the placeholder rows, the registration and whether a
  submission succeeded.

## 8. Plan

What is left, in order:

1. What the other parts of the system assume of `TunnelKeepalive`, `Provisioning` and
   `RenderPath`, as abstract specifications with refinements proved step by step, like
   `JobLifecycle` and `AgentPool`.
2. Two accounts whose edits strand each other, and the composition of `Provisioning`
   with `Scheduler`.
3. The launch phase of the runner in `TunnelKeepalive`.
