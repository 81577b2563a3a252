---------------------------- MODULE Provisioning ----------------------------
(***************************************************************************)
(* Starting notebooks: _can_provision, _account_to_start and _lazy_start   *)
(* of the scheduler thread, the account rows (accounts.py), the providers  *)
(* (providers.py, kaggle_manager.py, colab_manager.py) and the sessions    *)
(* they start.  Accounts are numbered in the order of their ids; an        *)
(* account has one notebook, nb-<id>, and one worker row, nb-<id>-gpu0.    *)
(***************************************************************************)
EXTENDS Naturals, FiniteSets

CONSTANTS
    NumAccounts,
    ColabAccounts,    \* those with provider "colab", the others "kaggle"
    Cap               \* max_concurrent_notebooks

Accounts == 1 .. NumAccounts

ASSUME ProvisioningAssumption ==
    /\ NumAccounts \in Nat
    /\ ColabAccounts \subseteq Accounts
    /\ Cap \in Nat

VARIABLES
    config,       \* the accounts as the process has read them: on, off, absent
    enabled,      \* the account rows with enabled = 1
    account,      \* their status, or "none" without a row
    notebook,     \* the status of nb-<id>
    worker,       \* the row of its worker: none, a placeholder, registered
    in_flight,    \* Scheduler._in_flight
    pc,           \* where _lazy_start is
    acct,         \* its account_id
    session,      \* the notebook session at the provider
    edited        \* the configuration has changed since the first start

accountVars == <<config, enabled, account, edited>>
vars == <<accountVars, notebook, worker, in_flight, pc, acct, session>>

Configs == [Accounts -> {"on", "off", "absent"}]

InCall ==
    {"call", "capacity", "push", "look", "look2", "new", "poll", "upload", "exec"}

ProvisionTypeOK ==
    /\ config \in Configs
    /\ enabled \subseteq Accounts
    /\ account \in [Accounts -> {"none", "ACCOUNT_AVAILABLE", "ACCOUNT_DISABLED"}]
    /\ notebook \in [Accounts -> {"none", "NOTEBOOK_STARTING", "QUOTA_EXHAUSTED"}]
    /\ worker \in [Accounts -> {"none", "UNREGISTERED", "REGISTERED"}]
    /\ pc \in InCall \union {"idle", "insert", "done", "fail"}
    /\ acct \in Accounts \union {0}
    /\ pc # "idle" => acct # 0
    /\ in_flight = IF pc \in InCall THEN {acct} ELSE {}
    /\ session \in [Accounts -> {"none", "starting", "idle", "booting", "booted"}]
    /\ edited \in BOOLEAN

-----------------------------------------------------------------------------
(* The account rows.                                                       *)

\* sync_from_config: a row is never deleted, and enabling an account does not
\* take back ACCOUNT_DISABLED.
SyncFromConfig(cfg) ==
    /\ enabled' = {a \in Accounts : cfg[a] = "on" \/ (cfg[a] = "absent" /\ a \in enabled)}
    /\ account' = [a \in Accounts |->
          CASE cfg[a] = "off" -> "ACCOUNT_DISABLED"
            [] cfg[a] = "on" /\ account[a] = "none" -> "ACCOUNT_AVAILABLE"
            [] OTHER -> account[a]]

Init ==
    /\ config \in Configs
    /\ enabled = {a \in Accounts : config[a] = "on"}
    /\ account = [a \in Accounts |->
          CASE config[a] = "off" -> "ACCOUNT_DISABLED"
            [] config[a] = "on" -> "ACCOUNT_AVAILABLE"
            [] OTHER -> "none"]
    /\ notebook = [a \in Accounts |-> "none"]
    /\ worker = [a \in Accounts |-> "none"]
    /\ in_flight = {}
    /\ pc = "idle"
    /\ acct = 0
    /\ session = [a \in Accounts |-> "none"]
    /\ edited = FALSE

\* The controller stops anywhere and starts again.
Restart(cfg) ==
    /\ config' = cfg
    /\ edited' = (edited \/ cfg # config)
    /\ SyncFromConfig(cfg)
    /\ in_flight' = {}
    /\ pc' = "idle"
    /\ acct' = 0
    /\ UNCHANGED <<notebook, worker, session>>

-----------------------------------------------------------------------------
(* The scheduler thread.                                                   *)

\* Nothing writes NOTEBOOK_RUNNING.
Active == {a \in Accounts : notebook[a] = "NOTEBOOK_STARTING"}

\* Mutant of CanProvision: an off-by-one.
CanProvisionOneMore == Cardinality(Active) + Cardinality(in_flight) <= Cap

CanProvision == Cardinality(Active) + Cardinality(in_flight) < Cap

\* Nothing writes an account's QUOTA_EXHAUSTED.
Eligible == {a \in enabled : account[a] # "ACCOUNT_DISABLED"}

Startable == (Eligible \ in_flight) \ Active

\* Mutant of IsFirst: accounts are taken in no order.
IsAny(a) == a \in Startable

IsFirst(a) == a \in Startable /\ \A b \in Startable : a <= b

\* A tick that finds a queued job and no READY worker.
Pick(a) ==
    /\ pc = "idle"
    /\ CanProvision
    /\ IsFirst(a)
    /\ acct' = a
    /\ pc' = "insert"
    /\ UNCHANGED <<accountVars, notebook, worker, in_flight, session>>

InsertNotebook ==
    /\ pc = "insert"
    /\ notebook' = [notebook EXCEPT ![acct] = "NOTEBOOK_STARTING"]
    /\ in_flight' = in_flight \union {acct}
    /\ pc' = "call"
    /\ UNCHANGED <<accountVars, worker, acct, session>>

\* Mutant of MarkExhausted: the account is given up, not only its notebook.
MarkAccountExhausted ==
    /\ pc = "fail"
    /\ notebook' = [notebook EXCEPT ![acct] = "QUOTA_EXHAUSTED"]
    /\ account' = [account EXCEPT ![acct] = "ACCOUNT_DISABLED"]
    /\ pc' = "idle"
    /\ acct' = 0
    /\ UNCHANGED <<config, enabled, edited, worker, in_flight, session>>

MarkExhausted ==
    /\ pc = "fail"
    /\ notebook' = [notebook EXCEPT ![acct] = "QUOTA_EXHAUSTED"]
    /\ pc' = "idle"
    /\ acct' = 0
    /\ UNCHANGED <<accountVars, worker, in_flight, session>>

\* Mutant of Provisioned: placeholders replace what is there.
ProvisionedAnew ==
    /\ pc = "done"
    /\ worker' = [worker EXCEPT ![acct] = "UNREGISTERED"]
    /\ pc' = "idle"
    /\ acct' = 0
    /\ UNCHANGED <<accountVars, notebook, in_flight, session>>

\* WorkerManager.provisioned: the runner may have registered the worker before.
Provisioned ==
    /\ pc = "done"
    /\ worker' = IF worker[acct] = "none"
                 THEN [worker EXCEPT ![acct] = "UNREGISTERED"]
                 ELSE worker
    /\ pc' = "idle"
    /\ acct' = 0
    /\ UNCHANGED <<accountVars, notebook, in_flight, session>>

-----------------------------------------------------------------------------
(* provider.start_notebook, one action per call of a CLI.                  *)

\* Mutant of Returned: _in_flight is not cleared on the failing path.
ReturnedInFlight(ok) ==
    /\ pc' = IF ok THEN "done" ELSE "fail"
    /\ in_flight' = IF ok THEN in_flight \ {acct} ELSE in_flight

Returned(ok) ==
    /\ pc' = IF ok THEN "done" ELSE "fail"
    /\ in_flight' = in_flight \ {acct}

GoTo(place) ==
    /\ pc' = place
    /\ UNCHANGED in_flight

AtProvider(at) ==
    /\ pc = at
    /\ UNCHANGED <<accountVars, notebook, worker, acct>>

\* The row of an account that is no longer configured.
NoCredential ==
    /\ AtProvider("call")
    /\ config[acct] = "absent"
    /\ Returned(FALSE)
    /\ UNCHANGED session

\* _ensure_named_tunnel: its script may fail, or it has nothing to do.
NamedTunnel(ok) ==
    /\ AtProvider("call")
    /\ config[acct] # "absent"
    /\ IF ok THEN GoTo("capacity") ELSE Returned(FALSE)
    /\ UNCHANGED session

\* The CLI answers, which is all that is known of a quota.
CapacityUsable ==
    /\ AtProvider("capacity")
    /\ GoTo(IF acct \in ColabAccounts THEN "look" ELSE "push")
    /\ UNCHANGED session

\* It does not, no body can be built, or an exception.
NotStarted ==
    /\ AtProvider("capacity")
    /\ Returned(FALSE)
    /\ UNCHANGED session

Launched == [session EXCEPT ![acct] = IF @ = "booted" THEN "booted" ELSE "booting"]

\* kaggle kernels push: the answer may be lost, and "exists" is taken for yes.
Push(ok) ==
    /\ AtProvider("push")
    /\ session' \in {session, Launched}
    /\ Returned(ok)

\* The first look: a session whose bootstrap has left its marker is taken over.
TakeOver ==
    /\ AtProvider("look")
    /\ session[acct] = "booted"
    /\ Returned(TRUE)
    /\ UNCHANGED session

\* No session, no marker yet, or a call that failed.
LookAgain ==
    /\ AtProvider("look")
    /\ GoTo("look2")
    /\ UNCHANGED session

SeesSession ==
    /\ AtProvider("look2")
    /\ session[acct] # "none"
    /\ GoTo("upload")
    /\ UNCHANGED session

SeesNoSession ==
    /\ AtProvider("look2")
    /\ GoTo("new")
    /\ UNCHANGED session

\* colab new, which may time out after it created the session.
NewSession(ok) ==
    /\ AtProvider("new")
    /\ \/ session[acct] = "none" /\ session' = [session EXCEPT ![acct] = "starting"]
       \/ (ok => session[acct] # "none") /\ UNCHANGED session
    /\ IF ok THEN GoTo("poll") ELSE Returned(FALSE)

PollReady ==
    /\ AtProvider("poll")
    /\ session[acct] \notin {"none", "starting"}
    /\ GoTo("upload")
    /\ UNCHANGED session

\* Mutant of PollGivesUp: no deadline.
PollForEver ==
    /\ AtProvider("poll")
    /\ session[acct] = "none"
    /\ Returned(FALSE)
    /\ UNCHANGED session

\* The session has stopped, the deadline has passed, or a call raised.
PollGivesUp ==
    /\ AtProvider("poll")
    /\ Returned(FALSE)
    /\ UNCHANGED session

Upload(ok) ==
    /\ AtProvider("upload")
    /\ (ok => session[acct] # "none")
    /\ IF ok THEN GoTo("exec") ELSE Returned(FALSE)
    /\ UNCHANGED session

\* colab exec of the launcher; its answer may be lost.
Exec(ok) ==
    /\ AtProvider("exec")
    /\ \/ session[acct] # "none" /\ session' = Launched
       \/ ~ok /\ UNCHANGED session
    /\ Returned(ok)

StartNotebook ==
    \/ NoCredential \/ CapacityUsable \/ NotStarted
    \/ TakeOver \/ LookAgain \/ SeesSession \/ SeesNoSession
    \/ PollReady \/ PollGivesUp
    \/ \E ok \in BOOLEAN :
          NamedTunnel(ok) \/ Push(ok) \/ NewSession(ok) \/ Upload(ok) \/ Exec(ok)

LazyStart == InsertNotebook \/ StartNotebook \/ MarkExhausted \/ Provisioned

-----------------------------------------------------------------------------
(* The sessions.                                                           *)

SessionStep(a, from, to) ==
    /\ session[a] \in from
    /\ session' = [session EXCEPT ![a] = to]
    /\ UNCHANGED <<accountVars, notebook, worker, in_flight, pc, acct>>

SessionReady(a) == SessionStep(a, {"starting"}, "idle")

Boots(a) == SessionStep(a, {"booting"}, "booted")

SessionEnds(a) == SessionStep(a, {"starting", "idle", "booting", "booted"}, "none")

\* POST /api/v1/agents/register
RunnerRegisters(a) ==
    /\ session[a] = "booted"
    /\ worker' = [worker EXCEPT ![a] = "REGISTERED"]
    /\ UNCHANGED <<accountVars, notebook, in_flight, pc, acct, session>>

Sessions ==
    \E a \in Accounts : SessionReady(a) \/ Boots(a) \/ SessionEnds(a) \/ RunnerRegisters(a)

Next ==
    \/ \E a \in Accounts : Pick(a)
    \/ LazyStart
    \/ Sessions
    \/ \E cfg \in Configs : Restart(cfg)

Spec == Init /\ [][Next]_vars

\* Every call of a CLI has a timeout.
FairSpec == Spec /\ WF_vars(LazyStart)

=============================================================================
