------------------------- MODULE ProvisionProperties -------------------------
(***************************************************************************)
(* What _lazy_start owes to the accounts and to the cap.                   *)
(***************************************************************************)
EXTENDS Provisioning

\* The accounts that have a session at their provider.
Live == {a \in Accounts : session[a] # "none"}

\* The rows never pass the cap, across failures, restarts and edits of the
\* configuration (_can_provision).
CapHolds == Cardinality(Active) <= Cap

\* A failed start may leave a session nobody counts: the push or the exec whose
\* answer was lost, the session that did not come up in time.  As long as the
\* configuration stays, it is one of the account that is tried next ...
StrayIsNext ==
    ~edited => \A a \in Live \ Active :
                  a \in Eligible /\ \A b \in Eligible \ Active : a <= b

\* ... and therefore no more accounts than the cap allows have a session
\* (accounts.py: at most max_concurrent_notebooks running pool-wide).
AccountsWithinCap == ~edited => Cardinality(Live) <= Cap

\* The placeholder of a notebook never replaces a worker that registered before
\* start_notebook returned (WorkerManager.provisioned).
RegisteredStays ==
    [][\A a \in Accounts : worker[a] = "REGISTERED" => worker'[a] = "REGISTERED"]_vars

\* The scheduler thread, which starts notebooks itself, gets back to its jobs
\* whatever the provider does.
StartEnds == pc # "idle" ~> pc = "idle"
=============================================================================
