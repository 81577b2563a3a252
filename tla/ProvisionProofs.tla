-------------------------- MODULE ProvisionProofs ---------------------------
(***************************************************************************)
(* The cap on notebooks, for any number of accounts: of the rows, and, as  *)
(* long as the configuration stays, of the accounts with a live session.   *)
(***************************************************************************)
EXTENDS ProvisionProperties, FiniteSetTheorems, TLAPS

AfterInsert == InCall \union {"done", "fail"}

PCs == InCall \union {"idle", "insert", "done", "fail"}

SessionStates == {"none", "starting", "idle", "booting", "booted"}

\* What StartNotebook leaves alone, whichever call it makes.
CallFrame ==
    /\ pc \in InCall
    /\ pc' \in AfterInsert
    /\ in_flight' = IF pc' \in InCall THEN in_flight ELSE in_flight \ {acct}
    /\ UNCHANGED <<config, enabled, account, edited, notebook, worker, acct>>
    /\ session' \in [Accounts -> SessionStates]
    /\ \A a \in Accounts : a # acct => session'[a] = session[a]

LEMMA LaunchedType ==
    ASSUME session \in [Accounts -> SessionStates]
    PROVE  /\ Launched \in [Accounts -> SessionStates]
           /\ \A a \in Accounts : a # acct => Launched[a] = session[a]
BY DEF Launched, SessionStates

LEMMA StartNotebookFrame ==
    ASSUME ProvisionTypeOK, StartNotebook
    PROVE  CallFrame
<1> USE DEF AtProvider, Returned, GoTo, accountVars, InCall, AfterInsert, CallFrame,
            SessionStates
<1>0. session \in [Accounts -> SessionStates]
  BY DEF ProvisionTypeOK
<1>1. CASE NotStarted
  BY <1>0, <1>1 DEF NotStarted
<1>2. CASE CapacityUsable
  BY <1>0, <1>2 DEF CapacityUsable
<1>3. CASE TakeOver
  BY <1>0, <1>3 DEF TakeOver
<1>4. CASE LookAgain
  BY <1>0, <1>4 DEF LookAgain
<1>5. CASE SeesSession
  BY <1>0, <1>5 DEF SeesSession
<1>6. CASE SeesNoSession
  BY <1>0, <1>6 DEF SeesNoSession
<1>7. CASE PollReady
  BY <1>0, <1>7 DEF PollReady
<1>8. CASE PollGivesUp
  BY <1>0, <1>8 DEF PollGivesUp
<1>9. CASE NoCredential
  BY <1>0, <1>9 DEF NoCredential
<1>10. ASSUME NEW ok \in BOOLEAN, NamedTunnel(ok) PROVE CallFrame
  BY <1>0, <1>10 DEF NamedTunnel
<1>11. ASSUME NEW ok \in BOOLEAN, Push(ok) PROVE CallFrame
  BY <1>0, <1>11, LaunchedType DEF Push
<1>12. ASSUME NEW ok \in BOOLEAN, NewSession(ok) PROVE CallFrame
  BY <1>0, <1>12 DEF NewSession
<1>13. ASSUME NEW ok \in BOOLEAN, Upload(ok) PROVE CallFrame
  BY <1>0, <1>13 DEF Upload
<1>14. ASSUME NEW ok \in BOOLEAN, Exec(ok) PROVE CallFrame
  BY <1>0, <1>14, LaunchedType DEF Exec
<1> QED
  BY <1>1, <1>2, <1>3, <1>4, <1>5, <1>6, <1>7, <1>8, <1>9, <1>10, <1>11, <1>12,
     <1>13, <1>14 DEF StartNotebook

\* A step of a session or of its runner.
SessionFrame ==
    /\ UNCHANGED <<config, enabled, account, edited, notebook, in_flight, pc, acct>>
    /\ session' \in [Accounts -> SessionStates]
    /\ worker' \in [Accounts -> {"none", "UNREGISTERED", "REGISTERED"}]
    /\ \A a \in Accounts : session[a] = "none" => session'[a] = "none"

LEMMA SessionsFrame ==
    ASSUME ProvisionTypeOK, Sessions
    PROVE  SessionFrame
<1> USE DEF SessionFrame, ProvisionTypeOK, SessionStates, accountVars
<1>1. PICK a \in Accounts :
         SessionReady(a) \/ Boots(a) \/ SessionEnds(a) \/ RunnerRegisters(a)
  BY DEF Sessions
<1>2. CASE SessionReady(a)
  BY <1>2 DEF SessionReady, SessionStep
<1>3. CASE Boots(a)
  BY <1>3 DEF Boots, SessionStep
<1>4. CASE SessionEnds(a)
  BY <1>4 DEF SessionEnds, SessionStep
<1>5. CASE RunnerRegisters(a)
  BY <1>5 DEF RunnerRegisters
<1> QED
  BY <1>1, <1>2, <1>3, <1>4, <1>5

-----------------------------------------------------------------------------
(* Types.                                                                  *)

LEMMA SyncType ==
    ASSUME ProvisionTypeOK, NEW cfg \in Configs, Restart(cfg)
    PROVE  ProvisionTypeOK'
<1>1. /\ config' \in Configs /\ edited' \in BOOLEAN
      /\ enabled' \subseteq Accounts
      /\ pc' = "idle" /\ acct' = 0 /\ in_flight' = {}
      /\ UNCHANGED <<notebook, worker, session>>
  BY DEF Restart, SyncFromConfig, ProvisionTypeOK
<1>2. account' \in [Accounts -> {"none", "ACCOUNT_AVAILABLE", "ACCOUNT_DISABLED"}]
  BY DEF Restart, SyncFromConfig, ProvisionTypeOK
<1> QED
  BY <1>1, <1>2 DEF ProvisionTypeOK, InCall

LEMMA ProvisionTypeStep ==
    ASSUME ProvisionTypeOK, [Next]_vars
    PROVE  ProvisionTypeOK'
<1> USE DEF ProvisionTypeOK
<1>1. ASSUME NEW a \in Accounts, Pick(a) PROVE ProvisionTypeOK'
  BY <1>1 DEF Pick, accountVars, InCall, Accounts
<1>2. CASE InsertNotebook
  BY <1>2 DEF InsertNotebook, accountVars, InCall, Accounts
<1>3. CASE StartNotebook
  BY <1>3, StartNotebookFrame DEF CallFrame, AfterInsert, InCall, SessionStates
<1>4. CASE MarkExhausted
  BY <1>4 DEF MarkExhausted, accountVars, InCall
<1>5. CASE Provisioned
  BY <1>5 DEF Provisioned, accountVars, InCall
<1>6. CASE Sessions
  BY <1>6, SessionsFrame DEF SessionFrame, SessionStates
<1>7. ASSUME NEW cfg \in Configs, Restart(cfg) PROVE ProvisionTypeOK'
  BY <1>7, SyncType
<1>8. CASE UNCHANGED vars
  BY <1>8 DEF vars, accountVars
<1> QED
  BY <1>1, <1>2, <1>3, <1>4, <1>5, <1>6, <1>7, <1>8 DEF Next, LazyStart

LEMMA ProvisionTypeInit == Init => ProvisionTypeOK
BY DEF Init, ProvisionTypeOK, InCall, Configs

\* Every variable keeps its type, and an account is in flight exactly during the
\* call of its provider.
THEOREM ProvisionTypeCorrect == Spec => []ProvisionTypeOK
BY ProvisionTypeInit, ProvisionTypeStep, PTL DEF Spec

-----------------------------------------------------------------------------
(* The cap on the rows.                                                    *)

LEMMA AccountSets ==
    ASSUME NEW S \in SUBSET Accounts
    PROVE  /\ IsFiniteSet(S)
           /\ Cardinality(S) \in Nat
<1>1. IsFiniteSet(Accounts)
  BY ProvisioningAssumption, FS_Interval DEF Accounts
<1> QED
  BY <1>1, FS_Subset, FS_CardinalityType

\* The place under the cap that Pick has found is still free when
\* InsertNotebook takes it.
CapOK ==
    /\ CapHolds
    /\ pc = "insert" => Cardinality(Active) < Cap

LEMMA CapStep ==
    ASSUME ProvisionTypeOK, CapOK, [Next]_vars
    PROVE  CapOK'
<1> USE DEF CapOK, CapHolds
<1>0. /\ Active \in SUBSET Accounts
      /\ Cardinality(Active) \in Nat
      /\ IsFiniteSet(Active)
  BY AccountSets DEF Active
<1>1. ASSUME NEW a \in Accounts, Pick(a) PROVE CapOK'
  <2>1. in_flight = {} /\ Cardinality(in_flight) = 0
    BY <1>1, FS_EmptySet DEF Pick, ProvisionTypeOK, InCall
  <2>2. Cardinality(Active) < Cap
    BY <1>0, <1>1, <2>1 DEF Pick, CanProvision
  <2> QED
    BY <1>1, <2>2 DEF Pick, Active
<1>2. CASE InsertNotebook
  <2>1. Active' = Active \union {acct}
    BY <1>2 DEF InsertNotebook, Active, ProvisionTypeOK
  <2>2. Cardinality(Active \union {acct})
            = IF acct \in Active THEN Cardinality(Active) ELSE Cardinality(Active) + 1
    BY <1>0, FS_AddElement
  <2>3. Cardinality(Active') \in Nat
    BY AccountSets DEF Active
  <2>4. Cardinality(Active') <= Cap
    BY <1>0, <1>2, <2>1, <2>2, <2>3, ProvisioningAssumption DEF InsertNotebook
  <2> QED
    BY <1>2, <2>4 DEF InsertNotebook
<1>3. CASE StartNotebook
  BY <1>3, StartNotebookFrame DEF CallFrame, AfterInsert, InCall, Active
<1>4. CASE MarkExhausted
  <2>1. Active' \subseteq Active
    BY <1>4 DEF MarkExhausted, Active, ProvisionTypeOK
  <2>2. Cardinality(Active') <= Cardinality(Active) /\ Cardinality(Active') \in Nat
    BY <1>0, <2>1, FS_Subset, AccountSets
  <2>3. Cardinality(Active') <= Cap
    BY <1>0, <2>2, ProvisioningAssumption
  <2> QED
    BY <1>4, <2>3 DEF MarkExhausted
<1>5. CASE Provisioned
  BY <1>5 DEF Provisioned, Active
<1>6. CASE Sessions
  BY <1>6, SessionsFrame DEF SessionFrame, Active
<1>7. ASSUME NEW cfg \in Configs, Restart(cfg) PROVE CapOK'
  BY <1>7 DEF Restart, Active
<1>8. CASE UNCHANGED vars
  BY <1>8 DEF vars, Active
<1> QED
  BY <1>1, <1>2, <1>3, <1>4, <1>5, <1>6, <1>7, <1>8 DEF Next, LazyStart

LEMMA CapInit == Init => CapOK
<1> SUFFICES ASSUME Init PROVE CapOK
  OBVIOUS
<1>1. Active = {} /\ pc = "idle"
  BY DEF Init, Active
<1> QED
  BY <1>1, FS_EmptySet, ProvisioningAssumption DEF CapOK, CapHolds

\* The rows of starting notebooks never pass the cap, whatever fails, restarts
\* or is reconfigured (_can_provision, _lazy_start).
THEOREM CapHoldsAlways == Spec => []CapHolds
<1>1. ProvisionTypeOK /\ CapOK /\ [Next]_vars => (ProvisionTypeOK /\ CapOK)'
  BY ProvisionTypeStep, CapStep
<1>2. CapOK => CapHolds
  BY DEF CapOK
<1> QED
  BY ProvisionTypeInit, CapInit, <1>1, <1>2, PTL DEF Spec

-----------------------------------------------------------------------------
(* The sessions nobody counts.                                             *)

\* A restart with the same configuration leaves the account rows as they are.
RowsOK ==
    \A a \in Accounts :
        /\ config[a] = "on" => a \in enabled /\ account[a] # "none"
        /\ config[a] = "off" => a \notin enabled /\ account[a] = "ACCOUNT_DISABLED"

\* Every account before the one at hand has an active notebook.
OrderOK ==
    /\ pc = "insert" => acct \in Eligible /\ acct \notin Active
    /\ pc \in AfterInsert => acct \in Eligible /\ acct \in Active
    /\ pc \in AfterInsert \union {"insert"} => \A b \in Eligible \ Active : acct <= b

\* During a start no session is a stray one, nor when the cap is reached.
StrayOK ==
    ~edited =>
        /\ \A a \in Live \ Active :
               a \in Eligible /\ \A b \in Eligible \ Active : a <= b
        /\ pc \in AfterInsert => Live \subseteq Active
        /\ Cardinality(Active) = Cap => Live \subseteq Active

Inv == ProvisionTypeOK /\ CapOK /\ RowsOK /\ OrderOK /\ StrayOK

LEMMA RowsStep ==
    ASSUME ProvisionTypeOK, RowsOK, [Next]_vars
    PROVE  RowsOK'
<1> USE DEF RowsOK
<1>1. CASE UNCHANGED accountVars
  BY <1>1 DEF accountVars
<1>2. ASSUME NEW cfg \in Configs, Restart(cfg) PROVE RowsOK'
  BY <1>2 DEF Restart, SyncFromConfig, Configs, ProvisionTypeOK
<1>3. CASE StartNotebook
  BY <1>1, <1>3, StartNotebookFrame DEF CallFrame, accountVars
<1>4. CASE Sessions
  BY <1>1, <1>4, SessionsFrame DEF SessionFrame, accountVars
<1> QED
  BY <1>1, <1>2, <1>3, <1>4
     DEF Next, LazyStart, Pick, InsertNotebook, MarkExhausted, Provisioned, vars

LEMMA OrderStep ==
    ASSUME ProvisionTypeOK, OrderOK, [Next]_vars
    PROVE  OrderOK'
<1> USE DEF OrderOK, AfterInsert, InCall, Eligible, accountVars
<1>1. ASSUME NEW a \in Accounts, Pick(a) PROVE OrderOK'
  BY <1>1 DEF Pick, IsFirst, Startable, Active, ProvisionTypeOK
<1>2. CASE InsertNotebook
  <2>1. Active' = Active \union {acct} /\ UNCHANGED <<enabled, account, acct>>
    BY <1>2 DEF InsertNotebook, Active, ProvisionTypeOK
  <2> QED
    BY <1>2, <2>1 DEF InsertNotebook
<1>3. CASE StartNotebook
  BY <1>3, StartNotebookFrame DEF CallFrame, Active
<1>4. CASE MarkExhausted
  BY <1>4 DEF MarkExhausted
<1>5. CASE Provisioned
  BY <1>5 DEF Provisioned
<1>6. CASE Sessions
  BY <1>6, SessionsFrame DEF SessionFrame, Active
<1>7. ASSUME NEW cfg \in Configs, Restart(cfg) PROVE OrderOK'
  BY <1>7 DEF Restart
<1>8. CASE UNCHANGED vars
  BY <1>8 DEF vars, Active
<1> QED
  BY <1>1, <1>2, <1>3, <1>4, <1>5, <1>6, <1>7, <1>8 DEF Next, LazyStart

LEMMA StrayStep ==
    ASSUME Inv, [Next]_vars
    PROVE  StrayOK'
<1> USE DEF Inv
<1>0. /\ IsFiniteSet(Active) /\ Cardinality(Active) \in Nat
      /\ acct \in Accounts \union {0}
      /\ \A a, b \in Accounts : a <= b /\ b <= a => a = b
  BY AccountSets DEF Active, ProvisionTypeOK, Accounts
<1>1. ASSUME NEW a \in Accounts, Pick(a) PROVE StrayOK'
  BY <1>1 DEF Pick, StrayOK, Live, Active, Eligible, accountVars, AfterInsert, InCall
<1>2. CASE InsertNotebook
  <2> SUFFICES ASSUME ~edited' PROVE Live' \subseteq Active'
    BY DEF StrayOK
  <2>1. /\ Active' = Active \union {acct} /\ Live' = Live /\ ~edited
        /\ acct \in Eligible \ Active /\ \A b \in Eligible \ Active : acct <= b
    BY <1>2 DEF InsertNotebook, Active, Live, accountVars, OrderOK, ProvisionTypeOK
  <2>2. ASSUME NEW a \in Live, a \notin Active PROVE a = acct
    <3>1. a \in Eligible /\ \A b \in Eligible \ Active : a <= b
      BY <2>1, <2>2 DEF StrayOK
    <3>2. acct \in Accounts /\ a \in Accounts
      BY <2>1 DEF Eligible, ProvisionTypeOK, Live
    <3> QED
      BY <1>0, <2>1, <2>2, <3>1, <3>2
  <2> QED
    BY <2>1, <2>2
<1>3. CASE StartNotebook
  <2> SUFFICES ASSUME ~edited' PROVE Live' \subseteq Active'
    BY DEF StrayOK
  <2>1. /\ Active' = Active /\ ~edited /\ pc \in AfterInsert /\ acct \in Active
        /\ \A a \in Accounts : a # acct => session'[a] = session[a]
    BY <1>3, StartNotebookFrame DEF CallFrame, Active, AfterInsert, OrderOK
  <2> QED
    BY <2>1 DEF StrayOK, Live
<1>4. CASE MarkExhausted
  <2> SUFFICES ASSUME ~edited' PROVE StrayOK'
    BY DEF StrayOK
  <2>1. /\ Active' = Active \ {acct} /\ Live' = Live /\ Eligible' = Eligible
        /\ ~edited /\ pc \in AfterInsert /\ pc' = "idle"
    BY <1>4 DEF MarkExhausted, Active, Live, Eligible, accountVars, AfterInsert,
                ProvisionTypeOK
  <2>2. /\ Live \subseteq Active /\ acct \in Eligible /\ acct \in Active
        /\ \A b \in Eligible \ Active : acct <= b
    BY <2>1 DEF StrayOK, OrderOK
  <2>3. \A a \in Live' \ Active' :
           a \in Eligible' /\ \A b \in Eligible' \ Active' : a <= b
    <3>1. acct \in Nat
      BY <2>2 DEF Eligible, ProvisionTypeOK, Accounts
    <3>2. \A b \in Eligible \ (Active \ {acct}) : acct <= b
      BY <2>2, <3>1
    <3> QED
      BY <2>1, <2>2, <3>2
  <2>4. Cardinality(Active') # Cap
    <3>1. Cardinality(Active \ {acct}) = Cardinality(Active) - 1
      BY <1>0, <2>2, FS_RemoveElement
    <3> QED
      BY <1>0, <2>1, <3>1, ProvisioningAssumption DEF CapOK, CapHolds
  <2> QED
    BY <2>1, <2>3, <2>4 DEF StrayOK, AfterInsert, InCall
<1>5. CASE Provisioned
  BY <1>5 DEF Provisioned, StrayOK, Live, Active, Eligible, accountVars, AfterInsert,
              InCall
<1>6. CASE Sessions
  <2>1. /\ Active' = Active /\ Eligible' = Eligible /\ Live' \subseteq Live
        /\ UNCHANGED <<edited, pc>>
    BY <1>6, SessionsFrame DEF SessionFrame, Active, Eligible, Live
  <2> QED
    BY <2>1 DEF StrayOK
<1>7. ASSUME NEW cfg \in Configs, Restart(cfg) PROVE StrayOK'
  <2> SUFFICES ASSUME ~edited' PROVE StrayOK'
    BY DEF StrayOK
  <2>1. cfg = config /\ ~edited /\ Active' = Active /\ Live' = Live /\ pc' = "idle"
    BY <1>7 DEF Restart, Active, Live
  <2>2. Eligible' = Eligible
    BY <1>7, <2>1 DEF Restart, SyncFromConfig, RowsOK, Eligible, Configs, ProvisionTypeOK
  <2> QED
    BY <2>1, <2>2 DEF StrayOK, AfterInsert, InCall
<1>8. CASE UNCHANGED vars
  BY <1>8 DEF vars, accountVars, StrayOK, Live, Active, Eligible
<1> QED
  BY <1>1, <1>2, <1>3, <1>4, <1>5, <1>6, <1>7, <1>8 DEF Next, LazyStart

LEMMA ProvisionInvInit == Init => Inv
<1> SUFFICES ASSUME Init PROVE Inv
  OBVIOUS
<1>1. RowsOK
  BY DEF Init, RowsOK, Configs
<1>2. OrderOK /\ StrayOK
  BY DEF Init, OrderOK, StrayOK, Live, AfterInsert, InCall
<1> QED
  BY ProvisionTypeInit, CapInit, <1>1, <1>2 DEF Inv

LEMMA ProvisionInvStep == Inv /\ [Next]_vars => Inv'
BY ProvisionTypeStep, CapStep, RowsStep, OrderStep, StrayStep DEF Inv

\* A session left behind by a failed start belongs to the account that is tried
\* next: accounts are taken in the order of their ids and never given up.
THEOREM StrayIsNextHolds == Spec => []StrayIsNext
<1>1. Inv => StrayIsNext
  BY DEF Inv, StrayOK, StrayIsNext
<1> QED
  BY ProvisionInvInit, ProvisionInvStep, <1>1, PTL DEF Spec

LEMMA AtMostOneStray ==
    ASSUME Inv
    PROVE  AccountsWithinCap
<1> SUFFICES ASSUME ~edited PROVE Cardinality(Live) <= Cap
  BY DEF AccountsWithinCap
<1>1. /\ IsFiniteSet(Active) /\ Cardinality(Active) \in Nat
      /\ Cardinality(Live) \in Nat
      /\ Cardinality(Active) <= Cap
  BY AccountSets DEF Active, Live, Inv, CapOK, CapHolds
<1>2. CASE Live \subseteq Active
  <2>1. Cardinality(Live) <= Cardinality(Active)
    BY <1>1, <1>2, FS_Subset
  <2> QED
    BY <1>1, <2>1, ProvisioningAssumption
<1>3. ASSUME NEW a \in Live, a \notin Active PROVE Cardinality(Live) <= Cap
  <2>1. Live \subseteq Active \union {a}
    BY <1>3 DEF Inv, StrayOK, Live, Accounts
  <2>2. /\ IsFiniteSet(Active \union {a})
        /\ Cardinality(Active \union {a}) = Cardinality(Active) + 1
    BY <1>1, <1>3, FS_AddElement
  <2>3. Cardinality(Live) <= Cardinality(Active) + 1
    BY <2>1, <2>2, FS_Subset
  <2>4. Cardinality(Active) # Cap
    BY <1>3 DEF Inv, StrayOK
  <2> QED
    BY <1>1, <2>3, <2>4, ProvisioningAssumption
<1> QED
  BY <1>2, <1>3

\* With an unchanged configuration no more accounts than the cap allows have a
\* live session, the sessions of starts that were reported failed included.
THEOREM AccountsWithinCapHolds == Spec => []AccountsWithinCap
BY ProvisionInvInit, ProvisionInvStep, AtMostOneStray, PTL DEF Spec

\* A registered worker keeps its row when its placeholder is due.
THEOREM RegisteredStaysHolds == Spec => RegisteredStays
<1> DEFINE Stays == \A a \in Accounts : worker[a] = "REGISTERED" => worker'[a] = "REGISTERED"
<1>1. ASSUME ProvisionTypeOK, [Next]_vars PROVE Stays
  <2>1. CASE UNCHANGED worker
    BY <2>1
  <2>2. CASE Provisioned
    BY <1>1, <2>2 DEF Provisioned, ProvisionTypeOK
  <2>3. CASE StartNotebook
    BY <1>1, <2>1, <2>3, StartNotebookFrame DEF CallFrame
  <2>4. CASE Sessions
    BY <1>1, <2>4 DEF Sessions, SessionReady, Boots, SessionEnds, SessionStep,
                      RunnerRegisters, ProvisionTypeOK
  <2> QED
    BY <1>1, <2>1, <2>2, <2>3, <2>4
       DEF Next, LazyStart, Pick, InsertNotebook, MarkExhausted, Restart, vars
<1> QED
  BY ProvisionTypeInit, ProvisionTypeStep, <1>1, PTL DEF Spec, RegisteredStays
=============================================================================
