---------------------------- MODULE TunnelProofs ----------------------------
(***************************************************************************)
(* Safety of the runner's loop, for every bound on faults: the types, that *)
(* a registration is never believed of a URL the controller does not have, *)
(* and that isolated blips cost no tunnel.                                 *)
(***************************************************************************)
EXTENDS TunnelProperties, TLAPS

USE TunnelAssumption DEF gateVars, tunnelVars, KnownUrl, UrlOf, Fault, NoFault

-----------------------------------------------------------------------------
(* Types: flags and numbers apart.                                         *)

FlagsOK ==
    /\ mode \in Modes
    /\ proc \in {"none", "live", "dead"}
    /\ connected \in BOOLEAN
    /\ registered \in BOOLEAN
    /\ pc \in {"sleep", "probe", "start", "wait", "post"}
    /\ blipped \in BOOLEAN

\* A pass that does not end in a restart leaves at most one failure counted.
NumbersOK ==
    /\ tun \in Nat /\ log_url \in Nat /\ public_url \in Nat
    /\ gate_url \in Nat /\ controller_url \in Nat /\ known \in Nat
    /\ probe_fails \in 0 .. 2
    /\ pc \in {"sleep", "probe", "post"} => probe_fails \in 0 .. 1
    /\ faults \in 0 .. MaxFaults

LEMMA FlagsStep ==
    ASSUME FlagsOK, [Next]_vars
    PROVE  FlagsOK'
<1> USE DEF FlagsOK
<1>1. CASE LookUp
  BY <1>1 DEF LookUp
<1>2. CASE NothingToProbe
  BY <1>2 DEF NothingToProbe, EdgeDown
<1>3. CASE ProbeAnswers
  BY <1>3 DEF ProbeAnswers
<1>4. CASE ProbeFails
  BY <1>4 DEF ProbeFails, EdgeDown
<1>5. CASE ProbeBlips
  BY <1>5 DEF ProbeBlips, EdgeDown
<1>6. CASE StartTunnel
  BY <1>6 DEF StartTunnel, Launch
<1>7. CASE WaitFinds
  BY <1>7 DEF WaitFinds, Restarted
<1>8. CASE WaitRestarts
  BY <1>8 DEF WaitRestarts, Launch
<1>9. CASE WaitTimesOut
  BY <1>9 DEF WaitTimesOut, Restarted
<1>10. CASE NothingToPost
  BY <1>10 DEF NothingToPost
<1>11. CASE Register
  BY <1>11 DEF Register
<1>12. CASE HealthSeesUrl
  BY <1>12 DEF HealthSeesUrl
<1>13. CASE Connects
  BY <1>13 DEF Connects
<1>14. CASE EdgeDrops
  BY <1>14 DEF EdgeDrops
<1>15. CASE EdgeReturns
  BY <1>15 DEF EdgeReturns
<1>16. CASE ProcessEnds
  BY <1>16 DEF ProcessEnds
<1>17. CASE UNCHANGED vars
  BY <1>17 DEF vars
<1> QED
  BY <1>1, <1>2, <1>3, <1>4, <1>5, <1>6, <1>7, <1>8, <1>9, <1>10, <1>11, <1>12,
     <1>13, <1>14, <1>15, <1>16, <1>17 DEF Next, Runner

LEMMA NumbersStep ==
    ASSUME NumbersOK, [Next]_vars
    PROVE  NumbersOK'
<1> USE DEF NumbersOK
<1>1. CASE LookUp
  BY <1>1 DEF LookUp
<1>2. CASE NothingToProbe
  BY <1>2 DEF NothingToProbe, EdgeDown
<1>3. CASE ProbeAnswers
  BY <1>3 DEF ProbeAnswers
<1>4. CASE ProbeFails
  BY <1>4 DEF ProbeFails, EdgeDown
<1>5. CASE ProbeBlips
  BY <1>5 DEF ProbeBlips, EdgeDown
<1>6. CASE StartTunnel
  BY <1>6 DEF StartTunnel, Launch
<1>7. CASE WaitFinds
  BY <1>7 DEF WaitFinds, Restarted
<1>8. CASE WaitRestarts
  BY <1>8 DEF WaitRestarts, Launch
<1>9. CASE WaitTimesOut
  BY <1>9 DEF WaitTimesOut, Restarted
<1>10. CASE NothingToPost
  BY <1>10 DEF NothingToPost
<1>11. CASE Register
  BY <1>11 DEF Register
<1>12. CASE HealthSeesUrl
  BY <1>12 DEF HealthSeesUrl
<1>13. CASE Connects
  BY <1>13 DEF Connects
<1>14. CASE EdgeDrops
  BY <1>14 DEF EdgeDrops
<1>15. CASE EdgeReturns
  BY <1>15 DEF EdgeReturns
<1>16. CASE ProcessEnds
  BY <1>16 DEF ProcessEnds
<1>17. CASE UNCHANGED vars
  BY <1>17 DEF vars
<1> QED
  BY <1>1, <1>2, <1>3, <1>4, <1>5, <1>6, <1>7, <1>8, <1>9, <1>10, <1>11, <1>12,
     <1>13, <1>14, <1>15, <1>16, <1>17 DEF Next, Runner

\* Every variable keeps its type, for any number of faults.
THEOREM TunnelTypeCorrect == Spec => []TunnelTypeOK
<1>1. Init => FlagsOK
  BY DEF Init, FlagsOK
<1>2. Init => NumbersOK
  BY DEF Init, NumbersOK
<1>3. FlagsOK /\ NumbersOK /\ [Next]_vars => (FlagsOK /\ NumbersOK)'
  BY FlagsStep, NumbersStep
<1>4. FlagsOK /\ NumbersOK => TunnelTypeOK
  BY DEF FlagsOK, NumbersOK, TunnelTypeOK
<1> QED
  BY <1>1, <1>2, <1>3, <1>4, PTL DEF Spec

-----------------------------------------------------------------------------
(* Registrations.                                                          *)

\* The gate has no URL but the tunnel's, a probe is of that URL, and what is
\* registered is the gate's URL.
UrlOK ==
    /\ mode = "named" => public_url = 1 /\ log_url \in {0, 1}
    /\ gate_url # 0 => gate_url = public_url
    /\ pc = "probe" => known = public_url /\ public_url # 0
    /\ registered => gate_url # 0 /\ controller_url = gate_url

LEMMA UrlStep ==
    ASSUME UrlOK, [Next]_vars
    PROVE  UrlOK'
<1> USE DEF UrlOK
<1>1. CASE LookUp
  BY <1>1 DEF LookUp
<1>2. CASE NothingToProbe
  BY <1>2 DEF NothingToProbe, EdgeDown
<1>3. CASE ProbeAnswers
  BY <1>3 DEF ProbeAnswers
<1>4. CASE ProbeFails
  BY <1>4 DEF ProbeFails, EdgeDown
<1>5. CASE ProbeBlips
  BY <1>5 DEF ProbeBlips, EdgeDown
<1>6. CASE StartTunnel
  BY <1>6 DEF StartTunnel, Launch
<1>7. CASE WaitFinds
  BY <1>7 DEF WaitFinds, Restarted
<1>8. CASE WaitRestarts
  BY <1>8 DEF WaitRestarts, Launch
<1>9. CASE WaitTimesOut
  BY <1>9 DEF WaitTimesOut, Restarted
<1>10. CASE NothingToPost
  BY <1>10 DEF NothingToPost
<1>11. CASE Register
  BY <1>11 DEF Register
<1>12. CASE HealthSeesUrl
  BY <1>12 DEF HealthSeesUrl
<1>13. CASE Connects
  BY <1>13 DEF Connects
<1>14. CASE EdgeDrops
  BY <1>14 DEF EdgeDrops
<1>15. CASE EdgeReturns
  BY <1>15 DEF EdgeReturns
<1>16. CASE ProcessEnds
  BY <1>16 DEF ProcessEnds
<1>17. CASE UNCHANGED vars
  BY <1>17 DEF vars
<1> QED
  BY <1>1, <1>2, <1>3, <1>4, <1>5, <1>6, <1>7, <1>8, <1>9, <1>10, <1>11, <1>12,
     <1>13, <1>14, <1>15, <1>16, <1>17 DEF Next, Runner

\* The runner never believes the controller to have a URL it does not have
\* (_reconcile_worker clears the flag whenever it restarts the tunnel).
THEOREM RegisteredIsKnownHolds == Spec => []RegisteredIsKnown
<1>1. Init => UrlOK
  BY DEF Init, UrlOK
<1>2. UrlOK /\ [Next]_vars => UrlOK'
  BY UrlStep
<1>3. UrlOK => RegisteredIsKnown
  BY DEF UrlOK, RegisteredIsKnown
<1> QED
  BY <1>1, <1>2, <1>3, PTL DEF Spec

-----------------------------------------------------------------------------
(* Blips.                                                                  *)

\* Before the first tunnel.
NotStarted ==
    /\ proc = "none" /\ ~connected /\ log_url = 0 /\ ~blipped
    /\ pc # "wait"

\* The first tunnel, as long as nothing is wrong with it.
Healthy ==
    /\ proc = "live" /\ pc # "start"
    /\ connected => log_url = 1
    /\ pc # "wait" =>
          /\ connected /\ public_url = 1 /\ gate_url = 1
          /\ probe_fails <= 1
          /\ probe_fails = 1 => blipped

BlipOK ==
    faults = 0 =>
        /\ tun \in {0, 1}
        /\ tun = 0 => NotStarted
        /\ tun = 1 => Healthy
        /\ log_url # 0 => connected

LEMMA BlipStep ==
    ASSUME NumbersOK, UrlOK, BlipOK, [Next]_vars
    PROVE  BlipOK'
<1> USE DEF NumbersOK, UrlOK, BlipOK, NotStarted, Healthy
<1>1. CASE LookUp
  BY <1>1 DEF LookUp
<1>2. CASE NothingToProbe
  BY <1>2 DEF NothingToProbe, EdgeDown
<1>3. CASE ProbeAnswers
  BY <1>3 DEF ProbeAnswers, Reaches
<1>4. CASE ProbeFails
  BY <1>4 DEF ProbeFails, EdgeDown, Reaches
<1>5. CASE ProbeBlips
  BY <1>5 DEF ProbeBlips, EdgeDown, Reaches
<1>6. CASE StartTunnel
  BY <1>6 DEF StartTunnel, Launch
<1>7. CASE WaitFinds
  BY <1>7 DEF WaitFinds, Restarted
<1>8. CASE WaitRestarts
  BY <1>8 DEF WaitRestarts, Launch
<1>9. CASE WaitTimesOut
  BY <1>9 DEF WaitTimesOut, Restarted
<1>10. CASE NothingToPost
  BY <1>10 DEF NothingToPost
<1>11. CASE Register
  BY <1>11 DEF Register
<1>12. CASE HealthSeesUrl
  BY <1>12 DEF HealthSeesUrl
<1>13. CASE Connects
  BY <1>13 DEF Connects
<1>14. CASE EdgeDrops
  BY <1>14 DEF EdgeDrops
<1>15. CASE EdgeReturns
  BY <1>15 DEF EdgeReturns
<1>16. CASE ProcessEnds
  BY <1>16 DEF ProcessEnds
<1>17. CASE UNCHANGED vars
  BY <1>17 DEF vars
<1> QED
  BY <1>1, <1>2, <1>3, <1>4, <1>5, <1>6, <1>7, <1>8, <1>9, <1>10, <1>11, <1>12,
     <1>13, <1>14, <1>15, <1>16, <1>17 DEF Next, Runner

\* As long as nothing but isolated blips happens, the first tunnel is the last
\* (_reconcile_worker restarts after two failed probes in a row only).
THEOREM BlipIsToleratedHolds == Spec => []BlipIsTolerated
<1> DEFINE Inv == NumbersOK /\ UrlOK /\ BlipOK
<1>1. Init => Inv
  BY DEF Init, NumbersOK, UrlOK, BlipOK, NotStarted
<1>2. Inv /\ [Next]_vars => Inv'
  BY NumbersStep, UrlStep, BlipStep
<1>3. Inv => BlipIsTolerated
  BY DEF NumbersOK, BlipOK, BlipIsTolerated
<1> QED
  BY <1>1, <1>2, <1>3, PTL DEF Spec
=============================================================================
