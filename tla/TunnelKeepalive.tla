-------------------------- MODULE TunnelKeepalive ---------------------------
(***************************************************************************)
(* One worker's public URL: the runner's loop (worker/runner.py) that      *)
(* watches the cloudflared process of its agent, probes the URL from       *)
(* outside, restarts the tunnel and posts the URL to the controller; and   *)
(* the two kinds of tunnel (worker/cloudflare.py).                         *)
(*                                                                         *)
(* cloudflared processes are numbered.  A quick tunnel has the URL of its  *)
(* process, a named tunnel always the same; 0 is no URL.                   *)
(***************************************************************************)
EXTENDS Naturals

CONSTANTS
    Modes,        \* the tunnel classes _make_tunnel may choose
    MaxFaults     \* bound on what goes wrong in a behaviour, 0 included

ASSUME TunnelAssumption == Modes \subseteq {"quick", "named"} /\ MaxFaults \in Nat

VARIABLES
    mode,             \* QuickTunnel or NamedTunnel
    proc,             \* tunnel.proc: "none", a "live" process or a "dead" one
    tun,              \* the number of the last process started
    log_url,          \* the URL (named: the registration) the log shows
    connected,        \* the edge routes the URL of process tun to the agent
    public_url,       \* tunnel.public_url
    gate_url,         \* gate["url"]
    registered,       \* gate["registered"]
    probe_fails,      \* gate["probe_fails"]
    controller_url,   \* the worker row's tunnel_url at the controller
    pc,               \* where _reconcile_worker is
    known,            \* its known_url while it probes
    blipped,          \* the last good URL probed did not answer, by chance
    faults            \* what has gone wrong so far

tunnelVars == <<mode, proc, tun, log_url, connected, public_url>>
gateVars == <<gate_url, registered, probe_fails, controller_url>>
vars == <<tunnelVars, gateVars, pc, known, blipped, faults>>

UrlOf(n) == IF mode = "named" THEN 1 ELSE n

Init ==
    /\ mode \in Modes
    /\ proc = "none"
    /\ tun = 0
    /\ log_url = 0
    /\ connected = FALSE
    /\ public_url = IF mode = "named" THEN 1 ELSE 0
    /\ gate_url = 0
    /\ registered = FALSE
    /\ probe_fails = 0
    /\ controller_url = 0
    /\ pc = "sleep"
    /\ known = 0
    /\ blipped = FALSE
    /\ faults = 0

TunnelTypeOK ==
    /\ mode \in Modes
    /\ proc \in {"none", "live", "dead"}
    /\ tun \in Nat /\ log_url \in Nat /\ public_url \in Nat
    /\ gate_url \in Nat /\ controller_url \in Nat /\ known \in Nat
    /\ connected \in BOOLEAN
    /\ registered \in BOOLEAN
    /\ probe_fails \in 0 .. 2
    /\ pc \in {"sleep", "probe", "start", "wait", "post"}
    /\ blipped \in BOOLEAN
    /\ faults \in 0 .. MaxFaults

Fault == faults < MaxFaults /\ faults' = faults + 1
NoFault == UNCHANGED faults

\* A request to the URL u gets through to the agent.
Reaches(u) == u # 0 /\ connected /\ u = UrlOf(tun)

-----------------------------------------------------------------------------
(* _reconcile_worker, once at the start and then every interval.           *)

KnownUrl == IF public_url # 0 THEN public_url ELSE gate_url

\* The probe failed, or there was nothing to probe: restart the tunnel if its
\* process is dead or this is the second time in a row.
EdgeDown(dead, url) ==
    /\ probe_fails' = probe_fails + 1
    /\ \/ /\ dead \/ probe_fails + 1 >= 2
          /\ pc' = "start"
          /\ UNCHANGED gate_url
       \/ /\ ~dead /\ probe_fails + 1 < 2
          /\ pc' = "post"
          /\ gate_url' = url
    /\ UNCHANGED <<tunnelVars, registered, controller_url, known>>

LookUp ==
    /\ pc = "sleep"
    /\ proc # "dead" /\ KnownUrl # 0
    /\ pc' = "probe"
    /\ known' = KnownUrl
    /\ UNCHANGED <<tunnelVars, gateVars, blipped, faults>>

NothingToProbe ==
    /\ pc = "sleep"
    /\ proc = "dead" \/ KnownUrl = 0
    /\ EdgeDown(proc = "dead", KnownUrl)
    /\ UNCHANGED <<blipped, faults>>

\* Mutant of ProbeAnswers: failures are not forgotten.
ProbeAnswersInVain ==
    /\ pc = "probe"
    /\ Reaches(known)
    /\ gate_url' = known
    /\ blipped' = FALSE
    /\ pc' = "post"
    /\ UNCHANGED <<tunnelVars, probe_fails, registered, controller_url, known, faults>>

ProbeAnswers ==
    /\ pc = "probe"
    /\ Reaches(known)
    /\ probe_fails' = 0
    /\ gate_url' = known
    /\ blipped' = FALSE
    /\ pc' = "post"
    /\ UNCHANGED <<tunnelVars, registered, controller_url, known, faults>>

\* Mutant of ProbeFails: a live process is taken for a live tunnel.
ProbeFailsUnseen ==
    /\ pc = "probe"
    /\ ~Reaches(known)
    /\ probe_fails' = 0
    /\ gate_url' = known
    /\ pc' = "post"
    /\ UNCHANGED <<tunnelVars, registered, controller_url, known, blipped, faults>>

ProbeFails ==
    /\ pc = "probe"
    /\ ~Reaches(known)
    /\ EdgeDown(FALSE, known)
    /\ UNCHANGED <<blipped, faults>>

\* Quick tunnels are flaky: a probe of a good URL fails now and then.  Twice in
\* a row counts as a fault.
ProbeBlips ==
    /\ pc = "probe"
    /\ Reaches(known)
    /\ EdgeDown(FALSE, known)
    /\ blipped' = TRUE
    /\ IF blipped THEN Fault ELSE NoFault

\* tunnel.start: the old process is stopped, the log truncated, public_url kept
Launch ==
    /\ tun' = tun + 1
    /\ proc' = "live"
    /\ log_url' = 0
    /\ connected' = FALSE
    /\ UNCHANGED <<mode, public_url>>

StartTunnel ==
    /\ pc = "start"
    /\ Launch
    /\ pc' = "wait"
    /\ UNCHANGED <<gateVars, known, blipped, faults>>

\* Mutants of Restarted: the registration, or the count, is not reset.
RestartedRegistered ==
    /\ probe_fails' = 0
    /\ pc' = "post"
    /\ UNCHANGED <<registered, controller_url, known, blipped>>

RestartedCounting ==
    /\ registered' = FALSE
    /\ pc' = "post"
    /\ UNCHANGED <<probe_fails, controller_url, known, blipped>>

\* What follows start_tunnel, whatever it returned.
Restarted ==
    /\ registered' = FALSE
    /\ probe_fails' = 0
    /\ pc' = "post"
    /\ UNCHANGED <<controller_url, known, blipped>>

\* wait_for_url.  A quick tunnel reads the log first, a named one looks at the
\* process first.
WaitFinds ==
    /\ pc = "wait"
    /\ log_url # 0
    /\ mode = "named" => proc = "live"
    /\ public_url' = log_url
    /\ gate_url' = log_url
    /\ Restarted
    /\ UNCHANGED <<mode, proc, tun, log_url, connected, faults>>

WaitRestarts ==
    /\ pc = "wait"
    /\ proc = "dead"
    /\ mode = "quick" => log_url = 0
    /\ Launch
    /\ UNCHANGED <<gateVars, pc, known, blipped, faults>>

\* The deadline: start_tunnel returns None and the gate keeps what it had.
WaitTimesOut ==
    /\ pc = "wait"
    /\ mode = "quick" => log_url = 0
    /\ Restarted
    /\ IF proc = "none" THEN NoFault ELSE Fault
    /\ UNCHANGED <<tunnelVars, gate_url>>

-----------------------------------------------------------------------------
(* Posting the URL to /api/v1/agents/register.                             *)

NothingToPost ==
    /\ pc = "post"
    /\ gate_url = 0 \/ registered
    /\ pc' = "sleep"
    /\ UNCHANGED <<tunnelVars, gateVars, known, blipped, faults>>

\* The controller is up, or its answer is lost, or it is not reached.
Register ==
    /\ pc = "post"
    /\ gate_url # 0 /\ ~registered
    /\ \/ registered' = TRUE /\ controller_url' = gate_url /\ NoFault
       \/ controller_url' = gate_url /\ UNCHANGED registered /\ Fault
       \/ UNCHANGED <<controller_url, registered>> /\ Fault
    /\ pc' = "sleep"
    /\ UNCHANGED <<tunnelVars, gate_url, probe_fails, known, blipped>>

-----------------------------------------------------------------------------
(* The agent's handlers, cloudflared and the edge.                          *)

\* GET /health: is_alive of a quick tunnel takes over a URL that was not waited
\* for long enough.
HealthSeesUrl ==
    /\ mode = "quick" /\ proc = "live" /\ public_url = 0 /\ log_url # 0
    /\ public_url' = log_url
    /\ UNCHANGED <<mode, proc, tun, log_url, connected, gateVars, pc, known, blipped,
                   faults>>

Connects ==
    /\ proc = "live" /\ log_url # UrlOf(tun)
    /\ log_url' = UrlOf(tun)
    /\ connected' = TRUE
    /\ UNCHANGED <<mode, proc, tun, public_url, gateVars, pc, known, blipped, faults>>

\* A zombie: the process lives, the edge has forgotten it.
EdgeDrops ==
    /\ connected
    /\ connected' = FALSE
    /\ Fault
    /\ UNCHANGED <<mode, proc, tun, log_url, public_url, gateVars, pc, known, blipped>>

EdgeReturns ==
    /\ proc = "live" /\ log_url = UrlOf(tun) /\ ~connected
    /\ connected' = TRUE
    /\ UNCHANGED <<mode, proc, tun, log_url, public_url, gateVars, pc, known, blipped,
                   faults>>

\* The process dies, or POST /shutdown stops it.
ProcessEnds ==
    /\ proc = "live"
    /\ proc' \in {"dead", "none"}
    /\ connected' = FALSE
    /\ Fault
    /\ UNCHANGED <<mode, tun, log_url, public_url, gateVars, pc, known, blipped>>

-----------------------------------------------------------------------------

Runner ==
    \/ LookUp \/ NothingToProbe \/ ProbeAnswers \/ ProbeFails \/ ProbeBlips
    \/ StartTunnel \/ WaitFinds \/ WaitRestarts \/ WaitTimesOut
    \/ NothingToPost \/ Register

Next ==
    \/ Runner
    \/ HealthSeesUrl
    \/ Connects \/ EdgeDrops \/ EdgeReturns \/ ProcessEnds

Spec == Init /\ [][Next]_vars

\* _keepalive_loop runs for ever; a process that is left alone connects.
FairSpec == Spec /\ WF_vars(Runner) /\ WF_vars(Connects)

=============================================================================
