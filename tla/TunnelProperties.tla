-------------------------- MODULE TunnelProperties --------------------------
(***************************************************************************)
(* What the runner owes to the controller about a worker's public URL.     *)
(***************************************************************************)
EXTENDS TunnelKeepalive

\* As long as the runner believes to be registered, the controller has the URL
\* the gate has, although tunnels are restarted and answers of the controller
\* are lost in between.
RegisteredIsKnown == registered => controller_url = gate_url

\* Isolated failures of a probe, however many, never cost a healthy tunnel (the
\* comment in _reconcile_worker: a single blip shouldn't flip the tunnel).
BlipIsTolerated == faults = 0 => tun <= 1

\* When nothing goes wrong any more but isolated blips, the controller ends up
\* with a URL that reaches the agent (the promise of _keepalive_loop).
Rejoins == <>[]Reaches(controller_url)
=============================================================================
