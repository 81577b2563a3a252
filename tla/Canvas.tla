------------------------------- MODULE Canvas -------------------------------
(***************************************************************************)
(* The arithmetic of the workflow adapters (controller/workflow.py,        *)
(* workflow_r2v.py, workflow_multishot.py): how long a video is, how large *)
(* its canvas is, and which requests an adapter refuses.                   *)
(*                                                                         *)
(* A request is a record; a size or a length that is not given is Unset    *)
(* (None).  A size of 0 is not the same; a negative one acts like 1 to 31. *)
(* Durations count half-frames (1/48 s), the finest grid on which rounding *)
(* to frames makes a difference; finer ones round like a neighbour.        *)
(***************************************************************************)
EXTENDS Integers

FL2VA == "minimax-h3"
R2V == "minimax-h3-r2v"
Multishot == "minimax-h3-multishot"

Unset == -1

Larger(m, n) == IF m < n THEN n ELSE m
Smaller(m, n) == IF m < n THEN m ELSE n

\* Python's "n or default": 0 is false, as None is.
Or(n, default) == IF n \in {Unset, 0} THEN default ELSE n

-----------------------------------------------------------------------------
(* Frames.                                                                 *)

\* Python's round: halves go to the even neighbour.
Round(half) ==
    LET n == half \div 2 IN
    IF half % 2 = 1 /\ n % 2 = 1 THEN n + 1 ELSE n

\* Mutant of SnapToGrid: the distance to the grid is taken the other way.
SnapAway(half) ==
    LET base == Larger(5, Round(half)) IN
    base + (((base % 17) - 5) % 17)

\* duration_to_frames: up to the next length of the form 17k + 5.
SnapToGrid(half) ==
    LET base == Larger(5, Round(half)) IN
    base + ((5 - (base % 17)) % 17)

\* parse_duration: 1 to 60 seconds.
DurationOK(half) == 48 <= half /\ half <= 2880

\* Multishot: down to a multiple of 17, at most 481.
ShotLength(shot) == Smaller(Larger(5, (shot \div 17) * 17), 481)

-----------------------------------------------------------------------------
(* Canvas.                                                                 *)

\* Mutant of Align: the canvas is rounded up.
AlignUp(n) == ((n + 31) \div 32) * 32

Align(n) == Larger(32, (n \div 32) * 32)

Template == [w |-> 1344, h |-> 768]      \* the resolution both templates carry
T4Safe == [w |-> 832, h |-> 480]
Square == [w |-> 768, h |-> 768]

\* What stands for a width or height that is not given.  R2V falls back to the
\* safe canvas only if neither is given.
Fallback(r) ==
    CASE r.workflow = FL2VA -> Template
      [] r.workflow = R2V ->
            IF r.width = Unset /\ r.height = Unset THEN T4Safe ELSE Template
      [] r.workflow = Multishot -> Square

\* Whether "or" is asked at all: _resolve_resolution does so for both sizes if
\* one is not given, and for multishot the controller does, the agent does not.
Defaulted(r, by) ==
    IF r.workflow = Multishot THEN by = "controller"
    ELSE r.width = Unset \/ r.height = Unset

Width(r, by) ==
    Align(IF Defaulted(r, by) THEN Or(r.width, Fallback(r).w) ELSE r.width)
Height(r, by) ==
    Align(IF Defaulted(r, by) THEN Or(r.height, Fallback(r).h) ELSE r.height)

\* A length of 0 is replaced at both ends.
Length(r) ==
    IF r.workflow = Multishot THEN ShotLength(Or(r.shot, 243)) ELSE SnapToGrid(r.half)

-----------------------------------------------------------------------------

\* build_prompt does not raise.  The controller gives multishot its defaults;
\* the agent passes None on, which round() does not take.
Builds(r, by) ==
    IF r.workflow = Multishot
    THEN /\ r.script
         /\ by = "agent" => r.width # Unset /\ r.height # Unset
         /\ Width(r, by) <= 4096 /\ Height(r, by) <= 4096
    ELSE /\ DurationOK(r.half)
         /\ Width(r, by) <= 1920 /\ Height(r, by) <= 1088
=============================================================================
