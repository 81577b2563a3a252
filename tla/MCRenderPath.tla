----------------------------- MODULE MCRenderPath -----------------------------
(***************************************************************************)
(* Instances of RenderPath: who asks for what.                             *)
(***************************************************************************)
EXTENDS RenderPathProperties

Request(route, workflow) ==
    [route |-> route, workflow |-> workflow, first |-> NoName, last |-> NoName,
     start |-> NoName, refs |-> <<>>, half |-> 96, width |-> Unset,
     height |-> Unset, shot |-> Unset, script |-> TRUE, turbo |-> FALSE,
     pdd |-> FALSE, cache |-> TRUE]

Frames(route, first, last) ==
    [Request(route, FL2VA) EXCEPT !.first = first, !.last = last]

References(refs) == [Request("json", R2V) EXCEPT !.refs = refs]

Shots(start, refs) ==
    [Request("json", Multishot) EXCEPT !.start = start, !.refs = refs,
                                       !.width = 768, !.height = 800]

\* Two clients.  "a" was in the store before any of them; "d" is uploaded by
\* the first and merely named by the second.
TwoClients ==
    {<<Frames("multipart", "d", last), other>> :
        last \in {"a", NoName},
        other \in {Frames("multipart", "b", "c"), Frames("json", "d", "a"),
                   References(<<"a", "d">>)}}

\* The options of one job, with pictures and without; "x" is never there.
Pictured ==
    {Frames("json", "x", "a"), Frames("json", "a", "x"), Frames("json", "a", "b"),
     References(<<>>), References(<<"b", "a", "x">>), References(<<"x", "b">>),
     References(<<"b", "a", "c", "a">>), Shots(NoName, <<>>), Shots("c", <<>>),
     Shots(NoName, <<"b">>), Shots("x", <<"a", "x", "c">>),
     Shots("b", <<"c", "a", "b", "c", "a", "b", "c", "a", "b", "c">>)}

Options ==
    {[r EXCEPT !.turbo = turbo, !.pdd = pdd, !.cache = cache] :
        r \in Pictured, turbo \in BOOLEAN, pdd \in BOOLEAN, cache \in BOOLEAN}

\* Lengths on both sides of every boundary: the range, ties, the grid.
Lengths ==
    {[r EXCEPT !.half = half] :
        r \in {Frames("json", "a", NoName), References(<<>>)},
        half \in {47, 48, 77, 78, 79, 80, 111, 112, 113, 2880, 2881}}

Sizes ==
    {[r EXCEPT !.width = width, !.height = height] :
        r \in {Frames("json", "a", NoName), References(<<"b">>), References(<<>>),
               Shots(NoName, <<>>), Shots(NoName, <<"a">>)},
        width \in {Unset, 0, 31, 1951, 1952, 4128},
        height \in {Unset, 0, 64, 1119, 1120, 4127}}

ShotLengths ==
    {[Shots(NoName, <<>>) EXCEPT !.shot = shot, !.script = script] :
        shot \in {Unset, 0, 4, 33, 34, 243, 492, 493, 498}, script \in BOOLEAN}

OneClient == {<<r, NoRequest>> : r \in Options \cup Lengths \cup Sizes \cup ShotLengths}

AllPlans == OneClient \cup TwoClients

\* Two users of the client library, which calls every first frame "first.png"
\* (here "a") and every last frame "last.png" (here "b").
LibraryPlans == {<<Frames("multipart", "a", "b"), Frames("multipart", "a", "b")>>}
=============================================================================
