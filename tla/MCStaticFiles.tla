---------------------------- MODULE MCStaticFiles ----------------------------
(* A small tree: the root /srv/www, a sibling whose name starts like the   *)
(* root's, files at and above the limit, and links inside, out and in a    *)
(* circle.                                                                 *)
EXTENDS StaticFiles, TLC

W(rest) == <<"srv", "www">> \o rest

MCRoot == W(<<>>)
MCPaths ==
    {<<"srv">>, MCRoot, W(<<"index.html">>), W(<<"a">>), W(<<"a", "b">>),
     <<"srv", "www2">>, <<"srv", "www2", "b">>}

Dir == [type |-> "dir"]
File(n) == [type |-> "file", size |-> n]
Link(p) == [type |-> "link", to |-> p]

MCNewNodes ==
    {Nothing, Dir, File(0), File(2), File(3), Link(<<"srv", "www2">>),
     Link(W(<<"index.html">>)), Link(W(<<"a">>))}

MCTrees ==
    {(<<"srv">> :> Dir) @@ (MCRoot :> Dir) @@ (W(<<"index.html">>) :> i) @@
     (W(<<"a">>) :> a) @@ (W(<<"a", "b">>) :> b) @@
     (<<"srv", "www2">> :> Dir) @@ (<<"srv", "www2", "b">> :> File(1)) :
        i \in {Nothing, File(0), File(2)},
        a \in {Dir, File(1), Link(<<"srv", "www2">>), Link(W(<<"a">>)), Link(W(<<"index.html">>))},
        b \in {Nothing, File(2), File(3)}}

MCTargets ==
    {<<"">>, <<"", "">>, <<"a">>, <<"a", "b">>, <<"a", "", "b">>, <<"a", "..", "b">>,
     <<".">>, <<"b">>}
=============================================================================
