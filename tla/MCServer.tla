------------------------------ MODULE MCServer ------------------------------
(* Small instances of Server: two addresses that compete for slots, and a  *)
(* connection whose peer address could not be formatted.                   *)
EXTENDS Server, TLC

CONSTANTS c1, c2, c3, c4, c5, a1, a2

MCSocket == {c1, c2, c3, c4, c5}
MCPeerOf == (c1 :> a1) @@ (c2 :> a1) @@ (c3 :> a1) @@ (c4 :> a2) @@ (c5 :> Unknown)
=============================================================================
