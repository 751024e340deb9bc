----------------------------- MODULE MCPipeline -----------------------------
(* Small instances of Pipeline. *)
EXTENDS Pipeline

MCShape(n, r, e) == [next |-> n, response |-> r, extra |-> e]

\* Everything the result type can hold.
AllShapes == [next : Outcome, response : BOOLEAN, extra : BOOLEAN]

\* The results the bundled modules return, and an error with a response.
UsualShapes ==
    {MCShape("pass", FALSE, FALSE), MCShape("pass", FALSE, TRUE),
     MCShape("respond", TRUE, TRUE), MCShape("upgrade", FALSE, TRUE),
     MCShape("error", FALSE, FALSE), MCShape("error", TRUE, FALSE)}
=============================================================================
