--------------------------- MODULE MCPauseControl ---------------------------
(* PauseControl for model checking: two calls, or a call and an operator.    *)
EXTENDS PauseControl

CONSTANTS c1, c2, o1, o2

MCParties == {{c1, c2}, {c1, o1}}
Pairs == {{c1}, {o1, o2}}

=============================================================================
