------------------------ MODULE MCSessionRefinement ------------------------
(***************************************************************************)
(* TLC instance of SessionRefinement: two slots on one host.               *)
(***************************************************************************)
EXTENDS SessionRefinement, TLC

CONSTANTS p1, p2, h1

Slots == {p1, p2}
OwnPid == [p \in Slots |-> p]
OneHost == [p \in Slots |-> h1]
=============================================================================
