------------------------- MODULE MCSessionOwnership -------------------------
(***************************************************************************)
(* TLC instances of SessionOwnership.                                      *)
(*   TwoHosts: two slots on one host, one on another, two sessions: races  *)
(*     between starters and resumers, and probes from the wrong host.      *)
(*   OneHost: slots on one host, for admission.                            *)
(***************************************************************************)
EXTENDS SessionInvariant, TLC

CONSTANTS p1, p2, p3, h1, h2

Slots == {p1, p2, p3}
TwoSlots == {p1, p2}
OwnPid == [p \in Slots |-> p]
TwoHosts == p1 :> h1 @@ p2 :> h1 @@ p3 :> h2
OneHost == [p \in Slots |-> h1]

SessionSymmetry == Permutations(Sessions)
=============================================================================
