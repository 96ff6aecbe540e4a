------------------------- MODULE SessionRefinement -------------------------
(***************************************************************************)
(* SessionOwnership implements SessionLifecycle.                           *)
(***************************************************************************)
EXTENDS SessionOwnership

\* A terminal session that resume would accept.
Recoverable(s) ==
    /\ sess[s].status \in Terminal
    /\ ~sess[s].startupFailure
    /\ sess[s].latest # 0

Stage(s) ==
    CASE sess[s].status = "absent" -> "absent"
      [] sess[s].status = "running" -> "open"
      [] OTHER -> IF Recoverable(s) THEN "closed" ELSE "sealed"

Kept(s) == IF Recoverable(s) THEN chks[sess[s].latest].cut ELSE 0

Lifecycle == INSTANCE SessionLifecycle WITH
    life <- [s \in Sessions |-> Stage(s)],
    kept <- [s \in Sessions |-> Kept(s)]

\* Every step of every process, crashes included, is a step of the abstract
\* lifecycle or leaves it unchanged: a session is revived only by resume and
\* only in a free workspace, a sealed session never returns, and what a close
\* keeps is the whole conversation.
ImplementsLifecycle == Lifecycle!Spec

=============================================================================
