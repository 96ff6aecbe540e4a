-------------------------- MODULE SessionLifecycle --------------------------
(***************************************************************************)
(* What the session store promises, without processes, rows or             *)
(* checkpoints.  A session is opened once, its conversation grows only     *)
(* while it is open, and one session of the workspace is open at a time.   *)
(* Ending it either keeps the whole conversation recoverable ("closed") or *)
(* gives the session up for good ("sealed"); explicit resume is the only   *)
(* way back, and it finds exactly what was kept.                           *)
(***************************************************************************)
EXTENDS Naturals

CONSTANT Sessions

VARIABLES
    life,    \* stage of each session
    log,     \* number of accepted messages
    kept     \* messages a resume would restore; 0 unless closed

vars == <<life, log, kept>>

Stages == {"absent", "open", "closed", "sealed"}

NoneOpen == \A s \in Sessions : life[s] # "open"

Init ==
    /\ life = [s \in Sessions |-> "absent"]
    /\ log = [s \in Sessions |-> 0]
    /\ kept = [s \in Sessions |-> 0]

Open(s) ==
    /\ life[s] = "absent"
    /\ NoneOpen
    /\ life' = [life EXCEPT ![s] = "open"]
    /\ UNCHANGED <<log, kept>>

Extend(s) ==
    /\ life[s] = "open"
    /\ log' = [log EXCEPT ![s] = @ + 1]
    /\ UNCHANGED <<life, kept>>

Close(s) ==
    /\ life[s] = "open"
    /\ life' = [life EXCEPT ![s] = "closed"]
    /\ kept' = [kept EXCEPT ![s] = log[s]]
    /\ UNCHANGED log

Seal(s) ==
    /\ life[s] = "open"
    /\ life' = [life EXCEPT ![s] = "sealed"]
    /\ UNCHANGED <<log, kept>>

Reopen(s) ==
    /\ life[s] = "closed"
    /\ kept[s] = log[s]
    /\ NoneOpen
    /\ life' = [life EXCEPT ![s] = "open"]
    /\ kept' = [kept EXCEPT ![s] = 0]
    /\ UNCHANGED log

Next ==
    \E s \in Sessions :
        Open(s) \/ Extend(s) \/ Close(s) \/ Seal(s) \/ Reopen(s)

Spec == Init /\ [][Next]_vars

=============================================================================
