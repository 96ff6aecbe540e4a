-------------------------- MODULE SessionInvariant --------------------------
(***************************************************************************)
(* The inductive invariant behind the safety properties of                 *)
(* SessionOwnership, as a conjunction of named parts.                      *)
(***************************************************************************)
EXTENDS SessionOwnership

\* idx_sessions_one_running_per_workspace.
OneRunning ==
    \A s, t \in Sessions : Running(s) /\ Running(t) => s = t

\* Owner tokens are drawn once: live processes have different ones, and every
\* token found in a row or in a captured proof was drawn before.
TokensUnique ==
    /\ \A p \in Procs : alive(p) => mem[p].token \in 1..launches
    /\ \A p, q \in Procs :
         alive(p) /\ alive(q) /\ mem[p].token = mem[q].token => p = q
    /\ \A s \in Sessions :
         sess[s].owner # None => sess[s].owner.token <= launches
    /\ \A p \in Procs :
         mem[p].proof # None => mem[p].proof.token <= launches

\* A process that has not claimed yet has left its token nowhere.
TokensUnclaimed ==
    \A q \in Procs : pc[q] \in Admission =>
        /\ \A s \in Sessions :
             sess[s].owner # None => sess[s].owner.token # mem[q].token
        /\ \A p \in Procs :
             mem[p].proof # None => mem[p].proof.token # mem[q].token

\* What each step finds in the local variables.
LocalState ==
    \A p \in Procs :
        /\ pc[p] \in Dead \union {"create", "recreate"} \union Creating
             => mem[p].view = 0
        /\ pc[p] = "create" => mem[p].flow = "start"
        /\ pc[p] \in Holding \union {"release", "load", "loadrun", "revive"}
             => mem[p].sid \in Sessions
        /\ pc[p] \in StaleSteps =>
             /\ mem[p].flow \in {"start", "self", "other"}
             /\ mem[p].flow # "start" => mem[p].sid \in Sessions
             /\ mem[p].flow = "start" => mem[p].view = 0
        /\ pc[p] = "boot" => mem[p].view = 0
        /\ pc[p] = "revive" => mem[p].flow = "other"
        /\ pc[p] \in {"load", "loadrun"} => mem[p].flow \in {"resume", "self"}
        /\ pc[p] = "loadrun" => mem[p].seen # None
        /\ pc[p] \in StaleSteps \union {"revive"} /\ mem[p].flow = "other" =>
             mem[p].chk \in 1..Len(chks)
        /\ pc[p] \in StaleSteps \ {"find"} => mem[p].blk \in Sessions
        /\ pc[p] \in {"probe", "confirm", "prepare", "fence"} =>
             /\ mem[p].proof \in OwnerFacts
             /\ mem[p].proof.host = HostOf[p]

\* A captured proof names its owner truly, and once the probe found the pid
\* absent that owner is gone for good.
ProofHonest ==
    \A p, q \in Procs : pc[q] \in Claimed =>
        /\ /\ pc[p] = "probe"
           /\ mem[p].proof.token = mem[q].token
           => PidOf[q] = mem[p].proof.pid /\ HostOf[q] = mem[p].proof.host
        /\ pc[p] \in {"confirm", "prepare", "fence"} =>
             mem[p].proof.token # mem[q].token

\* Rows between the commits of a multi-commit transition.
RowsInStep ==
    /\ \A s \in Sessions :
         sess[s].status = "absent" => log[s] = 0 /\ sess[s] = NoSession
    /\ \A p \in Procs :
         /\ pc[p] \in Creating \union {"boot"} => log[mem[p].sid] = 0
         /\ pc[p] = "startfail" =>
              run[mem[p].sid] = [status |-> "failed", latest |-> 0,
                                 startupFailure |-> TRUE]
         /\ pc[p] = "markfail" =>
              run[mem[p].sid] = [status |-> "failed", latest |-> 0,
                                 startupFailure |-> FALSE]

\* A checkpoint of session s over its whole conversation.
Covers(c, s) ==
    /\ c \in 1..Len(chks)
    /\ chks[c].session = s
    /\ chks[c].cut = log[s]

\* Manifests built but not committed, and the checkpoint a revived session
\* still names, cover the conversation.
ManifestsCover ==
    \A p \in Procs :
        /\ pc[p] = "commit" =>
             /\ mem[p].prep \in Manifest
             /\ mem[p].prep.session = mem[p].sid
             /\ mem[p].prep.cut = log[mem[p].sid]
        /\ pc[p] = "fence" /\ mem[p].prep # None =>
             /\ mem[p].prep.session = mem[p].blk
             /\ mem[p].prep.status = "failed"
             /\ Fence(mem[p].blk, mem[p].proof) =>
                  mem[p].prep.cut = log[mem[p].blk]
        /\ pc[p] = "handoff" =>
             /\ Covers(sess[mem[p].sid].latest, mem[p].sid)
             /\ run[mem[p].sid].latest = sess[mem[p].sid].latest
             /\ ~sess[mem[p].sid].startupFailure
             /\ ~run[mem[p].sid].startupFailure

\* CheckpointCoversLog, DriverSeesWholeLog, TerminalRowsAgree,
\* LiveOwnerKeepsItsClaim and OneLiveOwner hold, and hold inductively
\* together with the parts above.
Inv ==
    /\ TypeOK
    /\ OneRunning
    /\ TokensUnique
    /\ TokensUnclaimed
    /\ LocalState
    /\ LiveOwnerKeepsItsClaim
    /\ OneLiveOwner
    /\ ProofHonest
    /\ RowsInStep
    /\ ManifestsCover
    /\ CheckpointCoversLog
    /\ DriverSeesWholeLog
    /\ TerminalRowsAgree

=============================================================================
