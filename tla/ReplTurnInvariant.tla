-------------------------- MODULE ReplTurnInvariant --------------------------
(***************************************************************************)
(* The inductive invariant behind the safety properties of ReplTurn.       *)
(***************************************************************************)
EXTENDS ReplTurn

\* Inside one tool call of a batch.
InCall == {"ask", "prompting", "await", "granted", "refused", "relock", "exec",
           "register", "shell"}
Busy == InRun \cup {"entry", "put", "fatal_code", "fatal_state", "fatal_exec"}

CallsAndShells ==
    \A t \in Turns : /\ w[t].pc \in InCall => w[t].left > 0
                     /\ w[t].pc \in {"register", "shell"} => w[t].shell > 0

\* The thread that is busy is the latest turn's, the controller knows that it
\* executes, and no result is queued; a queued result is the only one.
OneBusy ==
    /\ \A t \in Turns : w[t].pc \in Busy =>
            t = turns /\ ctl.executing /\ completions = <<>>
    /\ completions # <<>> => ctl.executing /\ Len(completions) = 1
    /\ ctl.executing => turns > 0

AtRest ==
    /\ ctl.state = "idle" => ~ctl.executing
    /\ session = "closed" => ~ctl.executing /\ ui.pc = "exited"

\* A question is pending exactly while a worker waits in request_approval.
QuestionOpen ==
    /\ appr.pending <=> \E t \in Turns : w[t].pc \in {"prompting", "await"}
    /\ appr.prompt => \E t \in Turns : w[t].pc \in {"await", "granted", "refused"}

TokenOfTurn ==
    /\ token # 0 => token = turns /\ w[token].pc \in InRun
    /\ ui.pc \in {"deny", "snapshot"} => turns \in interrupted
    /\ ui.pc = "cancel" => ui.token \in interrupted \cup {0}
    /\ cancelled \subseteq interrupted

\* An answer being typed and an accepted interrupt never meet, and what is
\* stored while a question is pending is the current turn's.
Decisions ==
    /\ ctl.state = "cancelling" /\ ui.pc \in {"submit", "answer"} =>
            \A t \in Turns : w[t].pc \notin InRun \cup {"entry"}
    /\ ctl.state = "cancelling" /\ ui.pc # "deny" /\ appr.pending =>
            appr.decision.verdict # "granted"
    /\ appr.pending /\ appr.decision.verdict = "granted" => appr.decision.turn = turns

ResultScoped ==
    /\ \A t \in Turns :
        /\ w[t].pc = "finish" /\ w[t].result = "model_cancelled" => t \in cancelled
        /\ w[t].pc \in {"release", "put"} => w[t].result # "model_cancelled"
    /\ InterruptKeepsSession

TurnInv ==
    /\ TypeOK /\ CallsAndShells /\ OneBusy /\ AtRest /\ QuestionOpen
    /\ TokenOfTurn /\ Decisions /\ ResultScoped
=============================================================================
