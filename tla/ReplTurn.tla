------------------------------- MODULE ReplTurn -------------------------------
(***************************************************************************)
(* One interactive process: the UI thread (prompt_toolkit key handlers and *)
(* its drain task) and the worker thread of each turn.  They share the     *)
(* fields of ReplController and of ReplRuntime, most of them without a     *)
(* lock, so one action is one read or one write that the other thread can  *)
(* come between.                                                           *)
(***************************************************************************)
EXTENDS Integers, Sequences, FiniteSets

CONSTANTS MaxTurns,   \* turns the user may submit
          MaxRounds,  \* model calls of a turn (the adapter's iteration limit)
          MaxBatch,   \* tool calls in one model response
          MaxShells   \* shell processes ever started

ASSUME BoundsAssumption ==
    MaxTurns \in Nat /\ MaxRounds \in Nat /\ MaxBatch \in Nat /\ MaxShells \in Nat

Turns == 1 .. MaxTurns
Shells == 1 .. MaxShells

VARIABLES
    ctl,          \* ReplController.control_state, is_executing, exit_code
    inputOn,      \* the view's _input_enabled
    appr,         \* _approval_pending, _approval_decision, the view's _approval_prompt
    ui,           \* where the UI thread is, and its local variables
    turns,        \* _turn_counter
    w,            \* the worker thread of each turn
    token,        \* turn whose token is _active_cancellation_token, 0 for None
    handles,      \* _active_shell_handles
    cancelled,    \* turns whose token is set
    shells,       \* the shell processes
    completions,  \* _completion_queue
    fact,         \* what the durable conversation says of how a turn ended
    session,      \* "running" until complete or fail
    interrupted   \* history: turns in which the UI accepted an interrupt

runtime == <<token, handles, cancelled>>
outcome == <<completions, fact, session>>
vars == <<ctl, inputOn, appr, ui, turns, w, token, handles, cancelled, shells,
          completions, fact, session, interrupted>>

Results == {"none", "completed", "model_cancelled", "user_cancelled", "denied",
            "failed", "failed_session"}
InRun == {"model", "wait", "tool", "ask", "prompting", "await", "granted",
          "refused", "exec", "relock", "register", "shell", "finish", "release",
          "abort"}
Fatal == {"fatal_code", "fatal_state", "fatal_exec", "fatal_discard", "aborted"}
WorkerAt == InRun \cup Fatal \cup {"unborn", "entry", "put", "done"}
UiAt == {"loop", "submit", "answer", "start", "slash", "interrupt", "deny",
         "snapshot", "cancel", "terminate", "exited"}
Texts == {"y", "n", "text", "/exit"}
NoDecision == [verdict |-> "none", turn |-> 0]

AtLoop == [pc |-> "loop", text |-> "text", token |-> 0, shells |-> {}]

Init ==
    /\ ctl = [state |-> "idle", executing |-> FALSE, exit |-> "ok"]
    /\ inputOn = TRUE
    /\ appr = [pending |-> FALSE, decision |-> NoDecision, prompt |-> FALSE]
    /\ ui = AtLoop
    /\ turns = 0
    /\ w = [t \in Turns |-> [pc |-> "unborn", left |-> 0, rounds |-> 0,
                             result |-> "none", shell |-> 0]]
    /\ token = 0 /\ handles = {} /\ cancelled = {}
    /\ shells = [s \in Shells |-> "none"]
    /\ completions = <<>>
    /\ fact = [t \in Turns |-> "none"]
    /\ session = "running"
    /\ interrupted = {}

-----------------------------------------------------------------------------
(* UI thread: keys.  The view's own gates come first. *)

UiGoto(pc) == ui' = IF pc = "loop" THEN AtLoop ELSE [ui EXCEPT !.pc = pc]

\* Enter outside an approval prompt: _dispatch, then on_slash_command or the
\* first check of on_submit.
PressEnter(text) ==
    /\ ui.pc = "loop" /\ inputOn /\ ~appr.prompt
    /\ \/ text = "/exit"
       \/ text # "/exit" /\ ctl.state # "cancelling"
    /\ ui' = [ui EXCEPT !.pc = IF text = "/exit" THEN "slash" ELSE "submit",
                        !.text = text]
    /\ UNCHANGED <<ctl, inputOn, appr, turns, w, runtime, shells, outcome, interrupted>>

\* y or n inside an approval prompt goes to on_submit.
PressAnswer(text) ==
    /\ ui.pc = "loop" /\ ctl.state # "cancelling" /\ appr.prompt
    /\ text \in {"y", "n"}
    /\ ui' = [ui EXCEPT !.pc = "submit", !.text = text]
    /\ UNCHANGED <<ctl, inputOn, appr, turns, w, runtime, shells, outcome, interrupted>>

\* on_submit asks whether a question is pending; another text is no answer.
SubmitChecksPending ==
    /\ ui.pc = "submit"
    /\ UiGoto(IF ~appr.pending THEN "start"
              ELSE IF ui.text \in {"y", "n"} THEN "answer" ELSE "loop")
    /\ UNCHANGED <<ctl, inputOn, appr, turns, w, runtime, shells, outcome, interrupted>>

\* _handle_approval_response stores the decision, whoever is waiting by now.
Answer ==
    /\ ui.pc = "answer"
    /\ appr' = [appr EXCEPT !.decision =
                    [verdict |-> IF ui.text = "y" THEN "granted" ELSE "denied",
                     turn |-> turns]]
    /\ UiGoto("loop")
    /\ UNCHANGED <<ctl, inputOn, turns, w, runtime, shells, outcome, interrupted>>

\* Busy, or a new turn and its thread.
StartTurn ==
    /\ ui.pc = "start"
    /\ UiGoto("loop")
    /\ \/ /\ ctl.executing
          /\ UNCHANGED <<ctl, inputOn, turns, w>>
       \/ /\ ~ctl.executing /\ turns < MaxTurns
          /\ turns' = turns + 1
          /\ ctl' = [ctl EXCEPT !.executing = TRUE, !.state = "running_turn"]
          /\ inputOn' = FALSE
          /\ w' = [w EXCEPT ![turns + 1].pc = "entry"]
    /\ UNCHANGED <<appr, runtime, shells, outcome, interrupted>>

\* /exit: ignored while a turn runs, otherwise runtime.complete() and out.
SlashExit ==
    /\ ui.pc = "slash"
    /\ \/ /\ ctl.executing \/ ctl.state = "cancelling"
          /\ UiGoto("loop")
          /\ UNCHANGED <<ctl, session>>
       \/ /\ ~ctl.executing /\ ctl.state # "cancelling"
          /\ session' = "closed"
          /\ ctl' = [ctl EXCEPT !.exit = "ok"]
          /\ UiGoto("exited")
    /\ UNCHANGED <<inputOn, appr, turns, w, runtime, shells, completions, fact, interrupted>>

-----------------------------------------------------------------------------
(* UI thread: Ctrl+C or Esc *)

\* A second interrupt while cancelling is dropped.
PressInterrupt ==
    /\ ui.pc = "loop" /\ ctl.state # "cancelling"
    /\ UiGoto("interrupt")
    /\ UNCHANGED <<ctl, inputOn, appr, turns, w, runtime, shells, outcome, interrupted>>

\* Mutant: the prompt comes back at once instead of when the turn has ended.
InterruptAndReturn ==
    /\ ui.pc = "interrupt" /\ ctl.executing
    /\ ctl' = [ctl EXCEPT !.state = "idle", !.executing = FALSE]
    /\ interrupted' = interrupted \cup {turns}
    /\ UiGoto("deny")
    /\ UNCHANGED <<inputOn, appr, turns, w, runtime, shells, outcome>>

InterruptRunning ==
    /\ ui.pc = "interrupt" /\ ctl.executing
    /\ ctl' = [ctl EXCEPT !.state = "cancelling"]
    /\ interrupted' = interrupted \cup {turns}
    /\ UiGoto("deny")
    /\ UNCHANGED <<inputOn, appr, turns, w, runtime, shells, outcome>>

\* Nothing runs: cancel_idle terminalizes the session and the view exits.
InterruptIdle ==
    /\ ui.pc = "interrupt" /\ ~ctl.executing
    /\ ctl' = [state |-> "terminalizing", executing |-> FALSE, exit |-> "interrupted"]
    /\ session' = "closed"
    /\ inputOn' = FALSE
    /\ UiGoto("exited")
    /\ UNCHANGED <<appr, turns, w, runtime, shells, completions, fact, interrupted>>

\* Mutant: an answer that is already there is left alone.
DenyUnanswered ==
    /\ ui.pc = "deny"
    /\ appr' = IF appr.pending /\ appr.decision = NoDecision
               THEN [appr EXCEPT !.decision = [verdict |-> "denied", turn |-> turns]]
               ELSE appr
    /\ inputOn' = FALSE
    /\ UiGoto("snapshot")
    /\ UNCHANGED <<ctl, turns, w, runtime, shells, outcome, interrupted>>

\* _cancel_pending_approval
DenyPending ==
    /\ ui.pc = "deny"
    /\ appr' = IF appr.pending
               THEN [appr EXCEPT !.decision = [verdict |-> "denied", turn |-> turns]]
               ELSE appr
    /\ inputOn' = FALSE
    /\ UiGoto("snapshot")
    /\ UNCHANGED <<ctl, turns, w, runtime, shells, outcome, interrupted>>

\* cancel_running_turn copies the token and the handles under the lock ...
SnapshotTurn ==
    /\ ui.pc = "snapshot"
    /\ ui' = [ui EXCEPT !.pc = "cancel", !.token = token, !.shells = handles]
    /\ UNCHANGED <<ctl, inputOn, appr, turns, w, runtime, shells, outcome, interrupted>>

\* Mutant: the token is used although the copy may be None.
SetTokenUnchecked ==
    /\ ui.pc = "cancel"
    /\ cancelled' = cancelled \cup {ui.token}
    /\ UiGoto("terminate")
    /\ UNCHANGED <<ctl, inputOn, appr, turns, w, token, handles, shells, outcome, interrupted>>

\* ... and uses the copies after it.
SetToken ==
    /\ ui.pc = "cancel"
    /\ cancelled' = cancelled \cup ({ui.token} \ {0})
    /\ UiGoto("terminate")
    /\ UNCHANGED <<ctl, inputOn, appr, turns, w, token, handles, shells, outcome, interrupted>>

\* ActiveShellProcessHandle.terminate: SIGTERM, if the process still runs.
Asked(S) == [s \in Shells |-> IF s \in S /\ shells[s] = "running" THEN "asked" ELSE shells[s]]

TerminateShells ==
    /\ ui.pc = "terminate"
    /\ shells' = Asked(ui.shells)
    /\ UiGoto("loop")
    /\ UNCHANGED <<ctl, inputOn, appr, turns, w, runtime, outcome, interrupted>>

-----------------------------------------------------------------------------
(* UI thread: _drain_once *)

FailedClosed == ctl.exit = "interrupted" /\ ctl.state = "cancelling"

\* After a fatal boundary results are thrown away; the view exits once the
\* controller no longer executes.
DrainFatal ==
    /\ ui.pc = "loop" /\ FailedClosed
    /\ completions' = <<>>
    /\ UiGoto(IF ctl.executing THEN "loop" ELSE "exited")
    /\ UNCHANGED <<ctl, inputOn, appr, turns, w, runtime, shells, fact, session, interrupted>>

\* _is_turn_scoped_failure: a bare provider cancellation has no turn scope.
TurnScoped(result) == result \in {"user_cancelled", "denied", "failed"}

\* Mutant: the end of a turn keeps "cancelling", as handle_line does.
DrainKeepsCancelling ==
    /\ ui.pc = "loop" /\ ~FailedClosed /\ completions # <<>>
    /\ completions' = Tail(completions)
    /\ LET result == Head(completions).result
           keep == result = "completed" \/ TurnScoped(result)
       IN  /\ session' = IF keep THEN session ELSE "closed"
           /\ ctl' = [state |-> IF ctl.state = "cancelling" THEN "cancelling" ELSE "idle",
                      executing |-> FALSE,
                      exit |-> IF keep THEN ctl.exit ELSE "failed"]
           /\ inputOn' = keep
           /\ UiGoto(IF keep THEN "loop" ELSE "exited")
    /\ UNCHANGED <<appr, turns, w, runtime, shells, fact, interrupted>>

\* on_turn_finished
DrainResult ==
    /\ ui.pc = "loop" /\ ~FailedClosed /\ completions # <<>>
    /\ completions' = Tail(completions)
    /\ LET result == Head(completions).result
           keep == result = "completed" \/ TurnScoped(result)
       IN  /\ session' = IF keep THEN session ELSE "closed"
           /\ ctl' = [state |-> "idle", executing |-> FALSE,
                      exit |-> IF keep THEN ctl.exit ELSE "failed"]
           /\ inputOn' = keep
           /\ UiGoto(IF keep THEN "loop" ELSE "exited")
    /\ UNCHANGED <<appr, turns, w, runtime, shells, fact, interrupted>>

-----------------------------------------------------------------------------
(* Worker thread of turn t: ReplRuntime.run_turn *)

Goto(t, pc) == w' = [w EXCEPT ![t].pc = pc]
End(t, result) == w' = [w EXCEPT ![t].pc = "finish", ![t].result = result]
NextTool(t) == w' = [w EXCEPT ![t].pc = "tool", ![t].left = @ - 1]

\* A fresh token, no handles; composing the context may end the turn at once.
InstallToken(t) ==
    /\ w[t].pc = "entry"
    /\ token' = t /\ handles' = {}
    /\ Goto(t, "model") \/ End(t, "failed")
    /\ UNCHANGED <<ctl, inputOn, appr, ui, turns, cancelled, shells, outcome, interrupted>>

\* A provider call looks at the token before it waits.  A cancelled call is
\* collected; a worker that does not stop in time aborts the command.
CallModel(t) ==
    /\ w[t].pc = "model"
    /\ \/ /\ w[t].rounds = MaxRounds
          /\ End(t, "failed")
       \/ /\ w[t].rounds < MaxRounds /\ t \notin cancelled
          /\ w' = [w EXCEPT ![t].pc = "wait", ![t].rounds = @ + 1]
       \/ /\ w[t].rounds < MaxRounds /\ t \in cancelled
          /\ End(t, "model_cancelled") \/ Goto(t, "abort")
    /\ UNCHANGED <<ctl, inputOn, appr, ui, turns, runtime, shells, outcome, interrupted>>

\* The call ends: an answer, a batch of tool calls, an error (with the retries
\* of it), a cancellation, or a worker that does not stop.  The end of a stream
\* is accepted even if the token was set while the caller waited for it.
ModelReturns(t) ==
    /\ w[t].pc = "wait"
    /\ \/ End(t, "completed")
       \/ \E n \in 1 .. MaxBatch : w' = [w EXCEPT ![t].pc = "tool", ![t].left = n]
       \/ \E result \in {"failed", "failed_session"} : End(t, result)
       \/ t \in cancelled /\ End(t, "model_cancelled")
       \/ Goto(t, "abort")
    /\ UNCHANGED <<ctl, inputOn, appr, ui, turns, runtime, shells, outcome, interrupted>>

\* _invoke_stream_tool_calls looks at no token between the calls of a batch:
\* the broker refuses a call, asks, or executes.  After the batch the next
\* context is composed, which may end the turn.
BrokerInvoke(t) ==
    /\ w[t].pc = "tool"
    /\ \/ w[t].left = 0 /\ (Goto(t, "model") \/ End(t, "failed"))
       \/ w[t].left > 0 /\ \/ NextTool(t)
                           \/ \E pc \in {"ask", "exec"} : Goto(t, pc)
    /\ UNCHANGED <<ctl, inputOn, appr, ui, turns, runtime, shells, outcome, interrupted>>

-----------------------------------------------------------------------------
(* Worker thread: request_approval *)

\* Mutant: an old decision is still there when the question opens.
BeginApprovalStale(t) ==
    /\ w[t].pc = "ask"
    /\ appr' = [appr EXCEPT !.pending = TRUE]
    /\ Goto(t, "prompting")
    /\ UNCHANGED <<ctl, inputOn, ui, turns, runtime, shells, outcome, interrupted>>

BeginApproval(t) ==
    /\ w[t].pc = "ask"
    /\ appr' = [appr EXCEPT !.decision = NoDecision, !.pending = TRUE]
    /\ Goto(t, "prompting")
    /\ UNCHANGED <<ctl, inputOn, ui, turns, runtime, shells, outcome, interrupted>>

ShowApproval(t) ==
    /\ w[t].pc = "prompting"
    /\ appr' = [appr EXCEPT !.prompt = TRUE]
    /\ inputOn' = TRUE
    /\ Goto(t, "await")
    /\ UNCHANGED <<ctl, ui, turns, runtime, shells, outcome, interrupted>>

TakeDecision(t) ==
    /\ w[t].pc = "await" /\ appr.decision # NoDecision
    /\ Goto(t, IF appr.decision.verdict = "granted" THEN "granted" ELSE "refused")
    /\ appr' = [appr EXCEPT !.decision = NoDecision, !.pending = FALSE]
    /\ UNCHANGED <<ctl, inputOn, ui, turns, runtime, shells, outcome, interrupted>>

\* end_inline_approval; the input is disabled a step later.
HideApproval(t) ==
    /\ w[t].pc \in {"granted", "refused"}
    /\ appr' = [appr EXCEPT !.prompt = FALSE]
    /\ w' = [w EXCEPT ![t].pc = "relock",
                      ![t].result = IF w[t].pc = "granted" THEN "none" ELSE "denied"]
    /\ UNCHANGED <<ctl, inputOn, ui, turns, runtime, shells, outcome, interrupted>>

\* In the broker a denial aborts the batch, and with it the turn.
AfterApproval(result) == IF result = "denied" THEN "finish" ELSE "exec"

LockInput(t) ==
    /\ w[t].pc = "relock"
    /\ inputOn' = (inputOn /\ ~ctl.executing)
    /\ Goto(t, AfterApproval(w[t].result))
    /\ UNCHANGED <<ctl, appr, ui, turns, runtime, shells, outcome, interrupted>>

-----------------------------------------------------------------------------
(* Worker thread: tool execution, and the shell processes it starts *)

\* A tool that starts no process, view_image whose provider does not stop, or
\* Popen.
Execute(t) ==
    /\ w[t].pc = "exec"
    /\ \/ (NextTool(t) \/ Goto(t, "abort")) /\ UNCHANGED shells
       \/ \E s \in Shells :
            /\ \A r \in Shells : shells[r] = "none" <=> r >= s
            /\ shells' = [shells EXCEPT ![s] = "running"]
            /\ w' = [w EXCEPT ![t].pc = "register", ![t].shell = s]
    /\ UNCHANGED <<ctl, inputOn, appr, ui, turns, runtime, outcome, interrupted>>

RegisterHandle(t) ==
    /\ w[t].pc = "register"
    /\ handles' = handles \cup {w[t].shell}
    /\ Goto(t, "shell")
    /\ UNCHANGED <<ctl, inputOn, appr, ui, turns, token, cancelled, shells, outcome, interrupted>>

\* communicate() returns once the process is gone; the batch goes on.
ShellEnds(t) ==
    /\ w[t].pc = "shell" /\ shells[w[t].shell] = "over"
    /\ NextTool(t)
    /\ UNCHANGED <<ctl, inputOn, appr, ui, turns, runtime, shells, outcome, interrupted>>

\* The broker stops waiting for the tool's thread at the route timeout.
BrokerTimeout(t) ==
    /\ w[t].pc = "shell"
    /\ NextTool(t)
    /\ UNCHANGED <<ctl, inputOn, appr, ui, turns, runtime, shells, outcome, interrupted>>

\* The runner's own timeout: SIGTERM, then wait for as long as it takes.
RunnerTimeout(s) ==
    /\ shells[s] = "running"
    /\ shells' = Asked({s})
    /\ UNCHANGED <<ctl, inputOn, appr, ui, turns, w, runtime, outcome, interrupted>>

\* The process ends by itself or by the signal.  It may also ignore the signal.
ShellExits(s) ==
    /\ shells[s] \in {"running", "asked"}
    /\ shells' = [shells EXCEPT ![s] = "over"]
    /\ UNCHANGED <<ctl, inputOn, appr, ui, turns, w, runtime, outcome, interrupted>>

-----------------------------------------------------------------------------
(* Worker thread: the end of a turn *)

\* Mutant: only denials are rewritten.
ScopedDenialOnly(t, result) ==
    IF t \in cancelled /\ result = "denied" THEN "user_cancelled" ELSE result

\* _turn_scoped_running_cancellation: only these two results are rewritten.
Scoped(t, result) ==
    IF t \in cancelled /\ result \in {"model_cancelled", "denied"}
    THEN "user_cancelled" ELSE result

\* _append_durable_result
FactOf(result) ==
    CASE result = "completed" -> "assistant"
      [] result \in {"model_cancelled", "user_cancelled"} -> "cancelled"
      [] OTHER -> "failed"

\* An exception on the way leaves no fact, and no turn scope in the result.
FinishTurn(t) ==
    /\ w[t].pc = "finish"
    /\ \/ LET result == Scoped(t, w[t].result)
          IN  /\ w' = [w EXCEPT ![t].pc = "release", ![t].result = result]
              /\ fact' = [fact EXCEPT ![t] = FactOf(result)]
       \/ /\ w' = [w EXCEPT ![t].pc = "release", ![t].result = "failed_session"]
          /\ UNCHANGED fact
    /\ UNCHANGED <<ctl, inputOn, appr, ui, turns, runtime, shells, completions, session, interrupted>>

\* Mutant: the finally clause forgets the token.
ReleaseHandlesOnly(t) ==
    /\ w[t].pc \in {"release", "abort"}
    /\ handles' = {}
    /\ Goto(t, IF w[t].pc = "release" THEN "put" ELSE "fatal_code")
    /\ UNCHANGED <<ctl, inputOn, appr, ui, turns, token, cancelled, shells, outcome, interrupted>>

\* The finally clause of run_turn
ReleaseToken(t) ==
    /\ w[t].pc \in {"release", "abort"}
    /\ token' = 0 /\ handles' = {}
    /\ Goto(t, IF w[t].pc = "release" THEN "put" ELSE "fatal_code")
    /\ UNCHANGED <<ctl, inputOn, appr, ui, turns, cancelled, shells, outcome, interrupted>>

PutResult(t) ==
    /\ w[t].pc = "put"
    /\ completions' = Append(completions, [turn |-> t, result |-> w[t].result])
    /\ Goto(t, "done")
    /\ UNCHANGED <<ctl, inputOn, appr, ui, turns, runtime, shells, fact, session, interrupted>>

\* ProviderBoundaryNotClosed: the worker writes the controller's fields one by
\* one, with no lock, and throws queued results away.
FailExitCode(t) ==
    /\ w[t].pc = "fatal_code"
    /\ ctl' = [ctl EXCEPT !.exit = "interrupted"]
    /\ Goto(t, "fatal_state")
    /\ UNCHANGED <<inputOn, appr, ui, turns, runtime, shells, outcome, interrupted>>

FailControlState(t) ==
    /\ w[t].pc = "fatal_state"
    /\ ctl' = [ctl EXCEPT !.state = "cancelling"]
    /\ Goto(t, "fatal_exec")
    /\ UNCHANGED <<inputOn, appr, ui, turns, runtime, shells, outcome, interrupted>>

FailExecuting(t) ==
    /\ w[t].pc = "fatal_exec"
    /\ ctl' = [ctl EXCEPT !.executing = FALSE]
    /\ inputOn' = FALSE
    /\ Goto(t, "fatal_discard")
    /\ UNCHANGED <<appr, ui, turns, runtime, shells, outcome, interrupted>>

FailDiscard(t) ==
    /\ w[t].pc = "fatal_discard"
    /\ completions' = <<>>
    /\ Goto(t, "aborted")
    /\ UNCHANGED <<ctl, inputOn, appr, ui, turns, runtime, shells, fact, session, interrupted>>

FailClosed(t) == FailExitCode(t) \/ FailControlState(t) \/ FailExecuting(t) \/ FailDiscard(t)

-----------------------------------------------------------------------------
Keys == \/ \E text \in Texts : PressEnter(text) \/ PressAnswer(text)
        \/ PressInterrupt

UiStep == \/ SubmitChecksPending \/ Answer \/ StartTurn \/ SlashExit
          \/ InterruptRunning \/ InterruptIdle \/ DenyPending
          \/ SnapshotTurn \/ SetToken \/ TerminateShells
          \/ DrainFatal \/ DrainResult

WorkerStep(t) ==
    \/ InstallToken(t) \/ CallModel(t) \/ ModelReturns(t) \/ BrokerInvoke(t)
    \/ BeginApproval(t) \/ ShowApproval(t) \/ TakeDecision(t)
    \/ HideApproval(t) \/ LockInput(t)
    \/ Execute(t) \/ RegisterHandle(t) \/ ShellEnds(t) \/ BrokerTimeout(t)
    \/ FinishTurn(t) \/ ReleaseToken(t) \/ PutResult(t) \/ FailClosed(t)

ProcessStep(s) == RunnerTimeout(s) \/ ShellExits(s)

Next == \/ Keys \/ UiStep
        \/ \E t \in Turns : WorkerStep(t)
        \/ \E s \in Shells : ProcessStep(s)

Spec == Init /\ [][Next]_vars

\* Both threads run; users press no key and processes heed no signal by force.
FairSpec == Spec /\ WF_vars(UiStep) /\ \A t \in Turns : WF_vars(WorkerStep(t))

-----------------------------------------------------------------------------
Controller == [state : {"idle", "running_turn", "cancelling", "terminalizing"},
               executing : BOOLEAN, exit : {"ok", "failed", "interrupted"}]
Decision == [verdict : {"none", "granted", "denied"}, turn : 0 .. MaxTurns]
Question == [pending : BOOLEAN, decision : Decision, prompt : BOOLEAN]
UiThread == [pc : UiAt, text : Texts, token : 0 .. MaxTurns, shells : SUBSET Shells]
Worker == [pc : WorkerAt, left : 0 .. MaxBatch, rounds : 0 .. MaxRounds,
           result : Results, shell : 0 .. MaxShells]
Completion == [turn : Turns, result : Results]

TypeOK ==
    /\ ctl \in Controller /\ inputOn \in BOOLEAN /\ appr \in Question
    /\ ui \in UiThread /\ turns \in 0 .. MaxTurns /\ w \in [Turns -> Worker]
    /\ token \in 0 .. MaxTurns /\ handles \subseteq Shells /\ cancelled \subseteq Turns
    /\ shells \in [Shells -> {"none", "running", "asked", "over"}]
    /\ completions \in Seq(Completion)
    /\ fact \in [Turns -> {"none", "assistant", "cancelled", "failed"}]
    /\ session \in {"running", "closed"}
    /\ interrupted \subseteq Turns

\* When the prompt is back, or the session row is terminal, no worker is inside
\* run_turn, no question is open and no result is on its way: the next turn, or
\* the terminal checkpoint, meets no unfinished one (on_turn_finished, on_submit).
QuietBetweenTurns ==
    ctl.state = "idle" \/ session = "closed" =>
        /\ \A t \in Turns : w[t].pc \notin InRun \cup {"entry", "put"}
        /\ ~appr.pending /\ ~appr.prompt
        /\ completions = <<>>

\* An interrupt cancels the turn it was pressed in and no later one: every turn
\* has its own token (run_turn), and the copy that cancel_running_turn uses
\* outside the lock is not one of a turn that came after.
CancelHitsItsTurn ==
    /\ cancelled \subseteq interrupted
    /\ token # 0 => token = turns /\ w[token].pc \in InRun

\* Interrupting a running turn never terminalizes the session: a provider
\* cancellation has no turn scope of its own, and without the rewriting of
\* _turn_scoped_running_cancellation the controller would call runtime.fail.
InterruptKeepsSession ==
    \A i \in DOMAIN completions : completions[i].result # "model_cancelled"

Grant(t) == w[t].pc = "await" /\ w'[t].pc = "granted"

\* Once the interrupt has passed _cancel_pending_approval, no tool is approved
\* any more, not even by an answer given before and not yet taken.
NoGrantAfterInterrupt ==
    [][\A t \in Turns : Grant(t) => ~(ctl.state = "cancelling" /\ ui.pc # "deny")]_vars

\* An answer that came too late for its question approves nothing in a later
\* turn: request_approval starts from no decision.
GrantStaysInTurn ==
    [][\A t \in Turns : Grant(t) => appr.decision.turn = t]_vars

Returned == ctl.state # "cancelling" \/ ui.pc = "exited"

\* A turn the user cancels returns to the prompt, fails closed, or waits for an
\* approval: no other wait of a worker outlives its timeout.
CancelledTurnEndsOrAsks ==
    ctl.state = "cancelling" ~> (Returned \/ ctl.exit = "interrupted" \/ appr.pending)

-----------------------------------------------------------------------------
(* What the documentation promises and the code does not keep *)

\* cancellation.md, "Input Lockout While Cancelling": cancelling ends by a
\* recovery boundary or by failing closed, within the cleanup envelope.
CancellingEnds == ctl.state = "cancelling" ~> Returned
=============================================================================
