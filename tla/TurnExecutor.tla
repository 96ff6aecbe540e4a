----------------------------- MODULE TurnExecutor -----------------------------
(***************************************************************************)
(* One turn of the prompt executor (runtime/prompt_executor.py): prepare   *)
(* the context, run the adapter's loop of model and tool calls, retry or   *)
(* continue its result by the rules of runtime/retry.py, and write the     *)
(* turn's rows.  The user may cancel (the token) or, in the plain view,    *)
(* raise KeyboardInterrupt at any moment.                                  *)
(***************************************************************************)
EXTENDS ConversationRows

CONSTANTS MaxModelCalls, \* agent_loop.max_tool_call_iterations
          MaxTools,      \* tool calls in one response
          Modes          \* the adapter call the turn makes: "stream", "run"

ASSUME ExecutorAssumption ==
    /\ MaxModelCalls \in Nat \ {0} /\ MaxTools \in Nat \ {0}
    /\ Modes \subseteq {"stream", "run"}

Turn == 1

VARIABLES
    pc,       \* what the turn does next
    token,    \* the cancellation token of the turn is set
    context,  \* the context step: before which call, compression retries
    attempt,  \* the invocation of the adapter
    loop,     \* accumulated_tool_loop_conversation_messages
    result,   \* the AgentRunResult
    retry,    \* _run_adapter_with_retry: the rule being repeated
    rows,     \* conversation_messages of the turn
    ran,      \* history: the status of every tool the broker was asked for
    forgotten \* history: how many had run when an attempt last lost its tool results

vars == <<pc, token, context, attempt, loop, result, retry, rows, ran, forgotten>>

Statuses == {"none", "completed", "failed", "timeout", "cancelled"}
Budget == [model_call_timeout |-> 2, provider_timeout |-> 2, rate_limited |-> 1,
           transient |-> 1, output_limit |-> 1]
Failures == {"provider_timeout", "rate_limited", "transient", "other"}

NoResult == [status |-> "none", reason |-> "none", scope |-> "none",
             tools |-> FALSE, abort |-> FALSE, denied |-> <<>>]
NoAttempt == [kind |-> "call", mode |-> "stream", fellback |-> FALSE, calls |-> 0,
              tools |-> FALSE, batch |-> <<>>, size |-> 0]
NoRetry == [rule |-> "none", used |-> 0]

Init ==
    /\ pc = "begin" /\ token = FALSE
    /\ context = [phase |-> "initial", tries |-> 0]
    /\ \E mode \in Modes : attempt = [NoAttempt EXCEPT !.mode = mode]
    /\ loop = <<>> /\ result = NoResult /\ retry = NoRetry
    /\ rows = <<>> /\ ran = <<>> /\ forgotten = 0

Running == pc \notin {"done", "raised"}

\* The UI thread sets the token of the running turn.
Cancel ==
    /\ Running /\ ~token
    /\ token' = TRUE
    /\ UNCHANGED <<pc, context, attempt, loop, result, retry, rows, ran, forgotten>>

\* KeyboardInterrupt, ProviderBoundaryNotClosed or a failed store: run_turn raises.
Raise ==
    /\ pc' = "raised"
    /\ UNCHANGED <<token, context, attempt, loop, result, retry, rows, ran, forgotten>>

Interrupt == Running /\ Raise

Begin ==
    /\ pc = "begin"
    /\ rows' = Grouped(UserRows(Turn))
    /\ pc' = "context"
    /\ UNCHANGED <<token, context, attempt, loop, result, retry, ran, forgotten>>

-----------------------------------------------------------------------------
(* The context before the first call and after each batch of tools:        *)
(* omission, compression by a model, the window.                           *)

Failed(reason, scope, tools) ==
    [NoResult EXCEPT !.status = "failed", !.reason = reason, !.scope = scope, !.tools = tools]

\* A follow-up failure leaves the adapter as CompressionFailedAbort, whose
\* result has no tool results; an initial one is recorded by the executor.
CompressionFailed ==
    /\ result' = [Failed("compression_failed", "turn", FALSE)
                    EXCEPT !.abort = (context.phase = "followup")]
    /\ pc' = IF context.phase = "followup" THEN "retry" ELSE "write_tools"
    /\ UNCHANGED <<token, context, attempt, loop, retry, rows, ran, forgotten>>

ContextReady ==
    /\ pc' = IF context.phase = "followup" THEN "model" ELSE "window"
    /\ UNCHANGED <<token, context, attempt, loop, result, retry, rows, ran, forgotten>>

\* A compression takes all the history it may, so a turn has at most one.
Evictable == \A i \in DOMAIN rows : rows[i].kind # "context_summary"

\* Nothing to do, an omission, or a compression that fails on its budget.
PrepareContext ==
    /\ pc = "context"
    /\ \/ ContextReady
       \/ Evictable /\ CompressionFailed
       \/ /\ Evictable
          /\ pc' = "summarize"
          /\ context' = [context EXCEPT !.tries = 0]
          /\ UNCHANGED <<token, attempt, loop, result, retry, rows, ran, forgotten>>

AcceptSummary ==
    /\ rows' = rows \o Grouped(SummaryRows(Turn))
    /\ pc' = IF context.phase = "followup" THEN "model" ELSE "window"
    /\ UNCHANGED <<token, context, attempt, loop, result, retry, ran, forgotten>>

RetrySummary ==
    /\ context' = [context EXCEPT !.tries = @ + 1]
    /\ UNCHANGED <<pc, token, attempt, loop, result, retry, rows, ran, forgotten>>

\* Mutant: transient failures are retried without a bound.
SummarizeFreely == pc = "summarize" /\ (AcceptSummary \/ RetrySummary \/ CompressionFailed)

\* _run_compression_model_with_retry: a transient failure is tried once more.
Summarize ==
    /\ pc = "summarize"
    /\ \/ AcceptSummary
       \/ context.tries < 1 /\ RetrySummary
       \/ CompressionFailed

\* _persist_*: a retained message without its durable index raises, which a
\* follow-up call gives the adapter to report.
ContextRaises ==
    /\ pc \in {"context", "summarize"}
    /\ IF context.phase = "followup"
       THEN /\ result' = Failed("other", "none", attempt.tools)
            /\ pc' = "retry"
            /\ UNCHANGED <<token, context, attempt, loop, retry, rows, ran, forgotten>>
       ELSE Raise

\* The window is checked before the first call only.
CheckWindow ==
    /\ pc = "window"
    /\ \/ /\ pc' = "invoke"
          /\ UNCHANGED result
       \/ /\ result' = Failed("context_limit_exceeded", "turn", FALSE)
          /\ pc' = "write_tools"
    /\ UNCHANGED <<token, context, attempt, loop, retry, rows, ran, forgotten>>

-----------------------------------------------------------------------------
(* The adapter's loop. *)

Invoke ==
    /\ pc = "invoke"
    /\ attempt' = [NoAttempt EXCEPT !.kind = attempt.kind, !.mode = attempt.mode]
    /\ pc' = "model"
    /\ UNCHANGED <<token, context, loop, result, retry, rows, ran, forgotten>>

Return(r) ==
    /\ result' = r
    /\ pc' = "retry"
    /\ UNCHANGED <<token, context, attempt, loop, retry, rows, ran, forgotten>>

IterationLimit ==
    /\ pc = "model" /\ attempt.calls = MaxModelCalls
    /\ Return(Failed("adapter_contract_violation", "turn", attempt.tools))

\* A stream call, the first or a later one, raises NotImplementedError: run() starts
\* again from the request, without the tool results of the stream.
Fallback ==
    /\ pc = "model" /\ attempt.mode = "stream" /\ ~attempt.fellback
    /\ attempt.calls < MaxModelCalls
    /\ attempt' = [NoAttempt EXCEPT !.kind = attempt.kind, !.mode = "stream", !.fellback = TRUE]
    /\ forgotten' = Len(ran)
    /\ UNCHANGED <<pc, token, context, loop, result, retry, rows, ran>>

ModelCall ==
    /\ pc = "model" /\ attempt.calls < MaxModelCalls
    /\ \/ token /\ Return([NoResult EXCEPT !.status = "cancelled",
                                           !.reason = "model_call_cancelled",
                                           !.tools = attempt.tools])
       \/ Return([NoResult EXCEPT !.status = "timeout", !.reason = "model_call_timeout",
                                  !.tools = attempt.tools])
       \/ \E reason \in Failures : Return(Failed(reason, "none", attempt.tools))
       \/ \E limit \in {"none", "output_limit"} :
             Return([NoResult EXCEPT !.status = "completed", !.reason = limit,
                                     !.tools = attempt.tools])
       \/ \E n \in 1 .. MaxTools :
             /\ attempt' = [attempt EXCEPT !.calls = @ + 1, !.batch = <<>>, !.size = n]
             /\ pc' = "tool"
             /\ UNCHANGED <<token, context, loop, result, retry, rows, ran, forgotten>>

ProviderOpen == pc = "model" /\ Raise

\* The broker runs the tools of a response one after another, up to a denial.
Tool ==
    /\ pc = "tool"
    /\ \E status \in {"ok", "denied"} :
          /\ attempt' = [attempt EXCEPT !.batch = Append(@, status)]
          /\ ran' = Append(ran, status)
          /\ pc' = IF status = "denied" \/ Len(attempt.batch) + 1 = attempt.size
                   THEN "batch" ELSE "tool"
    /\ UNCHANGED <<token, context, loop, result, retry, rows, forgotten>>

\* invoke() raises (a store failed): the results of the batch are lost.
ToolRaises ==
    /\ pc = "tool"
    /\ ran' = Append(ran, "ok")
    /\ result' = Failed("other", "none", attempt.tools)
    /\ pc' = "retry"
    /\ UNCHANGED <<token, context, attempt, loop, retry, rows, forgotten>>

Batch(turn) == [id |-> [turn |-> turn, call |-> attempt.calls], tools |-> attempt.batch]

\* _approval_denied_abort_result: the batch comes back in the result's metadata.
DenialAborts ==
    /\ pc = "batch" /\ Last(attempt.batch) = "denied"
    /\ Return([Failed("approval_denied", "turn", TRUE) EXCEPT !.denied = <<Batch(0)>>])

\* Mutant: each refresh starts a new list.
LatestBatch ==
    /\ pc = "batch" /\ Last(attempt.batch) # "denied"
    /\ loop' = <<Batch(Turn)>>
    /\ attempt' = [attempt EXCEPT !.tools = TRUE]
    /\ context' = [context EXCEPT !.phase = "followup"]
    /\ pc' = "context"
    /\ UNCHANGED <<token, result, retry, rows, ran, forgotten>>

\* refresh_model_context_frame
AcceptBatch ==
    /\ pc = "batch" /\ Last(attempt.batch) # "denied"
    /\ loop' = Append(loop, Batch(Turn))
    /\ attempt' = [attempt EXCEPT !.tools = TRUE]
    /\ context' = [context EXCEPT !.phase = "followup"]
    /\ pc' = "context"
    /\ UNCHANGED <<token, result, retry, rows, ran, forgotten>>

-----------------------------------------------------------------------------
(* _run_adapter_with_retry *)

\* _retry_source: what a rule may answer to; a cancelled result has none.
Source == IF result.status = "cancelled" THEN "none" ELSE result.reason

\* Mutant: the boundary facts of the attempt are not passed on.
EnabledWithoutFacts == Source \in DOMAIN Budget

\* RetryController.decision
Enabled == Source \in DOMAIN Budget /\ ~result.tools

\* Mutant: the attempts of a rule are not counted.
RepeatFreely ==
    /\ pc = "retry" /\ Enabled /\ Source # "output_limit" /\ attempt.kind = "call"
    /\ retry' = [rule |-> Source, used |-> 0]
    /\ pc' = "invoke"
    /\ UNCHANGED <<token, context, attempt, loop, result, rows, ran, forgotten>>

\* The rule being repeated has attempts left; a failure of another rule ends it.
Repeats ==
    /\ attempt.kind = "call" /\ Enabled /\ Source # "output_limit"
    /\ \/ retry.rule = "none"
       \/ retry.rule = Source /\ retry.used < Budget[Source]

Continues == attempt.kind = "call" /\ Enabled /\ Source = "output_limit"

Repeat ==
    /\ pc = "retry" /\ Repeats
    /\ retry' = [rule |-> Source, used |-> retry.used + 1]
    /\ pc' = "invoke"
    /\ UNCHANGED <<token, context, attempt, loop, result, rows, ran, forgotten>>

Continue ==
    /\ pc = "retry" /\ Continues
    /\ attempt' = [attempt EXCEPT !.kind = "continuation"]
    /\ pc' = "invoke"
    /\ UNCHANGED <<token, context, loop, result, retry, rows, ran, forgotten>>

LimitFailure == Failed("output_token_limit_reached", "none", FALSE)

\* The result that leaves the retry loop: a continuation must be whole text; a
\* truncated answer fails only where no rule was being repeated.
Settled ==
    IF attempt.kind = "continuation"
    THEN IF result.status = "completed" /\ result.reason = "none" /\ ~result.tools
         THEN result ELSE LimitFailure
    ELSE IF Source = "output_limit" /\ retry.rule = "none" THEN LimitFailure
    ELSE result

\* An abort of the compression returns before anything is recorded.
Settle ==
    /\ pc = "retry" /\ ~Repeats /\ ~Continues
    /\ result' = Settled
    /\ pc' = IF Settled.abort THEN "done" ELSE "scope"
    /\ UNCHANGED <<token, context, attempt, loop, retry, rows, ran, forgotten>>

-----------------------------------------------------------------------------
(* The rows of the turn. *)

\* _with_context_metadata: accumulated batches replace the one of a denial.
Batches == IF loop # <<>> THEN loop ELSE result.denied

\* Mutant: the denials of a cancelled turn stay denials.
DenialsKept(batches) == batches

\* _approval_denial_messages_as_cancelled
DenialsCancelled(batches) ==
    [i \in DOMAIN batches |->
        [batches[i] EXCEPT !.tools = [k \in DOMAIN @ |-> IF @[k] = "denied" THEN "cancelled" ELSE @[k]]]]

\* _turn_scoped_running_cancellation
TurnCancelled ==
    token /\ (result.status = "cancelled" \/ result.reason = "approval_denied")

Scope ==
    /\ pc = "scope"
    /\ loop' = IF TurnCancelled /\ result.reason = "approval_denied"
               THEN DenialsCancelled(Batches) ELSE Batches
    /\ result' = IF TurnCancelled
                 THEN [result EXCEPT !.status = "cancelled", !.scope = "turn",
                                     !.reason = "user_cancel_running"]
                 ELSE result
    /\ pc' = "write_tools"
    /\ UNCHANGED <<token, context, attempt, retry, rows, ran, forgotten>>

\* _append_durable_result: two appends, each of a closed group.
WriteTools ==
    /\ pc = "write_tools"
    /\ rows' = rows \o ToolLoopRows(Turn, loop)
    /\ pc' = "write_end"
    /\ UNCHANGED <<token, context, attempt, loop, result, retry, ran, forgotten>>

WriteEnd ==
    /\ pc = "write_end"
    /\ \/ /\ result.status = "completed"
          /\ rows' = rows \o Grouped(FinalRows(Turn))
       \/ /\ result.status = "cancelled"
          /\ rows' = rows \o Grouped(FactRows(Turn, "cancellation_fact"))
       \/ /\ result.status \notin {"completed", "cancelled"}
          /\ rows' = rows \o Grouped(FactRows(Turn, "failure_fact"))
    /\ pc' = "done"
    /\ UNCHANGED <<token, context, attempt, loop, result, retry, ran, forgotten>>

Step ==
    \/ Begin \/ PrepareContext \/ Summarize \/ ContextRaises \/ CheckWindow
    \/ Invoke \/ IterationLimit \/ Fallback \/ ModelCall \/ ProviderOpen
    \/ DenialAborts \/ AcceptBatch
    \/ Repeat \/ Continue \/ Settle \/ Scope \/ WriteTools \/ WriteEnd

Next == Step \/ Tool \/ ToolRaises \/ Cancel \/ Interrupt

\* A provider call ends by its own timeout.  A tool may wait for the user's approval
\* for ever.
Spec == Init /\ [][Next]_vars /\ WF_vars(Step)
-----------------------------------------------------------------------------
(* Properties. *)

\* Every variable keeps its type.
TypeOK ==
    /\ pc \in {"begin", "context", "summarize", "window", "invoke", "model", "tool", "batch",
               "retry", "scope", "write_tools", "write_end", "done", "raised"}
    /\ token \in BOOLEAN
    /\ context \in [phase : {"initial", "followup"}, tries : 0 .. 1]
    /\ attempt.kind \in {"call", "continuation"} /\ attempt.mode \in {"stream", "run"}
    /\ attempt.calls \in 0 .. MaxModelCalls /\ attempt.size \in 0 .. MaxTools
    /\ attempt.fellback \in BOOLEAN /\ attempt.tools \in BOOLEAN
    /\ attempt.batch \in Seq(ToolStatuses)
    /\ \A i \in DOMAIN loop : loop[i].tools \in Seq(ToolStatuses)
    /\ result.status \in Statuses /\ result.scope \in {"none", "turn"}
    /\ retry.rule \in DOMAIN Budget \cup {"none"} /\ retry.used \in 0 .. 2
    /\ ran \in Seq(ToolStatuses) /\ forgotten \in 0 .. Len(ran)

Closing == {"assistant_output"} \cup Facts

\* A turn that returns a result to the session has written it down: the user's
\* input first, exactly one closing row, last, and, if it completed, a result for
\* every tool that ran in it, in the order they ran, each with its call.  Retries,
\* continuations and context steps in between neither lose nor repeat a tool.
CompletedTurnRecorded ==
    pc = "done" /\ ~result.abort =>
        /\ rows[1].kind = "user_input"
        /\ {i \in DOMAIN rows : rows[i].kind \in Closing} = {Len(rows)}
        /\ result.status = "completed" =>
              /\ Last(rows).kind = "assistant_output"
              /\ Paired(rows) /\ Tells(rows, ran)

\* A turn that the user cancelled leaves a fact that says so and no denial the
\* user did not give, and it fails the turn, never the session: whether the
\* cancellation reached a model call or an approval question, before or after
\* tools had run.
CancelledTurnShape ==
    pc = "done" /\ result.status = "cancelled" =>
        /\ result.scope = "turn"
        /\ Last(rows).kind = "cancellation_fact"
        /\ \A i \in DOMAIN rows : rows[i].status # "denied"

\* The adapter is invoked again, to repeat a call or to continue an answer, only
\* while every tool of the turn ran before a stream that was given up for run(), which
\* forgets them: no other way through failures, context steps and earlier retries
\* loses the fact that a tool has run, and a turn that does not stream repeats none.
\* (retry.md:99 promises it of every attempt.)
RepeatsOnlyForgotten ==
    [][pc = "invoke" /\ pc' = "model" =>
          Len(ran) = forgotten /\ (attempt.mode = "run" => ran = <<>>)]_vars

\* Retries, continuations and rounds of tool calls come to an end: every turn returns
\* or raises, unless one of its tools never comes back from the user.
TurnEnds == <>(pc \in {"done", "raised"}) \/ <>[](pc = "tool")

\* durable-conversation.md:94: a result without its call fails the fact cut, and
\* :101 only closed groups are committed, so the rows of a finished turn make
\* a cut that a terminal checkpoint accepts.
CutStaysValid == pc = "done" => CutValid(rows)
=============================================================================
