-------------------------- MODULE TurnExecutorProofs --------------------------
(***************************************************************************)
(* TurnExecutor: types, when a turn repeats a call, and that the rows of a *)
(* turn record what ran in it, and when they make a valid cut, for every   *)
(* number of model calls and tools.                                        *)
(***************************************************************************)
EXTENDS TurnExecutor, ConversationRowsProofs

At == {"begin", "context", "summarize", "window", "invoke", "model", "tool", "batch",
       "retry", "scope", "write_tools", "write_end", "done", "raised"}
\* The turn may still call the adapter.
Open == {"begin", "context", "summarize", "window", "invoke", "model", "tool", "batch", "retry"}

Attempt == [kind : {"call", "continuation"}, mode : {"stream", "run"},
            fellback : BOOLEAN, calls : 0 .. MaxModelCalls, tools : BOOLEAN,
            batch : Seq(ToolStatuses), size : 0 .. MaxTools]
Reasons == Failures \cup
    {"none", "model_call_timeout", "model_call_cancelled", "output_limit", "approval_denied",
     "adapter_contract_violation", "compression_failed", "context_limit_exceeded",
     "output_token_limit_reached", "user_cancel_running"}
Result == [status : Statuses, reason : Reasons, scope : {"none", "turn"}, tools : BOOLEAN,
           abort : BOOLEAN, denied : Seq(BatchSet)]

Typed ==
    /\ pc \in At /\ token \in BOOLEAN
    /\ context \in [phase : {"initial", "followup"}, tries : 0 .. 1]
    /\ attempt \in Attempt /\ result \in Result
    /\ retry \in [rule : DOMAIN Budget \cup {"none"}, used : 0 .. 2]
    /\ loop \in Seq(BatchSet) /\ ran \in Seq(ToolStatuses)
    /\ forgotten \in Nat /\ forgotten <= Len(ran)

\* A rule that is not being repeated has used no attempt.
AttemptsCounted == retry.rule = "none" => retry.used = 0

\* Where the turn is, what ran is known: nothing but what an abandoned stream ran before
\* the first call, else the attempt says so, and then its result, or the result is one
\* that no rule repeats.
Forgot == Len(ran) = forgotten
ToolsKnown ==
    /\ attempt.mode = "run" => forgotten = 0
    /\ pc \in {"begin", "window", "invoke"} => Forgot
    /\ pc \in {"context", "summarize"} =>
          Forgot \/ (context.phase = "followup" /\ attempt.tools)
    /\ pc = "model" => Forgot \/ attempt.tools
    /\ pc = "retry" => Forgot \/ result.tools \/ Source \notin DOMAIN Budget

ExecInv == Typed /\ AttemptsCounted /\ ToolsKnown

\* What the turn writes before its tools: the user's input, first, and summaries.
QuietRow(r) == r.kind \in {"user_input", "context_summary"} /\ r.status = "none"
RowsStarted ==
    /\ rows \in Seq(RowSet)
    /\ pc = "begin" => rows = <<>>
    /\ pc \notin {"begin", "raised"} => rows # <<>> /\ rows[1].kind = "user_input"
    /\ pc \in Open \cup {"scope", "write_tools"} => \A i \in DOMAIN rows : QuietRow(rows[i])

\* The accepted batches are of this turn and without denials: only the last tool of a
\* batch can be denied, and such a batch is not accepted.
TurnLoop == \A i \in DOMAIN loop : loop[i].id.turn = Turn
NoDenial(batches) == AllWithout(batches, {"denied"})
BatchesAccepted ==
    /\ pc \in Open \cup {"scope"} => TurnLoop /\ NoDenial(loop)
    /\ pc = "tool" => \A k \in DOMAIN attempt.batch : attempt.batch[k] # "denied"
    /\ pc = "batch" => /\ Len(attempt.batch) # 0
                       /\ \A k \in DOMAIN attempt.batch :
                             k # Len(attempt.batch) => attempt.batch[k] # "denied"

\* The accepted batches, and the one at work, are all the tools that ran; a completed
\* result leaves it so, and one that is repeated.
Told(statuses) == Whole(LoopFlat(Turn, loop), statuses)
ToolsTold ==
    /\ pc \in Open \ {"tool", "batch", "retry"} => Told(ran)
    /\ pc \in {"tool", "batch"} =>
          \E u \in Seq(ToolStatuses) : ran = u \o attempt.batch /\ Told(u)
    /\ pc \in {"retry", "scope", "write_tools"} /\ result.status = "completed" => Told(ran)
    /\ pc = "retry" /\ Enabled => Told(ran)

\* What a result says of the batches, and that a cancelled one was asked for.
ResultShape ==
    /\ pc = "retry" /\ result.abort => result.status = "failed"
    /\ pc \in {"retry", "scope"} /\ result.status \in {"completed", "cancelled"} =>
          result.denied = <<>>
    /\ pc \in {"retry", "scope"} /\ result.status = "cancelled" =>
          token /\ result.reason # "approval_denied"
    /\ pc \in {"write_tools", "write_end", "done"} /\ result.status = "cancelled" =>
          result.scope = "turn" /\ NoDenial(loop)
    /\ pc = "write_tools" /\ result.status = "completed" => TurnLoop

\* What the tools' group adds, and the closing row.
ToolsWritten ==
    /\ \A i \in DOMAIN rows : rows[i].kind \notin Closing
    /\ result.status = "completed" => Whole(rows, ran)
    /\ result.status = "cancelled" => \A i \in DOMAIN rows : rows[i].status # "denied"
EndWritten ==
    /\ {i \in DOMAIN rows : rows[i].kind \in Closing} = {Len(rows)}
    /\ result.status = "completed" =>
          Last(rows).kind = "assistant_output" /\ Whole(rows, ran)
    /\ result.status = "cancelled" =>
          /\ Last(rows).kind = "cancellation_fact"
          /\ \A i \in DOMAIN rows : rows[i].status # "denied"
RowsWritten ==
    /\ pc = "write_end" => ToolsWritten
    /\ pc = "done" => (result.abort /\ result.status = "failed") \/ EndWritten

RowsInv == RowsStarted /\ BatchesAccepted /\ ToolsTold /\ ResultShape /\ RowsWritten

-----------------------------------------------------------------------------

\* The retry rules and how often each repeats.
LEMMA BudgetBound ==
  /\ DOMAIN Budget = {"model_call_timeout", "provider_timeout", "rate_limited",
                       "transient", "output_limit"}
  /\ \A rule \in DOMAIN Budget : Budget[rule] \in 1 .. 2
BY DEF Budget

\* The fields of an attempt, and typed updates of them.
LEMMA AttemptUpdate ==
  ASSUME NEW a \in Attempt
  PROVE  /\ a.kind \in {"call", "continuation"} /\ a.mode \in {"stream", "run"}
         /\ a.fellback \in BOOLEAN /\ a.calls \in 0 .. MaxModelCalls
         /\ a.tools \in BOOLEAN /\ a.batch \in Seq(ToolStatuses)
         /\ a.size \in 0 .. MaxTools
         /\ \A v \in {"call", "continuation"} : [a EXCEPT !.kind = v] \in Attempt
         /\ \A v \in {"stream", "run"} : [a EXCEPT !.mode = v] \in Attempt
         /\ \A v \in BOOLEAN : [a EXCEPT !.fellback = v] \in Attempt
         /\ \A v \in BOOLEAN : [a EXCEPT !.tools = v] \in Attempt
         /\ \A v \in Seq(ToolStatuses) : [a EXCEPT !.batch = v] \in Attempt
BY DEF Attempt

\* The empty sequence has every type of sequence.
LEMMA EmptyTyped == ASSUME NEW S PROVE <<>> \in Seq(S)
OBVIOUS

\* The fields of a result, and typed updates of them.
LEMMA ResultUpdate ==
  ASSUME NEW r \in Result
  PROVE  /\ r.status \in Statuses /\ r.reason \in Reasons /\ r.tools \in BOOLEAN
         /\ r.denied \in Seq(BatchSet)
         /\ \A v \in Statuses : [r EXCEPT !.status = v] \in Result
         /\ \A v \in Reasons : [r EXCEPT !.reason = v] \in Result
         /\ \A v \in {"none", "turn"} : [r EXCEPT !.scope = v] \in Result
         /\ \A v \in BOOLEAN : /\ [r EXCEPT !.tools = v] \in Result
                              /\ [r EXCEPT !.abort = v] \in Result
         /\ \A v \in Seq(BatchSet) : [r EXCEPT !.denied = v] \in Result
BY DEF Result

LEMMA NoResultTyped == NoResult \in Result /\ NoResult.denied = <<>>
<1>1. <<>> \in Seq(BatchSet) BY EmptyTyped
<1>2. "none" \in Reasons /\ "none" \in Statuses BY DEF Statuses, Reasons
<1> QED BY <1>1, <1>2 DEF NoResult, Result

\* A failure is a result.
LEMMA FailedTyped ==
  ASSUME NEW reason \in Reasons, NEW scope \in {"none", "turn"}, NEW tools \in BOOLEAN
  PROVE  /\ Failed(reason, scope, tools) \in Result
         /\ Failed(reason, scope, tools).status = "failed"
         /\ Failed(reason, scope, tools).reason = reason
         /\ Failed(reason, scope, tools).tools = tools
         /\ Failed(reason, scope, tools).denied = <<>>
<1>1. NoResult \in Result /\ NoResult.denied = <<>> BY NoResultTyped
<1> QED BY <1>1 DEF Failed, Result, Statuses

\* An attempt without a call yet.
LEMMA NewAttemptTyped ==
  ASSUME NEW kind \in {"call", "continuation"}, NEW mode \in {"stream", "run"}
  PROVE  /\ [NoAttempt EXCEPT !.kind = kind, !.mode = mode] \in Attempt
         /\ [NoAttempt EXCEPT !.kind = kind, !.mode = mode].mode = mode
         /\ [NoAttempt EXCEPT !.kind = kind, !.mode = mode, !.fellback = TRUE] \in Attempt
         /\ [NoAttempt EXCEPT !.kind = kind, !.mode = mode, !.fellback = TRUE].mode = mode
<1>1. <<>> \in Seq(ToolStatuses) BY EmptyTyped
<1>2. NoAttempt \in Attempt BY <1>1, ExecutorAssumption DEF NoAttempt, Attempt
<1> QED BY <1>2 DEF Attempt

\* The invariant holds initially.
LEMMA InitInv == Init => ExecInv
<1> SUFFICES ASSUME Init PROVE ExecInv OBVIOUS
<1>1. attempt \in Attempt
  <2>1. <<>> \in Seq(ToolStatuses) BY EmptyTyped
  <2>2. NoAttempt \in Attempt BY <2>1, ExecutorAssumption DEF NoAttempt, Attempt
  <2>3. PICK mode \in Modes : attempt = [NoAttempt EXCEPT !.mode = mode] BY DEF Init
  <2>4. mode \in {"stream", "run"} BY ExecutorAssumption
  <2>5. [NoAttempt EXCEPT !.mode = mode] \in Attempt BY <2>2, <2>4, AttemptUpdate
  <2> QED BY <2>3, <2>5
<1>2. result \in Result /\ result.denied = <<>> BY NoResultTyped DEF Init
<1>3. Typed
  <2>1. loop \in Seq(BatchSet) /\ ran \in Seq(ToolStatuses) BY EmptyTyped DEF Init
  <2>2. context \in [phase : {"initial", "followup"}, tries : 0 .. 1] BY DEF Init
  <2>3. retry \in [rule : DOMAIN Budget \cup {"none"}, used : 0 .. 2] BY DEF Init, NoRetry
  <2>4. pc \in At /\ token \in BOOLEAN BY DEF Init, At
  <2>5. forgotten = 0 /\ Len(ran) = 0 BY DEF Init
  <2> QED BY <1>1, <1>2, <2>1, <2>2, <2>3, <2>4, <2>5 DEF Typed
<1>4. AttemptsCounted BY DEF Init, AttemptsCounted, NoRetry
<1>5. ToolsKnown BY DEF Init, ToolsKnown, Forgot
<1> QED BY <1>3, <1>4, <1>5 DEF ExecInv

\* A step that only moves on, from a place to one that asks no more of the state.
LEMMA MoveKeeps ==
  ASSUME ExecInv, UNCHANGED <<context, attempt, loop, result, retry, ran, forgotten>>,
         token' \in BOOLEAN, pc' \in At,
         \/ pc' \in {"raised", "done", "write_tools", "write_end"} \/ pc' = pc
         \/ pc = "begin" /\ pc' = "context"
         \/ pc = "window" /\ pc' = "invoke"
         \/ pc = "context" /\ pc' = "summarize"
         \/ pc \in {"context", "summarize"}
            /\ pc' = IF context.phase = "followup" THEN "model" ELSE "window"
  PROVE  ExecInv'
<1>1. Typed' BY DEF ExecInv, Typed
<1>2. AttemptsCounted' BY DEF ExecInv, AttemptsCounted
<1>3. context.phase \in {"initial", "followup"} BY DEF ExecInv, Typed
<1>4. ToolsKnown' BY <1>3 DEF ExecInv, ToolsKnown, Forgot, Source
<1> QED BY <1>1, <1>2, <1>4 DEF ExecInv

\* A step that gives the turn a result and leaves the rest as it is.
LEMMA ResultKeeps ==
  ASSUME ExecInv, UNCHANGED <<token, context, attempt, loop, retry, ran, forgotten>>,
         result' \in Result,
         \/ pc' = "write_tools"
         \/ /\ pc' = "retry" /\ pc \in Open
            /\ Forgot \/ result'.tools \/ Source' \notin DOMAIN Budget
  PROVE  ExecInv'
<1>1. Typed' BY DEF ExecInv, Typed, At
<1>2. AttemptsCounted' BY DEF ExecInv, AttemptsCounted
<1>3. ToolsKnown' BY DEF ExecInv, ToolsKnown, Forgot
<1> QED BY <1>1, <1>2, <1>3 DEF ExecInv

\* Each step keeps the invariant.

LEMMA CancelKeeps == ExecInv /\ Cancel => ExecInv'
BY MoveKeeps DEF Cancel, ExecInv, Typed

LEMMA RaiseKeeps == ExecInv /\ Raise => ExecInv'
BY MoveKeeps DEF Raise, ExecInv, Typed, At

LEMMA BeginKeeps == ExecInv /\ Begin => ExecInv'
BY MoveKeeps DEF Begin, ExecInv, Typed, At

LEMMA ContextReadyKeeps ==
  ExecInv /\ pc \in {"context", "summarize"} /\ ContextReady => ExecInv'
BY MoveKeeps DEF ContextReady, ExecInv, Typed, At

LEMMA AcceptSummaryKeeps ==
  ExecInv /\ pc \in {"context", "summarize"} /\ AcceptSummary => ExecInv'
BY MoveKeeps DEF AcceptSummary, ExecInv, Typed, At

LEMMA CompressionFailedKeeps ==
  ASSUME ExecInv, pc \in {"context", "summarize"}, CompressionFailed PROVE ExecInv'
<1> DEFINE failure == Failed("compression_failed", "turn", FALSE)
<1>1. "compression_failed" \in Reasons BY DEF Reasons
<1>2. failure \in Result /\ failure.denied = <<>> /\ failure.reason = "compression_failed"
  BY <1>1, FailedTyped
<1>3. result' = [failure EXCEPT !.abort = (context.phase = "followup")]
  BY DEF CompressionFailed
<1> HIDE DEF failure
<1>4. result' \in Result BY <1>2, <1>3, ResultUpdate
<1>5. result'.denied = <<>> /\ result'.reason = "compression_failed"
  BY <1>2, <1>3 DEF Result
<1>6. Source' \notin DOMAIN Budget BY <1>5, BudgetBound DEF Source
<1>7. pc' \in {"retry", "write_tools"} /\ pc \in Open BY DEF CompressionFailed, Open
<1> QED BY <1>4, <1>6, <1>7, ResultKeeps DEF CompressionFailed

\* A new context record, and the place for it.
LEMMA ContextKeeps ==
  ASSUME ExecInv, UNCHANGED <<token, attempt, loop, result, retry, ran, forgotten>>,
         pc \in {"context", "summarize"}, pc' = "summarize",
         context' \in [phase : {"initial", "followup"}, tries : 0 .. 1],
         context'.phase = context.phase
  PROVE  ExecInv'
<1>1. Typed' BY DEF ExecInv, Typed, At
<1>2. ToolsKnown' BY DEF ExecInv, ToolsKnown, Forgot
<1> QED BY <1>1, <1>2 DEF ExecInv, AttemptsCounted

LEMMA PrepareContextKeeps ==
  ASSUME ExecInv, PrepareContext PROVE ExecInv'
<1>1. CASE ContextReady BY <1>1, ContextReadyKeeps DEF PrepareContext
<1>2. CASE CompressionFailed BY <1>2, CompressionFailedKeeps DEF PrepareContext
<1>3. CASE /\ pc' = "summarize" /\ context' = [context EXCEPT !.tries = 0]
           /\ UNCHANGED <<token, attempt, loop, result, retry, rows, ran, forgotten>>
  BY <1>3, ContextKeeps DEF PrepareContext, ExecInv, Typed
<1> QED BY <1>1, <1>2, <1>3 DEF PrepareContext

LEMMA SummarizeKeeps ==
  ASSUME ExecInv, Summarize PROVE ExecInv'
<1>1. CASE AcceptSummary BY <1>1, AcceptSummaryKeeps DEF Summarize
<1>2. CASE CompressionFailed BY <1>2, CompressionFailedKeeps DEF Summarize
<1>3. CASE context.tries < 1 /\ RetrySummary
  BY <1>3, ContextKeeps DEF Summarize, RetrySummary, ExecInv, Typed
<1> QED BY <1>1, <1>2, <1>3 DEF Summarize

\* A failure of no rule, whatever ran before it.
LEMMA FailureKeeps ==
  ASSUME ExecInv, UNCHANGED <<token, context, attempt, loop, retry, ran, forgotten>>, pc \in Open,
         NEW reason \in Reasons, reason \notin DOMAIN Budget,
         NEW scope \in {"none", "turn"}, NEW tools \in BOOLEAN,
         result' = Failed(reason, scope, tools), pc' \in {"retry", "write_tools"}
  PROVE  ExecInv'
<1>1. result' \in Result /\ result'.denied = <<>> /\ result'.reason = reason
  BY FailedTyped
<1>2. Source' \notin DOMAIN Budget BY <1>1, BudgetBound DEF Source
<1> QED BY <1>1, <1>2, ResultKeeps

LEMMA ContextRaisesKeeps ==
  ASSUME ExecInv, ContextRaises PROVE ExecInv'
<1>1. CASE context.phase = "followup"
  <2>1. "other" \in Reasons /\ "other" \notin DOMAIN Budget
    BY BudgetBound DEF Reasons, Failures
  <2>2. attempt.tools \in BOOLEAN BY AttemptUpdate DEF ExecInv, Typed
  <2> QED BY <1>1, <2>1, <2>2, FailureKeeps DEF ContextRaises, Open
<1>2. CASE context.phase # "followup" BY <1>2, RaiseKeeps DEF ContextRaises
<1> QED BY <1>1, <1>2

LEMMA CheckWindowKeeps ==
  ASSUME ExecInv, CheckWindow PROVE ExecInv'
<1>1. CASE pc' = "invoke" /\ UNCHANGED result
  BY <1>1, MoveKeeps DEF CheckWindow, ExecInv, Typed, At
<1>2. CASE /\ result' = Failed("context_limit_exceeded", "turn", FALSE)
           /\ pc' = "write_tools"
  <2>1. "context_limit_exceeded" \in Reasons
        /\ "context_limit_exceeded" \notin DOMAIN Budget
    BY BudgetBound DEF Reasons
  <2> QED BY <1>2, <2>1, FailureKeeps DEF CheckWindow, Open
<1> QED BY <1>1, <1>2 DEF CheckWindow

\* An attempt starts from nothing.
LEMMA InvokeKeeps ==
  ASSUME ExecInv, Invoke PROVE ExecInv'
<1>1. attempt' \in Attempt /\ attempt'.mode = attempt.mode
  BY NewAttemptTyped, AttemptUpdate DEF Invoke, ExecInv, Typed
<1>2. Typed' BY <1>1 DEF Invoke, ExecInv, Typed, At
<1>3. AttemptsCounted' BY DEF Invoke, ExecInv, AttemptsCounted
<1>4. ToolsKnown' BY <1>1 DEF Invoke, ExecInv, ToolsKnown, Forgot
<1> QED BY <1>2, <1>3, <1>4 DEF ExecInv

LEMMA IterationLimitKeeps ==
  ASSUME ExecInv, IterationLimit PROVE ExecInv'
<1>1. "adapter_contract_violation" \in Reasons
      /\ "adapter_contract_violation" \notin DOMAIN Budget
  BY BudgetBound DEF Reasons
<1>2. attempt.tools \in BOOLEAN BY AttemptUpdate DEF ExecInv, Typed
<1> QED BY <1>1, <1>2, FailureKeeps DEF IterationLimit, Return, Open

\* A new attempt record, and all that ran is forgotten.
LEMMA FallbackKeeps ==
  ASSUME ExecInv, Fallback PROVE ExecInv'
<1>1. attempt' \in Attempt /\ attempt'.mode = "stream"
  BY NewAttemptTyped, AttemptUpdate DEF Fallback, ExecInv, Typed
<1>2. ran' = ran /\ forgotten' = Len(ran) /\ Len(ran) \in Nat
  BY LenProperties DEF Fallback, ExecInv, Typed
<1>3. Typed' BY <1>1, <1>2 DEF Fallback, ExecInv, Typed, At
<1>4. AttemptsCounted' BY DEF Fallback, ExecInv, AttemptsCounted
<1>5. ToolsKnown' BY <1>1, <1>2 DEF Fallback, ToolsKnown, Forgot
<1> QED BY <1>3, <1>4, <1>5 DEF ExecInv

\* What a model call returns carries what ran before it.
LEMMA ModelResultKeeps ==
  ASSUME ExecInv, pc = "model", pc' = "retry",
         UNCHANGED <<token, context, attempt, loop, retry, ran, forgotten>>,
         result' \in Result, result'.denied = <<>>, result'.tools = attempt.tools
  PROVE  ExecInv'
<1>1. Forgot \/ result'.tools BY DEF ExecInv, ToolsKnown
<1> QED BY <1>1, ResultKeeps DEF Open

LEMMA ModelCallKeeps ==
  ASSUME ExecInv, ModelCall PROVE ExecInv'
<1> DEFINE Ended(status, reason) ==
      [NoResult EXCEPT !.status = status, !.reason = reason, !.tools = attempt.tools]
<1>1. attempt.tools \in BOOLEAN BY AttemptUpdate DEF ExecInv, Typed
<1>2. \A status \in Statuses, reason \in Reasons :
        /\ Ended(status, reason) \in Result /\ Ended(status, reason).denied = <<>>
        /\ Ended(status, reason).tools = attempt.tools
  BY <1>1, NoResultTyped DEF Result
<1>3. CASE Return([NoResult EXCEPT !.status = "cancelled", !.reason = "model_call_cancelled",
                                   !.tools = attempt.tools])
  <2>1. "cancelled" \in Statuses /\ "model_call_cancelled" \in Reasons
    BY DEF Statuses, Reasons
  <2> QED BY <1>2, <1>3, <2>1, ModelResultKeeps DEF ModelCall, Return
<1>4. CASE Return([NoResult EXCEPT !.status = "timeout", !.reason = "model_call_timeout",
                                   !.tools = attempt.tools])
  <2>1. "timeout" \in Statuses /\ "model_call_timeout" \in Reasons
    BY DEF Statuses, Reasons
  <2> QED BY <1>2, <1>4, <2>1, ModelResultKeeps DEF ModelCall, Return
<1>5. CASE \E reason \in Failures : Return(Failed(reason, "none", attempt.tools))
  <2>1. PICK reason \in Failures : Return(Failed(reason, "none", attempt.tools)) BY <1>5
  <2>2. reason \in Reasons BY DEF Reasons
  <2>3. /\ Failed(reason, "none", attempt.tools) \in Result
        /\ Failed(reason, "none", attempt.tools).denied = <<>>
        /\ Failed(reason, "none", attempt.tools).tools = attempt.tools
    BY <1>1, <2>2, FailedTyped
  <2> QED BY <2>1, <2>3, ModelResultKeeps DEF ModelCall, Return
<1>6. CASE \E limit \in {"none", "output_limit"} :
             Return([NoResult EXCEPT !.status = "completed", !.reason = limit,
                                     !.tools = attempt.tools])
  <2>1. PICK limit \in {"none", "output_limit"} :
             Return([NoResult EXCEPT !.status = "completed", !.reason = limit,
                                     !.tools = attempt.tools])
    BY <1>6
  <2>2. "completed" \in Statuses /\ limit \in Reasons BY DEF Statuses, Reasons
  <2> QED BY <1>2, <2>1, <2>2, ModelResultKeeps DEF ModelCall, Return
<1>7. CASE \E n \in 1 .. MaxTools :
             /\ attempt' = [attempt EXCEPT !.calls = @ + 1, !.batch = <<>>, !.size = n]
             /\ pc' = "tool"
             /\ UNCHANGED <<token, context, loop, result, retry, rows, ran, forgotten>>
  <2>1. PICK n \in 1 .. MaxTools :
             attempt' = [attempt EXCEPT !.calls = @ + 1, !.batch = <<>>, !.size = n]
    BY <1>7
  <2>2. attempt.calls \in 0 .. MaxModelCalls /\ attempt.calls < MaxModelCalls
    BY AttemptUpdate DEF ModelCall, ExecInv, Typed
  <2>3. attempt.calls + 1 \in 0 .. MaxModelCalls /\ n \in 0 .. MaxTools
    BY <2>2, ExecutorAssumption
  <2>4. attempt' \in Attempt /\ attempt'.mode = attempt.mode
    BY <2>1, <2>3, EmptyTyped DEF ExecInv, Typed, Attempt
  <2>5. Typed' BY <1>7, <2>4 DEF ExecInv, Typed, At
  <2>6. AttemptsCounted' BY <1>7 DEF ExecInv, AttemptsCounted
  <2>7. ToolsKnown' BY <1>7, <2>4 DEF ExecInv, ToolsKnown
  <2> QED BY <2>5, <2>6, <2>7 DEF ExecInv
<1> QED BY <1>3, <1>4, <1>5, <1>6, <1>7 DEF ModelCall

\* A tool's status is recorded in the batch and in the history.
LEMMA ToolKeeps ==
  ASSUME ExecInv, Tool PROVE ExecInv'
<1>1. PICK status \in {"ok", "denied"} :
        /\ attempt' = [attempt EXCEPT !.batch = Append(@, status)]
        /\ ran' = Append(ran, status)
        /\ pc' \in {"batch", "tool"}
  BY DEF Tool
<1>2. status \in ToolStatuses BY DEF ToolStatuses
<1>3. attempt.batch \in Seq(ToolStatuses) /\ ran \in Seq(ToolStatuses)
  BY AttemptUpdate DEF ExecInv, Typed
<1>4. /\ Append(attempt.batch, status) \in Seq(ToolStatuses)
      /\ ran' \in Seq(ToolStatuses) /\ Len(ran') = Len(ran) + 1 /\ Len(ran) \in Nat
  BY <1>1, <1>2, <1>3, AppendProperties, LenProperties
<1>5. attempt' \in Attempt /\ attempt'.mode = attempt.mode
  BY <1>1, <1>4 DEF ExecInv, Typed, Attempt
<1>6. Typed' BY <1>1, <1>4, <1>5 DEF Tool, ExecInv, Typed, At
<1>7. AttemptsCounted' BY DEF Tool, ExecInv, AttemptsCounted
<1>8. ToolsKnown' BY <1>1, <1>5 DEF Tool, ExecInv, ToolsKnown
<1> QED BY <1>6, <1>7, <1>8 DEF ExecInv

LEMMA ToolRaisesKeeps ==
  ASSUME ExecInv, ToolRaises PROVE ExecInv'
<1>1. "other" \in Reasons /\ "other" \notin DOMAIN Budget /\ attempt.tools \in BOOLEAN
  BY BudgetBound, AttemptUpdate DEF Reasons, Failures, ExecInv, Typed
<1>2. result' \in Result /\ result'.reason = "other" BY <1>1, FailedTyped DEF ToolRaises
<1>3. ran' \in Seq(ToolStatuses) /\ Len(ran') = Len(ran) + 1 /\ Len(ran) \in Nat
  <2>1. ran \in Seq(ToolStatuses) /\ "ok" \in ToolStatuses
    BY DEF ExecInv, Typed, ToolStatuses
  <2> QED BY <2>1, AppendProperties, LenProperties DEF ToolRaises
<1>4. Typed' BY <1>2, <1>3 DEF ToolRaises, ExecInv, Typed, At
<1>5. AttemptsCounted' BY DEF ToolRaises, ExecInv, AttemptsCounted
<1>6. Source' \notin DOMAIN Budget BY <1>1, <1>2, BudgetBound DEF Source
<1>7. ToolsKnown' BY <1>6 DEF ToolRaises, ExecInv, ToolsKnown
<1> QED BY <1>4, <1>5, <1>7 DEF ExecInv

\* The batch of the current call.
LEMMA BatchTyped ==
  ASSUME ExecInv, NEW turn \in Nat PROVE Batch(turn) \in BatchSet
<1>1. attempt.calls \in Nat
  <2>1. attempt.calls \in 0 .. MaxModelCalls BY AttemptUpdate DEF ExecInv, Typed
  <2> QED BY <2>1, ExecutorAssumption
<1>2. attempt.batch \in Seq(ToolStatuses) BY AttemptUpdate DEF ExecInv, Typed
<1> QED BY <1>1, <1>2 DEF Batch, BatchSet, CallId

LEMMA DenialAbortsKeeps ==
  ASSUME ExecInv, DenialAborts PROVE ExecInv'
<1> DEFINE failure == Failed("approval_denied", "turn", TRUE)
<1>1. "approval_denied" \in Reasons BY DEF Reasons
<1>2. failure \in Result /\ failure.tools = TRUE BY <1>1, FailedTyped
<1>3. result' = [failure EXCEPT !.denied = <<Batch(0)>>] BY DEF DenialAborts, Return
<1>4. Batch(0) \in BatchSet BY BatchTyped
<1>5. <<Batch(0)>> \in Seq(BatchSet) BY <1>4
<1> HIDE DEF failure
<1>6. result' \in Result /\ result'.tools = TRUE
  BY <1>2, <1>3, <1>5 DEF Result
<1>7. pc \in Open BY DEF DenialAborts, Open
<1> QED BY <1>6, <1>7, ResultKeeps DEF DenialAborts, Return

\* A whole batch joins the turn's list, and the attempt has run tools.
LEMMA AcceptBatchKeeps ==
  ASSUME ExecInv, AcceptBatch PROVE ExecInv'
<1>1. Batch(Turn) \in BatchSet BY BatchTyped DEF Turn
<1>2. loop' \in Seq(BatchSet) BY <1>1 DEF AcceptBatch, ExecInv, Typed
<1>3. attempt' \in Attempt /\ attempt'.mode = attempt.mode /\ attempt'.tools = TRUE
  BY DEF AcceptBatch, ExecInv, Typed, Attempt
<1>4. /\ context' \in [phase : {"initial", "followup"}, tries : 0 .. 1]
      /\ context'.phase = "followup"
  BY DEF AcceptBatch, ExecInv, Typed
<1>5. Typed' BY <1>2, <1>3, <1>4 DEF AcceptBatch, ExecInv, Typed, At
<1>6. AttemptsCounted' BY DEF AcceptBatch, ExecInv, AttemptsCounted
<1>7. ToolsKnown' BY <1>3, <1>4 DEF AcceptBatch, ExecInv, ToolsKnown
<1> QED BY <1>5, <1>6, <1>7 DEF ExecInv

\* A rule answers only to an attempt before any tool that is not forgotten.
LEMMA EnabledBeforeTools == ASSUME ExecInv, pc = "retry", Enabled PROVE Forgot
BY DEF ExecInv, ToolsKnown, Enabled

LEMMA RepeatKeeps ==
  ASSUME ExecInv, Repeat PROVE ExecInv'
<1>1. Forgot BY EnabledBeforeTools DEF Repeat, Repeats
<1>2. Source \in DOMAIN Budget /\ Budget[Source] \in 1 .. 2
  BY BudgetBound DEF Repeat, Repeats, Enabled
<1>3. retry.used \in 0 .. 2 BY DEF ExecInv, Typed
<1>4. retry.used + 1 \in 0 .. 2
  <2>1. retry.rule = "none" => retry.used = 0 BY DEF ExecInv, AttemptsCounted
  <2>2. retry.rule = "none" \/ retry.used < Budget[Source] BY DEF Repeat, Repeats
  <2> QED BY <1>2, <1>3, <2>1, <2>2
<1>5. Source # "none" BY <1>2, BudgetBound
<1>6. Typed' BY <1>2, <1>4 DEF Repeat, ExecInv, Typed, At
<1>7. AttemptsCounted' BY <1>5 DEF Repeat, AttemptsCounted
<1>8. ToolsKnown' BY <1>1 DEF Repeat, ExecInv, ToolsKnown, Forgot
<1> QED BY <1>6, <1>7, <1>8 DEF ExecInv

LEMMA ContinueKeeps ==
  ASSUME ExecInv, Continue PROVE ExecInv'
<1>1. Forgot BY EnabledBeforeTools DEF Continue, Continues
<1>2. attempt' \in Attempt /\ attempt'.mode = attempt.mode
  BY AttemptUpdate DEF Continue, ExecInv, Typed, Attempt
<1>3. Typed' BY <1>2 DEF Continue, ExecInv, Typed, At
<1>4. AttemptsCounted' BY DEF Continue, ExecInv, AttemptsCounted
<1>5. ToolsKnown' BY <1>1, <1>2 DEF Continue, ExecInv, ToolsKnown, Forgot
<1> QED BY <1>3, <1>4, <1>5 DEF ExecInv

\* The retry loop leaves its result or a failure.
LEMMA SettleKeeps ==
  ASSUME ExecInv, Settle PROVE ExecInv'
<1>1. "output_token_limit_reached" \in Reasons BY DEF Reasons
<1>2. LimitFailure \in Result
  BY <1>1, FailedTyped DEF LimitFailure
<1>3. result' \in Result
  <2>1. result' \in {result, LimitFailure} BY DEF Settle, Settled
  <2> QED BY <1>2, <2>1 DEF ExecInv, Typed
<1>4. pc' \in {"done", "scope"} BY DEF Settle
<1>5. Typed' BY <1>3, <1>4 DEF Settle, ExecInv, Typed, At
<1>6. AttemptsCounted' BY DEF Settle, ExecInv, AttemptsCounted
<1>7. ToolsKnown' BY <1>4 DEF Settle, ExecInv, ToolsKnown
<1> QED BY <1>5, <1>6, <1>7 DEF ExecInv

\* Rewriting denials keeps the list's length and type.
LEMMA DenialsCancelledTyped ==
  ASSUME NEW batches \in Seq(BatchSet)
  PROVE  /\ DenialsCancelled(batches) \in Seq(BatchSet)
         /\ Len(DenialsCancelled(batches)) = Len(batches)
<1> DEFINE Rewritten(b) ==
      [b EXCEPT !.tools = [k \in DOMAIN @ |-> IF @[k] = "denied" THEN "cancelled" ELSE @[k]]]
<1>1. ASSUME NEW b \in BatchSet PROVE Rewritten(b) \in BatchSet
  <2> DEFINE tools == [k \in DOMAIN b.tools |->
                         IF b.tools[k] = "denied" THEN "cancelled" ELSE b.tools[k]]
  <2>1. b.tools \in Seq(ToolStatuses) BY DEF BatchSet
  <2>2. tools \in Seq(ToolStatuses) BY <2>1 DEF ToolStatuses
  <2>3. Rewritten(b) = [b EXCEPT !.tools = tools] BY DEF BatchSet
  <2> HIDE DEF tools
  <2>4. [b EXCEPT !.tools = tools] \in BatchSet BY <2>2 DEF BatchSet
  <2> QED BY <2>3, <2>4
<1>2. DenialsCancelled(batches) = [i \in DOMAIN batches |-> Rewritten(batches[i])]
  BY DEF DenialsCancelled
<1> HIDE DEF Rewritten
<1>3. \A i \in 1 .. Len(batches) : Rewritten(batches[i]) \in BatchSet BY <1>1
<1> QED BY <1>2, <1>3

LEMMA ScopeKeeps ==
  ASSUME ExecInv, Scope PROVE ExecInv'
<1>1. Batches \in Seq(BatchSet) BY ResultUpdate DEF ExecInv, Typed, Batches
<1>2. loop' \in Seq(BatchSet) BY <1>1, DenialsCancelledTyped DEF Scope
<1>3. result' \in Result
  <2>1. "cancelled" \in Statuses /\ "user_cancel_running" \in Reasons
    BY DEF Statuses, Reasons
  <2>2. CASE TurnCancelled
    <3>1. result' = [result EXCEPT !.status = "cancelled", !.scope = "turn",
                                   !.reason = "user_cancel_running"]
      BY <2>2 DEF Scope
    <3> QED BY <2>1, <3>1 DEF ExecInv, Typed, Result
  <2>3. CASE ~TurnCancelled BY <2>3 DEF Scope, ExecInv, Typed
  <2> QED BY <2>2, <2>3
<1>4. Typed' BY <1>2, <1>3 DEF Scope, ExecInv, Typed, At
<1>5. AttemptsCounted' BY DEF Scope, ExecInv, AttemptsCounted
<1>6. ToolsKnown' BY DEF Scope, ExecInv, ToolsKnown
<1> QED BY <1>4, <1>5, <1>6 DEF ExecInv

LEMMA WriteKeeps == ExecInv /\ (WriteTools \/ WriteEnd) => ExecInv'
BY MoveKeeps DEF WriteTools, WriteEnd, ExecInv, Typed, At

LEMMA NextKeeps == ExecInv /\ [Next]_vars => ExecInv'
<1> SUFFICES ASSUME ExecInv, [Next]_vars PROVE ExecInv' OBVIOUS
<1>1. CASE Begin \/ PrepareContext \/ Summarize \/ ContextRaises \/ CheckWindow
  BY <1>1, BeginKeeps, PrepareContextKeeps, SummarizeKeeps, ContextRaisesKeeps,
     CheckWindowKeeps
<1>2. CASE Invoke \/ IterationLimit \/ Fallback \/ ModelCall \/ ProviderOpen
  BY <1>2, InvokeKeeps, IterationLimitKeeps, FallbackKeeps, ModelCallKeeps, RaiseKeeps
  DEF ProviderOpen
<1>3. CASE Tool \/ ToolRaises \/ DenialAborts \/ AcceptBatch
  BY <1>3, ToolKeeps, ToolRaisesKeeps, DenialAbortsKeeps, AcceptBatchKeeps
<1>4. CASE Repeat \/ Continue \/ Settle \/ Scope \/ WriteTools \/ WriteEnd
  BY <1>4, RepeatKeeps, ContinueKeeps, SettleKeeps, ScopeKeeps, WriteKeeps
<1>5. CASE Cancel \/ Interrupt BY <1>5, CancelKeeps, RaiseKeeps DEF Interrupt
<1>6. CASE UNCHANGED vars BY <1>6, MoveKeeps DEF vars, ExecInv, Typed
<1> QED BY <1>1, <1>2, <1>3, <1>4, <1>5, <1>6 DEF Next, Step

-----------------------------------------------------------------------------
(* The rows of the turn. *)

\* A turn begins without rows, batches and tools.
LEMMA InitRows == Init => RowsInv
<1> SUFFICES ASSUME Init PROVE RowsInv OBVIOUS
<1>1. pc = "begin" /\ rows = <<>> /\ loop = <<>> /\ ran = <<>> BY DEF Init
<1>2. rows \in Seq(RowSet) /\ DOMAIN rows = {} BY <1>1
<1>3. RowsStarted BY <1>1, <1>2 DEF RowsStarted
<1>4. TurnLoop /\ NoDenial(loop) BY <1>1 DEF TurnLoop, NoDenial, AllWithout
<1>5. BatchesAccepted BY <1>1, <1>4 DEF BatchesAccepted
<1>6. ToolsTold BY <1>1, LoopWholeEmpty DEF ToolsTold, Told
<1>7. ResultShape /\ RowsWritten BY <1>1 DEF ResultShape, RowsWritten
<1> QED BY <1>3, <1>5, <1>6, <1>7 DEF RowsInv

Between == {"context", "summarize", "window", "invoke", "model"}

\* Steps between the batches that write nothing.
LEMMA BetweenRows ==
  ASSUME RowsInv, UNCHANGED <<loop, rows, ran>>, pc \in Between, pc' \in Between
  PROVE  RowsInv'
<1>1. RowsStarted' BY DEF RowsInv, RowsStarted, Between, Open
<1>2. BatchesAccepted'
  BY DEF RowsInv, BatchesAccepted, Between, Open, TurnLoop, NoDenial
<1>3. ToolsTold' BY DEF RowsInv, ToolsTold, Between, Open, Told
<1>4. ResultShape' /\ RowsWritten' BY DEF ResultShape, RowsWritten, Between
<1> QED BY <1>1, <1>2, <1>3, <1>4 DEF RowsInv

\* The turn stays where it is; its token may be set.
LEMMA StayRows ==
  ASSUME RowsInv, UNCHANGED <<pc, attempt, loop, result, rows, ran>>, token => token'
  PROVE  RowsInv'
<1>1. RowsStarted' BY DEF RowsInv, RowsStarted
<1>2. BatchesAccepted' BY DEF RowsInv, BatchesAccepted, TurnLoop, NoDenial
<1>3. ToolsTold' BY DEF RowsInv, ToolsTold, Told, Enabled, Source
<1>4. ResultShape' BY DEF RowsInv, ResultShape, NoDenial, TurnLoop
<1>5. RowsWritten' BY DEF RowsInv, RowsWritten, ToolsWritten, EndWritten
<1> QED BY <1>1, <1>2, <1>3, <1>4, <1>5 DEF RowsInv

LEMMA RaiseRows == ASSUME RowsInv, Raise PROVE RowsInv'
<1>1. pc' = "raised" /\ rows' = rows BY DEF Raise
<1>2. RowsStarted' BY <1>1 DEF RowsInv, RowsStarted, Open
<1>3. BatchesAccepted' /\ ToolsTold' BY <1>1 DEF BatchesAccepted, ToolsTold, Open
<1>4. ResultShape' /\ RowsWritten' BY <1>1 DEF ResultShape, RowsWritten
<1> QED BY <1>2, <1>3, <1>4 DEF RowsInv

\* A failure or a timeout, whatever ran.
LEMMA FailureRows ==
  ASSUME RowsInv, UNCHANGED <<loop, rows>>, pc \in Open \ {"begin"},
         pc' \in {"retry", "write_tools"},
         result'.status \notin {"completed", "cancelled"},
         result'.abort => result'.status = "failed",
         pc' = "retry" /\ Enabled' => pc \in Between /\ ran' = ran
  PROVE  RowsInv'
<1>1. RowsStarted' BY DEF RowsInv, RowsStarted, Open
<1>2. BatchesAccepted' BY DEF RowsInv, BatchesAccepted, Open, TurnLoop, NoDenial
<1>3. ToolsTold' BY DEF RowsInv, ToolsTold, Told, Open, Between
<1>4. ResultShape' /\ RowsWritten' BY DEF ResultShape, RowsWritten
<1> QED BY <1>1, <1>2, <1>3, <1>4 DEF RowsInv

\* A failure has its status, and does not abort the retry loop.
LEMMA FailedFields ==
  ASSUME NEW reason, NEW scope, NEW tools
  PROVE  /\ Failed(reason, scope, tools).status = "failed"
         /\ Failed(reason, scope, tools).abort = FALSE
BY DEF Failed, NoResult

\* The user's input is the first row.
LEMMA BeginRows ==
  ASSUME RowsInv, Begin PROVE RowsInv'
<1>1. NoCall \in CallId /\ Turn \in Nat /\ "user_input" \in Kinds
  BY DEF NoCall, CallId, Turn, Kinds
<1>2. PICK x : x = Grouped(<<Row(Turn, "user_input", NoCall, 0, "none")>>) OBVIOUS
<1>3. /\ x \in Seq(RowSet) /\ Len(x) = 1 /\ DOMAIN x = {1}
      /\ x[1].kind = "user_input" /\ x[1].status = "none"
  BY <1>1, <1>2, OneRow
<1>4. rows' = x /\ pc' = "context" /\ pc = "begin" /\ loop' = loop /\ ran' = ran
  BY <1>2 DEF Begin, UserRows
<1>5. RowsStarted' BY <1>3, <1>4 DEF RowsStarted, QuietRow
<1>6. BatchesAccepted' BY <1>4 DEF RowsInv, BatchesAccepted, Open, TurnLoop, NoDenial
<1>7. ToolsTold' BY <1>4 DEF RowsInv, ToolsTold, Open, Told
<1>8. ResultShape' /\ RowsWritten' BY <1>4 DEF ResultShape, RowsWritten
<1> QED BY <1>5, <1>6, <1>7, <1>8 DEF RowsInv

LEMMA CompressionFailedRows ==
  ASSUME RowsInv, pc \in {"context", "summarize"}, CompressionFailed PROVE RowsInv'
<1>1. PICK f : f = Failed("compression_failed", "turn", FALSE) OBVIOUS
<1>2. f.status = "failed" BY <1>1, FailedFields
<1>3. result' = [f EXCEPT !.abort = (context.phase = "followup")]
  BY <1>1 DEF CompressionFailed
<1>4. result'.status = f.status
  BY <1>1, <1>3 DEF Failed, NoResult
<1> QED BY <1>2, <1>4, FailureRows DEF CompressionFailed, Open, Between

\* A summary joins the user's input.
LEMMA AcceptSummaryRows ==
  ASSUME RowsInv, pc = "summarize", AcceptSummary PROVE RowsInv'
<1>1. NoCall \in CallId /\ Turn \in Nat /\ "context_summary" \in Kinds
  BY DEF NoCall, CallId, Turn, Kinds
<1>2. PICK x : x = Grouped(<<Row(Turn, "context_summary", NoCall, 0, "none")>>) OBVIOUS
<1>3. /\ x \in Seq(RowSet) /\ DOMAIN x = {1}
      /\ x[1].kind = "context_summary" /\ x[1].status = "none"
  BY <1>1, <1>2, OneRow
<1>4. /\ rows' = rows \o x /\ pc' \in {"model", "window"} /\ loop' = loop /\ ran' = ran
  BY <1>2 DEF AcceptSummary, SummaryRows
<1>5. /\ rows \in Seq(RowSet) /\ rows # <<>> /\ rows[1].kind = "user_input"
      /\ \A i \in DOMAIN rows : QuietRow(rows[i])
  BY DEF RowsInv, RowsStarted, Open
<1>6. PICK m : m = Len(rows) OBVIOUS
<1>7. Joined(rows, x, rows', m) BY <1>3, <1>4, <1>5, <1>6, ConcatPlaces
<1>8. QuietRow(x[1]) BY <1>3 DEF QuietRow
<1>9. ASSUME NEW i \in DOMAIN (rows') PROVE QuietRow(rows'[i])
  <2>1. CASE i \in DOMAIN rows
    <3>1. rows'[i] = rows[i] BY <1>7, <2>1 DEF Joined
    <3> QED BY <1>5, <2>1, <3>1
  <2>2. CASE i \notin DOMAIN rows
    <3>1. PICK j \in DOMAIN x : i = m + j BY <1>7, <2>2 DEF Joined
    <3>2. j = 1 /\ rows'[m + j] = x[j] BY <1>3, <1>7 DEF Joined
    <3> QED BY <1>8, <3>1, <3>2
  <2> QED BY <2>1, <2>2
<1>10. rows' \in Seq(RowSet) /\ rows' # <<>> /\ rows'[1] = rows[1]
  BY <1>3, <1>4, <1>5, FirstStays
<1>11. RowsStarted' BY <1>4, <1>5, <1>9, <1>10 DEF RowsStarted
<1>12. BatchesAccepted' BY <1>4 DEF RowsInv, BatchesAccepted, Open, TurnLoop, NoDenial
<1>13. ToolsTold' BY <1>4 DEF RowsInv, ToolsTold, Open, Told
<1>14. ResultShape' /\ RowsWritten' BY <1>4 DEF ResultShape, RowsWritten
<1> QED BY <1>11, <1>12, <1>13, <1>14 DEF RowsInv

LEMMA PrepareContextRows ==
  ASSUME RowsInv, PrepareContext PROVE RowsInv'
<1>1. CASE ContextReady
  <2>1. pc' \in Between BY <1>1 DEF ContextReady, Between
  <2> QED BY <1>1, <2>1, BetweenRows DEF PrepareContext, ContextReady, Between
<1>2. CASE CompressionFailed BY <1>2, CompressionFailedRows DEF PrepareContext
<1>3. CASE /\ pc' = "summarize" /\ UNCHANGED <<token, attempt, loop, result, retry, rows, ran>>
  BY <1>3, BetweenRows DEF PrepareContext, Between
<1> QED BY <1>1, <1>2, <1>3 DEF PrepareContext

LEMMA SummarizeRows ==
  ASSUME RowsInv, Summarize PROVE RowsInv'
<1>1. CASE AcceptSummary BY <1>1, AcceptSummaryRows DEF Summarize
<1>2. CASE CompressionFailed BY <1>2, CompressionFailedRows DEF Summarize
<1>3. CASE RetrySummary BY <1>3, BetweenRows DEF Summarize, RetrySummary, Between
<1> QED BY <1>1, <1>2, <1>3 DEF Summarize

LEMMA ContextRaisesRows ==
  ASSUME RowsInv, ContextRaises PROVE RowsInv'
<1>1. CASE context.phase = "followup"
  <2>1. PICK tools : tools = attempt.tools OBVIOUS
  <2>2. result' = Failed("other", "none", tools) BY <1>1, <2>1 DEF ContextRaises
  <2>3. Failed("other", "none", tools).status = "failed" BY FailedFields
  <2> QED BY <1>1, <2>2, <2>3, FailureRows DEF ContextRaises, Open, Between
<1>2. CASE context.phase # "followup" BY <1>2, RaiseRows DEF ContextRaises
<1> QED BY <1>1, <1>2

LEMMA CheckWindowRows ==
  ASSUME RowsInv, CheckWindow PROVE RowsInv'
<1>1. CASE pc' = "invoke" BY <1>1, BetweenRows DEF CheckWindow, Between
<1>2. CASE pc' # "invoke"
  <2>1. result' = Failed("context_limit_exceeded", "turn", FALSE) /\ pc' = "write_tools"
    BY <1>2 DEF CheckWindow
  <2>2. Failed("context_limit_exceeded", "turn", FALSE).status = "failed" BY FailedFields
  <2> QED BY <2>1, <2>2, FailureRows DEF CheckWindow, Open, Between
<1> QED BY <1>1, <1>2

LEMMA InvokeRows == ASSUME RowsInv, Invoke PROVE RowsInv'
BY BetweenRows DEF Invoke, Between

LEMMA FallbackRows == ASSUME RowsInv, Fallback PROVE RowsInv'
BY BetweenRows DEF Fallback, Between

LEMMA IterationLimitRows == ASSUME RowsInv, IterationLimit PROVE RowsInv'
<1>1. PICK tools : tools = attempt.tools OBVIOUS
<1>2. result' = Failed("adapter_contract_violation", "turn", tools)
  BY <1>1 DEF IterationLimit, Return
<1>3. Failed("adapter_contract_violation", "turn", tools).status = "failed" BY FailedFields
<1> QED BY <1>2, <1>3, FailureRows DEF IterationLimit, Return, Open, Between

\* What a model call returns: the batches are still all the tools that ran.
LEMMA ModelResultRows ==
  ASSUME RowsInv, pc = "model", pc' = "retry", UNCHANGED <<loop, rows, ran>>,
         result'.denied = <<>>, ~result'.abort,
         result'.status = "cancelled" => token' /\ result'.reason # "approval_denied"
  PROVE  RowsInv'
<1>1. RowsStarted' BY DEF RowsInv, RowsStarted, Open
<1>2. BatchesAccepted' BY DEF RowsInv, BatchesAccepted, Open, TurnLoop, NoDenial
<1>3. ToolsTold' BY DEF RowsInv, ToolsTold, Open, Told
<1>4. ResultShape' /\ RowsWritten' BY DEF ResultShape, RowsWritten
<1> QED BY <1>1, <1>2, <1>3, <1>4 DEF RowsInv

Ended(status, reason, tools) ==
    [NoResult EXCEPT !.status = status, !.reason = reason, !.tools = tools]

LEMMA EndedFields ==
  ASSUME NEW status, NEW reason, NEW tools
  PROVE  LET r == Ended(status, reason, tools)
         IN  r.status = status /\ r.reason = reason /\ r.denied = <<>> /\ ~r.abort
BY DEF Ended, NoResult

LEMMA ModelCallRows ==
  ASSUME ExecInv, RowsInv, ModelCall PROVE RowsInv'
<1>1. PICK tools : tools = attempt.tools OBVIOUS
<1>2. CASE token /\ Return(Ended("cancelled", "model_call_cancelled", tools))
  <2>1. result' = Ended("cancelled", "model_call_cancelled", tools) BY <1>2 DEF Return
  <2>2. result'.reason = "model_call_cancelled" /\ result'.denied = <<>> /\ ~result'.abort
    BY <2>1, EndedFields
  <2> QED BY <1>2, <2>2, ModelResultRows DEF ModelCall, Return
<1>3. CASE Return(Ended("timeout", "model_call_timeout", tools))
  <2>1. result' = Ended("timeout", "model_call_timeout", tools) BY <1>3 DEF Return
  <2>2. result'.status = "timeout" /\ ~result'.abort BY <2>1, EndedFields
  <2> QED BY <1>3, <2>2, FailureRows DEF ModelCall, Return, Open, Between
<1>4. CASE \E reason \in Failures : Return(Failed(reason, "none", tools))
  <2>1. PICK reason \in Failures : Return(Failed(reason, "none", tools)) BY <1>4
  <2>2. Failed(reason, "none", tools).status = "failed" BY FailedFields
  <2>3. result'.status = "failed" BY <2>1, <2>2 DEF Return
  <2> QED BY <2>1, <2>3, FailureRows DEF ModelCall, Return, Open, Between
<1>5. CASE \E limit \in {"none", "output_limit"} : Return(Ended("completed", limit, tools))
  <2>1. PICK limit \in {"none", "output_limit"} : Return(Ended("completed", limit, tools))
    BY <1>5
  <2>2. result' = Ended("completed", limit, tools) BY <2>1 DEF Return
  <2>3. Return(result') BY <2>1 DEF Return
  <2>4. result'.status = "completed" /\ result'.denied = <<>> /\ ~result'.abort
    BY <2>2, EndedFields
  <2> QED BY <2>3, <2>4, ModelResultRows DEF ModelCall, Return
<1>6. CASE \E n \in 1 .. MaxTools :
             /\ attempt' = [attempt EXCEPT !.calls = @ + 1, !.batch = <<>>, !.size = n]
             /\ pc' = "tool"
             /\ UNCHANGED <<token, context, loop, result, retry, rows, ran>>
  <2>1. attempt'.batch = <<>> BY <1>6 DEF ExecInv, Typed, Attempt
  <2>2. pc' = "tool" /\ loop' = loop /\ rows' = rows /\ ran' = ran /\ pc = "model"
    BY <1>6 DEF ModelCall
  <2>3. ran \in Seq(ToolStatuses) BY DEF ExecInv, Typed
  <2>4. ran = ran \o <<>> BY <2>3, ConcatEmptySeq
  <2>5. Told(ran) BY <2>2 DEF RowsInv, ToolsTold, Open
  <2>6. ToolsTold' BY <2>1, <2>2, <2>3, <2>4, <2>5 DEF ToolsTold, Told, Open
  <2>7. RowsStarted' BY <2>2 DEF RowsInv, RowsStarted, Open
  <2>8. DOMAIN attempt'.batch = {} BY <2>1
  <2>9. BatchesAccepted'
    BY <2>2, <2>8 DEF RowsInv, BatchesAccepted, Open, TurnLoop, NoDenial
  <2>10. ResultShape' /\ RowsWritten' BY <2>2 DEF ResultShape, RowsWritten
  <2> QED BY <2>6, <2>7, <2>9, <2>10 DEF RowsInv
<1>7. ModelCall => \/ token /\ Return(Ended("cancelled", "model_call_cancelled", tools))
                   \/ Return(Ended("timeout", "model_call_timeout", tools))
                   \/ \E reason \in Failures : Return(Failed(reason, "none", tools))
                   \/ \E limit \in {"none", "output_limit"} :
                         Return(Ended("completed", limit, tools))
                   \/ \E n \in 1 .. MaxTools :
                        /\ attempt' = [attempt EXCEPT !.calls = @ + 1, !.batch = <<>>,
                                                      !.size = n]
                        /\ pc' = "tool"
                        /\ UNCHANGED <<token, context, loop, result, retry, rows, ran>>
  BY <1>1 DEF ModelCall, Ended
<1> QED BY <1>2, <1>3, <1>4, <1>5, <1>6, <1>7

\* A tool's status joins the batch at work and the history: what the accepted batches
\* tell stays what ran before this batch.
LEMMA ToolRows ==
  ASSUME ExecInv, RowsInv, Tool PROVE RowsInv'
<1>1. PICK status \in {"ok", "denied"} :
        /\ attempt' = [attempt EXCEPT !.batch = Append(@, status)]
        /\ ran' = Append(ran, status)
        /\ pc' = IF status = "denied" \/ Len(attempt.batch) + 1 = attempt.size
                 THEN "batch" ELSE "tool"
  BY DEF Tool
<1>2. pc = "tool" /\ loop' = loop /\ rows' = rows /\ pc' \in {"batch", "tool"}
  BY <1>1 DEF Tool
<1>3. status \in ToolStatuses BY DEF ToolStatuses
<1>4. PICK b : b = attempt.batch OBVIOUS
<1>5. b \in Seq(ToolStatuses) BY <1>4, AttemptUpdate DEF ExecInv, Typed
<1>6. attempt'.batch = Append(b, status) BY <1>1, <1>4 DEF ExecInv, Typed, Attempt
<1>7. PICK c : c = Append(b, status) OBVIOUS
<1>8. PICK n \in Nat : n = Len(b) BY <1>5, LenProperties
<1>9. /\ c \in Seq(ToolStatuses) /\ Len(c) = n + 1 /\ c[n + 1] = status
      /\ \A k \in 1 .. n : c[k] = b[k]
  BY <1>3, <1>5, <1>7, <1>8, AppendProperties
<1>10. DOMAIN b = 1 .. n /\ DOMAIN c = 1 .. n + 1 BY <1>5, <1>8, <1>9, LenProperties
<1>11. \A k \in 1 .. n : b[k] # "denied"
  BY <1>2, <1>4, <1>10 DEF RowsInv, BatchesAccepted
<1>12. RowsStarted' BY <1>2 DEF RowsInv, RowsStarted, Open
<1>13. BatchesAccepted'
  <2>1. TurnLoop' /\ NoDenial(loop)'
    BY <1>2 DEF RowsInv, BatchesAccepted, Open, TurnLoop, NoDenial
  <2>2. \A k \in DOMAIN c : k # Len(c) => c[k] # "denied" BY <1>9, <1>10, <1>11
  <2>3. Len(c) # 0 BY <1>9
  <2>4. pc' = "tool" => \A k \in DOMAIN c : c[k] # "denied"
    <3>1. pc' = "tool" => status # "denied" BY <1>1
    <3> QED BY <1>9, <1>10, <1>11, <3>1
  <2> QED BY <1>2, <1>6, <1>7, <2>1, <2>2, <2>3, <2>4 DEF BatchesAccepted
<1>14. ToolsTold'
  <2>1. PICK u \in Seq(ToolStatuses) : ran = u \o b /\ Told(u)
    BY <1>2, <1>4 DEF RowsInv, ToolsTold
  <2>2. Append(u \o b, status) = u \o Append(b, status) BY <1>3, <1>5
  <2>3. ran' = u \o attempt'.batch BY <1>1, <1>6, <2>1, <2>2
  <2>4. Told(u)' BY <1>2, <2>1 DEF Told
  <2> QED BY <1>2, <2>3, <2>4 DEF ToolsTold, Open
<1>15. ResultShape' /\ RowsWritten' BY <1>2 DEF ResultShape, RowsWritten
<1> QED BY <1>12, <1>13, <1>14, <1>15 DEF RowsInv

LEMMA ToolRaisesRows ==
  ASSUME RowsInv, ToolRaises PROVE RowsInv'
<1>1. PICK tools : tools = attempt.tools OBVIOUS
<1>2. result' = Failed("other", "none", tools) BY <1>1 DEF ToolRaises
<1>3. Failed("other", "none", tools).status = "failed" BY FailedFields
<1>4. result'.reason = "other" BY <1>2 DEF Failed, NoResult
<1>5. ~Enabled' BY <1>4, BudgetBound DEF Enabled, Source
<1> QED BY <1>2, <1>3, <1>5, FailureRows DEF ToolRaises, Open

LEMMA DenialAbortsRows ==
  ASSUME RowsInv, DenialAborts PROVE RowsInv'
<1>1. PICK f, b : f = Failed("approval_denied", "turn", TRUE) /\ b = <<Batch(0)>> OBVIOUS
<1>2. f.status = "failed" BY <1>1, FailedFields
<1>3. result' = [f EXCEPT !.denied = b] BY <1>1 DEF DenialAborts, Return
<1>4. result'.status = f.status /\ result'.tools = TRUE BY <1>1, <1>3 DEF Failed, NoResult
<1>5. ~Enabled' BY <1>4 DEF Enabled
<1> QED BY <1>2, <1>4, <1>5, FailureRows DEF DenialAborts, Return, Open

\* The batch at work becomes the last accepted one.
LEMMA AcceptBatchRows ==
  ASSUME ExecInv, RowsInv, AcceptBatch PROVE RowsInv'
<1>1. PICK b : b = Batch(Turn) OBVIOUS
<1>2. b \in BatchSet /\ Turn \in Nat /\ Turn # 0 BY <1>1, BatchTyped DEF Turn
<1>3. b.tools = attempt.batch /\ b.id.turn = Turn BY <1>1 DEF Batch
<1>4. loop \in Seq(BatchSet) BY DEF ExecInv, Typed
<1>5. /\ pc = "batch" /\ pc' = "context" /\ loop' = Append(loop, b) /\ rows' = rows
      /\ ran' = ran
  BY <1>1 DEF AcceptBatch
<1>6. TurnLoop /\ NoDenial(loop) BY <1>5 DEF RowsInv, BatchesAccepted, Open
<1>7. Without(b, {"denied"})
  <2>1. PICK n \in Nat : n = Len(attempt.batch)
    BY AttemptUpdate, LenProperties DEF ExecInv, Typed
  <2>2. attempt.batch[n] # "denied" BY <2>1 DEF AcceptBatch, Last
  <2>3. \A k \in DOMAIN attempt.batch : k # n => attempt.batch[k] # "denied"
    BY <1>5, <2>1 DEF RowsInv, BatchesAccepted
  <2> QED BY <1>3, <2>2, <2>3 DEF Without
<1>8. PICK m \in Nat : m = Len(loop) BY <1>4, LenProperties
<1>9. PICK s : s = Append(loop, b) OBVIOUS
<1>10. /\ Len(s) = m + 1 /\ s[m + 1] = b /\ \A i \in 1 .. m : s[i] = loop[i]
       /\ s \in Seq(BatchSet)
  BY <1>2, <1>4, <1>8, <1>9, AppendProperties
<1>11. DOMAIN loop = 1 .. m /\ DOMAIN s = 1 .. m + 1 BY <1>4, <1>8, <1>10, LenProperties
<1>12. ASSUME NEW i \in DOMAIN s PROVE s[i].id.turn = Turn /\ Without(s[i], {"denied"})
  <2>1. CASE i = m + 1 BY <1>3, <1>7, <1>10, <2>1
  <2>2. CASE i # m + 1
    <3>1. i \in 1 .. m BY <1>11, <2>2
    <3> QED BY <1>6, <1>10, <1>11, <3>1 DEF TurnLoop, NoDenial, AllWithout
  <2> QED BY <2>1, <2>2
<1>13. BatchesAccepted'
  BY <1>5, <1>9, <1>12 DEF BatchesAccepted, TurnLoop, NoDenial, AllWithout
<1>14. ToolsTold'
  <2>1. PICK u \in Seq(ToolStatuses) : ran = u \o b.tools /\ Told(u)
    BY <1>3, <1>5 DEF RowsInv, ToolsTold
  <2>2. Whole(LoopFlat(Turn, Append(loop, b)), u \o b.tools)
    BY <1>2, <1>4, <2>1, LoopWholeAppend DEF Told
  <2> QED BY <1>5, <2>1, <2>2 DEF ToolsTold, Told
<1>15. RowsStarted' BY <1>5 DEF RowsInv, RowsStarted, Open
<1>16. ResultShape' /\ RowsWritten' BY <1>5 DEF ResultShape, RowsWritten
<1> QED BY <1>13, <1>14, <1>15, <1>16 DEF RowsInv

\* A rule starts again while the batches are all the tools that ran.
LEMMA AgainRows ==
  ASSUME RowsInv, pc = "retry", Enabled, pc' = "invoke",
         UNCHANGED <<loop, rows, ran>>
  PROVE  RowsInv'
<1>1. RowsStarted' BY DEF RowsInv, RowsStarted, Open
<1>2. BatchesAccepted' BY DEF RowsInv, BatchesAccepted, Open, TurnLoop, NoDenial
<1>3. ToolsTold' BY DEF RowsInv, ToolsTold, Told
<1>4. ResultShape' /\ RowsWritten' BY DEF ResultShape, RowsWritten
<1> QED BY <1>1, <1>2, <1>3, <1>4 DEF RowsInv

LEMMA RepeatRows == ASSUME RowsInv, Repeat PROVE RowsInv'
BY AgainRows DEF Repeat, Repeats

LEMMA ContinueRows == ASSUME RowsInv, Continue PROVE RowsInv'
BY AgainRows DEF Continue, Continues

\* The result that leaves the retry loop: the one it has, or a failure.
LEMMA SettleRows ==
  ASSUME RowsInv, Settle PROVE RowsInv'
<1>1. /\ pc = "retry" /\ loop' = loop /\ rows' = rows /\ ran' = ran /\ token' = token
      /\ result' = Settled /\ pc' = IF Settled.abort THEN "done" ELSE "scope"
  BY DEF Settle
<1>2. result' = result \/ (result'.status = "failed" /\ ~result'.abort)
  <2>1. Settled = result \/ Settled = LimitFailure BY DEF Settled
  <2>2. LimitFailure = Failed("output_token_limit_reached", "none", FALSE) BY DEF LimitFailure
  <2>3. /\ Failed("output_token_limit_reached", "none", FALSE).status = "failed"
        /\ Failed("output_token_limit_reached", "none", FALSE).abort = FALSE
    BY FailedFields
  <2> QED BY <1>1, <2>1, <2>2, <2>3
<1>3. pc' = IF result'.abort THEN "done" ELSE "scope" BY <1>1
<1>4. RowsStarted' BY <1>1, <1>3 DEF RowsInv, RowsStarted, Open
<1>5. BatchesAccepted'
  BY <1>1, <1>3 DEF RowsInv, BatchesAccepted, Open, TurnLoop, NoDenial
<1>6. ToolsTold' BY <1>1, <1>2, <1>3 DEF RowsInv, ToolsTold, Open, Told
<1>7. result'.abort => result'.status = "failed" BY <1>1, <1>2 DEF RowsInv, ResultShape
<1>8. ResultShape' BY <1>1, <1>2, <1>3, <1>7 DEF RowsInv, ResultShape
<1>9. RowsWritten' BY <1>3, <1>7 DEF RowsWritten
<1> QED BY <1>4, <1>5, <1>6, <1>8, <1>9 DEF RowsInv

\* No denial is left among rewritten batches.
LEMMA DenialsCancelledAll ==
  ASSUME NEW batches \in Seq(BatchSet)
  PROVE  NoDenial(DenialsCancelled(batches))
<1>1. PICK ds : ds = DenialsCancelled(batches) OBVIOUS
<1>2. ASSUME NEW i \in DOMAIN batches, NEW k \in DOMAIN ds[i].tools
      PROVE  ds[i].tools[k] # "denied"
  <2>1. PICK b : b = batches[i] OBVIOUS
  <2>2. b \in BatchSet BY <2>1, ElementOfSeq, LenProperties
  <2>3. PICK tools : tools = [j \in DOMAIN b.tools |->
                                IF b.tools[j] = "denied" THEN "cancelled" ELSE b.tools[j]]
    OBVIOUS
  <2>4. ds[i] = [b EXCEPT !.tools = tools]
    BY <1>1, <2>1, <2>2, <2>3 DEF DenialsCancelled, BatchSet
  <2>5. ds[i].tools = tools BY <2>2, <2>4 DEF BatchSet
  <2>6. DOMAIN tools = DOMAIN b.tools BY <2>3
  <2>7. k \in DOMAIN b.tools BY <1>2, <2>5, <2>6
  <2>8. tools[k] = IF b.tools[k] = "denied" THEN "cancelled" ELSE b.tools[k] BY <2>3, <2>7
  <2> QED BY <2>5, <2>8
<1>3. DOMAIN ds = DOMAIN batches BY <1>1 DEF DenialsCancelled
<1>4. NoDenial(ds) BY <1>2, <1>3 DEF NoDenial, AllWithout, Without
<1> QED BY <1>1, <1>4

\* A cancelled turn keeps no denial, and a completed one its accepted batches.
LEMMA ScopeRows ==
  ASSUME ExecInv, RowsInv, Scope PROVE RowsInv'
<1>1. /\ pc = "scope" /\ pc' = "write_tools" /\ rows' = rows /\ ran' = ran /\ token' = token
  BY DEF Scope
<1>2. /\ result.status \in {"completed", "cancelled"} => result.denied = <<>>
      /\ result.status = "cancelled" => token /\ result.reason # "approval_denied"
  BY <1>1 DEF RowsInv, ResultShape
<1>3. result.status \in {"completed", "cancelled"} => Batches = loop BY <1>2 DEF Batches
<1>4. TurnLoop /\ NoDenial(loop) BY <1>1 DEF RowsInv, BatchesAccepted
<1>5. RowsStarted' BY <1>1 DEF RowsInv, RowsStarted
<1>6. BatchesAccepted' /\ RowsWritten' BY <1>1 DEF BatchesAccepted, RowsWritten, Open
<1>7. CASE TurnCancelled
  <2>1. result'.status = "cancelled" /\ result'.scope = "turn"
    <3>1. result' = [result EXCEPT !.status = "cancelled", !.scope = "turn",
                                   !.reason = "user_cancel_running"]
      BY <1>7 DEF Scope
    <3> QED BY <3>1 DEF ExecInv, Typed, Result
  <2>2. NoDenial(loop')
    <3>1. CASE result.reason = "approval_denied"
      <4>1. Batches \in Seq(BatchSet)
        BY ResultUpdate DEF ExecInv, Typed, Batches
      <4>2. loop' = DenialsCancelled(Batches) BY <1>7, <3>1 DEF Scope
      <4> QED BY <4>1, <4>2, DenialsCancelledAll
    <3>2. CASE result.reason # "approval_denied"
      <4>1. result.status = "cancelled" BY <1>7, <3>2 DEF TurnCancelled
      <4>2. loop' = loop BY <1>3, <3>2, <4>1 DEF Scope
      <4> QED BY <1>4, <4>2
    <3> QED BY <3>1, <3>2
  <2>3. ResultShape' BY <1>1, <2>1, <2>2 DEF ResultShape, NoDenial
  <2>4. ToolsTold' BY <1>1, <2>1 DEF ToolsTold, Open
  <2> QED BY <1>5, <1>6, <2>3, <2>4 DEF RowsInv
<1>8. CASE ~TurnCancelled
  <2>1. result' = result /\ loop' = Batches BY <1>8 DEF Scope
  <2>2. result.status # "cancelled" BY <1>2, <1>8 DEF TurnCancelled
  <2>3. result.status = "completed" => loop' = loop BY <1>3, <2>1
  <2>4. ResultShape' BY <1>1, <1>4, <2>1, <2>2, <2>3 DEF ResultShape, TurnLoop
  <2>5. ToolsTold' BY <1>1, <2>1, <2>3 DEF RowsInv, ToolsTold, Open, Told
  <2> QED BY <1>5, <1>6, <2>4, <2>5 DEF RowsInv
<1> QED BY <1>7, <1>8

\* The tools' group follows quiet rows: it alone has calls, results and statuses.
LEMMA WriteToolsRows ==
  ASSUME ExecInv, RowsInv, WriteTools PROVE RowsInv'
<1>1. PICK x, m : x = ToolLoopRows(Turn, loop) /\ m = Len(rows) OBVIOUS
<1>2. /\ pc = "write_tools" /\ pc' = "write_end" /\ rows' = rows \o x /\ loop' = loop
      /\ result' = result /\ ran' = ran
  BY <1>1 DEF WriteTools
<1>3. /\ rows \in Seq(RowSet) /\ rows # <<>> /\ rows[1].kind = "user_input"
      /\ \A i \in DOMAIN rows : QuietRow(rows[i])
  BY <1>2 DEF RowsInv, RowsStarted
<1>4. loop \in Seq(BatchSet) /\ ran \in Seq(ToolStatuses) /\ Turn \in Nat
  BY DEF ExecInv, Typed, Turn
<1>5. AllWithout(loop, {}) /\ \A i \in DOMAIN loop : loop[i].id \in CallId
  <2>1. \A i \in DOMAIN loop : loop[i] \in BatchSet BY <1>4, ElementOfSeq, LenProperties
  <2> QED BY <2>1 DEF AllWithout, Without, BatchSet
<1>6. x \in Seq(Allowed({}, Turn, CallId)) BY <1>1, <1>4, <1>5, ToolLoopAllowed
<1>7. x \in Seq(RowSet) /\ \A i \in DOMAIN x : x[i] \in Allowed({}, Turn, CallId)
  BY <1>6, AllowedRows
<1>8. Joined(rows, x, rows', m) BY <1>1, <1>2, <1>3, <1>7, ConcatPlaces
<1>9. rows' \in Seq(RowSet) /\ rows' # <<>> /\ rows'[1] = rows[1]
  BY <1>2, <1>3, <1>7, FirstStays
<1>10. RowsStarted' BY <1>2, <1>3, <1>9 DEF RowsStarted, Open
<1>11. BatchesAccepted' /\ ToolsTold' BY <1>2 DEF BatchesAccepted, ToolsTold, Open
<1>12. ResultShape' BY <1>2 DEF RowsInv, ResultShape, NoDenial
<1>13. ASSUME NEW i \in DOMAIN (rows') PROVE rows'[i].kind \notin Closing
  <2>1. CASE i \in DOMAIN rows
    <3>1. rows'[i] = rows[i] BY <1>8, <2>1 DEF Joined
    <3> QED BY <1>3, <2>1, <3>1 DEF QuietRow, Closing, Facts
  <2>2. CASE i \notin DOMAIN rows
    <3>1. PICK j \in DOMAIN x : i = m + j BY <1>8, <2>2 DEF Joined
    <3>2. rows'[m + j] = x[j] BY <1>8 DEF Joined
    <3> QED BY <1>7, <3>1, <3>2 DEF Allowed, Closing, Facts
  <2> QED BY <2>1, <2>2
<1>14. ASSUME result.status = "completed" PROVE Whole(rows', ran)
  <2>1. TurnLoop BY <1>2, <1>14 DEF RowsInv, ResultShape
  <2>2. \A i \in DOMAIN loop : loop[i].id.turn # 0 BY <2>1 DEF TurnLoop, Turn
  <2>3. Whole(LoopFlat(Turn, loop), ran) BY <1>2, <1>14 DEF RowsInv, ToolsTold, Told
  <2>4. Whole(x, ran) BY <1>1, <1>4, <2>2, <2>3, ToolLoopWhole
  <2>5. \A i \in DOMAIN rows : rows[i].kind \notin {"assistant_tool_call", "tool_result"}
    BY <1>3 DEF QuietRow
  <2>6. Whole(rows, <<>>) BY <1>3, <2>5, WholeQuiet
  <2>7. <<>> \in Seq(ToolStatuses) /\ <<>> \o ran = ran BY <1>4, ConcatEmptySeq, EmptyTyped
  <2>8. Whole(rows \o x, <<>> \o ran) BY <1>3, <1>4, <1>7, <2>4, <2>6, <2>7, WholeConcat
  <2> QED BY <1>2, <2>7, <2>8
<1>15. ASSUME result.status = "cancelled", NEW i \in DOMAIN (rows')
       PROVE  rows'[i].status # "denied"
  <2>1. AllWithout(loop, {"denied"})
    BY <1>2, <1>15 DEF RowsInv, ResultShape, NoDenial
  <2>2. x \in Seq(Allowed({"denied"}, Turn, CallId)) BY <1>1, <1>4, <1>5, <2>1, ToolLoopAllowed
  <2>3. \A j \in DOMAIN x : x[j] \in Allowed({"denied"}, Turn, CallId) BY <2>2, AllowedRows
  <2>4. CASE i \in DOMAIN rows
    <3>1. rows'[i] = rows[i] BY <1>8, <2>4 DEF Joined
    <3> QED BY <1>3, <2>4, <3>1 DEF QuietRow
  <2>5. CASE i \notin DOMAIN rows
    <3>1. PICK j \in DOMAIN x : i = m + j BY <1>8, <1>15, <2>5 DEF Joined
    <3>2. rows'[m + j] = x[j] BY <1>8 DEF Joined
    <3> QED BY <2>3, <3>1, <3>2 DEF Allowed
  <2> QED BY <2>4, <2>5
<1>16. RowsWritten' BY <1>2, <1>13, <1>14, <1>15 DEF RowsWritten, ToolsWritten
<1> QED BY <1>10, <1>11, <1>12, <1>16 DEF RowsInv

\* The closing row is the only one of its kind, and the last.
Unclosed(s) == \A i \in DOMAIN s : s[i].kind \notin Closing
ClosedBy(t, r) == {i \in DOMAIN t : t[i].kind \in Closing} = {Len(t)} /\ Last(t) = r

LEMMA ClosingRow ==
  ASSUME NEW s \in Seq(RowSet), Unclosed(s),
         NEW x \in Seq(RowSet), DOMAIN x = {1}, Len(x) = 1, x[1].kind \in Closing
  PROVE  ClosedBy(s \o x, x[1])
<1>1. PICK m \in Nat : m = Len(s) BY LenProperties
<1> DEFINE t == s \o x
<1>2. Joined(s, x, t, m) BY <1>1, ConcatPlaces
<1>3. Len(t) = m + 1
  <2>1. Len(s \o x) = Len(s) + Len(x) BY ConcatProperties
  <2> QED BY <1>1, <2>1
<1>4. m + 1 \in DOMAIN t /\ t[m + 1] = x[1] BY <1>2 DEF Joined
<1>5. ASSUME NEW i \in DOMAIN t, i # m + 1 PROVE t[i].kind \notin Closing
  <2>1. i \in DOMAIN s BY <1>2, <1>5 DEF Joined
  <2>2. t[i] = s[i] BY <1>2, <2>1 DEF Joined
  <2> QED BY <2>1, <2>2 DEF Unclosed
<1> HIDE DEF t
<1>6. ClosedBy(t, x[1]) BY <1>3, <1>4, <1>5 DEF Last, ClosedBy
<1> QED BY <1>6 DEF t

LEMMA WriteEndRows ==
  ASSUME ExecInv, RowsInv, WriteEnd PROVE RowsInv'
<1>1. /\ pc = "write_end" /\ pc' = "done" /\ loop' = loop /\ result' = result /\ ran' = ran
  BY DEF WriteEnd
<1>2. /\ rows \in Seq(RowSet) /\ rows # <<>> /\ rows[1].kind = "user_input"
  BY <1>1 DEF RowsInv, RowsStarted
<1>3. ToolsWritten BY <1>1 DEF RowsInv, RowsWritten
<1>4. /\ NoCall \in CallId /\ Final(Turn) \in CallId /\ Turn \in Nat
      /\ {"assistant_output", "cancellation_fact", "failure_fact"} \subseteq Kinds
  BY DEF NoCall, Final, CallId, Turn, Kinds
<1>5. PICK kind \in {"assistant_output", "cancellation_fact", "failure_fact"},
           id \in CallId :
        /\ rows' = rows \o Grouped(<<Row(Turn, kind, id, 0, "none")>>)
        /\ result.status = "completed" => kind = "assistant_output"
        /\ result.status = "cancelled" => kind = "cancellation_fact"
  <2>1. CASE result.status = "completed"
    <3>1. rows' = rows \o Grouped(<<Row(Turn, "assistant_output", Final(Turn), 0, "none")>>)
      BY <2>1 DEF WriteEnd, FinalRows
    <3> QED BY <1>4, <2>1, <3>1
  <2>2. CASE result.status = "cancelled"
    <3>1. rows' = rows \o Grouped(<<Row(Turn, "cancellation_fact", NoCall, 0, "none")>>)
      BY <2>2 DEF WriteEnd, FactRows
    <3> QED BY <1>4, <2>2, <3>1
  <2>3. CASE result.status \notin {"completed", "cancelled"}
    <3>1. rows' = rows \o Grouped(<<Row(Turn, "failure_fact", NoCall, 0, "none")>>)
      BY <2>3 DEF WriteEnd, FactRows
    <3> QED BY <1>4, <2>3, <3>1
  <2> QED BY <2>1, <2>2, <2>3
<1>6. PICK x, m : x = Grouped(<<Row(Turn, kind, id, 0, "none")>>) /\ m = Len(rows) OBVIOUS
<1>7. kind \in Kinds /\ kind \in Closing BY <1>4 DEF Closing, Facts
<1>8. /\ x \in Seq(RowSet) /\ Len(x) = 1 /\ DOMAIN x = {1}
      /\ x[1].kind = kind /\ x[1].status = "none"
  BY <1>4, <1>6, <1>7, OneRow
<1>9. rows' = rows \o x BY <1>5, <1>6
<1>10. Joined(rows, x, rows', m) BY <1>2, <1>6, <1>8, <1>9, ConcatPlaces
<1>11. rows' \in Seq(RowSet) /\ rows' # <<>> /\ rows'[1] = rows[1]
  BY <1>2, <1>8, <1>9, FirstStays
<1>12. RowsStarted' BY <1>1, <1>2, <1>11 DEF RowsStarted, Open
<1>13. /\ {i \in DOMAIN (rows') : rows'[i].kind \in Closing} = {Len(rows')}
       /\ Last(rows') = x[1]
  <2>1. Unclosed(rows) BY <1>3 DEF ToolsWritten, Unclosed
  <2>2. x[1].kind \in Closing BY <1>7, <1>8
  <2>3. ClosedBy(rows \o x, x[1]) BY <1>2, <1>8, <2>1, <2>2, ClosingRow
  <2> QED BY <1>9, <2>3 DEF ClosedBy
<1>14. ASSUME result.status = "completed" PROVE Whole(rows', ran)
  <2>1. Whole(rows, ran) BY <1>3, <1>14 DEF ToolsWritten
  <2>2. \A i \in DOMAIN x : x[i].kind \notin {"assistant_tool_call", "tool_result"}
    BY <1>8
  <2>3. Whole(x, <<>>) BY <1>8, <2>2, WholeQuiet
  <2>4. ran \in Seq(ToolStatuses) BY DEF ExecInv, Typed
  <2>5. <<>> \in Seq(ToolStatuses) /\ ran \o <<>> = ran BY <2>4, ConcatEmptySeq, EmptyTyped
  <2>6. Whole(rows \o x, ran \o <<>>) BY <1>2, <1>8, <2>1, <2>3, <2>4, <2>5, WholeConcat
  <2> QED BY <1>9, <2>5, <2>6
<1>15. ASSUME result.status = "cancelled", NEW i \in DOMAIN (rows')
       PROVE  rows'[i].status # "denied"
  <2>1. CASE i \in DOMAIN rows
    <3>1. rows'[i] = rows[i] BY <1>10, <2>1 DEF Joined
    <3> QED BY <1>3, <1>15, <2>1, <3>1 DEF ToolsWritten
  <2>2. CASE i \notin DOMAIN rows
    <3>1. PICK j \in DOMAIN x : i = m + j BY <1>10, <1>15, <2>2 DEF Joined
    <3>2. j = 1 /\ rows'[m + j] = x[j] BY <1>8, <1>10 DEF Joined
    <3> QED BY <1>8, <3>1, <3>2
  <2> QED BY <2>1, <2>2
<1>16. EndWritten' BY <1>1, <1>5, <1>8, <1>13, <1>14, <1>15 DEF EndWritten
<1>17. RowsWritten' BY <1>1, <1>16 DEF RowsWritten
<1>18. BatchesAccepted' /\ ToolsTold' BY <1>1 DEF BatchesAccepted, ToolsTold, Open
<1>19. ResultShape' BY <1>1 DEF RowsInv, ResultShape, NoDenial
<1> QED BY <1>12, <1>17, <1>18, <1>19 DEF RowsInv

LEMMA NextRows == ExecInv /\ RowsInv /\ [Next]_vars => RowsInv'
<1> SUFFICES ASSUME ExecInv, RowsInv, [Next]_vars PROVE RowsInv' OBVIOUS
<1>1. CASE Begin \/ PrepareContext \/ Summarize \/ ContextRaises \/ CheckWindow
  BY <1>1, BeginRows, PrepareContextRows, SummarizeRows, ContextRaisesRows, CheckWindowRows
<1>2. CASE Invoke \/ IterationLimit \/ Fallback \/ ModelCall \/ ProviderOpen
  BY <1>2, InvokeRows, IterationLimitRows, FallbackRows, ModelCallRows, RaiseRows
  DEF ProviderOpen
<1>3. CASE Tool \/ ToolRaises \/ DenialAborts \/ AcceptBatch
  BY <1>3, ToolRows, ToolRaisesRows, DenialAbortsRows, AcceptBatchRows
<1>4. CASE Repeat \/ Continue \/ Settle
  BY <1>4, RepeatRows, ContinueRows, SettleRows
<1>5. CASE Scope \/ WriteTools \/ WriteEnd
  BY <1>5, ScopeRows, WriteToolsRows, WriteEndRows
<1>6. CASE Cancel BY <1>6, StayRows DEF Cancel
<1>7. CASE Interrupt BY <1>7, RaiseRows DEF Interrupt
<1>8. CASE UNCHANGED vars BY <1>8, StayRows DEF vars
<1> QED BY <1>1, <1>2, <1>3, <1>4, <1>5, <1>6, <1>7, <1>8 DEF Next, Step

-----------------------------------------------------------------------------

\* At every step of a turn it is known whether a tool has run that an abandoned stream
\* did not forget: the attempt or its result says so (RetryBoundaryFacts).
THEOREM ExecutorInvariance == Spec => []ExecInv
BY InitInv, NextKeeps, PTL DEF Spec

\* Results, attempts, the retry loop and the turn's batches keep their types.
THEOREM ExecutorTypes == Spec => []TypeOK
<1>1. ExecInv => TypeOK
  <2> SUFFICES ASSUME ExecInv PROVE TypeOK OBVIOUS
  <2>1. /\ attempt.kind \in {"call", "continuation"} /\ attempt.mode \in {"stream", "run"}
        /\ attempt.calls \in 0 .. MaxModelCalls /\ attempt.size \in 0 .. MaxTools
        /\ attempt.fellback \in BOOLEAN /\ attempt.tools \in BOOLEAN
        /\ attempt.batch \in Seq(ToolStatuses)
    BY AttemptUpdate DEF ExecInv, Typed
  <2>2. result.status \in Statuses /\ result.scope \in {"none", "turn"}
    BY DEF ExecInv, Typed, Result
  <2>3. retry.rule \in DOMAIN Budget \cup {"none"} /\ retry.used \in 0 .. 2
    BY DEF ExecInv, Typed
  <2>4. \A i \in DOMAIN loop : loop[i].tools \in Seq(ToolStatuses)
    <3>1. \A i \in DOMAIN loop : loop[i] \in BatchSet
      BY ElementOfSeq, LenProperties DEF ExecInv, Typed
    <3> QED BY <3>1 DEF BatchSet
  <2>5. forgotten \in 0 .. Len(ran) BY LenProperties DEF ExecInv, Typed
  <2> QED BY <2>1, <2>2, <2>3, <2>4, <2>5 DEF ExecInv, Typed, TypeOK, At
<1> QED BY <1>1, ExecutorInvariance, PTL

\* The adapter is invoked, again or for a continuation, only while every tool of the
\* turn ran before a stream that was abandoned for run() (langchain_adapter.stream), which
\* starts without their results; in a turn that does not stream, only before any tool.
THEOREM RepeatsForget == Spec => RepeatsOnlyForgotten
<1>1. ASSUME ExecInv, [Next]_vars
      PROVE  [pc = "invoke" /\ pc' = "model" =>
                 Len(ran) = forgotten /\ (attempt.mode = "run" => ran = <<>>)]_vars
  <2>1. Len(ran) = 0 => ran = <<>> BY EmptySeq DEF ExecInv, Typed
  <2> QED BY <1>1, <2>1 DEF ExecInv, ToolsKnown, Forgot
<1> QED BY <1>1, ExecutorInvariance, PTL DEF Spec, RepeatsOnlyForgotten

\* The accepted batches are always what ran before the batch at work, rows have their
\* shape, and what a turn has written follows from its result.
THEOREM RowsInvariance == Spec => []RowsInv
<1>1. ExecInv /\ RowsInv /\ [Next]_vars => RowsInv' BY NextRows
<1> QED BY InitRows, <1>1, ExecutorInvariance, PTL DEF Spec

\* A turn that ends with a result has written the user's input first and one closing
\* row, last; if it completed, every tool that ran in it has its call and its result
\* there, once and in order, however many batches, repeats and summaries came between.
THEOREM TurnRecorded == Spec => []CompletedTurnRecorded
<1>1. RowsInv => CompletedTurnRecorded
  <2> SUFFICES ASSUME RowsInv, pc = "done", ~result.abort PROVE CompletedTurnRecorded
    BY DEF CompletedTurnRecorded
  <2>1. rows[1].kind = "user_input" BY DEF RowsInv, RowsStarted
  <2>2. EndWritten BY DEF RowsInv, RowsWritten
  <2> QED BY <2>1, <2>2 DEF CompletedTurnRecorded, EndWritten, Whole
<1> QED BY <1>1, RowsInvariance, PTL

\* A cancelled turn ends with the fact of its cancellation, keeps no denial, and its
\* result fails the turn only.
THEOREM CancelRecorded == Spec => []CancelledTurnShape
<1>1. RowsInv => CancelledTurnShape
  <2> SUFFICES ASSUME RowsInv, pc = "done", result.status = "cancelled"
               PROVE  CancelledTurnShape
    BY DEF CancelledTurnShape
  <2>1. result.scope = "turn" BY DEF RowsInv, ResultShape
  <2>2. EndWritten BY DEF RowsInv, RowsWritten
  <2> QED BY <2>1, <2>2 DEF CancelledTurnShape, EndWritten
<1> QED BY <1>1, RowsInvariance, PTL

-----------------------------------------------------------------------------
(* The rows of a finished turn as a cut. *)

\* Before its tools a turn has a group for its input and at most one for a summary.
KindGroups(log) == \A i \in DOMAIN log : log[i].group = log[i].kind
Started(log) ==
    /\ CutValid(log)
    /\ \A g : g \notin {"user_input", "context_summary"} => NewGroup(log, Turn, g)
    /\ KindGroups(log)
GroupsInv ==
    /\ pc = "begin" => rows = <<>>
    /\ pc \in (Open \ {"begin"}) \cup {"scope", "write_tools"} => Started(rows)
    /\ pc = "summarize" => Evictable
    /\ pc = "write_end" /\ AdaptedSingly(loop) =>
          CutValid(rows) /\ \A kind \in Closing : NewGroup(rows, Turn, kind)
    /\ pc = "done" /\ AdaptedSingly(loop) => CutValid(rows)

\* One more row without a call.
Single(log, n, kind, log2) ==
    /\ CutValid(log2)
    /\ \A h : h # kind /\ NewGroup(log, n, h) => NewGroup(log2, n, h)
    /\ KindGroups(log) => KindGroups(log2)
LEMMA SingleAdded ==
  ASSUME NEW log \in Seq(RowSet), CutValid(log), NEW n \in Nat, NEW kind \in Kinds,
         NEW id \in CallId, kind \notin {"assistant_tool_call", "tool_result"},
         NewGroup(log, n, kind),
         NEW log2, log2 = log \o Grouped(<<Row(n, kind, id, 0, "none")>>)
  PROVE  Single(log, n, kind, log2)
<1>1. PICK x : x = Grouped(<<Row(n, kind, id, 0, "none")>>) OBVIOUS
<1>2. x \in Seq(RowSet) /\ Len(x) = 1 /\ CutValid(x) /\ OfGroup(x, n, kind)
  BY <1>1, OneRowCut
<1>3. DOMAIN x = {1} /\ x[1].kind = kind BY <1>1, OneRow
<1>4. log2 = log \o x BY <1>1
<1>5. /\ CutValid(log \o x)
      /\ \A h : h # kind /\ NewGroup(log, n, h) => NewGroup(log \o x, n, h)
  BY <1>2, GroupAdded
<1>6. Joined(log, x, log2, Len(log)) BY <1>2, <1>4, ConcatPlaces
<1>7. ASSUME KindGroups(log), NEW i \in DOMAIN log2 PROVE log2[i].group = log2[i].kind
  <2>1. CASE i \in DOMAIN log BY <1>6, <1>7, <2>1 DEF Joined, KindGroups
  <2>2. CASE i \notin DOMAIN log
    <3>1. PICK j \in DOMAIN x : i = Len(log) + j BY <1>6, <1>7, <2>2 DEF Joined
    <3>2. log2[i] = x[j] /\ j = 1 BY <1>3, <1>6, <3>1 DEF Joined
    <3> QED BY <1>2, <1>3, <3>2 DEF OfGroup
  <2> QED BY <2>1, <2>2
<1>8. KindGroups(log) => KindGroups(log2) BY <1>7 DEF KindGroups
<1> QED BY <1>4, <1>5, <1>8 DEF Single

LEMMA BeginGroups == ASSUME Begin, GroupsInv PROVE GroupsInv'
<1>1. PICK n \in Nat : n = Turn BY DEF Turn
<1>2. PICK empty : empty = <<>> OBVIOUS
<1>3. empty \in Seq(RowSet) /\ DOMAIN empty = {} BY <1>2, EmptySeq, LenProperties
<1>4. PICK x : x = Grouped(<<Row(n, "user_input", NoCall, 0, "none")>>) OBVIOUS
<1>5. rows' = x /\ pc' = "context" BY <1>1, <1>4 DEF Begin, UserRows
<1>6. "user_input" \in Kinds /\ NoCall \in CallId BY DEF Kinds, NoCall, CallId
<1>7. x \in Seq(RowSet) BY <1>4, <1>6, OneRow
<1>8. empty \o x = x BY <1>2, <1>7, ConcatEmptySeq
<1>9. CutValid(empty)
  <2>1. Paired(empty) BY <1>3 DEF Paired
  <2> QED BY <1>3, <2>1 DEF CutValid
<1>10. KindGroups(empty) /\ \A g : NewGroup(empty, n, g) BY <1>3 DEF NewGroup, KindGroups
<1>11. PICK kind \in Kinds : kind = "user_input" BY <1>6
<1>12. /\ kind \notin {"assistant_tool_call", "tool_result"}
       /\ x = empty \o Grouped(<<Row(n, kind, NoCall, 0, "none")>>)
  BY <1>4, <1>8, <1>11
<1>13. Single(empty, n, kind, x)
  BY <1>3, <1>6, <1>9, <1>10, <1>12, SingleAdded
<1>14. Started(x) BY <1>1, <1>10, <1>11, <1>13 DEF Started, Single
<1> QED BY <1>5, <1>14 DEF GroupsInv, Open, Started, Turn

LEMMA SummarizeGroups == ASSUME RowsInv, GroupsInv, Summarize PROVE GroupsInv'
<1>1. pc = "summarize" BY DEF Summarize
<1>2. Started(rows) /\ Evictable /\ rows \in Seq(RowSet)
  BY <1>1 DEF GroupsInv, Open, RowsInv, RowsStarted
<1>3. CASE AcceptSummary
  <2>1. /\ rows' = rows \o Grouped(<<Row(Turn, "context_summary", NoCall, 0, "none")>>)
        /\ pc' \in {"model", "window"}
    BY <1>3 DEF AcceptSummary, SummaryRows
  <2>2. "context_summary" \in Kinds /\ NoCall \in CallId BY DEF Kinds, NoCall, CallId
  <2>3. PICK kind \in Kinds : kind = "context_summary" BY <2>2
  <2>4. PICK n \in Nat : n = Turn BY DEF Turn
  <2>5. PICK log : log = rows' OBVIOUS
  <2>6. /\ NewGroup(rows, n, kind) /\ kind \notin {"assistant_tool_call", "tool_result"}
        /\ log = rows \o Grouped(<<Row(n, kind, NoCall, 0, "none")>>)
    BY <1>2, <2>1, <2>3, <2>4, <2>5 DEF Started, KindGroups, Evictable, NewGroup
  <2>7. CutValid(rows) /\ KindGroups(rows) BY <1>2 DEF Started
  <2>8. Single(rows, n, kind, log)
    BY <1>2, <2>2, <2>6, <2>7, SingleAdded
  <2>9. Started(log) BY <1>2, <2>3, <2>4, <2>7, <2>8 DEF Started, Single
  <2> QED BY <2>1, <2>5, <2>9 DEF GroupsInv, Open, Started, Turn
<1>4. CASE RetrySummary
  BY <1>1, <1>2, <1>4 DEF RetrySummary, GroupsInv, Open, Evictable
<1>5. CASE CompressionFailed
  BY <1>2, <1>5 DEF CompressionFailed, GroupsInv, Open
<1> QED BY <1>3, <1>4, <1>5 DEF Summarize

\* Steps that write nothing and leave the turn before its tools' rows.
LEMMA QuietGroups ==
  ASSUME GroupsInv, rows' = rows, pc \in Open \cup {"scope", "write_tools"}, pc # "begin",
         pc' \in Open \cup {"scope", "write_tools", "raised", "done"}, pc' # "begin",
         pc' = "summarize" => Evictable
  PROVE  GroupsInv'
<1>1. Started(rows) BY DEF GroupsInv
<1>2. Evictable' <=> Evictable BY DEF Evictable
<1> QED BY <1>1, <1>2 DEF GroupsInv, Open, Started

LEMMA WriteToolsGroups == ASSUME ExecInv, RowsInv, GroupsInv, WriteTools PROVE GroupsInv'
<1>1. PICK x : x = ToolLoopRows(Turn, loop) OBVIOUS
<1>2. pc = "write_tools" /\ pc' = "write_end" /\ rows' = rows \o x /\ loop' = loop
  BY <1>1 DEF WriteTools
<1>3. Started(rows) /\ rows \in Seq(RowSet) /\ loop \in Seq(BatchSet) /\ Turn \in Nat
  BY <1>2 DEF GroupsInv, RowsInv, RowsStarted, ExecInv, Typed, Turn
<1>4. ASSUME AdaptedSingly(loop)
      PROVE  CutValid(rows') /\ \A kind \in Closing : NewGroup(rows', Turn, kind)
  <2>1. CutValid(x) /\ OfGroup(x, Turn, "tool-loop") BY <1>1, <1>3, <1>4, LoopCut
  <2>2. x \in Seq(RowSet)
    <3>1. AllWithout(loop, {}) /\ \A i \in DOMAIN loop : loop[i].id \in CallId
      <4>1. \A i \in DOMAIN loop : loop[i] \in BatchSet BY <1>3, ElementOfSeq, LenProperties
      <4> QED BY <4>1 DEF AllWithout, Without, BatchSet
    <3>2. x \in Seq(Allowed({}, Turn, CallId)) BY <1>1, <1>3, <3>1, ToolLoopAllowed
    <3> QED BY <3>2, AllowedRows
  <2>3. NewGroup(rows, Turn, "tool-loop") BY <1>3 DEF Started
  <2>4. /\ CutValid(rows \o x)
        /\ \A h : h # "tool-loop" /\ NewGroup(rows, Turn, h) => NewGroup(rows \o x, Turn, h)
    BY <1>3, <2>1, <2>2, <2>3, GroupAdded DEF Started
  <2>5. \A kind \in Closing : NewGroup(rows, Turn, kind) /\ kind # "tool-loop"
    BY <1>3 DEF Started, Closing, Facts
  <2> QED BY <1>2, <2>4, <2>5
<1> QED BY <1>2, <1>4 DEF GroupsInv, Open

LEMMA WriteEndGroups == ASSUME RowsInv, GroupsInv, WriteEnd PROVE GroupsInv'
<1>1. pc = "write_end" /\ pc' = "done" /\ loop' = loop BY DEF WriteEnd
<1>2. PICK kind \in Closing, id \in CallId :
         rows' = rows \o Grouped(<<Row(Turn, kind, id, 0, "none")>>)
  <2>1. NoCall \in CallId /\ Final(Turn) \in CallId BY DEF NoCall, Final, CallId, Turn
  <2>2. {"assistant_output", "cancellation_fact", "failure_fact"} \subseteq Closing
    BY DEF Closing, Facts
  <2>3. \/ rows' = rows \o Grouped(<<Row(Turn, "assistant_output", Final(Turn), 0, "none")>>)
        \/ rows' = rows \o Grouped(<<Row(Turn, "cancellation_fact", NoCall, 0, "none")>>)
        \/ rows' = rows \o Grouped(<<Row(Turn, "failure_fact", NoCall, 0, "none")>>)
    BY DEF WriteEnd, FinalRows, FactRows
  <2> QED BY <2>1, <2>2, <2>3
<1>3. kind \in Kinds /\ kind \notin {"assistant_tool_call", "tool_result"}
  BY DEF Closing, Facts, Kinds
<1>4. ASSUME AdaptedSingly(loop) PROVE CutValid(rows')
  <2>1. CutValid(rows) /\ NewGroup(rows, Turn, kind) BY <1>1, <1>4 DEF GroupsInv
  <2>2. rows \in Seq(RowSet) BY DEF RowsInv, RowsStarted
  <2>3. PICK log : log = rows' OBVIOUS
  <2>4. PICK n \in Nat : n = Turn BY DEF Turn
  <2>5. NewGroup(rows, n, kind) /\ log = rows \o Grouped(<<Row(n, kind, id, 0, "none")>>)
    BY <1>2, <2>1, <2>3, <2>4
  <2>6. CutValid(log) BY <1>3, <2>1, <2>2, <2>5, SingleAdded DEF Single
  <2> QED BY <2>3, <2>6
<1> QED BY <1>1, <1>4 DEF GroupsInv, Open

LEMMA GroupsStep == ExecInv /\ RowsInv /\ GroupsInv /\ [Next]_vars => GroupsInv'
<1> SUFFICES ASSUME ExecInv, RowsInv, GroupsInv, [Next]_vars PROVE GroupsInv' OBVIOUS
<1>1. CASE Begin BY <1>1, BeginGroups
<1>2. CASE PrepareContext
  <2>1. /\ pc = "context" /\ rows' = rows
        /\ pc' \in {"model", "window", "retry", "write_tools", "summarize"}
        /\ pc' = "summarize" => Evictable
    BY <1>2 DEF PrepareContext, ContextReady, CompressionFailed
  <2> QED BY <2>1, QuietGroups DEF Open
<1>3. CASE Summarize BY <1>3, SummarizeGroups
<1>4. CASE ContextRaises \/ CheckWindow
  <2>1. /\ pc \in {"context", "summarize", "window"} /\ rows' = rows
        /\ pc' \in {"retry", "raised", "invoke", "write_tools"}
    BY <1>4 DEF ContextRaises, CheckWindow, Raise
  <2> QED BY <2>1, QuietGroups DEF Open
<1>5. CASE Invoke \/ IterationLimit \/ Fallback \/ ModelCall \/ ProviderOpen
  <2>1. /\ pc \in {"invoke", "model"} /\ rows' = rows
        /\ pc' \in {"model", "retry", "tool", "raised"}
    BY <1>5 DEF Invoke, IterationLimit, Fallback, ModelCall, ProviderOpen, Return, Raise
  <2> QED BY <2>1, QuietGroups DEF Open
<1>6. CASE Tool \/ ToolRaises \/ DenialAborts \/ AcceptBatch
  <2>1. /\ pc \in {"tool", "batch"} /\ rows' = rows
        /\ pc' \in {"tool", "batch", "retry", "context"}
    BY <1>6 DEF Tool, ToolRaises, DenialAborts, AcceptBatch, Return
  <2> QED BY <2>1, QuietGroups DEF Open
<1>7. CASE Repeat \/ Continue \/ Settle \/ Scope
  <2>1. /\ pc \in {"retry", "scope"} /\ rows' = rows
        /\ pc' \in {"invoke", "done", "scope", "write_tools"}
    BY <1>7 DEF Repeat, Continue, Settle, Scope
  <2> QED BY <2>1, QuietGroups DEF Open
<1>8. CASE WriteTools BY <1>8, WriteToolsGroups
<1>9. CASE WriteEnd BY <1>9, WriteEndGroups
<1>10. CASE Cancel
  BY <1>10 DEF Cancel, GroupsInv, Evictable, Started, KindGroups
<1>11. CASE Interrupt BY <1>11 DEF Interrupt, Raise, GroupsInv, Open
<1>12. CASE UNCHANGED vars BY <1>12 DEF vars, GroupsInv, Evictable, Started, KindGroups
<1> QED
  BY <1>1, <1>2, <1>3, <1>4, <1>5, <1>6, <1>7, <1>8, <1>9, <1>10, <1>11, <1>12 DEF Next, Step

\* The rows of a finished turn make a cut that a terminal checkpoint accepts, unless the
\* batch of a denial, which keeps the adapter's one call row, had several tools
\* (_approval_denied_abort_result): nothing else in a turn breaks the pairing or a group.
THEOREM CutBreaksByDenial == Spec => [](AdaptedSingly(loop) => CutStaysValid)
<1>1. Init => GroupsInv BY DEF Init, GroupsInv, Open
<1>2. ExecInv /\ RowsInv /\ GroupsInv /\ [Next]_vars => GroupsInv' BY GroupsStep
<1>3. GroupsInv => (AdaptedSingly(loop) => CutStaysValid) BY DEF GroupsInv, CutStaysValid
<1> QED BY <1>1, <1>2, <1>3, ExecutorInvariance, RowsInvariance, PTL DEF Spec
=============================================================================
