----------------------------- MODULE ProviderCall -----------------------------
(***************************************************************************)
(* The boundary of one provider call (runtime/provider_execution.py): a    *)
(* caller that waits on a queue, a worker thread that runs the provider    *)
(* and fills it, and the interrupt that cancels every registered handle.   *)
(* A turn makes several calls, one after another.  In the prompt_toolkit   *)
(* view the interrupt comes from the UI thread; in the plain view it is a  *)
(* KeyboardInterrupt in the turn's own thread, which then also collects    *)
(* the boundaries.                                                         *)
(***************************************************************************)
EXTENDS Integers, Sequences, FiniteSets

CONSTANTS MaxCalls,   \* provider calls of the turn
          MaxChunks,  \* chunks a streaming provider sends
          FirstKinds, \* kinds of the turn's first call, from AllKinds
          LaterKinds, \* and of the calls after it
          Modes       \* subset of {"tui", "plain"}

AllKinds == {"task", "stream", "async_task", "async_stream", "vision"}

ASSUME ProviderAssumption ==
    /\ MaxCalls \in Nat /\ MaxChunks \in Nat
    /\ FirstKinds \subseteq AllKinds /\ LaterKinds \subseteq AllKinds
    /\ Modes \subseteq {"tui", "plain"}

Calls == 1 .. MaxCalls
Kinds(c) == IF c = 1 THEN FirstKinds ELSE LaterKinds
Streams == {"stream", "async_stream"}
Async == {"async_task", "async_stream", "vision"}

VARIABLES
    mode,      \* the view that runs the turn
    turn,      \* the call the turn waits for, and how the turn ended
    call,      \* the caller's side: ProviderCallTask.result, stream_provider_call
    handle,    \* ProviderCancellationHandle
    worker,    \* the provider thread
    results,   \* result_queue of each call
    token,     \* the turn's cancellation token is set
    intr       \* the interrupt: cancel_running_turn

vars == <<mode, turn, call, handle, worker, results, token, intr>>

Outcomes == {"none", "returned", "cancelled", "timeout", "error", "not_closed"}
Terminal == {"ok", "error", "cancelled"}
NoCall == [pc |-> "unborn", kind |-> "task", why |-> "none", result |-> "none"]

Init ==
    /\ mode \in Modes
    /\ turn = [at |-> 0, end |-> "none"]
    /\ call = [c \in Calls |-> NoCall]
    /\ handle = [c \in Calls |-> [registered |-> FALSE, flag |-> FALSE,
                                  requester |-> FALSE, collector |-> FALSE,
                                  boundary |-> "open"]]
    /\ worker = [c \in Calls |-> [pc |-> "none", cancel |-> FALSE, chunks |-> 0]]
    /\ results = [c \in Calls |-> <<>>]
    /\ token = FALSE
    /\ intr = [pc |-> "none", todo |-> {}, now |-> 0]

\* handle.cancel_requested or the token; view_image is given no token, since
\* ToolUseContext has no such field.
CancelObserved(c) ==
    \/ handle[c].flag
    \/ token /\ call[c].kind # "vision"

Goto(c, pc) == call' = [call EXCEPT ![c].pc = pc]
Finish(c, result) ==
    call' = [call EXCEPT ![c] = [@ EXCEPT !.pc = "done", !.result = result, !.why = "none"]]

-----------------------------------------------------------------------------
(* The worker thread. *)

Put(c, item) == results' = [results EXCEPT ![c] = Append(@, item)]

\* The thread has created its loop and its task (async) and enters the call.
WorkerReady(c) ==
    /\ worker[c].pc = "boot"
    /\ worker' = [worker EXCEPT ![c].pc = "run"]
    /\ UNCHANGED <<mode, turn, call, handle, results, token, intr>>

\* A chunk arrived: it is dropped and the stream closed when a cancel is seen.
WorkerChunk(c) ==
    /\ worker[c].pc = "run" /\ call[c].kind \in Streams
    /\ worker[c].chunks < MaxChunks
    /\ IF CancelObserved(c)
         THEN /\ Put(c, "cancelled")
              /\ worker' = [worker EXCEPT ![c].pc = "finished"]
         ELSE /\ Put(c, "chunk")
              /\ worker' = [worker EXCEPT ![c] = [@ EXCEPT !.pc = "sent",
                                                          !.chunks = worker[c].chunks + 1]]
    /\ UNCHANGED <<mode, turn, call, handle, token, intr>>

\* The second look after the chunk was queued.
WorkerSent(c) ==
    /\ worker[c].pc = "sent"
    /\ IF CancelObserved(c)
         THEN /\ Put(c, "cancelled")
              /\ worker' = [worker EXCEPT ![c].pc = "finished"]
         ELSE /\ worker' = [worker EXCEPT ![c].pc = "run"]
              /\ UNCHANGED results
    /\ UNCHANGED <<mode, turn, call, handle, token, intr>>

\* The provider answers, ends its stream or raises.
WorkerAnswer(c, item) ==
    /\ worker[c].pc = "run" /\ item \in {"ok", "error"}
    /\ Put(c, item)
    /\ worker' = [worker EXCEPT ![c].pc = "finished"]
    /\ UNCHANGED <<mode, turn, call, handle, token, intr>>

\* The event loop delivers task.cancel to the coroutine.
WorkerCancelled(c) ==
    /\ worker[c].pc = "run" /\ worker[c].cancel
    /\ Put(c, "cancelled")
    /\ worker' = [worker EXCEPT ![c].pc = "finished"]
    /\ UNCHANGED <<mode, turn, call, handle, token, intr>>

\* loop.close; a thread without a loop has nothing left to do.
WorkerClose(c) ==
    /\ worker[c].pc = "finished" /\ call[c].kind \in Async
    /\ worker' = [worker EXCEPT ![c].pc = "closed"]
    /\ UNCHANGED <<mode, turn, call, handle, results, token, intr>>

Worker(c) ==
    \/ WorkerReady(c) \/ WorkerChunk(c) \/ WorkerSent(c)
    \/ WorkerAnswer(c, "ok") \/ WorkerAnswer(c, "error")
    \/ WorkerCancelled(c) \/ WorkerClose(c)

-----------------------------------------------------------------------------
(* _request_task_cancel looks at loop and task, after waiting at most 0.1 s *)
(* for them to exist, and posts the cancel to the loop in a second step:   *)
(* the loop may close in between.                                          *)

\* The task exists and is not done.
LooksAlive(c) == worker[c].pc \in {"run", "sent"}

Post(c) == worker' = [worker EXCEPT ![c].cancel = TRUE]

-----------------------------------------------------------------------------
(* The caller of a provider call. *)

\* The turn makes its next call: the handle is registered before the thread
\* exists; a task's handle can already be asked and collected.
Begin(c, kind) ==
    /\ turn.end = "none" /\ turn.at = c - 1 /\ kind \in Kinds(c)
    /\ intr.pc = "none" \/ mode = "tui"
    /\ turn' = [turn EXCEPT !.at = c]
    /\ call' = [call EXCEPT ![c] = [@ EXCEPT !.pc = "spawn", !.kind = kind]]
    /\ handle' = [handle EXCEPT ![c] =
                  [@ EXCEPT !.registered = TRUE, !.requester = kind \in Async \ Streams,
                            !.collector = kind \notin Streams]]
    /\ UNCHANGED <<mode, worker, results, token, intr>>

Spawn(c) ==
    /\ call[c].pc = "spawn"
    /\ worker' = [worker EXCEPT ![c].pc = IF call[c].kind \in Async THEN "boot" ELSE "run"]
    /\ Goto(c, IF call[c].kind \in Streams THEN "arm" ELSE "check")
    /\ UNCHANGED <<mode, turn, handle, results, token, intr>>

\* A stream installs requester and collector once its thread runs.
Arm(c) ==
    /\ call[c].pc = "arm"
    /\ handle' = [handle EXCEPT ![c] =
                  [@ EXCEPT !.requester = call[c].kind \in Async, !.collector = TRUE]]
    /\ Goto(c, "check")
    /\ UNCHANGED <<mode, turn, worker, results, token, intr>>

\* handle.cancel() and the collector, whose first step asks the task as well.
StartCollect(c, why) ==
    /\ call' = [call EXCEPT ![c] =
                  [@ EXCEPT !.why = why,
                            !.pc = IF call[c].kind \in Async /\ LooksAlive(c)
                                     THEN "post" ELSE "drain"]]
    /\ handle' = [handle EXCEPT ![c].flag = why = "cancelled" \/ call[c].kind \in Async \/ @]

\* The look before the wait: the only one a task takes while it has no result.
CheckCancel(c) ==
    /\ call[c].pc = "check"
    /\ IF CancelObserved(c) THEN StartCollect(c, "cancelled")
                            ELSE Goto(c, "wait") /\ UNCHANGED handle
    /\ UNCHANGED <<mode, turn, worker, results, token, intr>>

\* Mutant: the stream waits for the next item until its timeout.
PollNever(c) == FALSE /\ UNCHANGED vars

\* A stream looks at the cancel flag again every 10 ms of an empty queue.
Poll(c) ==
    /\ call[c].pc = "wait" /\ results[c] = <<>> /\ call[c].kind \in Streams
    /\ CancelObserved(c)
    /\ StartCollect(c, "cancelled")
    /\ UNCHANGED <<mode, turn, worker, results, token, intr>>

\* A chunk is yielded unless a cancel is seen by then.
TakeChunk(c) ==
    /\ call[c].pc = "wait" /\ results[c] # <<>> /\ Head(results[c]) = "chunk"
    /\ results' = [results EXCEPT ![c] = Tail(@)]
    /\ IF CancelObserved(c) THEN StartCollect(c, "cancelled")
                            ELSE Goto(c, "check") /\ UNCHANGED handle
    /\ UNCHANGED <<mode, turn, worker, token, intr>>

\* Mutant: the task does not look at the cancel flag again.
VerdictUnchecked(c, item) ==
    IF item = "cancelled" THEN "cancelled" ELSE IF item = "ok" THEN "returned" ELSE "error"

\* Mutant: the status is passed on instead of being unwrapped.
VerdictRaw(c, item) == item

\* What the caller makes of the terminal item.
Verdict(c, item) ==
    IF item = "cancelled" THEN "cancelled"
    ELSE IF call[c].kind \notin Streams /\ CancelObserved(c) THEN "cancelled"
    ELSE IF item = "ok" THEN "returned" ELSE "error"

TakeResult(c) ==
    /\ call[c].pc = "wait" /\ results[c] # <<>> /\ Head(results[c]) \in Terminal
    /\ results' = [results EXCEPT ![c] = Tail(@)]
    /\ handle' = [handle EXCEPT ![c].boundary = "closed"]
    /\ Finish(c, Verdict(c, Head(results[c])))
    /\ UNCHANGED <<mode, turn, worker, token, intr>>

\* The call's own timeout (execution timeouts are positive).
CallTimeout(c) ==
    /\ call[c].pc = "wait" /\ results[c] = <<>>
    /\ StartCollect(c, "timeout")
    /\ UNCHANGED <<mode, turn, worker, results, token, intr>>

\* call_soon_threadsafe raises RuntimeError on a closed loop.
PostCancel(c) ==
    /\ call[c].pc = "post"
    /\ IF worker[c].pc = "closed"
         THEN Finish(c, "error") /\ UNCHANGED worker
         ELSE Post(c) /\ Goto(c, "drain")
    /\ UNCHANGED <<mode, turn, handle, results, token, intr>>

\* Mutant: the first item, a chunk too, ends the collection.
DrainOne(c) ==
    /\ call[c].pc = "drain" /\ results[c] # <<>>
    /\ results' = [results EXCEPT ![c] = Tail(@)]
    /\ handle' = [handle EXCEPT ![c].boundary = "closed"]
    /\ Finish(c, call[c].why)
    /\ UNCHANGED <<mode, turn, worker, token, intr>>

\* The collector takes items up to the terminal one; late chunks are dropped.
Drain(c) ==
    /\ call[c].pc = "drain" /\ results[c] # <<>>
    /\ results' = [results EXCEPT ![c] = Tail(@)]
    /\ IF Head(results[c]) = "chunk"
         THEN UNCHANGED <<call, handle>>
         ELSE /\ handle' = [handle EXCEPT ![c].boundary = "closed"]
              /\ Finish(c, call[c].why)
    /\ UNCHANGED <<mode, turn, worker, token, intr>>

\* cancellation_timeout_seconds: a stream tests it before it reads the queue.
GivesUp(c) == results[c] = <<>> \/ call[c].kind \in Streams

CleanupTimeout(c) ==
    /\ call[c].pc = "drain" /\ GivesUp(c)
    /\ handle' = [handle EXCEPT ![c].boundary = "not_closed"]
    /\ Finish(c, "not_closed")
    /\ UNCHANGED <<mode, turn, worker, results, token, intr>>

Caller(c) ==
    \/ Spawn(c) \/ Arm(c) \/ CheckCancel(c) \/ Poll(c)
    \/ TakeChunk(c) \/ TakeResult(c) \/ PostCancel(c)
    \/ Drain(c) \/ CleanupTimeout(c)

-----------------------------------------------------------------------------
(* The turn around the calls. *)

Answered == turn.at \in Calls /\ call[turn.at].result # "none"

\* A boundary that did not close aborts the turn; otherwise a model call's result
\* is the turn's.  After an answer or an image the turn may still fail: a call too many,
\* or a denied tool, which a set token turns into a cancellation of the turn.
EndTurn(how) ==
    /\ turn.end = "none" /\ Answered
    /\ intr.pc = "none" \/ mode = "tui"
    /\ LET r == call[turn.at].result
           vision == call[turn.at].kind = "vision"
       IN \/ r = "not_closed" /\ how = "aborted"
          \/ r = "returned" /\ ~vision /\ how = "completed"
          \/ r = "cancelled" /\ ~vision /\ how = "cancelled"
          \/ r \in {"timeout", "error"} /\ ~vision /\ how = "failed"
          \/ /\ r = "returned" \/ (vision /\ r # "not_closed")
             /\ how = "failed" \/ (token /\ how = "cancelled")
    /\ turn' = [turn EXCEPT !.end = how]
    /\ UNCHANGED <<mode, call, handle, worker, results, token, intr>>

\* A tool round or a retry: only after an answer that does not end the turn.
NextCall(c, kind) ==
    /\ c > 1 => \/ call[c - 1].result \in {"returned", "timeout", "error"}
                \/ call[c - 1].result = "cancelled" /\ call[c - 1].kind = "vision"
    /\ Begin(c, kind)

\* The broker's own timeout on the tool thread that runs view_image: the turn
\* goes on, the thread and its provider call are left to themselves.
AbandonVision(c, kind) ==
    /\ c > 1 /\ turn.at = c - 1
    /\ call[c - 1].kind = "vision" /\ call[c - 1].result = "none"
    /\ Begin(c, kind)

-----------------------------------------------------------------------------
(* cancel_running_turn. *)

Registered == {c \in Calls : handle[c].registered}

ModelCallInFlight ==
    turn.at # 0 /\ call[turn.at].kind # "vision" /\ call[turn.at].result = "none"

\* In the plain view the KeyboardInterrupt unwinds the caller of a model call;
\* the tool thread of view_image is another thread and goes on.
Interrupt ==
    /\ intr.pc = "none" /\ turn.end = "none"
    /\ intr' = [intr EXCEPT !.pc = "token", !.todo = Registered]
    /\ IF mode = "plain" /\ ModelCallInFlight
         THEN Goto(turn.at, "unwound")
         ELSE UNCHANGED call
    /\ UNCHANGED <<mode, turn, handle, worker, results, token>>

SetToken ==
    /\ intr.pc = "token"
    /\ token' = TRUE
    /\ intr' = [intr EXCEPT !.pc = "cancel"]
    /\ UNCHANGED <<mode, turn, call, handle, worker, results>>

First(c, S) == c \in S /\ \A d \in S : c <= d

\* handle.cancel() of the next handle, in the order of registration.
CancelHandle ==
    /\ intr.pc = "cancel"
    /\ \E c \in Calls :
          /\ First(c, intr.todo)
          /\ handle' = [handle EXCEPT ![c].flag = TRUE]
          /\ intr' = [intr EXCEPT !.now = c, !.todo = @ \ {c},
                                  !.pc = IF handle[c].requester /\ LooksAlive(c)
                                            THEN "post" ELSE "cancel"]
    /\ UNCHANGED <<mode, turn, call, worker, results, token>>

IntrPost ==
    /\ intr.pc \in {"post", "collect_post"}
    /\ IF worker[intr.now].pc = "closed"
         THEN intr' = [intr EXCEPT !.pc = "raised"] /\ UNCHANGED worker
         ELSE /\ Post(intr.now)
              /\ intr' = [intr EXCEPT !.pc = IF @ = "post" THEN "cancel" ELSE "drain"]
    /\ UNCHANGED <<mode, turn, call, handle, results, token>>

\* Mutant: collect_provider_boundaries is ignored, the UI thread collects too.
CancelDoneCollects ==
    /\ intr.pc = "cancel" /\ intr.todo = {}
    /\ intr' = [intr EXCEPT !.pc = "collect",
                            !.todo = {c \in Registered : handle[c].collector}]
    /\ UNCHANGED <<mode, turn, call, handle, worker, results, token>>

\* Every handle has been cancelled; the plain view now collects all of them.
CancelDone ==
    /\ intr.pc = "cancel" /\ intr.todo = {}
    /\ intr' = IF mode = "tui" THEN [intr EXCEPT !.pc = "done"]
               ELSE [intr EXCEPT !.pc = "collect",
                                 !.todo = {c \in Registered : handle[c].collector}]
    /\ UNCHANGED <<mode, turn, call, handle, worker, results, token>>

CollectHandle ==
    /\ intr.pc = "collect"
    /\ \/ intr.todo = {} /\ intr' = [intr EXCEPT !.pc = "done"]
       \/ \E c \in Calls :
             /\ First(c, intr.todo)
             /\ intr' = [intr EXCEPT !.now = c, !.todo = @ \ {c},
                           !.pc = IF call[c].kind \in Async /\ LooksAlive(c)
                                    THEN "collect_post" ELSE "drain"]
    /\ UNCHANGED <<mode, turn, call, handle, worker, results, token>>

IntrDrain ==
    /\ intr.pc = "drain" /\ results[intr.now] # <<>>
    /\ results' = [results EXCEPT ![intr.now] = Tail(@)]
    /\ IF Head(results[intr.now]) = "chunk"
         THEN UNCHANGED <<handle, intr>>
         ELSE /\ handle' = [handle EXCEPT ![intr.now].boundary = "closed"]
              /\ intr' = [intr EXCEPT !.pc = "collect"]
    /\ UNCHANGED <<mode, turn, call, worker, token>>

IntrTimeout ==
    /\ intr.pc = "drain" /\ GivesUp(intr.now)
    /\ handle' = [handle EXCEPT ![intr.now].boundary = "not_closed"]
    /\ intr' = [intr EXCEPT !.pc = "not_closed"]
    /\ UNCHANGED <<mode, turn, call, worker, results, token>>

\* Mutant: a boundary that did not close is reported as an ordinary cancel.
UnwindAnyway ==
    /\ mode = "plain" /\ turn.end = "none"
    /\ intr.pc \in {"done", "not_closed", "raised"}
    /\ turn' = [turn EXCEPT !.end = "cancelled"]
    /\ UNCHANGED <<mode, call, handle, worker, results, token, intr>>

\* run_turn of the plain view: the cancelled result, or the exception.
UnwindTurn ==
    /\ mode = "plain" /\ turn.end = "none"
    /\ intr.pc \in {"done", "not_closed", "raised"}
    /\ turn' = [turn EXCEPT !.end = IF intr.pc = "done" THEN "cancelled" ELSE "aborted"]
    /\ UNCHANGED <<mode, call, handle, worker, results, token, intr>>

Interrupter ==
    \/ SetToken \/ CancelHandle \/ IntrPost \/ CancelDone
    \/ CollectHandle \/ IntrDrain \/ IntrTimeout \/ UnwindTurn

Ended == turn.end # "none" /\ UNCHANGED vars

TurnStep ==
    \/ \E c \in Calls, k \in AllKinds : NextCall(c, k) \/ AbandonVision(c, k)
    \/ \E how \in {"aborted", "cancelled", "completed", "failed"} : EndTurn(how)

Next ==
    \/ \E c \in Calls : Worker(c) \/ Caller(c) \/ CallTimeout(c)
    \/ TurnStep \/ Interrupt \/ Interrupter \/ Ended

Spec == Init /\ [][Next]_vars

\* Threads run and their waits end: the caller polls, a collector reaches the
\* cleanup timeout.  Nothing is promised of the provider's answer, of the call's
\* own timeout (120 s by default, against 10 s of cleanup), or of the user.
FairSpec ==
    /\ Spec
    /\ \A c \in Calls : WF_vars(Caller(c)) /\ WF_vars(WorkerReady(c)) /\ WF_vars(WorkerClose(c))
    /\ WF_vars(Interrupter) /\ WF_vars(TurnStep)

-----------------------------------------------------------------------------
CallAt == {"unborn", "spawn", "arm", "check", "wait", "post", "drain", "done", "unwound"}
CallType == [pc : CallAt, kind : AllKinds, why : {"none", "cancelled", "timeout"}, result : Outcomes]
HandleType == [registered : BOOLEAN, flag : BOOLEAN, requester : BOOLEAN,
               collector : BOOLEAN, boundary : {"open", "closed", "not_closed"}]
WorkerType == [pc : {"none", "boot", "run", "sent", "finished", "closed"},
               cancel : BOOLEAN, chunks : 0 .. MaxChunks]
IntrAt == {"none", "token", "cancel", "post", "collect", "collect_post",
            "drain", "not_closed", "raised", "done"}

TypeOK ==
    /\ mode \in Modes
    /\ turn \in [at : 0 .. MaxCalls,
                 end : {"none", "completed", "cancelled", "failed", "aborted"}]
    /\ call \in [Calls -> CallType]
    /\ handle \in [Calls -> HandleType]
    /\ worker \in [Calls -> WorkerType]
    /\ results \in [Calls -> Seq(Terminal \cup {"chunk"})]
    /\ token \in BOOLEAN
    /\ intr \in [pc : IntrAt, todo : SUBSET Calls, now : 0 .. MaxCalls]

WorkerOver(c) == worker[c].pc \in {"finished", "closed"}

\* A boundary is recorded as closed only when its thread has put its last item
\* and nothing is left in the queue that a later reader could take for a result.
ClosedMeansFinished ==
    \A c \in Calls : handle[c].boundary = "closed" => WorkerOver(c) /\ results[c] = <<>>

\* When the turn hands control back to the prompt, no thread of a model call is
\* still inside the provider (cancellation.md: no hidden background task).  A
\* stream interrupted before it installed its collector and the view_image
\* thread the broker abandoned are outside this promise.
NoHiddenWorker ==
    turn.end \in {"completed", "cancelled", "failed"} =>
        \A c \in 1 .. turn.at :
            call[c].kind # "vision" /\ handle[c].collector => WorkerOver(c)

\* One reader per boundary: in the prompt_toolkit view nobody reports a
\* boundary open that was already collected, or collects it a second time.
BoundaryStaysClosed ==
    [][\A c \in Calls : mode = "tui" /\ handle[c].boundary = "closed"
                           => handle'[c].boundary = "closed"]_vars

\* A task's result is not accepted once the interrupt has set the token or the
\* handle's flag, even if the provider had answered before.
LateResultIgnored ==
    [][\A c \in Calls : call[c].kind \notin Streams /\ call'[c].result = "returned"
                           /\ CancelObserved(c) => call[c].result = "returned"]_vars

\* A stream that is running when the token is set ends within its polls and
\* the cleanup timeout, however long the provider stays silent.
CancelledStreamEnds ==
    \A c \in Calls :
        token /\ call[c].kind \in Streams /\ call[c].pc \notin {"unborn", "unwound"}
            ~> call[c].pc = "done"
=============================================================================
