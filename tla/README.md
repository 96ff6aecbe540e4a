# Verification of debug-agent

debug-agent is a terminal program that lets a language model debug a code base
with tools. This directory holds TLA+ models of the parts of it that are hard to
get right, the TLC runs that check them, and TLAPS proofs about the core.
Paths below are relative to `src/src/debug_agent/`.

## Inventory

| Component | State it keeps | Operations | Hard behaviour |
|---|---|---|---|
| Session ownership (`runtime/orchestrator.py`, `persistence/{sessions,runs}.py`) | `sessions` and `runs` rows, owner facts (pid, host, token) | start, one-shot, resume, stale fail-close, complete, fail, idle cancel, release, rollback | several processes on one database, crash between commits, pid reuse, operator delays |
| Terminal checkpoints (`persistence/checkpoints.py`) | `checkpoints` rows, `latest_checkpoint_id` | build manifest, commit with terminal rows, validate | manifest built outside the transaction that commits it |
| Durable conversation (`persistence/conversation.py`) | `conversation_messages`, projection state, the process's own messages | append closed group, overwrite, align, validate cut, restore | projection and log must stay in step |
| Todo Plan (`persistence/todo_plans.py`) | one versioned plan per run | replace, snapshot, restore | restored by resume from a checkpoint read earlier |
| REPL turn control (`cli/repl_controller.py`, `ReplRuntime`) | control state, pending approval, cancellation token, handles | submit, interrupt, approve, finish turn | UI thread against turn worker |
| Provider boundary (`runtime/provider_execution.py`) | result queue, task, cancellation handle | call, stream, cancel, collect | caller, worker and canceller race; timeouts |
| Turn executor (`runtime/prompt_executor.py`, `retry.py`, `query_control.py`) | query state, retry budgets, context | model call, tool call, retry, continue, compress | retry after partial effects |
| Tool broker and policy (`tools/{broker,native,runtime_control}.py`, `runtime/policy.py`) | approval mode, grants, file cache, path locks | validate, approve, execute, audit | decision order, stale reads, handlers abandoned at a timeout |
| Shell control (`tools/shell.py`) | subprocess handle | run, time out, terminate | cancel before registration |
| Adapter (`adapters/`) | messages of one turn | model and tool loop, fallback, failure classes | what it hands back when a turn breaks off |
| Views, observability, configuration | none shared | translation and rendering | only the keys' gates are modelled |

The ownership protocol calls the stores, each of which commits on its own; the
executor is called by the owner only; the controller and the executor meet
through `ReplRuntime`; resume connects checkpoints, conversation and Todo Plan.

What makes each part correct: a session is never taken from a live owner and
never has two; a terminal session that can be resumed loses no accepted message
and one that cannot is never revived; a cancelled turn ends; a provider call
returns one outcome; a call is retried only while nothing with side effects has run, as
far as its result tells; nothing runs without the approval the mode requires.

## Modules

| Module | Models |
|---|---|
| `SessionOwnership` | every process's start, resume, stale close, end and crash, over the database rows |
| `SessionInvariant` | the inductive invariant of those processes |
| `SessionLifecycle` | the abstract promise: open, extend, close, seal, reopen |
| `SessionRefinement` | the mapping from the first to the third |
| `ReplTurn` | one process: UI thread, turn workers, approval, cancellation, shell processes |
| `ReplTurnInvariant`, `ReplTurnProofs` | its inductive invariant, and the proofs about it |
| `ProviderCall` | the calls of one turn: caller, provider thread, collector, canceller, result queue |
| `ToolPolicy` | the decision of the policy on a call: paths, commands, modes, grants |
| `ToolBroker` | one tool call after another through the broker, with abandoned handlers, files and another program |
| `ToolBrokerInvariant`, `ToolBrokerProofs` | its inductive invariant, and the proofs about it |
| `ConversationRows` | the shape of the accepted rows and what a fact cut demands of them |
| `TurnExecutor` | one turn: context steps, model and tool calls, retry, continuation, rows |
| `ConversationLog` | many turns: log, projection, the process's messages, omission, compression, resume |
| `MCSessionOwnership`, `MCSessionRefinement`, `MCToolBroker` | TLC instances (the other modules are their own instances) |
| `SessionOwnershipProofs`, `SessionRefinementProofs` | TLAPS proofs about the ownership protocol |
| `ConversationRowsProofs` | lemmas about the rows of any number of batches: flattening, pairing, counting |
| `ConversationLogProofs` | the inductive invariant of log, projection and messages, and the proofs about it |
| `ProviderCallProofs`, `TurnExecutorProofs` | inductive invariants of provider calls and of the executor, and the proofs about them |

### SessionOwnership

*State.* `sess`, `run`, `chks` are the tables; a checkpoint id is a position in
`chks`, and `0` is NULL. `log` counts the accepted rows of
`conversation_messages`; `todo` is the plan version. Only the manifest fields
that recovery depends on are kept: conversation cut, plan version, status.
`pc` says which call of which function a process makes next, and `mem` holds
its local variables: what it read, what it validated, the proof it captured, the
manifest it built, and its in-memory conversation. `writer` is the process that
keeps SQLite's write lock across steps.

*Grain.* One action is one transaction or one read. The four commits of a
session's creation, the two commits of a failure without checkpoint, and the
read, prompt and write of a stale close are separate, so that other processes
and `Crash` come between them. A read of one row is atomic, as in SQLite.

*Owner tokens.* The code draws a uuid4 at the claim. A process claims at most
once in its life, so the number of its launch is a faithful token: unique and
never reused. Pids are not: a slot that dies can be launched again, with the
same pid and host.

*Write lock.* `SessionStore.create` opens an implicit transaction; when the
insert fails, nothing rolls it back before the stale workflow ends, so a start
that meets a conflict keeps the lock through its prompt (`CreateConflict`).
Everybody else who writes then waits for SQLite's busy timeout (`LockTimeout`).

*Crash.* Covers a kill, and exceptions that nothing catches. A process that
stops between two commits never undoes the first.

*What is abstracted.* Checksums and payloads of manifests (a rejected manifest
is `RejectFailureManifest`, always possible for a failure); events, traces and
metrics; the resumable state other than conversation and plan. Two plans with
the same version count as equal, which only adds behaviour to `Handoff`, whose
refusal is always possible anyway.

### ReplTurn

*State.* `ctl` holds the controller's `control_state`, `is_executing` and
`exit_code`; `appr` the pending flag, the decision and the view's prompt;
`inputOn` the view's input flag; `token`, `handles` and `cancelled` the token
and shell handles of `ReplRuntime`; `completions` the queue between the
threads; `fact` the last durable row of each turn; `session` whether the session
row is still running. `ui` and `w` say where each thread is. `interrupted` and
the `turn` of a decision are history: only properties read them.

*Grain.* The two threads share these fields almost without locks, so each read
that a branch depends on and each write the other thread can see is an action:
`on_submit` is three, an interrupt six, an approval five, failing closed four.
What is done under `_approval_condition` or `_lock` is one action. The view's
gates and a handler's first test of `control_state` are read together with the
key press; every later read of a handler is a step of its own.

*What is abstracted.* A provider call, with its retries, is a look at the token,
a wait and an outcome; `ProviderCall` shows what is inside. A failed result is either
scoped to the turn or not, freely. Tools other than a shell process succeed,
are refused or ask; texts are an answer, a prompt or `/exit`. Streamed events,
the plain view, `/compress` and the mode cycle are left out.

### ProviderCall

*State.* `call` has, for each call of the turn, where its caller and its provider
thread are, the items in its queue and what the caller was given; `handle` what the
canceller knows of it; `token`, the interrupt's position and the turn's are beside it.
The three kinds of boundary differ as in the code: a task waits for one result, a
stream polls between chunks, an async task is cancelled through its event loop.

*Grain.* Every queue operation and every read of the token is an action. A wait with
a timeout is two alternatives, the item or the timeout; a provider may never
answer.

*What is abstracted.* The content of chunks; time, except that the timeout of a
wait ends it.

### ToolPolicy and ToolBroker

*State.* A call is a tool with paths, a command and a mode; `thread` says where the
broker and its handler threads are; `disk`, `cache`, `lock` and `store` are the files,
the turn's metadata cache, the path locks and the grants. Files have versions
instead of contents, and another program may replace one at any time.

*Grain.* Validation and policy are one action each, as nothing else changes what
they read; a handler's steps (lock, deadline check, guard, write, record) are
actions of their own, because a timed-out handler goes on beside later calls.

*What is abstracted.* Schemas are reduced to the defect they report; a path is a
member of a small tree with denied, trusted and workspace parts; a search, an
image or an artifact to its outcome. A handler may report success with or without a
large output (an artifact), an error, a cancellation, a denial (the skill tools, when
the stored skill data is unusable), or, for an image, a boundary that did not close:
that one leaves `invoke` as an exception, without a terminal event (`BoundaryOpen`).

### TurnExecutor and ConversationRows

*State.* `attempt` is the adapter's call and its current batch, `loop` the batches
collected over the turn, `result` the `AgentRunResult`, `retry` the rule being
repeated, `rows` what the turn wrote. `ran` is history: every tool the broker was
asked for, and `forgotten` says how many of them had run when a stream was last given up
for `run()`. A row keeps its turn, kind, call and tool ids, status and place in its
group.

*Grain.* A model call, a tool call, a context step and an append are one action
each; the token may be set, and `KeyboardInterrupt` raised, between any two.

*What is abstracted.* Token estimates: whether a context step does nothing, omits,
compresses or fails is free. A compression takes all the history it may, so a
turn has at most one summary. Texts, usage and continuation reasons are left out.

### ConversationLog

*State.* `rows` and `refs` are the two tables; `mem` is `ReplRuntime.conversation` with
the durable index each message was given; `retained` the copy a turn works on and
an omission or compression rewrites; `checkpoint` the projection that the terminal
manifest froze. `cause` and `evicted` are history.

*Grain.* A turn is its input, at most one batch of one tool, its context steps and
its end; the end is one action because no other thread writes these tables, while
`InterruptTurn` cuts it after each append, the closing row's included: an answer or a
failure can then be followed by a cancellation fact, and memory has the fact alone. A
turn that exceeds the context limit (`LimitTurn`) returns no conversation to take over, so
memory stays as it was before the turn's compaction.

*What is abstracted.* A failure of the first context step is `Fail`. The fact row of
an idle cancel is in `SessionOwnership` only. Crashes inside a turn are there
too; the session is then not resumable from this process's memory.

## Runs

| Run | Instance | Shows |
|---|---|---|
| `two_hosts` | 3 slots, 2 hosts, 2 sessions, 2 messages, 3 launches | ownership, checkpoint and row safety when starters, resumers and closers race, when a pid is reused, and when a prober sits on another host; the inductive invariant itself |
| `admission` | 2 slots, 3 sessions, no messages, weak fairness | every start or resume ends up driving, gone or at its own prompt |
| `lifecycle` | 2 slots, 2 sessions, 2 messages, 2 plan versions | `SessionOwnership` implements `SessionLifecycle` |
| `half_closed` | 3 slots on 2 hosts | counterexample: a stale close raises |
| `controller` | 2 turns, 2 model calls, 1 tool call each, 1 shell process | turns do not overlap; interrupts and approvals hit what they were meant for; a cancelled turn ends unless it asks; the invariant that is proved |
| `cancel_hangs` | 1 turn, a batch of 2 | counterexample: cancelling never ends |
| `provider_calls` | a stream or `view_image`, then a task; interrupt from either thread | a closed boundary has no thread or item left; late results are dropped; a cancelled stream ends |
| `broker_calls` | scenes of up to 3 calls on one file, and every tool in every mode | effects are licensed and audited, stale writes refused, own writes serialized, every call returns |
| `executor_turn` | 2 model calls of up to 2 tools, `run` and `stream` | the turn ends unless a tool waits for the user, repeats nothing after a tool unless a stream that was given up forgot it, and records what ran |
| `executor_denial` | 2 model calls of up to 2 tools | counterexample: a denied batch makes the cut invalid |
| `log_session` | 3 turns, 1 resume, 1 retained call | log, projection and messages agree unless something named parted them; the cut stays valid |
| `log_drift` | 3 turns, no resume | counterexample: a compression parts projection and messages |

*Bounds.* `MaxLaunches` bounds the processes ever launched, `MaxLog` and
`MaxTodo` the rows; they appear in guards only. Three launches are enough for
owner, stale closer and a competitor, or for an owner, a closer with a proof about
it, and the process that took its pid. One message distinguishes an
empty conversation from a recoverable one, two let one be lost. Deadlock is not
checked: launches are bounded and processes may all exit, which is normal.

For `ReplTurn`, a second turn shows what a late answer, a late cancel or a
leftover token does to it; a second model call shows the token being seen after
a tool; a question can follow a question. Exhausted bounds and exited views end
a behaviour, so deadlock is not checked.

In `executor_turn` two calls let a batch be followed by an answer or a failure, and, as the
fallback and each retry start to count again, by another batch; two tools per batch
separate a single call from several. In
`log_session` one retained call and three turns are the least in which a call
becomes evictable and something follows its compression. In `broker_calls` a read, an
edit and a write beside an abandoned handler are the least that can lose an update.
All of them end, so deadlock is not checked.

*Fairness.* In `SessionOwnership`, `FairSpec` asks weak fairness of each process's admission steps
only: a launched Python process keeps executing. It is asked of no operator
(`Confirm`, `Decline`), launch or crash, and of no turn.

In `ReplTurn`, weak fairness of the UI thread's steps and of each worker's: both
are running threads, a provider call has a timeout or sees the token, and a tool
has the broker's. None is asked of keys or of processes: a process may never
exit.

In `ProviderCall`, weak fairness of the caller, the canceller and the turn, which are
running threads whose waits have timeouts, and of the start and the end of the provider's
thread; none of its answers. In `ToolBroker`, of the broker's own thread and of time,
which ends its wait for a handler; none of handlers or the user. In `TurnExecutor`, of
every step but a tool call: a provider call ends by its timeout, but a tool may wait for
an approval that is never given.

*Findings.* `half_closed`: a crash between the two commits of a failure leaves a
session nobody can close, and the attempt raises `StoreError` instead of the
documented conflict. `cancel_hangs`: an interrupt denies only an approval that is
already pending, so one that begins a moment later, or in the next call of the batch,
waits for an answer while all input is dropped; `CancelledTurnEndsOrAsks` shows that
this is the only wait without an end. `executor_denial`: a batch of several
calls that ends in a denial is stored with an assistant row that names none of them, so
no later terminal checkpoint of the run can be made. `log_drift`: an append after a
compression puts the evicted rows back into the projection, and the next turn is
refused. (A turn that exceeds the context limit after a compaction parts them as well: its
memory is not compacted at all.)

*Known divergences without a run.* They were met in the models, and the properties
above are stated so that they do not depend on them.

- Ownership that was never released does not block (`terminal-checkpoints.md:402`): the
  partial index looks at the status alone.
- A resume that waits at a prompt can restore the Todo Plan of a superseded checkpoint;
  the handoff reads the conversation again.
- An interrupted turn can return to the prompt while its shell process runs on.
- An async task that misses the cancel request ends only at the provider's timeout; in
  the plain view, collecting a handle whose call had finished reports an open boundary.
- `read_file` caches a file's metadata from a second look at it (`tools/native.py:493`), so
  the cached version can be newer than what was shown.
- `todo` gives an unchanged plan a new version.
- A truncated answer is accepted as complete after a repeated call; a cancelled
  continuation becomes an output-limit failure without a turn scope, which ends the
  session.
- A denied batch is not written when earlier batches of the turn exist.
- A `KeyboardInterrupt` after the answer was written leaves a log with an answer and a
  cancellation fact of one turn, and a memory with the fact alone.
- `retry.md:99` allows a retry only if "no downstream tool call has been executed based on
  the failed attempt". When a later call of a stream raises `NotImplementedError`
  (`langchain_adapter.py:289`), `run()` starts again from the request with no tool results
  (`:79`), so its timeout passes for one before any tool and the call is repeated although
  tools have run: the exception of `RepeatsOnlyForgotten`, which shows that there is no
  other way to it.
- A fallback to `run()` after tools counts the model calls from one again, so two batches
  of the turn can bear the same call id; pairing in the cut goes by sets of ids and accepts it.
- A compression that fails between two model calls writes no rows of the turn, and a
  `KeyboardInterrupt` before the input is written leaves memory ahead of the log: in both
  cases the next turn is refused (the exceptions of `MemoryHoldsLog`).
- After an omission the projection is out of order and memory is relabelled by
  position. If a compression is aborted as well, a resume can count a turn name twice
  and the cut becomes invalid (the exception of `LogCutValid`).
- The ids of denied calls carry no turn, so one group can span several turns (the
  exception of `EvictedWasAnswered`); several summaries kept over resumes can share a row
  (the exception of `ProjectionSound`).

## Proofs

The theorems on ownership hold for arbitrary `Procs`, `Sessions`, `HostOf`, `PidOf`
(several processes may share a pid) and bounds, under `OwnershipAssumption` and
`NoneAssumption` only: the bounds are naturals, and NULL is no process,
session, row, manifest or owner.

`TypeOK` is inductive alone (first part of `SessionOwnershipProofs`). The safety properties are
not. `OneLiveOwner` depends on every holder having a running row
(`LiveOwnerKeepsItsClaim`) and on the unique index (`OneRunning`). That a holder
is not robbed depends on why a stale closer may pass its fence: its proof names a
token, tokens are unique (`TokensUnique`, `TokensUnclaimed`), and a process whose
proof passed the probe saw that token's process dead (`ProofHonest`), which stays
true because a reused pid draws a new token. `CheckpointCoversLog` needs every
manifest still to be committed to cover the log (`ManifestsCover`), which holds
because only the live owner appends; `DriverSeesWholeLog` needs both. `RowsInStep`
says how run and session differ between the two commits of a failure. `Inv` is
the conjunction. The proof has one lemma per action or group of actions, over
the lemmas `HeldRowsKept` (another process's step leaves a held row alone)
and `FenceStable`.

The theorems on `ReplTurn` hold for every number of turns, model calls, tool
calls and shell processes (`BoundsAssumption`: they are naturals). Its safety
properties are not inductive either. `TurnInv` adds why they hold: the thread
inside `run_turn` is the latest turn's, while the controller says that it executes
and the queue is empty (`OneBusy`); a question is pending exactly while that thread
waits for its answer (`QuestionOpen`); a typed answer and an accepted interrupt do
not meet, so a pending question is not granted after the denial (`Decisions`); a
result is a bare provider cancellation only under a set token (`ResultScoped`),
so the rewriting at the end of the turn catches all of them. There is one lemma per
action; `PlainMove` serves the steps in which only the worker moves. The two
action properties follow because `TakeDecision` is the only step that grants.

The theorems on `ProviderCall` hold for every number of calls and chunks, every kind
of call and both views (`ProviderAssumption`). That a closed boundary has no thread
behind it rests on the order of a queue: a terminal item is the last its thread puts
(`TerminalLast`), so whoever takes it has emptied the queue. `NoHiddenWorker` needs
what the turn knows of earlier calls: each outcome except an open boundary means that
the thread is over (`AnsweredOver`, `EarlierAnswered`); in the plain view, what
the interrupt has not collected is still on its list, and the callers are stopped
(`InterruptCollects`). `BoundaryStaysClosed` follows because in the prompt_toolkit view
only a call's own caller records its boundary, once (`CallerRecords`). `CallInv` is the
conjunction; five step shapes (a thread moves, a caller goes on, a caller ends, the
interrupt leaves calls alone, the plain view records) carry the actions.

The theorems on `TurnExecutor` hold for every number of model calls and tools
(`ExecutorAssumption`). `RepeatsOnlyForgotten` needs to know, at each place where the turn
can be, what the attempt says of the tools that ran: `ToolsKnown` says that before the
first call of an attempt every tool that ran is forgotten (`Forgot`, and without streaming
none ran), that a follow-up call is marked, and that a failure after tools that are not
forgotten is marked or has no rule that repeats it. `AttemptsCounted` counts the retries
against their budget. `ExecInv` is the conjunction.

That a turn's rows record what ran in it needs `RowsInv` beside `ExecInv`. `ToolsTold`
relates the accepted batches to the history: flattened, their rows pair calls with
results and tell exactly the tools that ran before the batch at work (`Whole`), and a
completed result leaves none at work. `BatchesAccepted` says that they are of this turn
and hold no denial, because a denial ends its batch; `ResultShape` that a completed or
cancelled result brings no batch of its own and that a cancelled one was asked for;
`RowsStarted` and `RowsWritten` say what is written when. `ConversationRowsProofs` has
the lemmas on rows, for any number of batches and tools. They need induction over the
batches (what `FlattenSeq` builds), which is done by least counterexample (`Least`): a
set of naturals that refute a statement has a least member, and the statement is
shown for it from its predecessor. `FlatAppend` (one more batch adds its rows at the
end), `TellsConcat` and `WholeConcat` (sequences of rows tell one after the other) are what
the invariant uses.

`CutBreaksByDenial` tells how far the counterexample of `executor_denial` reaches. It needs
`GroupsInv`: before its tools a turn has a group for its input and at most one for a
summary, each row of the group of its kind (`Started`), so the group of its tools is new,
and so is the group of its closing row. The lemmas on whole groups are in
`ConversationRowsProofs`: a sequence of rows that belongs to one group and pairs calls with results
is a cut of its own (`GroupedCut`); the rows of a turn's batches are such a group
when each batch that still has the adapter's one call row has one tool (`LoopCut`, from
`LoopPaired`, by least counterexample); a new group added to a cut leaves it a cut
(`GroupAdded`). A finished turn whose denial had one tool therefore has a valid cut: the
rows of several tools under one call are the only way to break it.

The theorems on `ToolBroker` hold for every number of calls, sessions and files and for
every scenario: policy, requests, modes and what other programs do. `BrokerAssumption`
says of requests that paths are sequences and that a file tool names a file. `BrokerInv`
rests on three chains. *Licences*: a call that may run was judged by the policy
(`Judged`), and what the broker reuses is a grant that some earlier call of the session
received (`GrantsKnown`); directories that are made and files that are put belong to the
call's judged paths (`Normalized`, `DiskKnown`). *Audits*: the audit of a call is one of
a few sequences, by its decision and its place (`Unstarted`, `Started`). *Files*: from the
guard to the write a handler holds the file's lock (`LockOf`), also after its call was
given up, so that between them only another program changes the file. Contents of other
programs are numbered (`Numbered`), so one that appears while a handler is at work is
never one of a quiet moment; under a guarded handler the file is therefore either what
the guard saw or no such content (`FileOf`). The guard compares with the cache, and the
cache holds of quiet moments only what was shown (`CacheKnown`), because a stage that
records something newer than what was read, or what was just written, records no such
content (`StageOf`). Each action of a handler is reduced to the lemma `HandlerStep`, each
step of the broker to `CallStepKeeps`.

The theorems on `ConversationLog` hold for every number of turns and resumes and every
number of retained calls (`LogAssumption`). `LogInv` says how the three lists fit the
log. `MessagesFit`: a message names a row that exists and has its call, two messages
share a label only if it is a summary's, and what some answer has consumed has an answer
behind it in the log. While a turn is on, memory and the turn's copy hold nothing of
it yet: a final answer is therefore no message that an earlier answer could have
consumed. `RowsNamed`: rows with calls bear the name of a turn, so that the counter of a resumed
session is not behind any id in its messages. `NeverCompacted` and `MemoryMirrors` say what
holds as long as nothing parts the lists: the projection is the whole log, memory is the
log up to the turn, and the turn's input is the last row, so that `UserRow` is the row of
this turn and not of an earlier one with the same name. `LabelsKnown` is about messages
without a row id: a list that holds one is longer, shorter or otherwise unequal to what the
projection gives, so the turn that met it is refused; in a turn that can still evict, every
message of the turn's list has its row. A compression leaves nothing more to evict, the
consumer of a call is never evicted itself, so an omitted list is shorter than the one it
came from, and an abort leaves lists that the next turn finds unequal. Each list
operation (omit, compress, append, relabel) gives a list derived from the old one by
copies and new messages, and the lemma `DerivedFits` says once that such a list fits.
`Ascending` is defined by counting: `PlaceExists` shows by `Least` that every place is
taken. TLC checked the parts of `LogInv` on the instance of `log_session` first.

That every group of the log stays whole (`LogCutValid`) needs that a turn name is not
used twice, although a resume counts on from the checkpoint and not from the log. `CutInv`
is what it rests on, beside `LogInv` and up to the exception of the property (`Lost`). Names in the
log are of turns taken so far and of manual compressions (`NamesTo`); when a turn begins,
none is its own. In an open turn only the input and, once nothing is left to evict, a
summary bear its name (`Opened`), so its compression and its tools each open a new group.
The projection of an idle or closed session holds a row of the newest turn (`Holds`),
which the checkpoint then holds too, so a resume counts on from it. A manual compression could take that
row away: while there is something to evict, the last message stands for the last row of
the log and is not evicted (`LastStays`), unless memory has messages without a row, and
then nothing is rewritten. After a compaction an aborted compression can leave neither,
which is the exception. Every batch of this module has one tool (`SingleTools`); what a
denial among several does is the subject of `CutBreaksByDenial`. TLC checked `CutInv` on the
instance of `log_session` first.

| Theorem | States |
|---|---|
| `Invariance` | `Spec => []Inv` |
| `TypeCorrect`, `OwnershipKept`, `SingleOwner`, `CheckpointComplete`, `WholeConversation`, `RowsAgree` | the invariants of the runs |
| `Refinement` | `Spec => ImplementsLifecycle`, step by step from `Inv` |
| `TurnInvariance` | `Spec => []TurnInv` |
| `TurnTypes`, `TurnsQuiet`, `CancelScoped`, `SessionKept` | the invariants of `controller` |
| `NoLateGrant`, `GrantInTurn` | its two action properties |
| `CallInvariance` | `Spec => []CallInv` |
| `CallTypes`, `ClosedFinished`, `NothingHidden` | the invariants of `provider_calls` |
| `ClosedStays`, `LateIgnored` | its two action properties |
| `ExecutorInvariance` | `Spec => []ExecInv` |
| `ExecutorTypes`, `RepeatsForget` | types and the no-repeat rule of `executor_turn` |
| `RowsInvariance` | `Spec => []RowsInv` |
| `TurnRecorded`, `CancelRecorded` | the rows of `executor_turn`'s completed and cancelled turns |
| `CutBreaksByDenial` | the cut of a finished turn is valid unless a denial's batch had several tools |
| `LogInvariance` | `Spec => []LogInv` |
| `LogTypes`, `ProjectionKept`, `LogMirrored`, `EvictionAnswered`, `OverwritesKnowRows`, `LogStaysWhole` | invariants of `log_session` |
| `BrokerInvariance` | `Spec => []BrokerInv` |
| `BrokerTypes`, `EffectsLicensed`, `AuditComplete` | the invariants of `broker_calls` |
| `StaleWritesRefused`, `WritesSerialized` | its two action properties |

Only model-checked: liveness under fairness, which is out of the prover's reach, and the
counterexamples. Every invariant and every action property of the passing runs is proved.

## Plan

1. `SessionOwnership` with proofs and refinement: done.
2. `ReplTurn` with proofs: done.
3. `ProviderCall` with proofs; `ToolPolicy`, `ToolBroker` with proofs: done.
4. `TurnExecutor`, `ConversationRows` and `ConversationLog` with proofs: done.
5. `LogCutValid`, that every group of the log stays whole, and how far a denial breaks
   the cut of a turn: proved.

## Not modelled

- Translation to and from the vendor SDK, prompt composition, configuration parsing,
  rendering of views, traces, metrics and logs: pure functions and output.
- The line-oriented plain view, except that its `KeyboardInterrupt` is a step of the
  turn modules; the approval mode cycle.
- Checksums of manifests, projections and rows: a corrupted row is a rejected
  checkpoint.
- Skill registry, search and image handlers: read-only input.
- The proofs do not reach liveness: fairness is out of the prover's reach.
