---------------------------- MODULE ConversationLog ----------------------------
(***************************************************************************)
(* The conversation of one session over its turns: the accepted rows, the  *)
(* projection kept beside them (persistence/conversation.py), and the      *)
(* process's own list of messages (ReplRuntime.conversation), which turns  *)
(* extend, the context manager omits from and compresses, and a resume     *)
(* rebuilds.  What a turn does inside is TurnExecutor; here it has at most  *)
(* one batch of one tool.                                                  *)
(***************************************************************************)
EXTENDS ConversationRows

CONSTANTS MaxTurns,    \* bound on the turns of the session
          MaxResumes,  \* bound on its resumes
          Retain       \* context.retain_recent_model_calls

ASSUME LogAssumption == MaxTurns \in Nat /\ MaxResumes \in Nat /\ Retain \in Nat

VARIABLES
    pc,         \* the runtime: idle, in a turn, refused, closed
    turn,       \* turn_counter
    rows,       \* conversation_messages
    refs,       \* message_refs of conversation_projection_state
    mem,        \* ReplRuntime.conversation
    retained,   \* retained_messages_box of the turn
    optimized,  \* the turn persisted an omission or a compression
    batch,      \* the turn's batch of tools
    checkpoint, \* projection_snapshot of the last terminal checkpoint
    resumes,    \* how many resumes there were
    cause,      \* history: what may have parted mem from refs
    evicted     \* history: rows a compression has summarized

vars == <<pc, turn, rows, refs, mem, retained, optimized, batch,
          checkpoint, resumes, cause, evicted>>

Causes == {"compaction", "abort", "interrupt"}

Init ==
    /\ pc = "idle" /\ turn = 0
    /\ rows = <<>> /\ refs = <<>> /\ mem = <<>> /\ retained = <<>>
    /\ optimized = FALSE /\ batch = <<>>
    /\ checkpoint = <<>> /\ resumes = 0
    /\ cause = {} /\ evicted = {}

\* The numbers of S, ascending, and the entries of s at them.
Ascending(S) == [k \in 1 .. Cardinality(S) |->
                    CHOOSE i \in S : Cardinality({j \in S : j < i}) = k - 1]
Pick(s, S) == LET order == Ascending(S) IN [k \in DOMAIN order |-> s[order[k]]]

-----------------------------------------------------------------------------
(* Messages of the process.  label is durable_message_index (0: none), row  *)
(* the accepted row the message stands for, consumed its metadata's ids.    *)

Message(kind, n, id, row) ==
    [kind |-> kind, turn |-> n, id |-> id, row |-> row, label |-> 0,
     consumed |-> {}, omitted |-> FALSE]

\* The messages of rows first .. last of the log, as a turn leaves them in memory
\* (where one fact can stand for another).
Messages(log, first, last) ==
    [k \in 1 .. last - first + 1 |->
        LET i == first + k - 1 IN Message(log[i].kind, log[i].turn, log[i].id, i)]

Labels(ms) == LET labelled == Pick(ms, {i \in DOMAIN ms : ms[i].label # 0})
              IN [k \in DOMAIN labelled |-> labelled[k].label]

Aligned == Labels(mem) = refs

\* _sync_durable_message_indexes: by position, and only if the lengths agree.
Synced(ms, projection) ==
    IF Len(ms) = Len(projection)
    THEN [k \in DOMAIN ms |-> [ms[k] EXCEPT !.label = projection[k]]]
    ELSE ms

-----------------------------------------------------------------------------
(* The projection. *)

\* Mutant: rows already in the projection are added again.
AppendedTwice(projection, count) == projection \o [i \in 1 .. count |-> i]

\* _projection_for_append_locked: every row the projection lacks goes to its end.
Appended(projection, count) ==
    projection \o Ascending((1 .. count) \ ToSet(projection))

\* _overwrite_durable_projection_from_messages; summary is the new summary's row.
Overwritten(ms, summary) ==
    [k \in DOMAIN ms |-> IF ms[k].kind = "context_summary" /\ summary # 0
                         THEN summary ELSE ms[k].label]

-----------------------------------------------------------------------------
(* Query control and context manager. *)

Ids(ms) == {ms[i].id : i \in DOMAIN ms} \ {NoCall}
Consumed(ms) == UNION {ms[i].consumed : i \in DOMAIN ms}
Start(ms, id) == CHOOSE i \in DOMAIN ms : ms[i].id = id /\ \A j \in 1 .. i - 1 : ms[j].id # id

\* The newest model calls.
Recent(ms) == {id \in Ids(ms) : Cardinality({j \in Ids(ms) : Start(ms, j) > Start(ms, id)}) < Retain}

\* Mutant: the suffix is the newest calls only.
EvictableByAge(ms) == Ids(ms) \ Recent(ms)

\* derive_model_call_groups and compute_non_evictable_raw_suffix: an evictable
\* group was consumed by a later answer and is not among the newest.
Evictable(ms) == (Ids(ms) \cap Consumed(ms)) \ Recent(ms)

\* omit_old_tool_results
Omittable(ms) == {i \in DOMAIN ms : /\ ms[i].kind = "tool_result"
                                    /\ ms[i].id \in Evictable(ms) /\ ~ms[i].omitted}
Omit(ms) == [i \in DOMAIN ms |->
                IF i \in Omittable(ms) THEN [ms[i] EXCEPT !.omitted = TRUE] ELSE ms[i]]
\* The snapshot leaves out the groups that stay whole.
OmissionSnapshot(ms) ==
    Pick(Omit(ms), {i \in DOMAIN ms : ms[i].id = NoCall \/ ms[i].id \in Evictable(ms)})

\* prepare_compression and _replace_compressed_history: a summary takes the place
\* of the evicted groups and of the latest summary before it.
Gone(ms) == {i \in DOMAIN ms : ms[i].id \in Evictable(ms)}
Compress(ms, row) ==
    LET at == CHOOSE i \in Gone(ms) : \A j \in Gone(ms) : i <= j
        latest == {i \in DOMAIN ms : /\ ms[i].kind = "context_summary"
                                     /\ \A j \in i + 1 .. Len(ms) : ms[j].kind # "context_summary"}
        kept == DOMAIN ms \ (Gone(ms) \cup latest)
    IN Pick(ms, {i \in kept : i < at}) \o <<Message("context_summary", 0, NoCall, row)>>
       \o Pick(ms, {i \in kept : i > at})

KnowsRows(ms) == \A i \in DOMAIN ms : ms[i].label \in 1 .. Len(rows)

-----------------------------------------------------------------------------
(* A turn. *)

\* Mutant: a turn begins without the check.
BeginUnchecked ==
    /\ pc = "idle" /\ turn < MaxTurns
    /\ turn' = turn + 1 /\ pc' = "begun"
    /\ retained' = mem /\ optimized' = FALSE /\ batch' = <<>>
    /\ UNCHANGED <<rows, refs, mem, checkpoint, resumes, cause, evicted>>

\* validate_runtime_projection_alignment: a drifted conversation fails closed.
BeginTurn ==
    /\ pc = "idle" /\ turn < MaxTurns
    /\ turn' = turn + 1
    /\ IF Aligned THEN pc' = "begun" ELSE pc' = "refused"
    /\ retained' = mem /\ optimized' = FALSE /\ batch' = <<>>
    /\ UNCHANGED <<rows, refs, mem, checkpoint, resumes, cause, evicted>>

AppendUser ==
    /\ pc = "begun"
    /\ rows' = rows \o Grouped(UserRows(turn))
    /\ refs' = Appended(refs, Len(rows'))
    /\ pc' = "open"
    /\ UNCHANGED <<turn, mem, retained, optimized, batch, checkpoint, resumes, cause, evicted>>

\* _maybe_omit_old_tool_results and _persist_omission.
OmitInTurn ==
    /\ pc = "open"
    /\ Omittable(retained) # {} /\ KnowsRows(retained)
    /\ refs' = Overwritten(OmissionSnapshot(retained), 0)
    /\ retained' = Omit(retained)
    /\ optimized' = TRUE /\ cause' = cause \cup {"compaction"}
    /\ UNCHANGED <<pc, turn, rows, mem, batch, checkpoint, resumes, evicted>>

\* _maybe_compress and _persist_compression.
CompressInTurn ==
    /\ pc = "open"
    /\ Evictable(retained) # {} /\ KnowsRows(retained)
    /\ rows' = rows \o Grouped(SummaryRows(turn))
    /\ retained' = Compress(retained, Len(rows'))
    /\ refs' = Overwritten(retained', Len(rows'))
    /\ evicted' = evicted \cup {retained[i].row : i \in Gone(retained)}
    /\ optimized' = TRUE /\ cause' = cause \cup {"compaction"}
    /\ UNCHANGED <<pc, turn, mem, batch, checkpoint, resumes>>

\* A batch of one tool; a denial keeps the adapter's own id.
RunTool ==
    /\ pc = "open" /\ batch = <<>>
    /\ \E status \in {"ok", "denied"} :
          /\ batch' = <<[id |-> [turn |-> IF status = "ok" THEN turn ELSE 0, call |-> 1],
                         tools |-> <<status>>]>>
          /\ pc' = IF status = "ok" THEN "open" ELSE "denied"
    /\ UNCHANGED <<turn, rows, refs, mem, retained, optimized, checkpoint, resumes, cause, evicted>>

\* The messages a turn adds to memory, over the rows it wrote: its input, what is
\* in front of the last row and belongs to its tools, and its closing message.
UserRow == CHOOSE i \in DOMAIN rows : rows[i].kind = "user_input" /\ rows[i].turn = turn
Base == IF optimized THEN retained ELSE mem

\* _append_turn_conversation after a result that the executor has written down: base
\* is the conversation_writeback of the result or, without one, what memory holds.
EndTurn(base, closing) ==
    LET tools == ToolLoopRows(turn, batch)
        said == base \o Messages(rows, UserRow, UserRow)
                     \o Messages(rows \o tools, Len(rows) + 1, Len(rows) + Len(tools))
        last == [Message(closing[1].kind, turn, closing[1].id, Len(rows) + Len(tools) + 1)
                    EXCEPT !.consumed = IF closing = FinalRows(turn) THEN Ids(said) ELSE {}]
    IN /\ rows' = rows \o tools \o Grouped(closing)
       /\ refs' = Appended(refs, Len(rows'))
       /\ mem' = Synced(Append(said, last), refs')
       /\ pc' = "idle"
       /\ UNCHANGED <<turn, retained, optimized, batch, checkpoint, resumes, cause, evicted>>

Complete == pc = "open" /\ EndTurn(Base, FinalRows(turn))

\* The executor returns without writing, and memory still gets the turn.
Unwritten ==
    /\ LET tools == ToolLoopRows(turn, batch)
           said == [k \in DOMAIN tools |-> Message(tools[k].kind, turn, tools[k].id, 0)]
       IN mem' = Synced(retained \o Messages(rows, UserRow, UserRow) \o said
                            \o <<Message("failure_fact", turn, NoCall, 0)>>, refs)
    /\ pc' = "idle"
    /\ UNCHANGED <<turn, rows, refs, retained, optimized, batch, checkpoint, resumes, evicted>>

\* Mutant: no failed turn is written.
FailUnwritten == pc \in {"open", "denied"} /\ Unwritten /\ UNCHANGED cause

Fail == pc \in {"open", "denied"} /\ EndTurn(Base, FactRows(turn, "failure_fact"))
CancelTurn == pc \in {"open", "denied"} /\ EndTurn(Base, FactRows(turn, "cancellation_fact"))

\* context_limit_exceeded: before the first model call, and without a writeback
\* although an omission or a compression may have been persisted.
LimitTurn == pc = "open" /\ batch = <<>> /\ EndTurn(mem, FactRows(turn, "failure_fact"))

\* A follow-up compression fails.
AbortTurn ==
    /\ pc = "open" /\ batch # <<>> /\ Evictable(retained) # {}
    /\ Unwritten
    /\ cause' = cause \cup {"abort"}

\* What the executor may have written of the result when the interrupt comes: nothing,
\* its tools, or all of it.
Written ==
    LET tools == ToolLoopRows(turn, batch)
        closings == (IF pc = "open" THEN {FinalRows(turn)} ELSE {})
                        \cup {FactRows(turn, kind) : kind \in Facts}
    IN IF pc = "begun" THEN {<<>>}
       ELSE {<<>>, tools} \cup {tools \o Grouped(closing) : closing \in closings}

\* KeyboardInterrupt in the plain view: the runtime adds the input and a cancellation
\* to memory, and the fact to the log unless it is there, after an answer, too.
InterruptTurn ==
    /\ pc \in {"begun", "open", "denied"}
    /\ \E written \in Written :
          LET there == written # <<>> /\ Last(written).kind = "cancellation_fact"
              input == IF pc = "begun" THEN <<Message("user_input", turn, NoCall, 0)>>
                       ELSE Messages(rows, UserRow, UserRow)
          IN /\ rows' = rows \o written
                             \o (IF there THEN <<>> ELSE Grouped(FactRows(turn, "cancellation_fact")))
             /\ refs' = Appended(refs, Len(rows'))
             /\ mem' = Synced(mem \o input \o Messages(rows', Len(rows'), Len(rows')), refs')
    /\ cause' = cause \cup {"interrupt"}
    /\ pc' = "idle"
    /\ UNCHANGED <<turn, retained, optimized, batch, checkpoint, resumes, evicted>>

-----------------------------------------------------------------------------
(* Between turns. *)

\* /compress; its rows bear a turn name of their own.  A message without its row
\* raises after the summary has been accepted.
ManualCompress ==
    /\ pc = "idle" /\ Evictable(mem) # {}
    /\ rows' = rows \o Grouped(SummaryRows(MaxTurns + turn))
    /\ IF KnowsRows(mem)
       THEN LET after == Compress(mem, Len(rows'))
            IN /\ refs' = Overwritten(after, Len(rows'))
               /\ mem' = Synced(after, refs')
               /\ evicted' = evicted \cup {mem[i].row : i \in Gone(mem)}
               /\ pc' = "idle"
       ELSE /\ refs' = Appended(refs, Len(rows'))
            /\ pc' = "refused"
            /\ UNCHANGED <<mem, evicted>>
    /\ cause' = cause \cup {"compaction"}
    /\ UNCHANGED <<turn, retained, optimized, batch, checkpoint, resumes>>

\* The terminal checkpoint freezes the projection over a valid fact cut.
Terminalize ==
    /\ pc \in {"idle", "refused"}
    /\ CutValid(rows)
    /\ checkpoint' = refs
    /\ pc' = "closed"
    /\ UNCHANGED <<turn, rows, refs, mem, retained, optimized, batch, resumes, cause, evicted>>

\* Mutant: the resumed session counts its turns from the beginning.
CounterFromResume(ms) == 0

\* Mutant: the names of manual compressions count as turns.
CounterOfAllNames(ms) == LET turns == {ms[i].turn : i \in DOMAIN ms} \cup {0}
                         IN CHOOSE n \in turns : \A k \in turns : k <= n

\* _max_repl_turn_counter
Counter(ms) == LET turns == {ms[i].turn : i \in DOMAIN ms} \cap 1 .. MaxTurns
               IN IF turns = {} THEN 0 ELSE CHOOSE n \in turns : \A k \in turns : k <= n

\* _conversation_from_checkpoint_projection: consumed ids are not in the rows.
Resume ==
    /\ pc = "closed" /\ resumes < MaxResumes
    /\ resumes' = resumes + 1
    /\ mem' = [k \in DOMAIN checkpoint |->
                  [Messages(rows, checkpoint[k], checkpoint[k])[1] EXCEPT !.label = checkpoint[k]]]
    /\ turn' = Counter(mem')
    /\ pc' = "idle"
    /\ cause' = IF "compaction" \in cause THEN cause ELSE {}
    /\ retained' = <<>> /\ optimized' = FALSE /\ batch' = <<>>
    /\ UNCHANGED <<rows, refs, checkpoint, evicted>>

Next ==
    \/ BeginTurn \/ AppendUser \/ OmitInTurn \/ CompressInTurn \/ RunTool
    \/ Complete \/ Fail \/ CancelTurn \/ LimitTurn \/ AbortTurn \/ InterruptTurn
    \/ ManualCompress \/ Terminalize \/ Resume

Spec == Init /\ [][Next]_vars

-----------------------------------------------------------------------------
(* Properties. *)

\* Every variable keeps its type.
TypeOK ==
    /\ pc \in {"idle", "begun", "open", "denied", "refused", "closed"}
    /\ turn \in 0 .. MaxTurns /\ resumes \in 0 .. MaxResumes
    /\ refs \in Seq(Nat) /\ checkpoint \in Seq(Nat)
    /\ \A i \in DOMAIN mem : mem[i].label \in 0 .. Len(rows) /\ mem[i].row \in 0 .. Len(rows)
    /\ Len(batch) <= 1 /\ optimized \in BOOLEAN
    /\ cause \subseteq Causes /\ evicted \subseteq 0 .. Len(rows)

\* Appends, omissions, compressions and interrupts leave a projection whose rows
\* exist, each once: a checkpoint can always be restored from it.
ProjectionSound ==
    /\ ToSet(refs) \subseteq 1 .. Len(rows)
    /\ \A i, j \in DOMAIN refs : i # j /\ refs[i] = refs[j] =>
          rows[refs[i]].kind = "context_summary"

\* The executor's rows and the runtime's messages, written by different modules,
\* agree after every completed, failed, denied or cancelled turn and across resumes:
\* the next turn is not refused, and the messages the model sees are the whole log
\* in the order it was accepted.  Only a compaction, an aborted compression or a
\* KeyboardInterrupt that no resume has repaired may part them.
MemoryHoldsLog ==
    pc = "idle" /\ cause = {} =>
        /\ Aligned
        /\ refs = [i \in DOMAIN rows |-> i]
        /\ [i \in DOMAIN mem |-> mem[i].row] = refs

\* A compression summarizes only tool calls and answers that a later answer has
\* taken into account; a denied call, whose id is shared by all turns, is excepted.
EvictedWasAnswered ==
    \A i \in evicted \ {0} : rows[i].id.turn # 0 =>
        \E j \in i + 1 .. Len(rows) : rows[j].kind = "assistant_output"

\* Rewriting the projection never meets a message without its row.
OverwriteKnowsRows == pc = "open" /\ Evictable(retained) # {} => KnowsRows(retained)

\* Turn names stay unique over resumes, interrupts and compressions, so that every
\* group of the log stays whole and a terminal checkpoint can be made.  Excepted is
\* a compression aborted after a compaction: its turn may be lost to the resume.
LogCutValid == {"compaction", "abort"} \subseteq cause \/ CutValid(rows)

\* durable-conversation.md:444: "Ordinary runtime execution maintains process-local
\* conversation and the persisted current projection state together as messages
\* append, omission runs, or compression runs."
MaintainedTogether == pc = "idle" /\ cause \subseteq {"compaction"} => Aligned
=============================================================================
