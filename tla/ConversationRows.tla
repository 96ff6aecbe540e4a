--------------------------- MODULE ConversationRows ---------------------------
(***************************************************************************)
(* The rows of conversation_messages (persistence/conversation.py): how the *)
(* executor composes the closed groups of a turn, and what the fact cut of  *)
(* a terminal checkpoint demands of them.                                   *)
(*                                                                         *)
(* A model call is identified by [turn, call]; the adapter's own ids carry  *)
(* no turn (turn 0).  A batch is what one model call asked for: its id and  *)
(* the statuses of the tools that were invoked, in order.                   *)
(***************************************************************************)
EXTENDS Naturals, FiniteSets, Sequences, SequencesExt

NoCall == [turn |-> 0, call |-> 0]
Final(turn) == [turn |-> turn, call |-> 0]
ToolStatuses == {"ok", "denied", "cancelled"}
Facts == {"failure_fact", "cancellation_fact"}

Row(turn, kind, id, tool, status) ==
    [turn |-> turn, kind |-> kind, id |-> id, tool |-> tool, status |-> status,
     group |-> IF kind \in {"assistant_tool_call", "tool_result"} THEN "tool-loop" ELSE kind,
     pos |-> 0, size |-> 1]

\* _with_group_position: the rows of one append form one group.
Grouped(rows) == [i \in DOMAIN rows |-> [rows[i] EXCEPT !.pos = i - 1, !.size = Len(rows)]]

\* _provider_messages_to_conversation: one call row for each tool, then the results.
ScopedRows(turn, batch) ==
    [k \in DOMAIN batch.tools |-> Row(turn, "assistant_tool_call", batch.id, k, "none")]
    \o [k \in DOMAIN batch.tools |-> Row(turn, "tool_result", batch.id, k, batch.tools[k])]

\* The batch of a denial comes from the adapter as it is: one call row, which has
\* a tool id only if the batch has a single tool.
AdapterRows(turn, batch) ==
    <<Row(turn, "assistant_tool_call", batch.id, IF Len(batch.tools) = 1 THEN 1 ELSE 0, "none")>>
    \o [k \in DOMAIN batch.tools |-> Row(turn, "tool_result", batch.id, k, batch.tools[k])]

\* The tool-loop group of a turn.
ToolLoopRows(turn, batches) ==
    Grouped(FlattenSeq([i \in DOMAIN batches |->
        IF batches[i].id.turn = 0 THEN AdapterRows(turn, batches[i])
                                  ELSE ScopedRows(turn, batches[i])]))

UserRows(turn) == <<Row(turn, "user_input", NoCall, 0, "none")>>
FinalRows(turn) == <<Row(turn, "assistant_output", Final(turn), 0, "none")>>
FactRows(turn, kind) == <<Row(turn, kind, NoCall, 0, "none")>>
SummaryRows(turn) == <<Row(turn, "context_summary", NoCall, 0, "none")>>

\* _validate_tool_pairing
Paired(rows) ==
    LET Ids(kind) == {<<rows[i].id, rows[i].tool>> :
                        i \in {i \in DOMAIN rows : rows[i].kind = kind /\ rows[i].tool # 0}}
    IN Ids("assistant_tool_call") = Ids("tool_result")

\* _validate_rows: every group is whole, and calls and results are paired.
CutValid(rows) ==
    /\ \A i \in DOMAIN rows :
          LET group == {j \in DOMAIN rows : /\ rows[j].turn = rows[i].turn
                                            /\ rows[j].group = rows[i].group}
          IN /\ {rows[j].pos : j \in group} = 0 .. rows[i].size - 1
             /\ Cardinality(group) = rows[i].size
    /\ Paired(rows)

(* For properties. *)

\* The rows hold one tool result for each of statuses, in this order: the n-th
\* result has the n-th status.
Results(rows, n) == {i \in 1 .. n : rows[i].kind = "tool_result"}
Tells(rows, statuses) ==
    /\ Cardinality(Results(rows, Len(rows))) = Len(statuses)
    /\ \A i \in Results(rows, Len(rows)) :
          rows[i].status = statuses[Cardinality(Results(rows, i))]
=============================================================================
