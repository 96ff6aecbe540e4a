-------------------------- MODULE ProviderCallProofs --------------------------
(***************************************************************************)
(* ProviderCall: types, what a closed boundary and a finished turn leave   *)
(* behind, and the two action properties, for every number of calls and    *)
(* chunks, all kinds of call and both views.                               *)
(***************************************************************************)
EXTENDS ProviderCall, SequenceTheorems, TLAPS

\* Calls are made in order: one that is still to come has no thread, every other one
\* is registered with the interrupt.
CallsInOrder ==
    \A c \in Calls :
        /\ c > turn.at => call[c].pc = "unborn"
        /\ call[c].pc \in {"unborn", "spawn"} =>
              worker[c].pc = "none" /\ handle[c].boundary # "closed"
        /\ call[c].result # "none" => call[c].pc = "done"
        /\ c <= turn.at => handle[c].registered

\* A terminal item is the last of its queue and the last its thread puts.
TerminalLast ==
    \A c \in Calls : \A i \in 1 .. Len(results[c]) :
        results[c][i] \in Terminal => i = Len(results[c]) /\ WorkerOver(c)

\* Every outcome but an open boundary means that the thread is over.
AnsweredOver ==
    \A c \in Calls : call[c].result \in {"returned", "cancelled", "timeout", "error"} => WorkerOver(c)

\* A call before the last has an outcome that lets the turn go on, unless it is the
\* view_image the broker abandoned.
EarlierAnswered ==
    \A c \in 1 .. turn.at - 1 : call[c].kind # "vision" =>
        call[c].result \in {"returned", "timeout", "error"}

\* Where a caller waits for a collection it knows why.
ReasonKnown ==
    \A c \in Calls : call[c].pc \in {"post", "drain"} => call[c].why # "none"

\* A plain-view interrupt stops the callers; what it has not yet collected is in
\* its list.
Stopped(c) == call[c].kind # "vision" => call[c].pc \in {"done", "unwound"}
InterruptCollects ==
    /\ intr.pc \in {"post", "drain", "collect_post"} => intr.now \in Calls
    /\ mode = "plain" /\ intr.pc # "none" => \A c \in 1 .. turn.at : Stopped(c)
    /\ mode = "tui" => intr.pc \in {"none", "token", "cancel", "post", "raised", "done"}
    /\ mode = "plain" /\ intr.pc \in {"collect", "collect_post", "drain", "done"} =>
          \A c \in 1 .. turn.at : call[c].kind # "vision" /\ handle[c].collector =>
              \/ WorkerOver(c)
              \/ intr.pc # "done" /\ c \in intr.todo
              \/ intr.pc \in {"collect_post", "drain"} /\ c = intr.now

\* In the prompt_toolkit view a boundary is recorded by its own caller, once.
CallerRecords ==
    mode = "tui" => \A c \in Calls : handle[c].boundary = "closed" => call[c].pc = "done"

\* A turn that has ended has no caller of a model call left.
EndedStopped ==
    turn.end # "none" => \A c \in 1 .. turn.at : Stopped(c)

CallInv ==
    /\ TypeOK /\ ClosedMeansFinished /\ NoHiddenWorker
    /\ CallsInOrder /\ TerminalLast /\ AnsweredOver /\ EarlierAnswered /\ ReasonKnown
    /\ InterruptCollects /\ CallerRecords /\ EndedStopped

-----------------------------------------------------------------------------

\* Positions and items have the types the steps below need.
LEMMA Ranges ==
  ASSUME TypeOK
  PROVE  /\ MaxCalls \in Nat /\ Calls \subseteq Nat /\ turn.at \in Nat
         /\ \A c \in 1 .. turn.at : c \in Calls /\ c <= turn.at
         /\ \A c \in Calls : c > 0
         /\ \A c \in Calls : /\ results[c] \in Seq(Terminal \cup {"chunk"})
                            /\ call[c] \in CallType /\ handle[c] \in HandleType
                            /\ worker[c] \in WorkerType
BY ProviderAssumption DEF TypeOK, Calls

\* The invariant holds initially.
LEMMA InitCallInv == Init => CallInv
<1> SUFFICES ASSUME Init PROVE CallInv OBVIOUS
<1>1. results \in [Calls -> Seq(Terminal \cup {"chunk"})]
  <2>1. <<>> \in Seq(Terminal \cup {"chunk"}) OBVIOUS
  <2> QED BY <2>1 DEF Init
<1>2. call \in [Calls -> CallType]
  BY DEF Init, NoCall, CallType, CallAt, AllKinds, Outcomes
<1>3. handle \in [Calls -> HandleType] BY DEF Init, HandleType
<1>4. worker \in [Calls -> WorkerType] BY ProviderAssumption DEF Init, WorkerType
<1>5. TypeOK
  <2>1. turn \in [at : 0 .. MaxCalls,
                  end : {"none", "completed", "cancelled", "failed", "aborted"}]
    BY ProviderAssumption DEF Init
  <2>2. intr \in [pc : IntrAt, todo : SUBSET Calls, now : 0 .. MaxCalls]
    BY ProviderAssumption DEF Init, IntrAt
  <2>3. mode \in Modes /\ token \in BOOLEAN BY DEF Init
  <2> QED BY <1>1, <1>2, <1>3, <1>4, <2>1, <2>2, <2>3 DEF TypeOK
<1>6. ClosedMeansFinished /\ NoHiddenWorker BY DEF Init, ClosedMeansFinished, NoHiddenWorker
<1>7. CallsInOrder BY ProviderAssumption DEF Init, CallsInOrder, NoCall, Calls
<1>8. TerminalLast BY DEF Init, TerminalLast
<1>9. AnsweredOver /\ EarlierAnswered /\ ReasonKnown
  BY DEF Init, AnsweredOver, EarlierAnswered, ReasonKnown, NoCall
<1>10. InterruptCollects /\ CallerRecords /\ EndedStopped
  BY DEF Init, InterruptCollects, CallerRecords, EndedStopped
<1> QED BY <1>5, <1>6, <1>7, <1>8, <1>9, <1>10 DEF CallInv

\* What is left of a queue after its first item.
LEMMA TailOfQueue ==
  ASSUME TypeOK, TerminalLast, NEW c \in Calls, results[c] # <<>>
  PROVE  /\ Head(results[c]) \in Terminal \cup {"chunk"}
         /\ Tail(results[c]) \in Seq(Terminal \cup {"chunk"})
         /\ Head(results[c]) \in Terminal => WorkerOver(c) /\ Tail(results[c]) = <<>>
         /\ \A i \in 1 .. Len(Tail(results[c])) :
              Tail(results[c])[i] \in Terminal =>
                 i = Len(Tail(results[c])) /\ WorkerOver(c)
<1>1. results[c] \in Seq(Terminal \cup {"chunk"}) BY Ranges
<1>2. Head(results[c]) = results[c][1] /\ 1 \in 1 .. Len(results[c]) BY <1>1
<1>3. Len(Tail(results[c])) = Len(results[c]) - 1 BY <1>1
<1>4. ASSUME Head(results[c]) \in Terminal
      PROVE  WorkerOver(c) /\ Tail(results[c]) = <<>>
  <2>1. WorkerOver(c) /\ 1 = Len(results[c]) BY <1>2, <1>4 DEF TerminalLast
  <2>2. Tail(results[c]) \in Seq(Terminal \cup {"chunk"}) /\ Len(Tail(results[c])) = 0
    BY <1>1, <1>3, <2>1
  <2> QED BY <2>1, <2>2, EmptySeq
<1>5. ASSUME NEW i \in 1 .. Len(Tail(results[c])), Tail(results[c])[i] \in Terminal
      PROVE  i = Len(Tail(results[c])) /\ WorkerOver(c)
  <2>1. Tail(results[c])[i] = results[c][i + 1] /\ i + 1 \in 1 .. Len(results[c])
    BY <1>1, <1>3
  <2>2. i + 1 = Len(results[c]) /\ WorkerOver(c) BY <1>5, <2>1 DEF TerminalLast
  <2> QED BY <1>1, <1>3, <2>2
<1>6. Tail(results[c]) \in Seq(Terminal \cup {"chunk"}) BY <1>1
<1> QED BY <1>1, <1>2, <1>4, <1>5, <1>6

-----------------------------------------------------------------------------
(* The worker thread. *)

\* What any step of the thread of call c does.
WorkerMoves(c) ==
    /\ UNCHANGED <<mode, turn, call, handle, token, intr>>
    /\ worker' \in [Calls -> WorkerType]
    /\ \A d \in Calls : d # c => worker'[d] = worker[d]
    /\ worker[c].pc # "none" /\ worker'[c].pc # "none"
    /\ WorkerOver(c) => WorkerOver(c)'
    /\ \/ results' = results
       \/ /\ ~WorkerOver(c)
          /\ \E item \in Terminal \cup {"chunk"} :
                /\ results' = [results EXCEPT ![c] = Append(@, item)]
                /\ item \in Terminal => WorkerOver(c)'

LEMMA PutMoves ==
  ASSUME TypeOK, NEW c \in Calls, NEW item \in Terminal \cup {"chunk"}, NEW w \in WorkerType,
         worker[c].pc \in {"run", "sent"}, w.pc # "none",
         item \in Terminal => w.pc = "finished",
         worker' = [worker EXCEPT ![c] = w],
         results' = [results EXCEPT ![c] = Append(@, item)],
         UNCHANGED <<mode, turn, call, handle, token, intr>>
  PROVE  WorkerMoves(c)
<1>1. worker' \in [Calls -> WorkerType] /\ worker'[c] = w BY DEF TypeOK
<1>2. \A d \in Calls : d # c => worker'[d] = worker[d] BY DEF TypeOK
<1>3. ~WorkerOver(c) BY DEF WorkerOver
<1>4. item \in Terminal => WorkerOver(c)' BY <1>1 DEF WorkerOver
<1>5. worker[c].pc # "none" /\ worker'[c].pc # "none" BY <1>1
<1> QED BY <1>1, <1>2, <1>3, <1>4, <1>5, Zenon DEF WorkerMoves

LEMMA WorkerShape ==
  ASSUME TypeOK, NEW c \in Calls, Worker(c)
  PROVE  WorkerMoves(c)
<1> DEFINE Wrote(pc) == [worker[c] EXCEPT !.pc = pc]
<1>1. worker[c] \in WorkerType BY Ranges
<1>2. \A pc \in {"run", "finished", "closed"} : Wrote(pc) \in WorkerType /\ Wrote(pc).pc = pc
  BY <1>1 DEF WorkerType
<1>3. \A pc \in {"run", "finished", "closed"} :
         [worker EXCEPT ![c].pc = pc] = [worker EXCEPT ![c] = Wrote(pc)]
  OBVIOUS
<1>4. Terminal = {"ok", "error", "cancelled"} BY DEF Terminal
<1>5. CASE WorkerReady(c)
  BY <1>5, <1>1 DEF WorkerReady, WorkerMoves, WorkerType, WorkerOver, TypeOK
<1>6. CASE WorkerClose(c)
  BY <1>6, <1>1 DEF WorkerClose, WorkerMoves, WorkerType, WorkerOver, TypeOK
<1>7. ASSUME NEW item \in Terminal, worker[c].pc \in {"run", "sent"}, Put(c, item),
             worker' = [worker EXCEPT ![c].pc = "finished"],
             UNCHANGED <<mode, turn, call, handle, token, intr>>
      PROVE  WorkerMoves(c)
  <2> HIDE DEF Wrote
  <2> QED BY <1>2, <1>3, <1>7, PutMoves DEF Put
<1>8. CASE WorkerChunk(c)
  <2>1. CASE CancelObserved(c) BY <1>4, <1>7, <1>8, <2>1 DEF WorkerChunk
  <2>2. CASE ~CancelObserved(c)
    <3> DEFINE w == [worker[c] EXCEPT !.pc = "sent", !.chunks = worker[c].chunks + 1]
    <3>1. w \in WorkerType /\ w.pc = "sent"
      <4>1. worker[c].chunks < MaxChunks BY <1>8 DEF WorkerChunk
      <4>2. worker[c].chunks + 1 \in 0 .. MaxChunks
        BY <1>1, <4>1, ProviderAssumption DEF WorkerType
      <4> QED BY <1>1, <4>2 DEF WorkerType
    <3>2. worker' = [worker EXCEPT ![c] = w] BY <1>8, <2>2 DEF WorkerChunk
    <3>3. results' = [results EXCEPT ![c] = Append(@, "chunk")] /\ "chunk" \notin Terminal
      BY <1>4, <1>8, <2>2 DEF WorkerChunk, Put
    <3>4. worker[c].pc = "run" /\ UNCHANGED <<mode, turn, call, handle, token, intr>>
      BY <1>8 DEF WorkerChunk
    <3> HIDE DEF w
    <3> QED BY <3>1, <3>2, <3>3, <3>4, PutMoves
  <2> QED BY <2>1, <2>2
<1>9. CASE WorkerSent(c)
  <2>1. CASE CancelObserved(c) BY <1>4, <1>7, <1>9, <2>1 DEF WorkerSent
  <2>2. CASE ~CancelObserved(c)
    <3>1. /\ worker[c].pc = "sent" /\ worker' = [worker EXCEPT ![c].pc = "run"]
          /\ results' = results /\ UNCHANGED <<mode, turn, call, handle, token, intr>>
      BY <1>9, <2>2 DEF WorkerSent
    <3> QED BY <3>1, <1>1 DEF WorkerMoves, WorkerType, WorkerOver, TypeOK
  <2> QED BY <2>1, <2>2
<1>10. CASE WorkerAnswer(c, "ok") \/ WorkerAnswer(c, "error")
  BY <1>4, <1>7, <1>10 DEF WorkerAnswer
<1>11. CASE WorkerCancelled(c) BY <1>4, <1>7, <1>11 DEF WorkerCancelled
<1> QED BY <1>5, <1>6, <1>8, <1>9, <1>10, <1>11 DEF Worker

\* A step of a thread: only a thread that is not over puts an item, and its terminal
\* item is its last.
LEMMA WorkerKeeps ==
  ASSUME CallInv, NEW c \in Calls, Worker(c)
  PROVE  CallInv'
<1>1. WorkerMoves(c) BY WorkerShape DEF CallInv
<1>2. TypeOK BY DEF CallInv
<1>3. \A d \in Calls : WorkerOver(d) => WorkerOver(d)' BY <1>1 DEF WorkerMoves, WorkerOver
<1>4. results' \in [Calls -> Seq(Terminal \cup {"chunk"})]
  <2>1. CASE results' = results BY <1>2, <2>1 DEF TypeOK
  <2>2. CASE \E item \in Terminal \cup {"chunk"} :
                results' = [results EXCEPT ![c] = Append(@, item)]
    BY <1>2, <2>2, Ranges DEF TypeOK
  <2> QED BY <1>1, <2>1, <2>2 DEF WorkerMoves
<1>5. TypeOK' BY <1>1, <1>2, <1>4 DEF TypeOK, WorkerMoves
<1>6. ClosedMeansFinished' BY <1>1, <1>2, <1>3, Ranges DEF CallInv, ClosedMeansFinished, WorkerMoves, TypeOK
<1>7. NoHiddenWorker'
  BY <1>1, <1>2, <1>3, Ranges DEF CallInv, NoHiddenWorker, WorkerMoves
<1>8. CallsInOrder' BY <1>1 DEF CallInv, CallsInOrder, WorkerMoves
<1>9. TerminalLast'
  <2> SUFFICES ASSUME NEW d \in Calls, NEW i \in 1 .. Len(results'[d]),
                      results'[d][i] \in Terminal
               PROVE  i = Len(results'[d]) /\ WorkerOver(d)'
    BY DEF TerminalLast
  <2>1. CASE results'[d] = results[d] BY <1>3, <2>1 DEF CallInv, TerminalLast
  <2>2. CASE results'[d] # results[d]
    <3>1. ~WorkerOver(c) /\ d = c BY <1>1, <1>2, <2>2 DEF WorkerMoves, TypeOK
    <3>2. PICK item \in Terminal \cup {"chunk"} :
             /\ results' = [results EXCEPT ![c] = Append(@, item)]
             /\ item \in Terminal => WorkerOver(c)'
      BY <1>1, <2>2 DEF WorkerMoves
    <3>3. results'[d] = Append(results[d], item) BY <1>2, <3>1, <3>2 DEF TypeOK
    <3>4. results[d] \in Seq(Terminal \cup {"chunk"}) BY <1>2, Ranges
    <3>5. Len(results'[d]) = Len(results[d]) + 1 BY <3>3, <3>4
    <3>6. ASSUME i # Len(results'[d]) PROVE FALSE
      <4>1. i \in 1 .. Len(results[d]) BY <3>4, <3>5, <3>6
      <4>2. results'[d][i] = results[d][i] BY <3>3, <3>4, <4>1
      <4> QED BY <3>1, <4>1, <4>2 DEF CallInv, TerminalLast
    <3>7. results'[d][Len(results'[d])] = item BY <3>3, <3>4, <3>5
    <3> QED BY <3>1, <3>2, <3>6, <3>7
  <2> QED BY <2>1, <2>2
<1>10. AnsweredOver' BY <1>1, <1>3 DEF CallInv, AnsweredOver, WorkerMoves
<1>11. EarlierAnswered' /\ ReasonKnown' /\ CallerRecords' /\ EndedStopped'
  BY <1>1 DEF CallInv, EarlierAnswered, ReasonKnown, CallerRecords, EndedStopped, Stopped, WorkerMoves
<1>12. InterruptCollects'
  BY <1>1, <1>2, <1>3, Ranges DEF CallInv, InterruptCollects, Stopped, WorkerMoves
<1> QED BY <1>5, <1>6, <1>7, <1>8, <1>9, <1>10, <1>11, <1>12 DEF CallInv

-----------------------------------------------------------------------------
(* The caller. *)

\* Taking an item: what is left keeps its order, a closed boundary's queue is not touched.
LEMMA TakeKeeps ==
  ASSUME CallInv, NEW c \in Calls, results[c] # <<>>,
         results' = [results EXCEPT ![c] = Tail(@)],
         \A d \in Calls : WorkerOver(d) => WorkerOver(d)'
  PROVE  /\ results' \in [Calls -> Seq(Terminal \cup {"chunk"})]
         /\ TerminalLast'
         /\ \A d \in Calls : results[d] = <<>> => results'[d] = <<>>
         /\ handle[c].boundary # "closed"
         /\ Head(results[c]) \in Terminal \cup {"chunk"}
         /\ Head(results[c]) \in Terminal => WorkerOver(c) /\ results'[c] = <<>>
<1>1. TypeOK /\ TerminalLast BY DEF CallInv
<1>2. results'[c] = Tail(results[c]) BY <1>1 DEF TypeOK
<1>3. \A d \in Calls : d # c => results'[d] = results[d] BY <1>1 DEF TypeOK
<1>4. results' \in [Calls -> Seq(Terminal \cup {"chunk"})]
  BY <1>1, TailOfQueue DEF TypeOK
<1>5. TerminalLast'
  <2> SUFFICES ASSUME NEW d \in Calls, NEW i \in 1 .. Len(results'[d]),
                      results'[d][i] \in Terminal
               PROVE  i = Len(results'[d]) /\ WorkerOver(d)'
    BY DEF TerminalLast
  <2>1. CASE d = c BY <1>1, <1>2, <2>1, TailOfQueue
  <2>2. CASE d # c BY <1>1, <1>3, <2>2 DEF TerminalLast
  <2> QED BY <2>1, <2>2
<1>6. \A d \in Calls : results[d] = <<>> => results'[d] = <<>> BY <1>3
<1>7. handle[c].boundary # "closed" BY DEF CallInv, ClosedMeansFinished
<1> QED BY <1>1, <1>2, <1>4, <1>5, <1>6, <1>7, TailOfQueue

\* A step of a caller that goes on: its outcome and its boundary stay as they are.
CallerGoesOn(c) ==
    /\ UNCHANGED <<mode, turn, token, intr>>
    /\ TypeOK' /\ TerminalLast'
    /\ call[c].pc \in {"arm", "check", "wait", "post", "drain"} /\ call[c].result = "none"
    /\ call'[c].pc \in {"check", "wait", "post", "drain"} /\ call'[c].result = "none"
    /\ call'[c].kind = call[c].kind
    /\ call'[c].pc \in {"post", "drain"} => call'[c].why # "none"
    /\ handle'[c].registered = handle[c].registered /\ handle'[c].boundary = handle[c].boundary
    /\ \A d \in Calls : /\ worker'[d].pc = worker[d].pc
                        /\ results[d] = <<>> => results'[d] = <<>>
                        /\ d # c => call'[d] = call[d] /\ handle'[d] = handle[d]

LEMMA GoesOnKeeps ==
  ASSUME CallInv, NEW c \in Calls, CallerGoesOn(c)
  PROVE  CallInv'
<1> USE DEF CallerGoesOn
<1>1. \A d \in Calls : WorkerOver(d)' = WorkerOver(d) BY DEF WorkerOver
<1>2. ClosedMeansFinished' BY <1>1 DEF CallInv, ClosedMeansFinished
<1>4. Stopped(c) => call[c].kind = "vision" BY DEF Stopped
<1>5. \A d \in 1 .. turn.at : d \in Calls BY Ranges DEF CallInv
<1>6. EndedStopped' BY <1>4, <1>5 DEF CallInv, EndedStopped, Stopped
<1>7. NoHiddenWorker'
  BY <1>1, <1>4, <1>5 DEF CallInv, NoHiddenWorker, EndedStopped
<1>8. CallsInOrder' BY DEF CallInv, CallsInOrder
<1>9. AnsweredOver' BY <1>1 DEF CallInv, AnsweredOver
<1>10. EarlierAnswered' BY Ranges DEF CallInv, EarlierAnswered
<1>11. ReasonKnown' BY DEF CallInv, ReasonKnown
<1>12. InterruptCollects'
  <2>1. mode = "plain" /\ intr.pc # "none" => call[c].kind = "vision" \/ c \notin 1 .. turn.at
    BY <1>4 DEF CallInv, InterruptCollects
  <2> QED BY <2>1, <1>1, <1>5 DEF CallInv, InterruptCollects, Stopped
<1>13. CallerRecords' BY DEF CallInv, CallerRecords
<1> QED BY <1>2, <1>6, <1>7, <1>8, <1>9, <1>10, <1>11, <1>12, <1>13 DEF CallInv

\* A step of a caller that ends its call.
CallerEnds(c) ==
    /\ UNCHANGED <<mode, turn, worker, token, intr>>
    /\ TypeOK' /\ TerminalLast'
    /\ call[c].pc \in {"wait", "post", "drain"}
    /\ call'[c].pc = "done" /\ call'[c].kind = call[c].kind
    /\ call'[c].result # "not_closed" => WorkerOver(c)
    /\ handle'[c].registered = handle[c].registered
    /\ handle'[c].collector = handle[c].collector
    /\ handle'[c].boundary = "closed" => WorkerOver(c) /\ results'[c] = <<>>
    /\ \A d \in Calls : /\ results[d] = <<>> => results'[d] = <<>>
                        /\ d # c => call'[d] = call[d] /\ handle'[d] = handle[d]

LEMMA EndsKeeps ==
  ASSUME CallInv, NEW c \in Calls, CallerEnds(c)
  PROVE  CallInv'
<1> USE DEF CallerEnds
<1>1. \A d \in Calls : WorkerOver(d)' = WorkerOver(d) BY DEF WorkerOver
<1>2. ClosedMeansFinished' BY <1>1 DEF CallInv, ClosedMeansFinished
<1>3. \A d \in 1 .. turn.at : d \in Calls BY Ranges DEF CallInv
<1>4. EndedStopped' BY <1>3 DEF CallInv, EndedStopped, Stopped
<1>5. NoHiddenWorker' BY <1>1, <1>3 DEF CallInv, NoHiddenWorker
<1>6. CallsInOrder'
  BY DEF CallInv, CallsInOrder
<1>7. AnsweredOver' BY <1>1 DEF CallInv, AnsweredOver
<1>8. EarlierAnswered'
  <2>1. call[c].result = "none" BY DEF CallInv, CallsInOrder
  <2>2. c \in 1 .. turn.at - 1 => call[c].kind = "vision"
    BY <2>1 DEF CallInv, EarlierAnswered
  <2> QED BY <2>2, Ranges DEF CallInv, EarlierAnswered
<1>9. ReasonKnown' BY DEF CallInv, ReasonKnown
<1>10. InterruptCollects'
  BY <1>1, <1>3 DEF CallInv, InterruptCollects, Stopped
<1>11. CallerRecords' BY DEF CallInv, CallerRecords
<1> QED BY <1>2, <1>4, <1>5, <1>6, <1>7, <1>8, <1>9, <1>10, <1>11 DEF CallInv

\* Typed updates of the records.
LEMMA Updates ==
  ASSUME TypeOK, NEW c \in Calls
  PROVE  /\ \A r \in CallType : [call EXCEPT ![c] = r] \in [Calls -> CallType]
         /\ \A h \in HandleType : [handle EXCEPT ![c] = h] \in [Calls -> HandleType]
         /\ \A r \in WorkerType : [worker EXCEPT ![c] = r] \in [Calls -> WorkerType]
BY DEF TypeOK

\* Every update the actions make of a call, and of a handle, keeps its type.
LEMMA CallRecord ==
  ASSUME NEW r \in CallType
  PROVE  /\ \A p \in CallAt : [r EXCEPT !.pc = p] \in CallType
         /\ \A p \in CallAt, k \in AllKinds : [r EXCEPT !.pc = p, !.kind = k] \in CallType
         /\ \A p \in CallAt, w \in {"none", "cancelled", "timeout"} :
              [r EXCEPT !.why = w, !.pc = p] \in CallType
         /\ \A o \in Outcomes :
              [r EXCEPT !.pc = "done", !.result = o, !.why = "none"] \in CallType
BY DEF CallType, CallAt

LEMMA HandleRecord ==
  ASSUME NEW h \in HandleType
  PROVE  /\ \A v \in BOOLEAN : [h EXCEPT !.flag = v] \in HandleType
         /\ \A v \in {"open", "closed", "not_closed"} : [h EXCEPT !.boundary = v] \in HandleType
         /\ \A q, v \in BOOLEAN :
              /\ [h EXCEPT !.requester = q, !.collector = v] \in HandleType
              /\ [h EXCEPT !.registered = TRUE, !.requester = q, !.collector = v] \in HandleType
BY DEF HandleType

\* A queue that nobody touches keeps its order.
LEMMA QueueKept ==
  ASSUME TerminalLast, results' = results,
         \A d \in Calls : WorkerOver(d) => WorkerOver(d)'
  PROVE  TerminalLast'
BY DEF TerminalLast

\* A collection starts from a place that waits, and knows why.
LEMMA CollectGoesOn ==
  ASSUME CallInv, NEW c \in Calls, NEW why \in {"cancelled", "timeout"},
         call[c].pc \in {"check", "wait"}, StartCollect(c, why),
         UNCHANGED <<mode, turn, worker, token, intr>>,
         results' = results \/ (results[c] # <<>> /\ results' = [results EXCEPT ![c] = Tail(@)])
  PROVE  CallInv'
<1>1. TypeOK /\ TerminalLast BY DEF CallInv
<1>2. call[c] \in CallType /\ handle[c] \in HandleType BY <1>1, Ranges
<1>3. \A d \in Calls : WorkerOver(d) => WorkerOver(d)' BY DEF WorkerOver
<1>4. PICK p \in {"post", "drain"} : call' = [call EXCEPT ![c] = [@ EXCEPT !.why = why, !.pc = p]]
  BY DEF StartCollect
<1>5. PICK v \in BOOLEAN : handle' = [handle EXCEPT ![c] = [@ EXCEPT !.flag = v]]
  BY <1>2 DEF StartCollect, HandleType
<1>6. call' \in [Calls -> CallType]
  <2>1. p \in CallAt BY DEF CallAt
  <2>2. [call[c] EXCEPT !.why = why, !.pc = p] \in CallType BY <1>2, <2>1, CallRecord
  <2> QED BY <1>1, <1>4, <2>2, Updates
<1>7. handle' \in [Calls -> HandleType] BY <1>1, <1>2, <1>5, HandleRecord, Updates
<1>8. /\ results' \in [Calls -> Seq(Terminal \cup {"chunk"})] /\ TerminalLast'
      /\ \A d \in Calls : results[d] = <<>> => results'[d] = <<>>
  <2>1. CASE results' = results BY <1>1, <1>3, <2>1, QueueKept DEF TypeOK
  <2>2. CASE results[c] # <<>> /\ results' = [results EXCEPT ![c] = Tail(@)]
    BY <1>3, <2>2, TakeKeeps
  <2> QED BY <2>1, <2>2
<1>9. TypeOK' BY <1>1, <1>6, <1>7, <1>8 DEF TypeOK
<1>10. call[c].result = "none" BY DEF CallInv, CallsInOrder
<1>11. /\ call'[c].pc = p /\ call'[c].result = call[c].result
       /\ call'[c].kind = call[c].kind /\ call'[c].why = why
  BY <1>1, <1>2, <1>4 DEF TypeOK, CallType
<1>12. /\ handle'[c].registered = handle[c].registered
       /\ handle'[c].boundary = handle[c].boundary
  BY <1>1, <1>2, <1>5 DEF TypeOK, HandleType
<1>13. \A d \in Calls : d # c => call'[d] = call[d] /\ handle'[d] = handle[d]
  BY <1>1, <1>4, <1>5 DEF TypeOK
<1>14. CallerGoesOn(c) BY <1>8, <1>9, <1>10, <1>11, <1>12, <1>13 DEF CallerGoesOn
<1> QED BY <1>14, GoesOnKeeps

\* A step that only moves the caller on.
LEMMA MoveGoesOn ==
  ASSUME CallInv, NEW c \in Calls, NEW p \in {"check", "wait", "drain"}, Goto(c, p),
         call[c].pc \in {"arm", "check", "wait", "post"},
         p = "drain" => call[c].pc = "post",
         UNCHANGED <<mode, turn, token, intr>>,
         worker' \in [Calls -> WorkerType],
         \A d \in Calls : worker'[d].pc = worker[d].pc,
         handle' \in [Calls -> HandleType],
         \A d \in Calls : d # c => handle'[d] = handle[d],
         handle'[c].registered = handle[c].registered,
         handle'[c].boundary = handle[c].boundary,
         results' = results \/ (results[c] # <<>> /\ results' = [results EXCEPT ![c] = Tail(@)])
  PROVE  CallInv'
<1>1. TypeOK /\ TerminalLast BY DEF CallInv
<1>2. call[c] \in CallType BY <1>1, Ranges
<1>3. \A d \in Calls : WorkerOver(d) => WorkerOver(d)' BY DEF WorkerOver
<1>4. call' \in [Calls -> CallType]
  <2>1. p \in CallAt BY DEF CallAt
  <2> QED BY <1>1, <1>2, <2>1, CallRecord, Updates DEF Goto
<1>5. /\ results' \in [Calls -> Seq(Terminal \cup {"chunk"})] /\ TerminalLast'
      /\ \A d \in Calls : results[d] = <<>> => results'[d] = <<>>
  <2>1. CASE results' = results BY <1>1, <1>3, <2>1, QueueKept DEF TypeOK
  <2>2. CASE results[c] # <<>> /\ results' = [results EXCEPT ![c] = Tail(@)]
    BY <1>3, <2>2, TakeKeeps
  <2> QED BY <2>1, <2>2
<1>6. TypeOK' BY <1>1, <1>4, <1>5 DEF TypeOK
<1>7. call[c].result = "none" BY DEF CallInv, CallsInOrder
<1>8. /\ call'[c].pc = p /\ call'[c].result = call[c].result
      /\ call'[c].kind = call[c].kind /\ call'[c].why = call[c].why
  BY <1>1, <1>2 DEF Goto, TypeOK, CallType
<1>9. \A d \in Calls : d # c => call'[d] = call[d] BY <1>1 DEF Goto, TypeOK
<1>10. p = "drain" => call[c].why # "none" BY DEF CallInv, ReasonKnown
<1>11. CallerGoesOn(c)
  BY <1>3, <1>5, <1>6, <1>7, <1>8, <1>9, <1>10 DEF CallerGoesOn
<1> QED BY <1>11, GoesOnKeeps

\* A call that ends, with an outcome its thread allows.
LEMMA FinishEnds ==
  ASSUME CallInv, NEW c \in Calls, NEW o \in Outcomes, Finish(c, o),
         call[c].pc \in {"wait", "post", "drain"},
         o # "not_closed" => WorkerOver(c),
         UNCHANGED <<mode, turn, worker, token, intr>>,
         results' = results \/ (results[c] # <<>> /\ results' = [results EXCEPT ![c] = Tail(@)]),
         \/ handle' = handle
         \/ \E b \in {"closed", "not_closed"} :
               /\ handle' = [handle EXCEPT ![c].boundary = b]
               /\ b = "closed" => WorkerOver(c) /\ results'[c] = <<>>
  PROVE  CallInv'
<1>1. TypeOK /\ TerminalLast BY DEF CallInv
<1>2. call[c] \in CallType /\ handle[c] \in HandleType BY <1>1, Ranges
<1>3. \A d \in Calls : WorkerOver(d) => WorkerOver(d)' BY DEF WorkerOver
<1>4. call' \in [Calls -> CallType] BY <1>1, <1>2, CallRecord, Updates DEF Finish
<1>5. /\ results' \in [Calls -> Seq(Terminal \cup {"chunk"})] /\ TerminalLast'
      /\ \A d \in Calls : results[d] = <<>> => results'[d] = <<>>
  <2>1. CASE results' = results BY <1>1, <1>3, <2>1, QueueKept DEF TypeOK
  <2>2. CASE results[c] # <<>> /\ results' = [results EXCEPT ![c] = Tail(@)]
    BY <1>3, <2>2, TakeKeeps
  <2> QED BY <2>1, <2>2
<1>6. /\ handle' \in [Calls -> HandleType]
      /\ \A d \in Calls : d # c => handle'[d] = handle[d]
      /\ handle'[c].registered = handle[c].registered
      /\ handle'[c].collector = handle[c].collector
      /\ handle'[c].boundary = "closed" => WorkerOver(c) /\ results'[c] = <<>>
  <2>1. CASE handle' = handle
    BY <1>1, <1>5, <2>1 DEF TypeOK, CallInv, ClosedMeansFinished
  <2>2. CASE \E b \in {"closed", "not_closed"} :
               /\ handle' = [handle EXCEPT ![c].boundary = b]
               /\ b = "closed" => WorkerOver(c) /\ results'[c] = <<>>
    <3>1. PICK b \in {"closed", "not_closed"} :
             /\ handle' = [handle EXCEPT ![c].boundary = b]
             /\ b = "closed" => WorkerOver(c) /\ results'[c] = <<>>
      BY <2>2
    <3>2. handle' \in [Calls -> HandleType] BY <1>1, <1>2, <3>1, HandleRecord, Updates
    <3>3. /\ \A d \in Calls : d # c => handle'[d] = handle[d]
          /\ handle'[c].registered = handle[c].registered
          /\ handle'[c].collector = handle[c].collector
          /\ handle'[c].boundary = b
      BY <1>1, <1>2, <3>1 DEF TypeOK, HandleType
    <3> QED BY <3>1, <3>2, <3>3
  <2> QED BY <2>1, <2>2
<1>7. TypeOK' BY <1>1, <1>4, <1>5, <1>6 DEF TypeOK
<1>8. call'[c].pc = "done" /\ call'[c].result = o /\ call'[c].kind = call[c].kind
  BY <1>1, <1>2 DEF Finish, TypeOK, CallType
<1>9. \A d \in Calls : d # c => call'[d] = call[d] BY <1>1 DEF Finish, TypeOK
<1>10. CallerEnds(c) BY <1>5, <1>6, <1>7, <1>8, <1>9 DEF CallerEnds
<1> QED BY <1>10, EndsKeeps

\* The thread of a new call starts.
LEMMA SpawnKeeps ==
  ASSUME CallInv, NEW c \in Calls, Spawn(c)
  PROVE  CallInv'
<1>1. TypeOK BY DEF CallInv
<1>2. call[c] \in CallType /\ worker[c] \in WorkerType BY <1>1, Ranges
<1>3. /\ call[c].pc = "spawn" /\ call[c].result = "none"
      /\ worker[c].pc = "none" /\ handle[c].boundary # "closed"
  BY DEF CallInv, CallsInOrder, Spawn
<1>4. PICK q \in {"boot", "run"} : worker' = [worker EXCEPT ![c].pc = q] BY DEF Spawn
<1>5. PICK p \in {"arm", "check"} : call' = [call EXCEPT ![c].pc = p] BY DEF Spawn, Goto
<1>6. UNCHANGED <<mode, turn, handle, results, token, intr>> BY DEF Spawn
<1>7. call' \in [Calls -> CallType]
  <2>1. p \in CallAt BY DEF CallAt
  <2> QED BY <1>1, <1>2, <1>5, <2>1, CallRecord, Updates
<1>8. worker' \in [Calls -> WorkerType] BY <1>1, <1>2, <1>4, Updates DEF WorkerType
<1>9. TypeOK' BY <1>1, <1>6, <1>7, <1>8 DEF TypeOK
<1>10. /\ call'[c].pc = p /\ call'[c].result = "none" /\ call'[c].kind = call[c].kind
       /\ \A d \in Calls : d # c => call'[d] = call[d] /\ worker'[d] = worker[d]
  BY <1>1, <1>2, <1>3, <1>4, <1>5 DEF TypeOK, CallType
<1>11. \A d \in Calls : WorkerOver(d) => WorkerOver(d)'
  BY <1>3, <1>10 DEF WorkerOver
<1>12. \A d \in 1 .. turn.at : d \in Calls BY <1>1, Ranges
<1>13. Stopped(c) => call[c].kind = "vision" BY <1>3 DEF Stopped
<1>14. ClosedMeansFinished' BY <1>6, <1>11 DEF CallInv, ClosedMeansFinished
<1>15. NoHiddenWorker' BY <1>6, <1>10, <1>11, <1>12 DEF CallInv, NoHiddenWorker
<1>16. CallsInOrder' BY <1>3, <1>6, <1>10, <1>1, Ranges DEF CallInv, CallsInOrder
<1>17. TerminalLast' BY <1>6, <1>11, QueueKept DEF CallInv
<1>18. AnsweredOver' BY <1>10, <1>11 DEF CallInv, AnsweredOver
<1>19. EarlierAnswered'
  BY <1>1, <1>3, <1>6, <1>10, Ranges DEF CallInv, EarlierAnswered
<1>20. ReasonKnown' BY <1>10 DEF CallInv, ReasonKnown
<1>21. InterruptCollects'
  BY <1>6, <1>10, <1>11, <1>12, <1>13 DEF CallInv, InterruptCollects, Stopped
<1>22. CallerRecords' BY <1>3, <1>6, <1>10 DEF CallInv, CallerRecords
<1>23. EndedStopped' BY <1>6, <1>10, <1>12, <1>13 DEF CallInv, EndedStopped, Stopped
<1> QED BY <1>9, <1>14, <1>15, <1>16, <1>17, <1>18, <1>19, <1>20, <1>21, <1>22, <1>23
        DEF CallInv

\* Every step of a caller: it goes on, starts to collect, takes an item or ends.
LEMMA CallerKeeps ==
  ASSUME CallInv, NEW c \in Calls, Caller(c) \/ CallTimeout(c)
  PROVE  CallInv'
<1>1. TypeOK BY DEF CallInv
<1>2. call[c] \in CallType /\ handle[c] \in HandleType /\ worker[c] \in WorkerType
  BY <1>1, Ranges
<1>4. handle \in [Calls -> HandleType] /\ worker \in [Calls -> WorkerType] BY <1>1 DEF TypeOK
<1>5. CASE Spawn(c) BY <1>5, SpawnKeeps
<1>6. CASE Arm(c)
  <2> DEFINE q == call[c].kind \in Async
  <2>1. handle' = [handle EXCEPT ![c] = [@ EXCEPT !.requester = q, !.collector = TRUE]]
    BY <1>6 DEF Arm
  <2> q \in BOOLEAN OBVIOUS
  <2> HIDE DEF q
  <2>2. handle' \in [Calls -> HandleType] BY <1>1, <1>2, <2>1, HandleRecord, Updates
  <2>3. /\ \A d \in Calls : d # c => handle'[d] = handle[d]
        /\ handle'[c].registered = handle[c].registered
        /\ handle'[c].boundary = handle[c].boundary
    BY <1>2, <1>4, <2>1 DEF HandleType
  <2> QED BY <1>4, <1>6, <2>2, <2>3, MoveGoesOn DEF Arm
<1>7. CASE CheckCancel(c)
  <2>1. CASE CancelObserved(c) BY <1>7, <2>1, CollectGoesOn DEF CheckCancel
  <2>2. CASE ~CancelObserved(c) BY <1>4, <1>7, <2>2, MoveGoesOn DEF CheckCancel
  <2> QED BY <2>1, <2>2
<1>8. CASE Poll(c) BY <1>8, CollectGoesOn DEF Poll
<1>9. CASE CallTimeout(c) BY <1>9, CollectGoesOn DEF CallTimeout
<1>10. CASE TakeChunk(c)
  <2>1. CASE CancelObserved(c) BY <1>10, <2>1, CollectGoesOn DEF TakeChunk
  <2>2. CASE ~CancelObserved(c) BY <1>4, <1>10, <2>2, MoveGoesOn DEF TakeChunk
  <2> QED BY <2>1, <2>2
<1>11. CASE TakeResult(c)
  <2>1. WorkerOver(c) /\ results'[c] = <<>>
    <3>1. /\ results[c] # <<>> /\ results' = [results EXCEPT ![c] = Tail(@)]
          /\ Head(results[c]) \in Terminal /\ worker' = worker
      BY <1>11 DEF TakeResult
    <3>2. \A d \in Calls : WorkerOver(d) => WorkerOver(d)' BY <3>1 DEF WorkerOver
    <3> QED BY <3>1, <3>2, TakeKeeps
  <2>2. Verdict(c, Head(results[c])) \in {"cancelled", "returned", "error"} BY DEF Verdict
  <2>3. \E b \in {"closed", "not_closed"} :
           /\ handle' = [handle EXCEPT ![c].boundary = b]
           /\ b = "closed" => WorkerOver(c) /\ results'[c] = <<>>
    BY <1>11, <2>1 DEF TakeResult
  <2> QED BY <1>11, <2>1, <2>2, <2>3, FinishEnds DEF TakeResult, Outcomes
<1>12. CASE PostCancel(c)
  <2>1. CASE worker[c].pc = "closed"
    BY <1>12, <2>1, FinishEnds DEF PostCancel, WorkerOver, Outcomes
  <2>2. CASE worker[c].pc # "closed"
    <3>1. worker' = [worker EXCEPT ![c].cancel = TRUE] BY <1>12, <2>2 DEF PostCancel, Post
    <3>2. worker' \in [Calls -> WorkerType] BY <1>1, <1>2, <3>1, Updates DEF WorkerType
    <3>3. \A d \in Calls : worker'[d].pc = worker[d].pc BY <1>2, <1>4, <3>1 DEF WorkerType
    <3> QED BY <1>4, <1>12, <2>2, <3>2, <3>3, MoveGoesOn DEF PostCancel
  <2> QED BY <2>1, <2>2
<1>13. CASE Drain(c)
  <2>1. /\ call[c].pc = "drain" /\ results[c] # <<>>
        /\ results' = [results EXCEPT ![c] = Tail(@)]
        /\ UNCHANGED <<mode, turn, worker, token, intr>>
    BY <1>13 DEF Drain
  <2>2. \A d \in Calls : WorkerOver(d) => WorkerOver(d)' BY <2>1 DEF WorkerOver
  <2>3. /\ results' \in [Calls -> Seq(Terminal \cup {"chunk"})] /\ TerminalLast'
        /\ \A d \in Calls : results[d] = <<>> => results'[d] = <<>>
        /\ Head(results[c]) \in Terminal \cup {"chunk"}
        /\ Head(results[c]) \in Terminal => WorkerOver(c) /\ results'[c] = <<>>
    BY <2>1, <2>2, TakeKeeps
  <2>4. CASE Head(results[c]) = "chunk"
    <3>1. UNCHANGED <<call, handle>> BY <1>13, <2>4 DEF Drain
    <3>2. TypeOK' BY <1>1, <2>1, <2>3, <3>1 DEF TypeOK
    <3>3. call[c].result = "none" /\ call[c].why # "none"
      BY <2>1 DEF CallInv, CallsInOrder, ReasonKnown
    <3>4. CallerGoesOn(c) BY <2>1, <2>3, <3>1, <3>2, <3>3 DEF CallerGoesOn
    <3> QED BY <3>4, GoesOnKeeps
  <2>5. CASE Head(results[c]) # "chunk"
    <3>1. handle' = [handle EXCEPT ![c].boundary = "closed"] /\ Finish(c, call[c].why)
      BY <1>13, <2>5 DEF Drain
    <3>2. call[c].why \in Outcomes BY <1>2 DEF CallType, Outcomes
    <3>3. WorkerOver(c) /\ results'[c] = <<>> BY <2>3, <2>5
    <3> QED BY <2>1, <3>1, <3>2, <3>3, FinishEnds
  <2> QED BY <2>4, <2>5
<1>14. CASE CleanupTimeout(c) BY <1>14, FinishEnds DEF CleanupTimeout, Outcomes
<1> QED BY <1>5, <1>6, <1>7, <1>8, <1>9, <1>10, <1>11, <1>12, <1>13, <1>14 DEF Caller

-----------------------------------------------------------------------------
(* The turn. *)

\* A call begins: the one before it is answered, or is the view_image the broker
\* abandoned.
LEMMA BeginKeeps ==
  ASSUME CallInv, NEW c \in Calls, NEW k \in AllKinds, NextCall(c, k) \/ AbandonVision(c, k)
  PROVE  CallInv'
<1>1. TypeOK BY DEF CallInv
<1>2. call[c] \in CallType /\ handle[c] \in HandleType BY <1>1, Ranges
<1>3. Begin(c, k) BY DEF NextCall, AbandonVision
<1>4. /\ turn.end = "none" /\ turn.at = c - 1 /\ c > turn.at
      /\ intr.pc = "none" \/ mode = "tui"
      /\ turn' = [turn EXCEPT !.at = c]
      /\ UNCHANGED <<mode, worker, results, token, intr>>
  <2>1. c \in Nat BY <1>1, Ranges
  <2> QED BY <1>3, <2>1 DEF Begin
<1>5. call[c].pc = "unborn" /\ call[c].result = "none" /\ handle[c].boundary # "closed"
      /\ worker[c].pc = "none"
  BY <1>4 DEF CallInv, CallsInOrder
<1>6. turn' \in [at : 0 .. MaxCalls,
                 end : {"none", "completed", "cancelled", "failed", "aborted"}]
      /\ turn'.at = c /\ turn'.end = "none"
  <2>1. c \in 0 .. MaxCalls BY ProviderAssumption DEF Calls
  <2>2. turn \in [at : 0 .. MaxCalls,
                 end : {"none", "completed", "cancelled", "failed", "aborted"}]
    BY <1>1 DEF TypeOK
  <2> QED BY <1>4, <2>1, <2>2
<1>7. call' \in [Calls -> CallType]
  <2>1. call' = [call EXCEPT ![c] = [@ EXCEPT !.pc = "spawn", !.kind = k]]
    BY <1>3 DEF Begin
  <2>2. "spawn" \in CallAt BY DEF CallAt
  <2> QED BY <1>1, <1>2, <2>1, <2>2, CallRecord, Updates
<1>8. /\ call'[c].pc = "spawn" /\ call'[c].result = "none" /\ call'[c].kind = k
      /\ \A d \in Calls : d # c => call'[d] = call[d]
  BY <1>1, <1>2, <1>3, <1>5 DEF Begin, TypeOK, CallType
<1>9. /\ handle' \in [Calls -> HandleType]
      /\ handle'[c].registered /\ handle'[c].boundary # "closed"
      /\ \A d \in Calls : d # c => handle'[d] = handle[d]
  <2> DEFINE q == k \in Async \ Streams
             v == k \notin Streams
  <2>1. handle' = [handle EXCEPT ![c] =
                     [@ EXCEPT !.registered = TRUE, !.requester = q, !.collector = v]]
    BY <1>3 DEF Begin
  <2> q \in BOOLEAN /\ v \in BOOLEAN OBVIOUS
  <2> HIDE DEF q, v
  <2>2. handle' \in [Calls -> HandleType] BY <1>1, <1>2, <2>1, HandleRecord, Updates
  <2>3. /\ handle'[c].registered /\ handle'[c].boundary = handle[c].boundary
        /\ \A d \in Calls : d # c => handle'[d] = handle[d]
    BY <1>1, <1>2, <2>1 DEF TypeOK, HandleType
  <2> QED BY <1>5, <2>2, <2>3
<1>10. TypeOK' BY <1>1, <1>4, <1>6, <1>7, <1>9 DEF TypeOK
<1>11. \A d \in Calls : WorkerOver(d)' = WorkerOver(d) BY <1>4 DEF WorkerOver
<1>12. \A d \in Calls : d <= turn'.at => d = c \/ d <= turn.at
  BY <1>1, <1>4, <1>6, Ranges
<1>13. ClosedMeansFinished' BY <1>4, <1>9, <1>11 DEF CallInv, ClosedMeansFinished
<1>14. NoHiddenWorker' BY <1>6 DEF NoHiddenWorker
<1>15. CallsInOrder'
  <2> SUFFICES ASSUME NEW d \in Calls
               PROVE  /\ d > turn'.at => call'[d].pc = "unborn"
                      /\ call'[d].pc \in {"unborn", "spawn"} =>
                            worker'[d].pc = "none" /\ handle'[d].boundary # "closed"
                      /\ call'[d].result # "none" => call'[d].pc = "done"
                      /\ d <= turn'.at => handle'[d].registered
    BY DEF CallsInOrder
  <2>1. CASE d = c BY <1>1, <1>4, <1>5, <1>6, <1>8, <1>9, <2>1, Ranges
  <2>2. CASE d # c
    <3>1. d > turn'.at => d > turn.at BY <1>1, <1>4, <1>6, Ranges
    <3>2. d <= turn'.at => d <= turn.at BY <1>12, <2>2
    <3> QED BY <1>4, <1>8, <1>9, <2>2, <3>1, <3>2 DEF CallInv, CallsInOrder
  <2> QED BY <2>1, <2>2
<1>16. TerminalLast' BY <1>4, <1>11, QueueKept DEF CallInv
<1>17. AnsweredOver' BY <1>8, <1>11 DEF CallInv, AnsweredOver
<1>18. EarlierAnswered'
  <2> SUFFICES ASSUME NEW d \in 1 .. turn.at, call[d].kind # "vision"
               PROVE  call[d].result \in {"returned", "timeout", "error"}
    <3>1. \A d \in 1 .. turn'.at - 1 : d \in 1 .. turn.at /\ d \in Calls /\ d # c
      BY <1>1, <1>4, <1>6, Ranges
    <3> QED BY <1>8, <3>1 DEF EarlierAnswered
  <2>1. CASE d \in 1 .. turn.at - 1 BY <2>1 DEF CallInv, EarlierAnswered
  <2>2. CASE d = turn.at
    <3>1. c > 1 /\ d = c - 1 BY <1>1, <1>4, <2>2, Ranges
    <3> QED BY <3>1 DEF NextCall, AbandonVision
  <2> QED BY <1>1, <2>1, <2>2, Ranges
<1>19. ReasonKnown' BY <1>8 DEF CallInv, ReasonKnown
<1>20. InterruptCollects' BY <1>4 DEF CallInv, InterruptCollects
<1>21. CallerRecords' BY <1>4, <1>8, <1>9 DEF CallInv, CallerRecords
<1>22. EndedStopped' BY <1>6 DEF EndedStopped
<1> QED BY <1>10, <1>13, <1>14, <1>15, <1>16, <1>17, <1>18, <1>19, <1>20, <1>21, <1>22
        DEF CallInv

\* A step that only ends the turn, when no caller and no thread of a model call is left.
LEMMA TurnEnds ==
  ASSUME CallInv, NEW how \in {"aborted", "cancelled", "completed", "failed"},
         turn' = [turn EXCEPT !.end = how],
         UNCHANGED <<mode, call, handle, worker, results, token, intr>>,
         \A d \in 1 .. turn.at : Stopped(d),
         how # "aborted" => \A d \in 1 .. turn.at :
                               call[d].kind # "vision" /\ handle[d].collector => WorkerOver(d)
  PROVE  CallInv'
<1>1. TypeOK BY DEF CallInv
<1>2. /\ turn' \in [at : 0 .. MaxCalls,
                    end : {"none", "completed", "cancelled", "failed", "aborted"}]
      /\ turn'.at = turn.at /\ turn'.end = how
  BY <1>1 DEF TypeOK
<1>3. TypeOK' BY <1>1, <1>2 DEF TypeOK
<1>4. NoHiddenWorker' BY <1>2 DEF NoHiddenWorker, WorkerOver
<1>5. EndedStopped' BY <1>2 DEF EndedStopped, Stopped
<1>6. ClosedMeansFinished' /\ TerminalLast' /\ AnsweredOver'
  BY DEF CallInv, ClosedMeansFinished, TerminalLast, AnsweredOver, WorkerOver
<1>7. CallsInOrder' /\ EarlierAnswered' BY <1>2 DEF CallInv, CallsInOrder, EarlierAnswered
<1>8. ReasonKnown' /\ CallerRecords' BY DEF CallInv, ReasonKnown, CallerRecords
<1>9. InterruptCollects' BY <1>2 DEF CallInv, InterruptCollects, Stopped, WorkerOver
<1> QED BY <1>3, <1>4, <1>5, <1>6, <1>7, <1>8, <1>9 DEF CallInv

\* A turn that ends by itself has its last call answered.
LEMMA EndTurnKeeps ==
  ASSUME CallInv, NEW how \in {"aborted", "cancelled", "completed", "failed"}, EndTurn(how)
  PROVE  CallInv'
<1>1. TypeOK BY DEF CallInv
<1>2. /\ turn.at \in Calls /\ call[turn.at].result # "none" /\ call[turn.at].pc = "done"
      /\ turn' = [turn EXCEPT !.end = how]
      /\ UNCHANGED <<mode, call, handle, worker, results, token, intr>>
  BY DEF EndTurn, Answered, CallInv, CallsInOrder
<1>3. ASSUME NEW d \in 1 .. turn.at, call[d].kind # "vision"
      PROVE  call[d].pc = "done" /\ (how # "aborted" => WorkerOver(d))
  <2>1. CASE d = turn.at
    <3>1. how # "aborted" => call[d].result # "not_closed" BY <2>1 DEF EndTurn
    <3>2. call[d].result \in Outcomes BY <1>1, <1>2, <2>1, Ranges DEF CallType
    <3> QED BY <1>2, <2>1, <3>1, <3>2 DEF CallInv, AnsweredOver, Outcomes
  <2>2. CASE d \in 1 .. turn.at - 1
    <3>1. d \in Calls BY <1>1, Ranges
    <3>2. call[d].result \in {"returned", "timeout", "error"}
      BY <1>3, <2>2 DEF CallInv, EarlierAnswered
    <3> QED BY <3>1, <3>2 DEF CallInv, CallsInOrder, AnsweredOver
  <2> QED BY <1>1, <2>1, <2>2, Ranges
<1>4. \A d \in 1 .. turn.at : Stopped(d) BY <1>3 DEF Stopped
<1> QED BY <1>2, <1>3, <1>4, TurnEnds

-----------------------------------------------------------------------------
(* The interrupt. *)

\* A step of the interrupt that leaves calls, boundaries and queues alone: it needs a
\* typed interrupt that still knows what it has to collect.
LEMMA QuietKeeps ==
  ASSUME CallInv, UNCHANGED <<mode, turn, call, results>>,
         worker' \in [Calls -> WorkerType],
         \A d \in Calls : worker'[d].pc = worker[d].pc,
         handle' \in [Calls -> HandleType],
         \A d \in Calls : /\ handle'[d].registered = handle[d].registered
                          /\ handle'[d].collector = handle[d].collector
                          /\ handle'[d].boundary = handle[d].boundary,
         token' \in BOOLEAN,
         intr' \in [pc : IntrAt, todo : SUBSET Calls, now : 0 .. MaxCalls],
         InterruptCollects'
  PROVE  CallInv'
<1>1. TypeOK BY DEF CallInv
<1>2. TypeOK' BY <1>1 DEF TypeOK
<1>3. \A d \in Calls : WorkerOver(d)' = WorkerOver(d) BY DEF WorkerOver
<1>4. \A d \in 1 .. turn.at : d \in Calls BY <1>1, Ranges
<1>5. ClosedMeansFinished' BY <1>3 DEF CallInv, ClosedMeansFinished
<1>6. NoHiddenWorker' BY <1>3, <1>4 DEF CallInv, NoHiddenWorker
<1>7. CallsInOrder' BY DEF CallInv, CallsInOrder
<1>8. TerminalLast' BY <1>3, QueueKept DEF CallInv
<1>9. AnsweredOver' BY <1>3 DEF CallInv, AnsweredOver
<1>10. EarlierAnswered' /\ ReasonKnown' /\ CallerRecords' /\ EndedStopped'
  BY DEF CallInv, EarlierAnswered, ReasonKnown, CallerRecords, EndedStopped, Stopped
<1> QED BY <1>2, <1>5, <1>6, <1>7, <1>8, <1>9, <1>10 DEF CallInv

\* The fields of the interrupt, and typed updates of them.
LEMMA IntrRecord ==
  ASSUME TypeOK
  PROVE  /\ intr.pc \in IntrAt /\ intr.todo \subseteq Calls /\ intr.now \in 0 .. MaxCalls
         /\ \A p \in IntrAt :
              /\ [intr EXCEPT !.pc = p] \in [pc : IntrAt, todo : SUBSET Calls, now : 0 .. MaxCalls]
              /\ \A S \in SUBSET Calls :
                   /\ [intr EXCEPT !.pc = p, !.todo = S]
                         \in [pc : IntrAt, todo : SUBSET Calls, now : 0 .. MaxCalls]
                   /\ \A d \in Calls : [intr EXCEPT !.now = d, !.todo = S, !.pc = p]
                         \in [pc : IntrAt, todo : SUBSET Calls, now : 0 .. MaxCalls]
<1>1. intr \in [pc : IntrAt, todo : SUBSET Calls, now : 0 .. MaxCalls] BY DEF TypeOK
<1>2. \A d \in Calls : d \in 0 .. MaxCalls BY ProviderAssumption DEF Calls
<1> QED BY <1>1, <1>2

\* The interrupt arrives: in the plain view the caller of a model call is unwound.
LEMMA InterruptKeeps ==
  ASSUME CallInv, Interrupt
  PROVE  CallInv'
<1>1. TypeOK BY DEF CallInv
<1>2. /\ intr.pc = "none" /\ turn.end = "none"
      /\ UNCHANGED <<mode, turn, handle, worker, results, token>>
      /\ intr' = [intr EXCEPT !.pc = "token", !.todo = Registered]
  BY DEF Interrupt
<1>3. /\ intr' \in [pc : IntrAt, todo : SUBSET Calls, now : 0 .. MaxCalls]
      /\ intr'.pc = "token"
  <2>1. "token" \in IntrAt /\ Registered \in SUBSET Calls BY DEF IntrAt, Registered
  <2>2. intr \in [pc : IntrAt, todo : SUBSET Calls, now : 0 .. MaxCalls] BY <1>1 DEF TypeOK
  <2>3. intr'.pc = "token" BY <1>2, <2>2
  <2> QED BY <1>1, <1>2, <2>1, <2>3, IntrRecord
<1>4. \A d \in 1 .. turn.at : d \in Calls BY <1>1, Ranges
<1>5. /\ call' \in [Calls -> CallType]
      /\ \A d \in Calls :
           /\ call'[d].result = call[d].result /\ call'[d].kind = call[d].kind
           /\ \/ call'[d].pc = call[d].pc
              \/ /\ call'[d].pc = "unwound" /\ call[d].result = "none"
                 /\ mode = "plain" /\ d = turn.at
           /\ call'[d].why = call[d].why
      /\ mode = "plain" => \A d \in 1 .. turn.at : Stopped(d)'
  <2>1. CASE mode = "plain" /\ ModelCallInFlight
    <3>1. call' = [call EXCEPT ![turn.at].pc = "unwound"] /\ turn.at \in Calls
      BY <1>1, <2>1, Ranges DEF Interrupt, Goto, ModelCallInFlight, TypeOK, Calls
    <3>2. call' \in [Calls -> CallType]
      <4>1. "unwound" \in CallAt /\ call[turn.at] \in CallType BY <1>1, <3>1, Ranges DEF CallAt
      <4> QED BY <1>1, <3>1, <4>1, CallRecord, Updates
    <3>3. \A d \in Calls :
             /\ call'[d].result = call[d].result /\ call'[d].kind = call[d].kind
             /\ call'[d].why = call[d].why
             /\ call'[d].pc = IF d = turn.at THEN "unwound" ELSE call[d].pc
      BY <1>1, <3>1 DEF TypeOK, CallType
    <3>4. ASSUME NEW d \in 1 .. turn.at PROVE Stopped(d)'
      <4>1. CASE d = turn.at BY <1>4, <3>3, <4>1 DEF Stopped
      <4>2. CASE d # turn.at
        <5>1. d \in 1 .. turn.at - 1 /\ d \in Calls BY <1>1, <4>2, Ranges
        <5> QED BY <3>3, <5>1, <4>2 DEF CallInv, EarlierAnswered, CallsInOrder, Stopped
      <4> QED BY <4>1, <4>2
    <3> QED BY <2>1, <3>2, <3>3, <3>4 DEF ModelCallInFlight
  <2>2. CASE ~(mode = "plain" /\ ModelCallInFlight)
    <3>1. call' = call BY <2>2 DEF Interrupt
    <3>2. ASSUME mode = "plain", NEW d \in 1 .. turn.at PROVE Stopped(d)'
      <4>1. CASE d = turn.at
        <5>1. turn.at # 0 BY <1>1, <4>1, Ranges
        <5> QED BY <1>4, <2>2, <3>1, <3>2, <4>1, <5>1
                DEF ModelCallInFlight, CallInv, CallsInOrder, Stopped
      <4>2. CASE d # turn.at
        <5>1. d \in 1 .. turn.at - 1 /\ d \in Calls BY <1>1, <4>2, Ranges
        <5> QED BY <3>1, <5>1 DEF CallInv, EarlierAnswered, CallsInOrder, Stopped
      <4> QED BY <4>1, <4>2
    <3> QED BY <1>1, <3>1, <3>2 DEF TypeOK
  <2> QED BY <2>1, <2>2
<1>6. TypeOK' BY <1>1, <1>2, <1>3, <1>5 DEF TypeOK
<1>7. ClosedMeansFinished' /\ TerminalLast'
  BY <1>2 DEF CallInv, ClosedMeansFinished, TerminalLast, WorkerOver
<1>8. NoHiddenWorker' /\ EndedStopped' BY <1>2 DEF NoHiddenWorker, EndedStopped
<1>9. CallsInOrder'
  <2>1. \A d \in Calls : d > turn.at => d # turn.at BY <1>1, Ranges
  <2> QED BY <1>2, <1>5, <2>1 DEF CallInv, CallsInOrder
<1>10. AnsweredOver' BY <1>2, <1>5 DEF CallInv, AnsweredOver, WorkerOver
<1>11. EarlierAnswered'
  BY <1>1, <1>2, <1>5, Ranges DEF CallInv, EarlierAnswered
<1>12. ReasonKnown' BY <1>5 DEF CallInv, ReasonKnown
<1>13. InterruptCollects' BY <1>2, <1>3, <1>5 DEF CallInv, InterruptCollects
<1>14. CallerRecords' BY <1>2, <1>5 DEF CallInv, CallerRecords
<1> QED BY <1>6, <1>7, <1>8, <1>9, <1>10, <1>11, <1>12, <1>13, <1>14 DEF CallInv

\* The token, and the flags of the handles.
LEMMA CancelKeeps ==
  ASSUME CallInv, SetToken \/ CancelHandle
  PROVE  CallInv'
<1>1. TypeOK BY DEF CallInv
<1>2. worker' \in [Calls -> WorkerType] /\ UNCHANGED <<mode, turn, call, results, worker>>
  BY <1>1 DEF SetToken, CancelHandle, TypeOK
<1>3. intr \in [pc : IntrAt, todo : SUBSET Calls, now : 0 .. MaxCalls] BY <1>1 DEF TypeOK
<1>4. CASE SetToken
  <2>1. /\ intr.pc = "token" /\ intr' = [intr EXCEPT !.pc = "cancel"]
        /\ handle' = handle /\ token' \in BOOLEAN
    BY <1>4 DEF SetToken
  <2>2. "cancel" \in IntrAt /\ intr'.pc = "cancel" BY <1>3, <2>1 DEF IntrAt
  <2>3. InterruptCollects'
    BY <1>2, <2>1, <2>2 DEF CallInv, InterruptCollects, Stopped
  <2>4. intr' \in [pc : IntrAt, todo : SUBSET Calls, now : 0 .. MaxCalls]
    BY <1>1, <2>1, <2>2, IntrRecord
  <2>5. handle' \in [Calls -> HandleType] BY <1>1, <2>1 DEF TypeOK
  <2> QED BY <1>2, <2>1, <2>3, <2>4, <2>5, QuietKeeps
<1>5. CASE CancelHandle
  <2>1. PICK c \in Calls : /\ handle' = [handle EXCEPT ![c].flag = TRUE]
                           /\ intr' = [intr EXCEPT !.now = c, !.todo = @ \ {c},
                                         !.pc = IF handle[c].requester /\ LooksAlive(c)
                                                  THEN "post" ELSE "cancel"]
    BY <1>5 DEF CancelHandle
  <2>2. PICK p \in {"post", "cancel"} :
           intr' = [intr EXCEPT !.now = c, !.todo = @ \ {c}, !.pc = p]
    BY <2>1
  <2>3. p \in IntrAt /\ intr.todo \ {c} \in SUBSET Calls BY <1>3, <2>2 DEF IntrAt
  <2>4. intr' \in [pc : IntrAt, todo : SUBSET Calls, now : 0 .. MaxCalls]
    BY <1>1, <2>2, <2>3, IntrRecord
  <2>5. intr'.pc = p /\ intr'.now = c BY <1>3, <2>2
  <2>6. /\ handle' \in [Calls -> HandleType]
        /\ \A d \in Calls : /\ handle'[d].registered = handle[d].registered
                            /\ handle'[d].collector = handle[d].collector
                            /\ handle'[d].boundary = handle[d].boundary
    <3>1. handle[c] \in HandleType BY <1>1, Ranges
    <3>2. handle' \in [Calls -> HandleType] BY <1>1, <2>1, <3>1, HandleRecord, Updates
    <3> QED BY <1>1, <2>1, <3>1, <3>2 DEF TypeOK, HandleType
  <2>7. intr.pc = "cancel" /\ token' \in BOOLEAN BY <1>1, <1>5 DEF CancelHandle, TypeOK
  <2>8. InterruptCollects'
    BY <1>2, <2>5, <2>7 DEF CallInv, InterruptCollects, Stopped
  <2> QED BY <1>2, <2>4, <2>6, <2>7, <2>8, QuietKeeps
<1> QED BY <1>4, <1>5

\* A cancel is posted to a loop, or meets a loop that is closed.
LEMMA PostKeeps ==
  ASSUME CallInv, IntrPost
  PROVE  CallInv'
<1>1. TypeOK BY DEF CallInv
<1>2. UNCHANGED <<mode, turn, call, handle, results, token>> /\ intr.pc \in {"post", "collect_post"}
  BY DEF IntrPost
<1>3. intr \in [pc : IntrAt, todo : SUBSET Calls, now : 0 .. MaxCalls] BY <1>1 DEF TypeOK
<1>4. intr.now \in Calls BY <1>2 DEF CallInv, InterruptCollects
<1>5. PICK p \in {"raised", "cancel", "drain"} :
         /\ intr' = [intr EXCEPT !.pc = p]
         /\ p = "drain" => intr.pc = "collect_post"
         /\ p = "cancel" => intr.pc = "post"
  <2>1. CASE worker[intr.now].pc = "closed" BY <2>1 DEF IntrPost
  <2>2. CASE worker[intr.now].pc # "closed" /\ intr.pc = "post" BY <2>2 DEF IntrPost
  <2>3. CASE worker[intr.now].pc # "closed" /\ intr.pc = "collect_post"
    BY <2>3 DEF IntrPost
  <2> QED BY <1>2, <2>1, <2>2, <2>3
<1>6. p \in IntrAt /\ intr'.pc = p /\ intr'.now = intr.now /\ intr'.todo = intr.todo
  <2>1. p \in IntrAt BY DEF IntrAt
  <2>2. intr' = [intr EXCEPT !.pc = p] BY <1>5
  <2> QED BY <1>3, <2>1, <2>2
<1>7. /\ worker' \in [Calls -> WorkerType]
      /\ \A d \in Calls : worker'[d].pc = worker[d].pc
  <2>1. worker[intr.now] \in WorkerType BY <1>1, <1>4, Ranges
  <2>2. CASE worker' = worker BY <1>1, <2>2 DEF TypeOK
  <2>3. CASE worker' = [worker EXCEPT ![intr.now].cancel = TRUE]
    <3>1. [worker[intr.now] EXCEPT !.cancel = TRUE] \in WorkerType BY <2>1 DEF WorkerType
    <3>2. worker' \in [Calls -> WorkerType] BY <1>1, <1>4, <2>3, <3>1, Updates
    <3>3. \A d \in Calls : worker'[d].pc = worker[d].pc
      BY <1>1, <1>4, <2>1, <2>3 DEF TypeOK, WorkerType
    <3> QED BY <3>2, <3>3
  <2> QED BY <2>2, <2>3 DEF IntrPost, Post
<1>8. intr' \in [pc : IntrAt, todo : SUBSET Calls, now : 0 .. MaxCalls]
  BY <1>1, <1>5, <1>6, IntrRecord
<1>9. \A d \in Calls : WorkerOver(d)' = WorkerOver(d) BY <1>7 DEF WorkerOver
<1>10. \A d \in 1 .. turn.at : d \in Calls BY <1>1, Ranges
<1>11. InterruptCollects'
  BY <1>2, <1>4, <1>5, <1>6, <1>9, <1>10 DEF CallInv, InterruptCollects, Stopped
<1>12. handle' \in [Calls -> HandleType] /\ token' \in BOOLEAN BY <1>1, <1>2 DEF TypeOK
<1> QED BY <1>2, <1>7, <1>8, <1>11, <1>12, QuietKeeps

\* The plain view makes its list of boundaries and takes the next one from it.
LEMMA ListKeeps ==
  ASSUME CallInv, CancelDone \/ CollectHandle
  PROVE  CallInv'
<1>1. TypeOK BY DEF CallInv
<1>2. UNCHANGED <<mode, turn, call, handle, worker, results, token>>
  BY DEF CancelDone, CollectHandle
<1>3. intr \in [pc : IntrAt, todo : SUBSET Calls, now : 0 .. MaxCalls] BY <1>1 DEF TypeOK
<1>4. /\ handle' \in [Calls -> HandleType] /\ worker' \in [Calls -> WorkerType]
      /\ token' \in BOOLEAN
  BY <1>1, <1>2 DEF TypeOK
<1>5. \A d \in 1 .. turn.at : d \in Calls /\ handle[d].registered
  BY <1>1, Ranges DEF CallInv, CallsInOrder
<1>6. {"done", "collect", "collect_post", "drain"} \subseteq IntrAt BY DEF IntrAt
<1>7. CASE CancelDone
  <2>1. intr.pc = "cancel" BY <1>7 DEF CancelDone
  <2>2. CASE mode = "tui"
    <3>1. intr' = [intr EXCEPT !.pc = "done"] BY <1>7, <2>2 DEF CancelDone
    <3>2. intr'.pc = "done" BY <1>3, <3>1
    <3>3. InterruptCollects'
      BY <1>2, <2>2, <3>2 DEF CallInv, InterruptCollects
    <3>4. intr' \in [pc : IntrAt, todo : SUBSET Calls, now : 0 .. MaxCalls]
      BY <1>1, <1>6, <3>1, IntrRecord
    <3> QED BY <1>2, <1>4, <3>3, <3>4, QuietKeeps
  <2>3. CASE mode # "tui"
    <3> DEFINE S == {c \in Registered : handle[c].collector}
    <3>1. intr' = [intr EXCEPT !.pc = "collect", !.todo = S] BY <1>7, <2>3 DEF CancelDone
    <3>2. S \in SUBSET Calls BY DEF Registered
    <3>3. intr'.pc = "collect" /\ intr'.todo = S BY <1>3, <3>1
    <3>4. \A d \in 1 .. turn.at : handle[d].collector => d \in S BY <1>5 DEF Registered
    <3> HIDE DEF S
    <3>5. InterruptCollects'
      BY <1>2, <1>5, <2>1, <2>3, <3>3, <3>4 DEF CallInv, InterruptCollects, Stopped
    <3>6. intr' \in [pc : IntrAt, todo : SUBSET Calls, now : 0 .. MaxCalls]
      BY <1>1, <1>6, <3>1, <3>2, IntrRecord
    <3> QED BY <1>2, <1>4, <3>5, <3>6, QuietKeeps
  <2> QED BY <2>2, <2>3
<1>8. CASE CollectHandle
  <2>1. intr.pc = "collect" /\ mode # "tui"
    BY <1>8 DEF CollectHandle, CallInv, InterruptCollects
  <2>2. CASE intr.todo = {} /\ intr' = [intr EXCEPT !.pc = "done"]
    <3>1. intr'.pc = "done" BY <1>3, <2>2
    <3>2. InterruptCollects'
      BY <1>2, <2>1, <2>2, <3>1 DEF CallInv, InterruptCollects, Stopped, WorkerOver
    <3>3. intr' \in [pc : IntrAt, todo : SUBSET Calls, now : 0 .. MaxCalls]
      BY <1>1, <1>6, <2>2, IntrRecord
    <3> QED BY <1>2, <1>4, <3>2, <3>3, QuietKeeps
  <2>3. CASE \E c \in Calls :
                intr' = [intr EXCEPT !.now = c, !.todo = @ \ {c},
                           !.pc = IF call[c].kind \in Async /\ LooksAlive(c)
                                    THEN "collect_post" ELSE "drain"]
    <3>1. PICK c \in Calls, p \in {"collect_post", "drain"} :
             intr' = [intr EXCEPT !.now = c, !.todo = @ \ {c}, !.pc = p]
      BY <2>3
    <3>2. intr'.pc = p /\ intr'.now = c /\ intr'.todo = intr.todo \ {c} BY <1>3, <3>1
    <3>3. InterruptCollects'
      BY <1>2, <2>1, <3>2 DEF CallInv, InterruptCollects, Stopped, WorkerOver
    <3>4. intr.todo \ {c} \in SUBSET Calls BY <1>3
    <3>5. intr' \in [pc : IntrAt, todo : SUBSET Calls, now : 0 .. MaxCalls]
      BY <1>1, <1>6, <3>1, <3>4, IntrRecord
    <3> QED BY <1>2, <1>4, <3>3, <3>5, QuietKeeps
  <2> QED BY <1>8, <2>2, <2>3 DEF CollectHandle
<1> QED BY <1>7, <1>8

\* The plain view collects: a boundary it closes has a thread that is over and an empty
\* queue.
LEMMA CollectedKeeps ==
  ASSUME CallInv, mode # "tui", NEW c \in Calls,
         UNCHANGED <<mode, turn, call, worker, token>>,
         results' \in [Calls -> Seq(Terminal \cup {"chunk"})], TerminalLast',
         \A d \in Calls : results[d] = <<>> => results'[d] = <<>>,
         \/ handle' = handle
         \/ \E b \in {"closed", "not_closed"} :
               /\ handle' = [handle EXCEPT ![c].boundary = b]
               /\ b = "closed" => WorkerOver(c) /\ results'[c] = <<>>,
         intr' \in [pc : IntrAt, todo : SUBSET Calls, now : 0 .. MaxCalls],
         (\A d \in Calls : handle'[d].collector = handle[d].collector) => InterruptCollects'
  PROVE  CallInv'
<1>1. TypeOK BY DEF CallInv
<1>2. handle[c] \in HandleType BY <1>1, Ranges
<1>3. /\ handle' \in [Calls -> HandleType]
      /\ \A d \in Calls :
           /\ handle'[d].registered = handle[d].registered
           /\ handle'[d].collector = handle[d].collector
           /\ handle'[d].boundary = "closed" =>
                handle[d].boundary = "closed" \/ (WorkerOver(d) /\ results'[d] = <<>>)
  <2>1. CASE handle' = handle BY <1>1, <2>1 DEF TypeOK
  <2>2. CASE \E b \in {"closed", "not_closed"} :
               /\ handle' = [handle EXCEPT ![c].boundary = b]
               /\ b = "closed" => WorkerOver(c) /\ results'[c] = <<>>
    <3>1. PICK b \in {"closed", "not_closed"} :
             /\ handle' = [handle EXCEPT ![c].boundary = b]
             /\ b = "closed" => WorkerOver(c) /\ results'[c] = <<>>
      BY <2>2
    <3>2. handle' \in [Calls -> HandleType] BY <1>1, <1>2, <3>1, HandleRecord, Updates
    <3>3. \A d \in Calls :
             /\ handle'[d].registered = handle[d].registered
             /\ handle'[d].collector = handle[d].collector
             /\ handle'[d].boundary = IF d = c THEN b ELSE handle[d].boundary
      BY <1>1, <1>2, <3>1 DEF TypeOK, HandleType
    <3> QED BY <3>1, <3>2, <3>3
  <2> QED BY <2>1, <2>2
<1>4. TypeOK' BY <1>1, <1>3 DEF TypeOK
<1>5. \A d \in Calls : WorkerOver(d)' = WorkerOver(d) BY DEF WorkerOver
<1>6. \A d \in 1 .. turn.at : d \in Calls BY <1>1, Ranges
<1>7. ClosedMeansFinished' BY <1>3, <1>5 DEF CallInv, ClosedMeansFinished
<1>8. NoHiddenWorker' BY <1>3, <1>5, <1>6 DEF CallInv, NoHiddenWorker
<1>9. CallsInOrder'
  <2>1. \A d \in Calls : WorkerOver(d) => worker[d].pc # "none" BY DEF WorkerOver
  <2> QED BY <1>3, <2>1 DEF CallInv, CallsInOrder
<1>10. AnsweredOver' BY <1>5 DEF CallInv, AnsweredOver
<1>11. EarlierAnswered' /\ ReasonKnown' /\ EndedStopped' /\ CallerRecords'
  BY DEF CallInv, EarlierAnswered, ReasonKnown, EndedStopped, CallerRecords, Stopped
<1>12. InterruptCollects' BY <1>3
<1> QED BY <1>4, <1>7, <1>8, <1>9, <1>10, <1>11, <1>12 DEF CallInv

\* A step of the plain view's collection.
LEMMA DrainKeeps ==
  ASSUME CallInv, IntrDrain \/ IntrTimeout
  PROVE  CallInv'
<1>1. TypeOK /\ TerminalLast BY DEF CallInv
<1>2. intr.pc = "drain" /\ UNCHANGED <<mode, turn, call, worker, token>>
  BY DEF IntrDrain, IntrTimeout
<1>3. mode # "tui" /\ intr.now \in Calls BY <1>2 DEF CallInv, InterruptCollects
<1>4. intr \in [pc : IntrAt, todo : SUBSET Calls, now : 0 .. MaxCalls] BY <1>1 DEF TypeOK
<1>5. {"collect", "not_closed"} \subseteq IntrAt BY DEF IntrAt
<1>6. \A d \in Calls : WorkerOver(d)' = WorkerOver(d) BY <1>2 DEF WorkerOver
<1>7. \A d \in 1 .. turn.at : d \in Calls BY <1>1, Ranges
<1>8. CASE IntrTimeout
  <2>1. /\ handle' = [handle EXCEPT ![intr.now].boundary = "not_closed"]
        /\ intr' = [intr EXCEPT !.pc = "not_closed"] /\ results' = results
    BY <1>8 DEF IntrTimeout
  <2>2. intr'.pc = "not_closed" BY <1>4, <2>1
  <2>3. intr' \in [pc : IntrAt, todo : SUBSET Calls, now : 0 .. MaxCalls]
    BY <1>1, <1>5, <2>1, IntrRecord
  <2>4. InterruptCollects' BY <1>2, <1>3, <2>2 DEF CallInv, InterruptCollects, Stopped
  <2>5. results' \in [Calls -> Seq(Terminal \cup {"chunk"})] /\ TerminalLast'
    BY <1>1, <1>6, <2>1, QueueKept DEF TypeOK
  <2> QED BY <1>2, <1>3, <2>1, <2>3, <2>4, <2>5, CollectedKeeps
<1>9. CASE IntrDrain
  <2>1. results[intr.now] # <<>> /\ results' = [results EXCEPT ![intr.now] = Tail(@)]
    BY <1>9 DEF IntrDrain
  <2>2. /\ results' \in [Calls -> Seq(Terminal \cup {"chunk"})] /\ TerminalLast'
        /\ \A d \in Calls : results[d] = <<>> => results'[d] = <<>>
        /\ Head(results[intr.now]) \in Terminal \cup {"chunk"}
        /\ Head(results[intr.now]) \in Terminal =>
              WorkerOver(intr.now) /\ results'[intr.now] = <<>>
    BY <1>3, <1>6, <2>1, TakeKeeps
  <2>3. CASE Head(results[intr.now]) = "chunk"
    <3>1. handle' = handle /\ intr' = intr BY <1>9, <2>3 DEF IntrDrain
    <3>2. InterruptCollects'
      BY <1>2, <3>1 DEF CallInv, InterruptCollects, Stopped, WorkerOver
    <3> QED BY <1>2, <1>3, <1>4, <2>2, <3>1, <3>2, CollectedKeeps
  <2>4. CASE Head(results[intr.now]) # "chunk"
    <3>1. /\ handle' = [handle EXCEPT ![intr.now].boundary = "closed"]
          /\ intr' = [intr EXCEPT !.pc = "collect"]
      BY <1>9, <2>4 DEF IntrDrain
    <3>2. WorkerOver(intr.now) /\ results'[intr.now] = <<>> BY <2>2, <2>4
    <3>3. intr'.pc = "collect" /\ intr'.todo = intr.todo BY <1>4, <3>1
    <3>4. intr' \in [pc : IntrAt, todo : SUBSET Calls, now : 0 .. MaxCalls]
      BY <1>1, <1>5, <3>1, IntrRecord
    <3>5. (\A d \in Calls : handle'[d].collector = handle[d].collector) => InterruptCollects'
      BY <1>2, <1>3, <1>6, <1>7, <3>2, <3>3 DEF CallInv, InterruptCollects, Stopped
    <3> QED BY <1>2, <1>3, <2>2, <3>1, <3>2, <3>4, <3>5, CollectedKeeps
  <2> QED BY <2>3, <2>4
<1> QED BY <1>8, <1>9

\* The plain view's turn is over once its callers are stopped and, unless it aborts, every
\* boundary of its list has been collected.
LEMMA UnwindKeeps ==
  ASSUME CallInv, UnwindTurn
  PROVE  CallInv'
<1>1. /\ mode = "plain" /\ intr.pc \in {"done", "not_closed", "raised"}
      /\ UNCHANGED <<mode, call, handle, worker, results, token, intr>>
  BY DEF UnwindTurn
<1>2. PICK how \in {"cancelled", "aborted"} :
         turn' = [turn EXCEPT !.end = how] /\ (how = "cancelled" => intr.pc = "done")
  BY DEF UnwindTurn
<1>3. \A d \in 1 .. turn.at : Stopped(d) BY <1>1 DEF CallInv, InterruptCollects
<1>4. how # "aborted" => \A d \in 1 .. turn.at :
                            call[d].kind # "vision" /\ handle[d].collector => WorkerOver(d)
  <2> SUFFICES ASSUME intr.pc = "done", NEW d \in 1 .. turn.at, call[d].kind # "vision",
                      handle[d].collector
               PROVE  WorkerOver(d)
    BY <1>2
  <2> QED BY <1>1 DEF CallInv, InterruptCollects
<1> QED BY <1>1, <1>2, <1>3, <1>4, TurnEnds

\* Every step keeps the invariant.
LEMMA StepCallInv == CallInv /\ [Next]_vars => CallInv'
<1> SUFFICES ASSUME CallInv, [Next]_vars PROVE CallInv' OBVIOUS
<1>1. CASE UNCHANGED vars
  BY <1>1 DEF vars, CallInv, TypeOK, ClosedMeansFinished, NoHiddenWorker, CallsInOrder,
     TerminalLast, AnsweredOver, EarlierAnswered, ReasonKnown, InterruptCollects, CallerRecords,
     EndedStopped, Stopped, WorkerOver
<1>2. CASE \E c \in Calls : Worker(c) \/ Caller(c) \/ CallTimeout(c)
  BY <1>2, WorkerKeeps, CallerKeeps
<1>3. CASE TurnStep BY <1>3, BeginKeeps, EndTurnKeeps DEF TurnStep
<1>4. CASE Interrupt BY <1>4, InterruptKeeps
<1>5. CASE Interrupter
  BY <1>5, CancelKeeps, PostKeeps, ListKeeps, DrainKeeps, UnwindKeeps DEF Interrupter
<1> QED BY <1>1, <1>2, <1>3, <1>4, <1>5 DEF Next, Ended

\* The conjunction that makes the safety properties inductive holds in every reachable
\* state.
THEOREM CallInvariance == Spec => []CallInv
BY InitCallInv, StepCallInv, PTL DEF Spec

\* Calls, handles, threads, queues and the interrupt keep their types.
THEOREM CallTypes == Spec => []TypeOK
<1>1. CallInv => TypeOK BY DEF CallInv
<1> QED BY <1>1, CallInvariance, PTL

\* A boundary recorded as closed has a thread that is over and an empty queue.
THEOREM ClosedFinished == Spec => []ClosedMeansFinished
<1>1. CallInv => ClosedMeansFinished BY DEF CallInv
<1> QED BY <1>1, CallInvariance, PTL

\* No thread of a model call is inside the provider once the turn is over.
THEOREM NothingHidden == Spec => []NoHiddenWorker
<1>1. CallInv => NoHiddenWorker BY DEF CallInv
<1> QED BY <1>1, CallInvariance, PTL

\* In the prompt_toolkit view a boundary that was closed stays closed.
THEOREM ClosedStays == Spec => BoundaryStaysClosed
<1>1. ASSUME CallInv, [Next]_vars, NEW c \in Calls, mode = "tui", handle[c].boundary = "closed"
      PROVE  handle'[c].boundary = "closed"
  <2> SUFFICES ASSUME Next, handle'[c] # handle[c] PROVE handle'[c].boundary = "closed"
    BY <1>1 DEF vars
  <2>1. handle \in [Calls -> HandleType] /\ handle[c] \in HandleType
    BY <1>1, Ranges DEF CallInv, TypeOK
  <2>2. call[c].pc = "done" /\ intr.pc # "drain" /\ handle[c].boundary = "closed"
    BY <1>1 DEF CallInv, CallerRecords, InterruptCollects
  <2>3. ASSUME NEW d \in Calls, Caller(d) \/ CallTimeout(d)
        PROVE  handle'[c].boundary = "closed"
    <3>1. call[d].pc # "done"
      BY <2>3 DEF Caller, Spawn, Arm, CheckCancel, Poll, TakeChunk, TakeResult, PostCancel,
         Drain, CleanupTimeout, CallTimeout
    <3>2. d # c BY <2>2, <3>1
    <3> QED BY <2>1, <2>2, <2>3, <3>2
            DEF Caller, Spawn, Arm, CheckCancel, Poll, TakeChunk, TakeResult, PostCancel,
            Drain, CleanupTimeout, CallTimeout, StartCollect
  <2>4. ASSUME NEW d \in Calls, Worker(d) PROVE handle' = handle
    BY <2>4 DEF Worker, WorkerReady, WorkerChunk, WorkerSent, WorkerAnswer, WorkerCancelled,
       WorkerClose
  <2>5. ASSUME NEW d \in Calls, NEW k \in AllKinds, Begin(d, k)
        PROVE  handle'[c].boundary = "closed"
    BY <2>1, <2>2, <2>5 DEF Begin, HandleType
  <2>6. ASSUME Interrupt \/ SetToken \/ IntrPost \/ CancelDone \/ CollectHandle \/ UnwindTurn
        PROVE  handle' = handle
    BY <2>6 DEF Interrupt, SetToken, IntrPost, CancelDone, CollectHandle, UnwindTurn
  <2>7. CASE CancelHandle BY <2>1, <2>2, <2>7 DEF CancelHandle, HandleType
  <2>8. ~IntrDrain /\ ~IntrTimeout BY <2>2 DEF IntrDrain, IntrTimeout
  <2>9. ASSUME NEW how, EndTurn(how) PROVE handle' = handle BY <2>9 DEF EndTurn
  <2>10. CASE TurnStep BY <2>2, <2>5, <2>9, <2>10 DEF TurnStep, NextCall, AbandonVision
  <2>11. CASE Interrupter BY <2>2, <2>6, <2>7, <2>8, <2>11 DEF Interrupter
  <2>12. Ended => handle' = handle BY DEF Ended, vars
  <2> QED BY <2>2, <2>3, <2>4, <2>6, <2>10, <2>11, <2>12 DEF Next
<1>2. CallInv /\ [Next]_vars =>
        [\A c \in Calls : mode = "tui" /\ handle[c].boundary = "closed"
                            => handle'[c].boundary = "closed"]_vars
  BY <1>1
<1> QED BY <1>2, CallInvariance, PTL DEF Spec, BoundaryStaysClosed

\* A task whose cancellation is requested never returns a result.
THEOREM LateIgnored == Spec => LateResultIgnored
<1>1. ASSUME CallInv, [Next]_vars, NEW c \in Calls, call[c].kind \notin Streams,
             call'[c].result = "returned", CancelObserved(c)
      PROVE  call[c].result = "returned"
  <2> SUFFICES ASSUME Next, call'[c].result # call[c].result PROVE FALSE
    BY <1>1 DEF vars
  <2>1. call \in [Calls -> CallType] /\ call[c] \in CallType
    BY <1>1, Ranges DEF CallInv, TypeOK
  <2>2. ASSUME NEW d \in Calls, NEW o, Finish(d, o), o # "returned" PROVE FALSE
    <3>1. CASE d = c BY <1>1, <2>1, <2>2, <3>1 DEF Finish, CallType
    <3>2. CASE d # c BY <2>1, <2>2, <3>2 DEF Finish
    <3> QED BY <3>1, <3>2
  <2>3. ASSUME NEW d \in Calls, NEW p, Goto(d, p) PROVE FALSE
    BY <2>1, <2>3 DEF Goto, CallType
  <2>4. ASSUME NEW d \in Calls, NEW why, StartCollect(d, why) PROVE FALSE
    BY <2>1, <2>4 DEF StartCollect, CallType
  <2>5. ASSUME NEW d \in Calls, TakeResult(d) PROVE FALSE
    <3>1. Finish(d, Verdict(d, Head(results[d]))) BY <2>5 DEF TakeResult
    <3>2. CASE d = c
      <4>1. Verdict(d, Head(results[d])) = "cancelled" BY <1>1, <3>2 DEF Verdict
      <4> QED BY <1>1, <2>1, <3>1, <3>2, <4>1 DEF Finish
    <3>3. CASE d # c BY <2>1, <3>1, <3>3 DEF Finish
    <3> QED BY <3>2, <3>3
  <2>6. call' # call OBVIOUS
  <2>7. ASSUME NEW d \in Calls, Caller(d) \/ CallTimeout(d) PROVE FALSE
    <3>1. call[d].why # "returned" BY <1>1, Ranges DEF CallInv, CallType
    <3> QED
      BY <2>2, <2>3, <2>4, <2>5, <2>6, <2>7, <3>1
         DEF Caller, Spawn, Arm, CheckCancel, Poll, TakeChunk, PostCancel, Drain,
         CleanupTimeout, CallTimeout
  <2>8. ASSUME NEW d \in Calls, Worker(d) PROVE FALSE
    BY <2>6, <2>8 DEF Worker, WorkerReady, WorkerChunk, WorkerSent, WorkerAnswer,
       WorkerCancelled, WorkerClose
  <2>9. ASSUME NEW d \in Calls, NEW k \in AllKinds, Begin(d, k) PROVE FALSE
    BY <2>1, <2>9 DEF Begin, CallType
  <2>10. ~Interrupter /\ ~Ended
    BY <2>6 DEF Interrupter, SetToken, CancelHandle, IntrPost, CancelDone, CollectHandle,
       IntrDrain, IntrTimeout, UnwindTurn, Ended, vars
  <2>11. ~Interrupt
    <3>1. ModelCallInFlight => turn.at \in Calls
      BY <1>1, Ranges DEF ModelCallInFlight, CallInv, TypeOK, Calls
    <3> QED BY <2>3, <2>6, <3>1 DEF Interrupt
  <2>12. ASSUME NEW how, EndTurn(how) PROVE FALSE BY <2>6, <2>12 DEF EndTurn
  <2> QED BY <2>7, <2>8, <2>9, <2>10, <2>11, <2>12 DEF Next, TurnStep, NextCall, AbandonVision
<1>2. CallInv /\ [Next]_vars =>
        [\A c \in Calls : call[c].kind \notin Streams /\ call'[c].result = "returned"
                            /\ CancelObserved(c) => call[c].result = "returned"]_vars
  BY <1>1
<1> QED BY <1>2, CallInvariance, PTL DEF Spec, LateResultIgnored
=============================================================================
