---------------------------- MODULE ReplTurnProofs ----------------------------
(***************************************************************************)
(* TurnInv is an inductive invariant of ReplTurn: lemmas about its         *)
(* records, one lemma per action, and the theorems that follow from it.    *)
(***************************************************************************)
EXTENDS ReplTurnInvariant, TLAPS

\* The fields of a worker's record.
LEMMA WorkerFields ==
  ASSUME NEW r \in Worker
  PROVE  /\ r.pc \in WorkerAt /\ r.left \in 0 .. MaxBatch /\ r.rounds \in 0 .. MaxRounds
         /\ r.result \in Results /\ r.shell \in 0 .. MaxShells
BY DEF Worker

\* A worker's record stays typed when one field gets a typed value.
LEMMA WorkerUpdate ==
  ASSUME NEW r \in Worker
  PROVE  /\ \A v \in WorkerAt : [r EXCEPT !.pc = v] \in Worker
         /\ \A v \in 0 .. MaxBatch : [r EXCEPT !.left = v] \in Worker
         /\ \A v \in 0 .. MaxRounds : [r EXCEPT !.rounds = v] \in Worker
         /\ \A v \in Results : [r EXCEPT !.result = v] \in Worker
         /\ \A v \in 0 .. MaxShells : [r EXCEPT !.shell = v] \in Worker
BY DEF Worker

\* The UI thread's record: its fields, and typed updates of them.
LEMMA UiUpdate ==
  ASSUME NEW u \in UiThread
  PROVE  /\ u.pc \in UiAt /\ u.text \in Texts
         /\ u.token \in 0 .. MaxTurns /\ u.shells \subseteq Shells
         /\ \A v \in UiAt : [u EXCEPT !.pc = v] \in UiThread
         /\ \A v \in Texts : [u EXCEPT !.text = v] \in UiThread
         /\ \A v \in 0 .. MaxTurns : [u EXCEPT !.token = v] \in UiThread
         /\ \A v \in SUBSET Shells : [u EXCEPT !.shells = v] \in UiThread
         /\ AtLoop \in UiThread
BY BoundsAssumption DEF UiThread, AtLoop, UiAt, Texts

\* The controller's fields, and typed updates of them.
LEMMA ControllerUpdate ==
  ASSUME NEW c \in Controller
  PROVE  /\ c.executing \in BOOLEAN /\ c.exit \in {"ok", "failed", "interrupted"}
         /\ c.state \in {"idle", "running_turn", "cancelling", "terminalizing"}
         /\ \A v \in {"idle", "running_turn", "cancelling", "terminalizing"} :
              [c EXCEPT !.state = v] \in Controller
         /\ \A v \in BOOLEAN : [c EXCEPT !.executing = v] \in Controller
         /\ \A v \in {"ok", "failed", "interrupted"} :
              [c EXCEPT !.exit = v] \in Controller
BY DEF Controller

\* The fields of the approval, and typed updates of them.
LEMMA QuestionUpdate ==
  ASSUME NEW q \in Question
  PROVE  /\ q.pending \in BOOLEAN /\ q.prompt \in BOOLEAN /\ q.decision \in Decision
         /\ \A v \in BOOLEAN : /\ [q EXCEPT !.pending = v] \in Question
                             /\ [q EXCEPT !.prompt = v] \in Question
         /\ \A v \in Decision : [q EXCEPT !.decision = v] \in Question
         /\ NoDecision \in Decision
BY BoundsAssumption DEF Question, Decision, NoDecision

\* A worker that only moves on keeps the other fields of its record.
LEMMA GotoTyped ==
  ASSUME TypeOK, NEW t \in Turns, NEW pc \in WorkerAt, Goto(t, pc)
  PROVE  /\ w' \in [Turns -> Worker] /\ w'[t] = [w[t] EXCEPT !.pc = pc]
         /\ \A u \in Turns \ {t} : w'[u] = w[u]
BY WorkerUpdate DEF TypeOK, Goto

\* A worker that moves on, as a new value of its record.
LEMMA PlainGoto ==
  ASSUME TurnInv, NEW t \in Turns, NEW pc \in WorkerAt, Goto(t, pc)
  PROVE  \E r \in Worker : /\ w' = [w EXCEPT ![t] = r]
                           /\ r = [w[t] EXCEPT !.pc = pc]
                           /\ r.pc = pc /\ r.left = w[t].left /\ r.shell = w[t].shell
                           /\ r.result = w[t].result
<1>1. [w[t] EXCEPT !.pc = pc] \in Worker BY WorkerUpdate DEF TurnInv, TypeOK
<1> WITNESS [w[t] EXCEPT !.pc = pc] \in Worker
<1> QED BY <1>1 DEF TurnInv, TypeOK, Goto, Worker

\* A worker that ends its turn with a result, likewise.
LEMMA PlainEnd ==
  ASSUME TurnInv, NEW t \in Turns, NEW result \in Results, End(t, result)
  PROVE  \E r \in Worker : /\ w' = [w EXCEPT ![t] = r]
                           /\ r.pc = "finish" /\ r.result = result
<1>1. [[w[t] EXCEPT !.pc = "finish"] EXCEPT !.result = result] \in Worker
  BY WorkerUpdate DEF TurnInv, TypeOK, WorkerAt, InRun
<1> WITNESS [[w[t] EXCEPT !.pc = "finish"] EXCEPT !.result = result] \in Worker
<1> QED BY <1>1 DEF TurnInv, TypeOK, End, Worker

\* A worker that goes on to the next call of a batch, likewise.
LEMMA PlainNextTool ==
  ASSUME TurnInv, NEW t \in Turns, NextTool(t), w[t].left > 0
  PROVE  \E r \in Worker : w' = [w EXCEPT ![t] = r] /\ r.pc = "tool"
<1> DEFINE r == [[w[t] EXCEPT !.pc = "tool"] EXCEPT !.left = w[t].left - 1]
<1>1. w[t] \in Worker /\ w[t].left - 1 \in 0 .. MaxBatch /\ "tool" \in WorkerAt
  BY WorkerFields, BoundsAssumption DEF TurnInv, TypeOK, WorkerAt, InRun
<1>2. r \in Worker BY <1>1, WorkerUpdate
<1>3. r.pc = "tool" BY <1>1 DEF Worker
<1>4. w' = [w EXCEPT ![t] = r] BY <1>1 DEF NextTool, TurnInv, TypeOK, Worker
<1> QED BY <1>2, <1>3, <1>4

\* A step inside run_turn in which only the worker moves, between points where no
\* question is open and the token is installed, preserves the invariant.
LEMMA PlainMove ==
  ASSUME TurnInv, NEW t \in Turns, NEW r \in Worker, w' = [w EXCEPT ![t] = r],
         w[t].pc \in InRun \ {"prompting", "await", "granted", "refused"},
         r.pc \in InRun \ {"prompting", "await", "granted", "refused", "release"},
         r.pc \in InCall => r.left > 0,
         r.pc \in {"register", "shell"} => r.shell > 0,
         r.pc = "finish" /\ r.result = "model_cancelled" => t \in cancelled,
         inputOn' \in BOOLEAN, handles' \subseteq Shells,
         shells' \in [Shells -> {"none", "running", "asked", "over"}],
         UNCHANGED <<ctl, appr, ui, turns, token, cancelled, outcome, interrupted>>
  PROVE  TurnInv'
<1>1. w[t] \in Worker /\ w'[t] = r /\ \A u \in Turns \ {t} : w'[u] = w[u]
  BY DEF TurnInv, TypeOK
<1>2. TypeOK' BY DEF TurnInv, TypeOK, outcome
<1> USE <1>1 DEF TurnInv, outcome, InRun, Busy, InCall
<1>3. CallsAndShells' BY DEF CallsAndShells
<1>4. OneBusy' /\ AtRest' BY DEF OneBusy, AtRest
<1>5. QuestionOpen' BY DEF QuestionOpen
<1>6. TokenOfTurn' BY DEF TokenOfTurn, Turns, TypeOK
<1>7. Decisions' BY DEF Decisions
<1>8. ResultScoped' BY DEF ResultScoped, InterruptKeepsSession
<1> QED BY <1>2, <1>3, <1>4, <1>5, <1>6, <1>7, <1>8

-----------------------------------------------------------------------------
(* UI thread *)

\* Enter at the prompt: only the UI thread moves.
LEMMA PressEnterKeeps ==
  ASSUME TurnInv, NEW text \in Texts, PressEnter(text)
  PROVE  TurnInv'
<1>1. ui' \in UiThread BY UiUpdate DEF TurnInv, PressEnter, TypeOK, UiAt
<1>2. TypeOK' BY <1>1 DEF PressEnter, TurnInv, TypeOK, runtime, outcome
<1>3. CallsAndShells' /\ OneBusy' /\ QuestionOpen' /\ ResultScoped'
  BY DEF PressEnter, TurnInv, CallsAndShells, OneBusy, QuestionOpen, ResultScoped,
     runtime, outcome, InterruptKeepsSession
<1>4. AtRest' BY DEF PressEnter, TurnInv, AtRest, outcome
<1>5. TokenOfTurn' BY DEF PressEnter, TurnInv, TokenOfTurn, runtime
<1>6. Decisions' BY DEF PressEnter, TurnInv, Decisions
<1> QED BY <1>2, <1>3, <1>4, <1>5, <1>6 DEF TurnInv

\* y or n inside an approval prompt: only the UI thread moves.
LEMMA PressAnswerKeeps ==
  ASSUME TurnInv, NEW text \in Texts, PressAnswer(text)
  PROVE  TurnInv'
<1>1. ui' \in UiThread BY UiUpdate DEF TurnInv, PressAnswer, TypeOK, UiAt
<1>2. TypeOK' BY <1>1 DEF PressAnswer, TurnInv, TypeOK, runtime, outcome
<1>3. CallsAndShells' /\ OneBusy' /\ QuestionOpen' /\ ResultScoped'
  BY DEF PressAnswer, TurnInv, CallsAndShells, OneBusy, QuestionOpen,
     ResultScoped, outcome, InRun, Busy, InterruptKeepsSession
<1>4. AtRest' BY DEF PressAnswer, TurnInv, AtRest, outcome
<1>5. TokenOfTurn' BY DEF PressAnswer, TurnInv, TokenOfTurn, runtime
<1>6. Decisions' BY DEF PressAnswer, TurnInv, Decisions
<1> QED BY <1>2, <1>3, <1>4, <1>5, <1>6 DEF TurnInv

\* Ctrl+C or Esc: only the UI thread moves.
LEMMA PressInterruptKeeps == ASSUME TurnInv, PressInterrupt PROVE TurnInv'
<1>1. ui' \in UiThread BY UiUpdate DEF TurnInv, PressInterrupt, TypeOK, UiGoto, UiAt
<1>2. TypeOK' BY <1>1 DEF PressInterrupt, TurnInv, TypeOK, runtime, outcome
<1>3. CallsAndShells' /\ OneBusy' /\ QuestionOpen' /\ ResultScoped'
  BY DEF PressInterrupt, TurnInv, CallsAndShells, OneBusy, QuestionOpen,
     ResultScoped, runtime, outcome, InterruptKeepsSession
<1>4. AtRest' BY DEF PressInterrupt, TurnInv, AtRest, outcome
<1>5. TokenOfTurn' BY DEF PressInterrupt, TurnInv, TokenOfTurn, runtime, UiGoto
<1>6. Decisions' BY DEF PressInterrupt, TurnInv, Decisions
<1> QED BY <1>2, <1>3, <1>4, <1>5, <1>6 DEF TurnInv

\* on_submit asks for a pending question.
LEMMA SubmitChecksPendingKeeps == ASSUME TurnInv, SubmitChecksPending PROVE TurnInv'
<1>1. ui' \in UiThread
  BY UiUpdate DEF TurnInv, SubmitChecksPending, TypeOK, UiGoto, UiAt
<1>2. TypeOK' BY <1>1 DEF SubmitChecksPending, TurnInv, TypeOK, runtime, outcome
<1>3. CallsAndShells' /\ OneBusy' /\ QuestionOpen' /\ ResultScoped'
  BY DEF SubmitChecksPending, TurnInv, CallsAndShells, OneBusy, QuestionOpen,
     ResultScoped, runtime, outcome, InterruptKeepsSession
<1>4. AtRest' BY DEF SubmitChecksPending, TurnInv, AtRest, outcome
<1>5. TokenOfTurn'
  BY DEF SubmitChecksPending, TurnInv, TokenOfTurn, runtime, UiGoto, AtLoop
<1>6. Decisions' BY DEF SubmitChecksPending, TurnInv, Decisions
<1> QED BY <1>2, <1>3, <1>4, <1>5, <1>6 DEF TurnInv

\* An answer reaches a pending question only if no interrupt was accepted before.
LEMMA AnswerKeeps == ASSUME TurnInv, Answer PROVE TurnInv'
<1>1. ui' \in UiThread BY UiUpdate DEF TurnInv, Answer, TypeOK, UiGoto
<1>2. appr' \in Question BY QuestionUpdate DEF TurnInv, Answer, TypeOK, Decision
<1>3. TypeOK' BY <1>1, <1>2 DEF Answer, TurnInv, TypeOK, runtime, outcome
<1>4. CallsAndShells' /\ OneBusy' /\ ResultScoped'
  BY DEF Answer, TurnInv, CallsAndShells, OneBusy, ResultScoped, runtime, outcome,
     InterruptKeepsSession
<1>5. AtRest' BY DEF Answer, TurnInv, AtRest, outcome
<1>6. QuestionOpen' BY DEF Answer, TurnInv, QuestionOpen
<1>7. TokenOfTurn' BY DEF Answer, TurnInv, TokenOfTurn, runtime, UiGoto, AtLoop
<1>8. Decisions' BY DEF Answer, TurnInv, Decisions, QuestionOpen, InRun
<1> QED BY <1>3, <1>4, <1>5, <1>6, <1>7, <1>8 DEF TurnInv

\* A new turn begins when no other is busy, so its worker is the only one.
LEMMA StartTurnKeeps ==
  ASSUME TurnInv, StartTurn
  PROVE  TurnInv'
<1>1. CASE ctl.executing
  <2>1. ui' = AtLoop /\ UNCHANGED <<ctl, inputOn, appr, turns, w, runtime, shells,
                                    outcome, interrupted>>
    BY <1>1 DEF StartTurn, UiGoto
  <2> USE <2>1 DEF TurnInv, runtime, outcome, AtLoop
  <2>2. TypeOK' BY UiUpdate DEF TypeOK
  <2>3. CallsAndShells' /\ OneBusy' /\ QuestionOpen'
    BY DEF CallsAndShells, OneBusy, QuestionOpen
  <2>4. AtRest' BY DEF AtRest, StartTurn
  <2>5. TokenOfTurn' BY DEF TokenOfTurn
  <2>6. Decisions' /\ ResultScoped'
    BY DEF Decisions, ResultScoped, InterruptKeepsSession, StartTurn
  <2> QED BY <2>2, <2>3, <2>4, <2>5, <2>6
<1>2. CASE ~ctl.executing
  <2>1. /\ ui' = AtLoop /\ ui.pc = "start" /\ turns' = turns + 1 /\ turns + 1 \in Turns
        /\ ctl' = [ctl EXCEPT !.executing = TRUE, !.state = "running_turn"]
        /\ inputOn' = FALSE
        /\ w' = [w EXCEPT ![turns + 1].pc = "entry"]
        /\ UNCHANGED <<appr, runtime, shells, outcome, interrupted>>
    BY <1>2, BoundsAssumption DEF StartTurn, UiGoto, TurnInv, TypeOK, Turns
  <2>2. ctl' \in Controller /\ ctl'.executing /\ ctl'.state = "running_turn"
    BY <2>1 DEF TurnInv, TypeOK, Controller
  <2>3. /\ w' \in [Turns -> Worker] /\ w'[turns + 1].pc = "entry"
        /\ \A u \in Turns \ {turns + 1} : w'[u] = w[u]
    <3>1. w[turns + 1] \in Worker /\ "entry" \in WorkerAt
      BY <2>1 DEF TurnInv, TypeOK, WorkerAt
    <3>2. [w[turns + 1] EXCEPT !.pc = "entry"] \in Worker BY <3>1, WorkerUpdate
    <3> QED BY <2>1, <3>1, <3>2 DEF TurnInv, TypeOK, Worker
  <2>4. TypeOK'
    <3>1. turns' \in 0 .. MaxTurns BY <2>1, BoundsAssumption DEF Turns
    <3>2. ui' \in UiThread BY <2>1, UiUpdate DEF TurnInv, TypeOK
    <3> QED BY <2>1, <2>2, <2>3, <3>1, <3>2 DEF TurnInv, TypeOK, runtime, outcome
  <2>5. /\ \A u \in Turns : w[u].pc \notin Busy
        /\ completions = <<>> /\ token = 0 /\ ~appr.pending /\ ~appr.prompt
        /\ session # "closed"
    BY <1>2, <2>1 DEF TurnInv, OneBusy, TokenOfTurn, QuestionOpen, AtRest, Busy,
       InRun, TypeOK, Turns
  <2>6. CallsAndShells' BY <2>3 DEF TurnInv, CallsAndShells, InCall
  <2>7. OneBusy'
    BY <2>1, <2>2, <2>3, <2>5, BoundsAssumption DEF TurnInv, TypeOK, OneBusy, outcome, Turns
  <2>8. AtRest' BY <2>1, <2>2, <2>5 DEF AtRest, outcome
  <2>9. QuestionOpen' BY <2>1, <2>3, <2>5 DEF QuestionOpen, Busy, InRun
  <2>10. TokenOfTurn' BY <2>1, <2>5 DEF TurnInv, TokenOfTurn, runtime, AtLoop
  <2>11. Decisions' BY <2>1, <2>2, <2>5 DEF Decisions
  <2>12. ResultScoped'
    BY <2>1, <2>3, <2>5 DEF TurnInv, ResultScoped, InterruptKeepsSession, runtime, outcome
  <2> QED BY <2>4, <2>6, <2>7, <2>8, <2>9, <2>10, <2>11, <2>12 DEF TurnInv
<1> QED BY <1>1, <1>2

\* /exit closes the session only while nothing executes.
LEMMA SlashExitKeeps == ASSUME TurnInv, SlashExit PROVE TurnInv'
<1>1. ctl' \in Controller /\ ui' \in UiThread
  BY ControllerUpdate, UiUpdate DEF SlashExit, TurnInv, TypeOK, UiGoto, UiAt
<1>2. /\ ctl'.executing = ctl.executing /\ ctl'.state = ctl.state
      /\ UNCHANGED <<inputOn, appr, turns, w, runtime, shells, completions, fact,
                     interrupted>>
  BY DEF SlashExit, TurnInv, TypeOK, Controller
<1>3. /\ ui'.pc \in {"loop", "exited"}
      /\ session' = "closed" => ui'.pc = "exited" /\ ~ctl.executing
  BY DEF SlashExit, TurnInv, TypeOK, UiGoto, AtLoop, UiThread, AtRest
<1>4. TypeOK' BY <1>1, <1>2 DEF SlashExit, TurnInv, TypeOK, runtime
<1> USE <1>2, <1>3 DEF TurnInv, runtime
<1>5. CallsAndShells' /\ OneBusy' /\ QuestionOpen'
  BY DEF CallsAndShells, OneBusy, QuestionOpen
<1>6. AtRest' BY DEF AtRest
<1>7. TokenOfTurn' BY DEF TokenOfTurn
<1>8. Decisions' BY DEF Decisions, SlashExit
<1>9. ResultScoped' BY DEF ResultScoped, InterruptKeepsSession
<1> QED BY <1>4, <1>5, <1>6, <1>7, <1>8, <1>9

\* The accepted interrupt is the running turn's.
LEMMA InterruptRunningKeeps == ASSUME TurnInv, InterruptRunning PROVE TurnInv'
<1>1. ui' \in UiThread
  BY UiUpdate DEF TurnInv, InterruptRunning, TypeOK, UiGoto, UiAt
<1>2. ctl' \in Controller BY ControllerUpdate DEF TurnInv, InterruptRunning, TypeOK
<1>3. interrupted' \subseteq Turns
  BY DEF TurnInv, InterruptRunning, TypeOK, Turns, OneBusy
<1>4. TypeOK'
  BY <1>1, <1>2, <1>3 DEF InterruptRunning, TurnInv, TypeOK, runtime, outcome
<1>5. CallsAndShells' /\ QuestionOpen' /\ ResultScoped'
  BY DEF InterruptRunning, TurnInv, CallsAndShells, QuestionOpen, ResultScoped,
     runtime, outcome, InterruptKeepsSession
<1>6. OneBusy' BY DEF InterruptRunning, TurnInv, OneBusy, outcome
<1>7. AtRest' BY DEF InterruptRunning, TurnInv, AtRest, outcome
<1>8. TokenOfTurn' BY DEF InterruptRunning, TurnInv, TokenOfTurn, runtime, UiGoto
<1>9. Decisions' BY DEF InterruptRunning, TurnInv, Decisions, UiGoto
<1> QED BY <1>4, <1>5, <1>6, <1>7, <1>8, <1>9 DEF TurnInv

\* An idle interrupt closes the session while nothing executes.
LEMMA InterruptIdleKeeps == ASSUME TurnInv, InterruptIdle PROVE TurnInv'
<1>1. ui' \in UiThread BY UiUpdate DEF TurnInv, InterruptIdle, TypeOK, UiGoto, UiAt
<1>2. ctl' \in Controller BY DEF TurnInv, InterruptIdle, Controller
<1>3. TypeOK' BY <1>1, <1>2 DEF InterruptIdle, TurnInv, TypeOK, runtime
<1>4. CallsAndShells' /\ QuestionOpen' /\ ResultScoped'
  BY DEF InterruptIdle, TurnInv, CallsAndShells, QuestionOpen, ResultScoped,
     runtime, InterruptKeepsSession
<1>5. OneBusy' BY DEF InterruptIdle, TurnInv, OneBusy
<1>6. AtRest' BY DEF InterruptIdle, TurnInv, AtRest, UiGoto
<1>7. TokenOfTurn' BY DEF InterruptIdle, TurnInv, TokenOfTurn, runtime, UiGoto
<1>8. Decisions' BY DEF InterruptIdle, TurnInv, Decisions
<1> QED BY <1>3, <1>4, <1>5, <1>6, <1>7, <1>8 DEF TurnInv

\* After _cancel_pending_approval no pending question is answered with yes.
LEMMA DenyPendingKeeps == ASSUME TurnInv, DenyPending PROVE TurnInv'
<1>1. ui' \in UiThread BY UiUpdate DEF TurnInv, DenyPending, TypeOK, UiGoto, UiAt
<1>2. appr' \in Question
  BY QuestionUpdate DEF TurnInv, DenyPending, TypeOK, Decision
<1>3. TypeOK' BY <1>1, <1>2 DEF DenyPending, TurnInv, TypeOK, runtime, outcome
<1>4. CallsAndShells' /\ OneBusy' /\ ResultScoped'
  BY DEF DenyPending, TurnInv, CallsAndShells, OneBusy, ResultScoped, runtime,
     outcome, InterruptKeepsSession
<1>5. AtRest' BY DEF DenyPending, TurnInv, AtRest, outcome
<1>6. QuestionOpen' BY DEF DenyPending, TurnInv, QuestionOpen
<1>7. TokenOfTurn' BY DEF DenyPending, TurnInv, TokenOfTurn, runtime, UiGoto
<1>8. Decisions' BY DEF DenyPending, TurnInv, Decisions, UiGoto
<1> QED BY <1>3, <1>4, <1>5, <1>6, <1>7, <1>8 DEF TurnInv

\* The copied token is the interrupted turn's, or none.
LEMMA SnapshotTurnKeeps == ASSUME TurnInv, SnapshotTurn PROVE TurnInv'
<1>1. ui' \in UiThread BY UiUpdate DEF TurnInv, SnapshotTurn, TypeOK, UiAt
<1>2. TypeOK' BY <1>1 DEF SnapshotTurn, TurnInv, TypeOK, runtime, outcome
<1>3. CallsAndShells' /\ OneBusy' /\ QuestionOpen' /\ ResultScoped'
  BY DEF SnapshotTurn, TurnInv, CallsAndShells, OneBusy, QuestionOpen,
     ResultScoped, runtime, outcome, InterruptKeepsSession
<1>4. AtRest' BY DEF SnapshotTurn, TurnInv, AtRest, outcome
<1>5. TokenOfTurn' BY DEF SnapshotTurn, TurnInv, TokenOfTurn, runtime
<1>6. Decisions' BY DEF SnapshotTurn, TurnInv, Decisions
<1> QED BY <1>2, <1>3, <1>4, <1>5, <1>6 DEF TurnInv

\* Only an interrupted turn's token is set.
LEMMA SetTokenKeeps == ASSUME TurnInv, SetToken PROVE TurnInv'
<1>1. ui' \in UiThread BY UiUpdate DEF TurnInv, SetToken, TypeOK, UiGoto, UiAt
<1>2. cancelled' \subseteq Turns BY UiUpdate DEF TurnInv, SetToken, TypeOK, Turns
<1>3. TypeOK' BY <1>1, <1>2 DEF SetToken, TurnInv, TypeOK, outcome
<1>4. CallsAndShells' /\ OneBusy' /\ QuestionOpen'
  BY DEF SetToken, TurnInv, CallsAndShells, OneBusy, QuestionOpen, outcome
<1>5. AtRest' BY DEF SetToken, TurnInv, AtRest, outcome
<1>6. TokenOfTurn' BY DEF SetToken, TurnInv, TokenOfTurn, UiGoto
<1>7. Decisions' BY DEF SetToken, TurnInv, Decisions, UiGoto
<1>8. ResultScoped'
  BY DEF SetToken, TurnInv, ResultScoped, outcome, InterruptKeepsSession
<1> QED BY <1>3, <1>4, <1>5, <1>6, <1>7, <1>8 DEF TurnInv

\* Signals touch nothing the invariant speaks of.
LEMMA TerminateShellsKeeps == ASSUME TurnInv, TerminateShells PROVE TurnInv'
<1>1. ui' \in UiThread BY UiUpdate DEF TurnInv, TerminateShells, TypeOK, UiGoto
<1>2. shells' \in [Shells -> {"none", "running", "asked", "over"}]
  BY DEF TurnInv, TerminateShells, TypeOK, Asked
<1>3. TypeOK' BY <1>1, <1>2 DEF TerminateShells, TurnInv, TypeOK, runtime, outcome
<1>4. CallsAndShells' /\ OneBusy' /\ QuestionOpen' /\ ResultScoped'
  BY DEF TerminateShells, TurnInv, CallsAndShells, OneBusy, QuestionOpen,
     ResultScoped, runtime, outcome, InterruptKeepsSession
<1>5. AtRest' BY DEF TerminateShells, TurnInv, AtRest, outcome
<1>6. TokenOfTurn'
  BY DEF TerminateShells, TurnInv, TokenOfTurn, runtime, UiGoto, AtLoop
<1>7. Decisions' BY DEF TerminateShells, TurnInv, Decisions, UiGoto, AtLoop
<1> QED BY <1>3, <1>4, <1>5, <1>6, <1>7 DEF TurnInv

\* Results thrown away after a fatal boundary.
LEMMA DrainFatalKeeps == ASSUME TurnInv, DrainFatal PROVE TurnInv'
<1>1. ui' \in UiThread BY UiUpdate DEF TurnInv, DrainFatal, TypeOK, UiGoto, UiAt
<1>2. TypeOK' BY <1>1 DEF DrainFatal, TurnInv, TypeOK, runtime
<1>3. CallsAndShells' /\ QuestionOpen'
  BY DEF DrainFatal, TurnInv, CallsAndShells, QuestionOpen
<1>4. OneBusy' BY DEF DrainFatal, TurnInv, OneBusy
<1>5. AtRest' BY DEF DrainFatal, TurnInv, AtRest
<1>6. TokenOfTurn' BY DEF DrainFatal, TurnInv, TokenOfTurn, runtime, UiGoto, AtLoop
<1>7. Decisions' BY DEF DrainFatal, TurnInv, Decisions, UiGoto, AtLoop
<1>8. ResultScoped'
  BY DEF DrainFatal, TurnInv, ResultScoped, runtime, InterruptKeepsSession
<1> QED BY <1>2, <1>3, <1>4, <1>5, <1>6, <1>7, <1>8 DEF TurnInv

\* on_turn_finished: the result was the only one, and its worker is done.
LEMMA DrainResultKeeps == ASSUME TurnInv, DrainResult PROVE TurnInv'
<1>1. ui' \in UiThread BY UiUpdate DEF TurnInv, DrainResult, TypeOK, UiGoto, UiAt
<1>2. ctl' \in Controller BY DEF TurnInv, DrainResult, TypeOK, Controller
<1>3. completions' \in Seq(Completion) BY DEF TurnInv, DrainResult, TypeOK
<1>4. inputOn' \in BOOLEAN BY DEF TurnInv, DrainResult
<1>5. TypeOK' BY <1>1, <1>2 DEF DrainResult, TurnInv, TypeOK, runtime
<1>6. CallsAndShells' /\ QuestionOpen'
  BY DEF DrainResult, TurnInv, CallsAndShells, QuestionOpen
<1>7. OneBusy' BY <1>3 DEF DrainResult, TurnInv, OneBusy
<1>8. AtRest' BY DEF DrainResult, TurnInv, AtRest, UiGoto
<1>9. TokenOfTurn' BY DEF DrainResult, TurnInv, TokenOfTurn, runtime, UiGoto, AtLoop
<1>10. Decisions' BY DEF DrainResult, TurnInv, Decisions
<1>11. ResultScoped'
  BY <1>3 DEF DrainResult, TurnInv, ResultScoped, OneBusy, InRun, Busy,
     InterruptKeepsSession
<1> QED BY <1>5, <1>6, <1>7, <1>8, <1>9, <1>10, <1>11 DEF TurnInv

-----------------------------------------------------------------------------
(* Worker threads and shell processes *)

\* The token of the running turn replaces none.
LEMMA InstallTokenKeeps ==
  ASSUME TurnInv, NEW t \in Turns, InstallToken(t)
  PROVE  TurnInv'
<1>1. /\ w' \in [Turns -> Worker] /\ w'[t].pc \in {"model", "finish"}
      /\ w'[t].pc = "finish" => w'[t].result = "failed"
      /\ \A u \in Turns \ {t} : w'[u] = w[u]
  <2>1. CASE Goto(t, "model")
    BY <2>1, PlainGoto DEF TurnInv, TypeOK, WorkerAt, InRun
  <2>2. CASE End(t, "failed")
    BY <2>2, PlainEnd DEF TurnInv, TypeOK, Results
  <2> QED BY <2>1, <2>2 DEF InstallToken
<1>2. /\ token' = t /\ handles' = {} /\ t = turns /\ ctl.executing /\ completions = <<>>
      /\ UNCHANGED <<ctl, inputOn, appr, ui, turns, cancelled, shells, outcome,
                     interrupted>>
  BY DEF InstallToken, TurnInv, OneBusy, Busy
<1>3. TypeOK' BY <1>1, <1>2 DEF TurnInv, TypeOK, outcome
<1> USE <1>1, <1>2 DEF TurnInv, outcome
<1>4. CallsAndShells' BY DEF CallsAndShells, InCall
<1>5. OneBusy' /\ AtRest' BY DEF OneBusy, AtRest, Busy, InRun
<1>6. QuestionOpen' BY DEF QuestionOpen, InstallToken
<1>7. TokenOfTurn' BY DEF TokenOfTurn, InRun
<1>8. Decisions' BY DEF Decisions, InstallToken, InRun
<1>9. ResultScoped' BY DEF ResultScoped, InterruptKeepsSession
<1> QED BY <1>3, <1>4, <1>5, <1>6, <1>7, <1>8, <1>9

\* A provider call begins, is refused by a set token, or aborts.
LEMMA CallModelKeeps == ASSUME TurnInv, NEW t \in Turns, CallModel(t) PROVE TurnInv'
<1>1. /\ w[t].pc = "model" /\ TypeOK
      /\ UNCHANGED <<ctl, inputOn, appr, ui, turns, token, handles, cancelled, shells,
                   outcome, interrupted>>
  BY DEF CallModel, TurnInv, runtime
<1>2. \E r \in Worker : /\ w' = [w EXCEPT ![t] = r]
                        /\ \/ r.pc = "finish" /\ r.result = "failed"
                           \/ /\ r.pc = "finish" /\ r.result = "model_cancelled"
                              /\ t \in cancelled
                           \/ r.pc \in {"wait", "abort"}
  <2>1. CASE End(t, "failed") BY <2>1, PlainEnd DEF Results
  <2>2. CASE End(t, "model_cancelled") /\ t \in cancelled
    BY <2>2, PlainEnd DEF Results
  <2>3. CASE Goto(t, "abort") BY <2>3, PlainGoto DEF WorkerAt, InRun
  <2>4. CASE /\ w[t].rounds < MaxRounds
             /\ w' = [w EXCEPT ![t].pc = "wait", ![t].rounds = @ + 1]
    <3> DEFINE r == [[w[t] EXCEPT !.pc = "wait"] EXCEPT !.rounds = w[t].rounds + 1]
    <3>1. w[t] \in Worker /\ w[t].rounds + 1 \in 0 .. MaxRounds /\ "wait" \in WorkerAt
      BY <1>1, <2>4, WorkerFields, BoundsAssumption DEF TypeOK, WorkerAt, InRun
    <3>2. r \in Worker BY <3>1, WorkerUpdate
    <3>3. r.pc = "wait" BY <3>1 DEF Worker
    <3>4. w' = [w EXCEPT ![t] = r] BY <2>4, <3>1 DEF TurnInv, TypeOK, Worker
    <3> QED BY <3>2, <3>3, <3>4
  <2> QED BY <2>1, <2>2, <2>3, <2>4 DEF CallModel
<1> QED BY <1>1, <1>2, PlainMove DEF TypeOK, InRun, InCall

\* A provider call ends; only a set token makes it cancelled.
LEMMA ModelReturnsKeeps ==
  ASSUME TurnInv, NEW t \in Turns, ModelReturns(t)
  PROVE  TurnInv'
<1>1. /\ w[t].pc = "wait" /\ TypeOK
      /\ UNCHANGED <<ctl, inputOn, appr, ui, turns, token, handles, cancelled, shells,
                   outcome, interrupted>>
  BY DEF ModelReturns, TurnInv, runtime
<1>2. \E r \in Worker : /\ w' = [w EXCEPT ![t] = r]
                        /\ \/ r.pc = "finish" /\ r.result # "model_cancelled"
                           \/ r.pc = "finish" /\ t \in cancelled
                           \/ r.pc \in {"tool", "abort"}
  <2>1. CASE \E result \in {"completed", "failed", "failed_session"} : End(t, result)
    BY <2>1, PlainEnd DEF Results
  <2>2. CASE End(t, "model_cancelled") /\ t \in cancelled
    BY <2>2, PlainEnd DEF Results
  <2>3. CASE Goto(t, "abort") BY <2>3, PlainGoto DEF WorkerAt, InRun
  <2>4. ASSUME NEW n \in 1 .. MaxBatch, w' = [w EXCEPT ![t].pc = "tool", ![t].left = n]
        PROVE  \E r \in Worker : w' = [w EXCEPT ![t] = r] /\ r.pc = "tool"
    <3> DEFINE r == [[w[t] EXCEPT !.pc = "tool"] EXCEPT !.left = n]
    <3>1. w[t] \in Worker /\ n \in 0 .. MaxBatch /\ "tool" \in WorkerAt
      BY <1>1, BoundsAssumption DEF TypeOK, WorkerAt, InRun
    <3>2. r \in Worker BY <3>1, WorkerUpdate
    <3>3. r.pc = "tool" BY <3>1 DEF Worker
    <3>4. w' = [w EXCEPT ![t] = r] BY <2>4, <3>1 DEF TurnInv, TypeOK, Worker
    <3> QED BY <3>2, <3>3, <3>4
  <2> QED BY <2>1, <2>2, <2>3, <2>4 DEF ModelReturns
<1> QED BY <1>1, <1>2, PlainMove DEF TypeOK, InRun, InCall

\* The broker takes the next call of the batch, or the batch is over.
LEMMA BrokerInvokeKeeps ==
  ASSUME TurnInv, NEW t \in Turns, BrokerInvoke(t)
  PROVE  TurnInv'
<1>1. /\ w[t].pc = "tool" /\ TypeOK
      /\ UNCHANGED <<ctl, inputOn, appr, ui, turns, token, handles, cancelled, shells,
                   outcome, interrupted>>
  BY DEF BrokerInvoke, TurnInv, runtime
<1>2. \E r \in Worker : /\ w' = [w EXCEPT ![t] = r]
                        /\ \/ r.pc = "finish" /\ r.result = "failed"
                           \/ r.pc \in {"model", "tool"}
                           \/ r.pc \in {"ask", "exec"} /\ r.left > 0
  <2>1. CASE Goto(t, "model") BY <2>1, PlainGoto DEF WorkerAt, InRun
  <2>2. CASE End(t, "failed") BY <2>2, PlainEnd DEF Results
  <2>3. CASE w[t].left > 0 /\ NextTool(t) BY <2>3, PlainNextTool
  <2>4. CASE w[t].left > 0 /\ \E pc \in {"ask", "exec"} : Goto(t, pc)
    BY <2>4, PlainGoto DEF WorkerAt, InRun
  <2> QED BY <2>1, <2>2, <2>3, <2>4 DEF BrokerInvoke
<1> QED BY <1>1, <1>2, PlainMove DEF TypeOK, InRun, InCall

\* A question opens without a decision.
LEMMA BeginApprovalKeeps ==
  ASSUME TurnInv, NEW t \in Turns, BeginApproval(t)
  PROVE  TurnInv'
<1>1. w' \in [Turns -> Worker]
  BY GotoTyped DEF TurnInv, BeginApproval, WorkerAt, InRun
<1>2. appr' \in Question BY QuestionUpdate DEF TurnInv, BeginApproval, TypeOK
<1>3. TypeOK' BY <1>1, <1>2 DEF BeginApproval, TurnInv, TypeOK, runtime, outcome
<1>4. AtRest' BY DEF BeginApproval, TurnInv, AtRest, outcome
<1>5. CallsAndShells' BY DEF BeginApproval, TurnInv, CallsAndShells, InCall, Goto
<1>6. OneBusy' BY DEF BeginApproval, TurnInv, OneBusy, outcome, InRun, Busy, Goto
<1>7. QuestionOpen' BY <1>1 DEF BeginApproval, TurnInv, QuestionOpen, Goto
<1>8. TokenOfTurn' BY DEF BeginApproval, TurnInv, TokenOfTurn, runtime, InRun, Goto
<1>9. Decisions' BY DEF BeginApproval, TurnInv, Decisions, InRun, NoDecision
<1>10. ResultScoped'
  BY DEF BeginApproval, TurnInv, ResultScoped, OneBusy, outcome, InRun, Busy,
     Goto, InterruptKeepsSession
<1> QED BY <1>3, <1>4, <1>5, <1>6, <1>7, <1>8, <1>9, <1>10 DEF TurnInv

\* The prompt is shown.
LEMMA ShowApprovalKeeps ==
  ASSUME TurnInv, NEW t \in Turns, ShowApproval(t)
  PROVE  TurnInv'
<1>1. w' \in [Turns -> Worker]
  BY GotoTyped DEF TurnInv, ShowApproval, WorkerAt, InRun
<1>2. appr' \in Question BY QuestionUpdate DEF TurnInv, ShowApproval, TypeOK
<1>3. TypeOK' BY <1>1, <1>2 DEF ShowApproval, TurnInv, TypeOK, runtime, outcome
<1>4. AtRest' BY DEF ShowApproval, TurnInv, AtRest, outcome
<1>5. CallsAndShells' BY DEF ShowApproval, TurnInv, CallsAndShells, InCall, Goto
<1>6. OneBusy' BY DEF ShowApproval, TurnInv, OneBusy, outcome, InRun, Busy, Goto
<1>7. QuestionOpen' BY <1>1 DEF ShowApproval, TurnInv, QuestionOpen, Goto
<1>8. TokenOfTurn' BY DEF ShowApproval, TurnInv, TokenOfTurn, runtime, InRun, Goto
<1>9. Decisions' BY DEF ShowApproval, TurnInv, Decisions, InRun
<1>10. ResultScoped'
  BY DEF ShowApproval, TurnInv, ResultScoped, OneBusy, outcome, InRun, Busy, Goto,
     InterruptKeepsSession
<1> QED BY <1>3, <1>4, <1>5, <1>6, <1>7, <1>8, <1>9, <1>10 DEF TurnInv

\* The decision closes the question.
LEMMA TakeDecisionKeeps ==
  ASSUME TurnInv, NEW t \in Turns, TakeDecision(t)
  PROVE  TurnInv'
<1>1. w' \in [Turns -> Worker]
  BY GotoTyped DEF TurnInv, TakeDecision, WorkerAt, InRun
<1>2. appr' \in Question BY QuestionUpdate DEF TurnInv, TakeDecision, TypeOK
<1>3. TypeOK' BY <1>1, <1>2 DEF TakeDecision, TurnInv, TypeOK, runtime, outcome
<1>4. AtRest' BY DEF TakeDecision, TurnInv, AtRest, outcome
<1>5. CallsAndShells' BY DEF TakeDecision, TurnInv, CallsAndShells, InCall, Goto
<1>6. OneBusy' BY DEF TakeDecision, TurnInv, OneBusy, outcome, InRun, Busy, Goto
<1>7. QuestionOpen'
  BY <1>1 DEF TakeDecision, TurnInv, QuestionOpen, OneBusy, InRun, Busy, Goto
<1>8. TokenOfTurn' BY DEF TakeDecision, TurnInv, TokenOfTurn, runtime, InRun, Goto
<1>9. Decisions' BY DEF TakeDecision, TurnInv, Decisions, InRun
<1>10. ResultScoped'
  BY DEF TakeDecision, TurnInv, ResultScoped, OneBusy, outcome, InRun, Busy, Goto,
     InterruptKeepsSession
<1> QED BY <1>3, <1>4, <1>5, <1>6, <1>7, <1>8, <1>9, <1>10 DEF TurnInv

\* The prompt is hidden; the question was closed before.
LEMMA HideApprovalKeeps ==
  ASSUME TurnInv, NEW t \in Turns, HideApproval(t)
  PROVE  TurnInv'
<1>1. w' \in [Turns -> Worker]
  BY WorkerUpdate DEF TurnInv, HideApproval, TypeOK, WorkerAt, InRun, Results
<1>2. appr' \in Question BY QuestionUpdate DEF TurnInv, HideApproval, TypeOK
<1>3. TypeOK' BY <1>1, <1>2 DEF HideApproval, TurnInv, TypeOK, runtime, outcome
<1>4. AtRest' BY DEF HideApproval, TurnInv, AtRest, outcome
<1>5. CallsAndShells' BY <1>1 DEF HideApproval, TurnInv, CallsAndShells, InCall
<1>6. OneBusy' BY <1>1 DEF HideApproval, TurnInv, OneBusy, outcome, InRun, Busy
<1>7. QuestionOpen' BY <1>1 DEF HideApproval, TurnInv, QuestionOpen
<1>8. TokenOfTurn'
  BY <1>1 DEF HideApproval, TurnInv, TokenOfTurn, OneBusy, runtime, InRun, Busy
<1>9. Decisions' BY DEF HideApproval, TurnInv, Decisions, InRun
<1>10. ResultScoped'
  BY <1>1 DEF HideApproval, TurnInv, ResultScoped, OneBusy, outcome, InRun, Busy,
     InterruptKeepsSession
<1> QED BY <1>3, <1>4, <1>5, <1>6, <1>7, <1>8, <1>9, <1>10 DEF TurnInv

\* The input is locked again and the call executed or given up.
LEMMA LockInputKeeps == ASSUME TurnInv, NEW t \in Turns, LockInput(t) PROVE TurnInv'
<1>1. /\ w[t].pc = "relock" /\ TypeOK /\ inputOn' \in BOOLEAN /\ w[t].left > 0
      /\ UNCHANGED <<ctl, appr, ui, turns, token, handles, cancelled, shells,
                   outcome, interrupted>>
  BY DEF LockInput, TurnInv, runtime, TypeOK, AfterApproval, CallsAndShells, InCall
<1>2. \/ AfterApproval(w[t].result) = "exec"
      \/ AfterApproval(w[t].result) = "finish" /\ w[t].result = "denied"
  BY DEF AfterApproval
<1>3. \E r \in Worker : /\ w' = [w EXCEPT ![t] = r] /\ r.left = w[t].left
                        /\ \/ r.pc = "exec"
                           \/ r.pc = "finish" /\ r.result # "model_cancelled"
  BY <1>2, PlainGoto DEF LockInput, WorkerAt, InRun
<1> QED BY <1>1, <1>3, PlainMove DEF TypeOK, InRun, InCall

\* A tool runs, or a shell process starts.
LEMMA ExecuteKeeps == ASSUME TurnInv, NEW t \in Turns, Execute(t) PROVE TurnInv'
<1>1. /\ w[t].pc = "exec" /\ TypeOK /\ w[t].left > 0
      /\ UNCHANGED <<ctl, inputOn, appr, ui, turns, token, handles, cancelled,
                   outcome, interrupted>>
  BY DEF Execute, TurnInv, runtime, CallsAndShells, InCall
<1>2. shells' \in [Shells -> {"none", "running", "asked", "over"}]
  BY <1>1 DEF Execute, TypeOK
<1>3. \E r \in Worker : /\ w' = [w EXCEPT ![t] = r]
                        /\ \/ r.pc \in {"tool", "abort"}
                           \/ r.pc = "register" /\ r.left > 0 /\ r.shell > 0
  <2>1. CASE NextTool(t) BY <1>1, <2>1, PlainNextTool
  <2>2. CASE Goto(t, "abort") BY <2>2, PlainGoto DEF WorkerAt, InRun
  <2>3. ASSUME NEW s \in Shells, w' = [w EXCEPT ![t].pc = "register", ![t].shell = s]
        PROVE  \E r \in Worker : /\ w' = [w EXCEPT ![t] = r]
                                 /\ r.pc = "register" /\ r.left > 0 /\ r.shell > 0
    <3> DEFINE r == [[w[t] EXCEPT !.pc = "register"] EXCEPT !.shell = s]
    <3>1. w[t] \in Worker /\ s \in 0 .. MaxShells /\ s > 0 /\ "register" \in WorkerAt
      BY <1>1, BoundsAssumption DEF TypeOK, WorkerAt, InRun, Shells
    <3>2. r \in Worker BY <3>1, WorkerUpdate
    <3>3. r.pc = "register" /\ r.left > 0 /\ r.shell > 0 BY <1>1, <3>1 DEF Worker
    <3>4. w' = [w EXCEPT ![t] = r] BY <2>3, <3>1 DEF TurnInv, TypeOK, Worker
    <3> QED BY <3>2, <3>3, <3>4
  <2> QED BY <2>1, <2>2, <2>3 DEF Execute
<1> QED BY <1>1, <1>2, <1>3, PlainMove DEF TypeOK, InRun, InCall

\* The shell process becomes known to the runtime.
LEMMA RegisterHandleKeeps ==
  ASSUME TurnInv, NEW t \in Turns, RegisterHandle(t)
  PROVE  TurnInv'
<1>1. /\ w[t].pc = "register" /\ TypeOK /\ w[t].left > 0 /\ w[t].shell > 0
      /\ UNCHANGED <<ctl, inputOn, appr, ui, turns, token, cancelled, shells,
                     outcome, interrupted>>
  BY DEF RegisterHandle, TurnInv, CallsAndShells, InCall
<1>2. handles' \subseteq Shells
  <2>1. w[t].shell \in Shells
    BY <1>1, WorkerFields, BoundsAssumption DEF TypeOK, Shells
  <2> QED BY <1>1, <2>1 DEF RegisterHandle, TypeOK
<1>3. \E r \in Worker : /\ w' = [w EXCEPT ![t] = r]
                        /\ r.pc = "shell" /\ r.left > 0 /\ r.shell > 0
  BY <1>1, PlainGoto DEF RegisterHandle, WorkerAt, InRun
<1> QED BY <1>1, <1>2, <1>3, PlainMove DEF TypeOK, InRun, InCall

\* The shell call ends, or the broker stops waiting for it.
LEMMA ShellLeftKeeps ==
  ASSUME TurnInv, NEW t \in Turns, ShellEnds(t) \/ BrokerTimeout(t)
  PROVE  TurnInv'
<1>1. /\ w[t].pc = "shell" /\ TypeOK /\ w[t].left > 0 /\ NextTool(t)
      /\ UNCHANGED <<ctl, inputOn, appr, ui, turns, token, handles, cancelled, shells,
                   outcome, interrupted>>
  BY DEF ShellEnds, BrokerTimeout, TurnInv, runtime, CallsAndShells, InCall
<1> QED BY <1>1, PlainNextTool, PlainMove DEF TypeOK, InRun, InCall

\* The final result is never a bare provider cancellation: run_turn rewrites it when
\* the token is set, and the invariant says that it was.
LEMMA FinishTurnKeeps ==
  ASSUME TurnInv, NEW t \in Turns, FinishTurn(t)
  PROVE  TurnInv'
<1>1. /\ w' \in [Turns -> Worker] /\ w'[t].pc = "release" /\ w'[t].result # "model_cancelled"
      /\ \A u \in Turns \ {t} : w'[u] = w[u]
  <2>1. PICK result \in Results \ {"model_cancelled"} :
            w' = [w EXCEPT ![t].pc = "release", ![t].result = result]
    BY WorkerFields DEF FinishTurn, Scoped, TurnInv, TypeOK, ResultScoped, Results
  <2>2. [[w[t] EXCEPT !.pc = "release"] EXCEPT !.result = result] \in Worker
    BY WorkerUpdate DEF TurnInv, TypeOK, WorkerAt, InRun
  <2>3. w' = [w EXCEPT ![t] = [[w[t] EXCEPT !.pc = "release"] EXCEPT !.result = result]]
    BY <2>1 DEF TurnInv, TypeOK
  <2> QED BY <2>2, <2>3 DEF TurnInv, TypeOK, Worker
<1>2. fact' \in [Turns -> {"none", "assistant", "cancelled", "failed"}]
  BY DEF FinishTurn, FactOf, TurnInv, TypeOK
<1>3. UNCHANGED <<ctl, inputOn, appr, ui, turns, runtime, shells, completions,
                  session, interrupted>>
  BY DEF FinishTurn
<1>4. TypeOK' BY <1>1, <1>2, <1>3 DEF TurnInv, TypeOK, runtime
<1> USE <1>1, <1>3 DEF TurnInv, runtime, FinishTurn
<1>5. CallsAndShells' BY DEF CallsAndShells, InCall
<1>6. OneBusy' /\ AtRest' BY DEF OneBusy, AtRest, Busy, InRun
<1>7. QuestionOpen' BY DEF QuestionOpen
<1>8. TokenOfTurn' BY DEF TokenOfTurn, InRun, TypeOK, Turns
<1>9. Decisions' BY DEF Decisions, InRun
<1>10. ResultScoped' BY DEF ResultScoped, InterruptKeepsSession
<1> QED BY <1>4, <1>5, <1>6, <1>7, <1>8, <1>9, <1>10

\* The token is gone before the worker leaves run_turn.
LEMMA ReleaseTokenKeeps ==
  ASSUME TurnInv, NEW t \in Turns, ReleaseToken(t)
  PROVE  TurnInv'
<1>1. w' \in [Turns -> Worker]
  BY GotoTyped DEF TurnInv, ReleaseToken, WorkerAt, Fatal
<1>2. TypeOK' BY <1>1, BoundsAssumption DEF ReleaseToken, TurnInv, TypeOK, outcome
<1>3. AtRest' BY DEF ReleaseToken, TurnInv, AtRest, outcome
<1>4. CallsAndShells' BY DEF ReleaseToken, TurnInv, CallsAndShells, InCall, Goto
<1>5. OneBusy' BY DEF ReleaseToken, TurnInv, OneBusy, outcome, InRun, Busy, Goto
<1>6. QuestionOpen' BY DEF ReleaseToken, TurnInv, QuestionOpen, Goto
<1>7. TokenOfTurn' BY DEF ReleaseToken, TurnInv, TokenOfTurn
<1>8. Decisions' BY DEF ReleaseToken, TurnInv, Decisions, InRun
<1>9. ResultScoped'
  BY DEF ReleaseToken, TurnInv, ResultScoped, outcome, Goto, InterruptKeepsSession
<1> QED BY <1>2, <1>3, <1>4, <1>5, <1>6, <1>7, <1>8, <1>9 DEF TurnInv

\* The result of the only busy worker enters an empty queue.
LEMMA PutResultKeeps == ASSUME TurnInv, NEW t \in Turns, PutResult(t) PROVE TurnInv'
<1>1. w' \in [Turns -> Worker] BY GotoTyped DEF TurnInv, PutResult, WorkerAt
<1>2. completions' \in Seq(Completion)
  BY WorkerFields DEF TurnInv, PutResult, TypeOK, Completion
<1>3. TypeOK' BY <1>1, <1>2 DEF PutResult, TurnInv, TypeOK, runtime
<1>4. AtRest' BY DEF PutResult, TurnInv, AtRest
<1>5. CallsAndShells' BY DEF PutResult, TurnInv, CallsAndShells, InCall, Goto
<1>6. OneBusy' BY <1>1 DEF PutResult, TurnInv, OneBusy, InRun, Busy, Goto
<1>7. QuestionOpen' BY DEF PutResult, TurnInv, QuestionOpen, Goto
<1>8. TokenOfTurn' BY DEF PutResult, TurnInv, TokenOfTurn, runtime, InRun, Goto
<1>9. Decisions' BY DEF PutResult, TurnInv, Decisions, InRun, Goto
<1>10. ResultScoped'
  BY DEF PutResult, TurnInv, ResultScoped, OneBusy, InRun, Busy, Goto,
     InterruptKeepsSession
<1> QED BY <1>3, <1>4, <1>5, <1>6, <1>7, <1>8, <1>9, <1>10 DEF TurnInv

\* Failing closed writes the exit code,
LEMMA FailExitCodeKeeps ==
  ASSUME TurnInv, NEW t \in Turns, FailExitCode(t)
  PROVE  TurnInv'
<1>1. w' \in [Turns -> Worker]
  BY GotoTyped DEF TurnInv, FailExitCode, WorkerAt, Fatal
<1>2. ctl' \in Controller BY ControllerUpdate DEF TurnInv, FailExitCode, TypeOK
<1>3. TypeOK' BY <1>1, <1>2 DEF FailExitCode, TurnInv, TypeOK, runtime, outcome
<1>4. CallsAndShells' BY DEF FailExitCode, TurnInv, CallsAndShells, InCall, Goto
<1>5. OneBusy' BY DEF FailExitCode, TurnInv, OneBusy, outcome, Busy, Goto
<1>6. AtRest' BY DEF FailExitCode, TurnInv, AtRest, outcome
<1>7. QuestionOpen' BY DEF FailExitCode, TurnInv, QuestionOpen, Goto
<1>8. TokenOfTurn' BY DEF FailExitCode, TurnInv, TokenOfTurn, runtime, InRun, Goto
<1>9. Decisions' BY DEF FailExitCode, TurnInv, Decisions, InRun, Goto
<1>10. ResultScoped'
  BY DEF FailExitCode, TurnInv, ResultScoped, OneBusy, outcome, InRun, Busy, Goto,
     InterruptKeepsSession
<1> QED BY <1>3, <1>4, <1>5, <1>6, <1>7, <1>8, <1>9, <1>10 DEF TurnInv

\* then cancelling, with no worker left inside run_turn,
LEMMA FailControlStateKeeps ==
  ASSUME TurnInv, NEW t \in Turns, FailControlState(t)
  PROVE  TurnInv'
<1>1. w' \in [Turns -> Worker]
  BY GotoTyped DEF TurnInv, FailControlState, WorkerAt, Fatal
<1>2. ctl' \in Controller BY ControllerUpdate DEF TurnInv, FailControlState, TypeOK
<1>3. TypeOK' BY <1>1, <1>2 DEF FailControlState, TurnInv, TypeOK, runtime, outcome
<1>4. CallsAndShells' BY DEF FailControlState, TurnInv, CallsAndShells, InCall, Goto
<1>5. OneBusy' BY DEF FailControlState, TurnInv, OneBusy, outcome, Busy, Goto
<1>6. AtRest' BY DEF FailControlState, TurnInv, AtRest, outcome
<1>7. QuestionOpen' BY DEF FailControlState, TurnInv, QuestionOpen, Goto
<1>8. TokenOfTurn'
  BY DEF FailControlState, TurnInv, TokenOfTurn, runtime, InRun, Goto
<1>9. Decisions'
  BY DEF FailControlState, TurnInv, Decisions, OneBusy, QuestionOpen, InRun, Busy,
     Goto
<1>10. ResultScoped'
  BY DEF FailControlState, TurnInv, ResultScoped, OneBusy, outcome, InRun, Busy,
     Goto, InterruptKeepsSession
<1> QED BY <1>3, <1>4, <1>5, <1>6, <1>7, <1>8, <1>9, <1>10 DEF TurnInv

\* then that nothing executes,
LEMMA FailExecutingKeeps ==
  ASSUME TurnInv, NEW t \in Turns, FailExecuting(t)
  PROVE  TurnInv'
<1>1. w' \in [Turns -> Worker]
  BY GotoTyped DEF TurnInv, FailExecuting, WorkerAt, Fatal
<1>2. ctl' \in Controller BY ControllerUpdate DEF TurnInv, FailExecuting, TypeOK
<1>3. TypeOK' BY <1>1, <1>2 DEF FailExecuting, TurnInv, TypeOK, runtime, outcome
<1>4. CallsAndShells' BY DEF FailExecuting, TurnInv, CallsAndShells, InCall, Goto
<1>5. OneBusy'
  BY <1>1 DEF FailExecuting, TurnInv, OneBusy, outcome, InRun, Busy, Goto
<1>6. AtRest' BY DEF FailExecuting, TurnInv, AtRest, outcome
<1>7. QuestionOpen' BY DEF FailExecuting, TurnInv, QuestionOpen, Goto
<1>8. TokenOfTurn' BY DEF FailExecuting, TurnInv, TokenOfTurn, runtime, InRun, Goto
<1>9. Decisions' BY DEF FailExecuting, TurnInv, Decisions, InRun, Goto
<1>10. ResultScoped'
  BY DEF FailExecuting, TurnInv, ResultScoped, OneBusy, outcome, InRun, Busy,
     Goto, InterruptKeepsSession
<1> QED BY <1>3, <1>4, <1>5, <1>6, <1>7, <1>8, <1>9, <1>10 DEF TurnInv

\* then throws queued results away.
LEMMA FailDiscardKeeps ==
  ASSUME TurnInv, NEW t \in Turns, FailDiscard(t)
  PROVE  TurnInv'
<1>1. w' \in [Turns -> Worker]
  BY GotoTyped DEF TurnInv, FailDiscard, WorkerAt, Fatal
<1>2. TypeOK' BY <1>1 DEF FailDiscard, TurnInv, TypeOK, runtime
<1>3. AtRest' BY DEF FailDiscard, TurnInv, AtRest
<1>4. CallsAndShells' BY DEF FailDiscard, TurnInv, CallsAndShells, InCall, Goto
<1>5. OneBusy' BY DEF FailDiscard, TurnInv, OneBusy, InRun, Busy, Goto
<1>6. QuestionOpen' BY DEF FailDiscard, TurnInv, QuestionOpen, Goto
<1>7. TokenOfTurn' BY DEF FailDiscard, TurnInv, TokenOfTurn, runtime, InRun, Goto
<1>8. Decisions' BY DEF FailDiscard, TurnInv, Decisions, InRun, Goto
<1>9. ResultScoped'
  BY DEF FailDiscard, TurnInv, ResultScoped, runtime, Goto, InterruptKeepsSession
<1> QED BY <1>2, <1>3, <1>4, <1>5, <1>6, <1>7, <1>8, <1>9 DEF TurnInv

\* A process is asked to stop.
LEMMA RunnerTimeoutKeeps ==
  ASSUME TurnInv, NEW s \in Shells, RunnerTimeout(s)
  PROVE  TurnInv'
<1>1. shells' \in [Shells -> {"none", "running", "asked", "over"}]
  BY DEF TurnInv, RunnerTimeout, TypeOK, Asked
<1>2. TypeOK' BY <1>1 DEF RunnerTimeout, TurnInv, TypeOK, runtime, outcome
<1>3. CallsAndShells' /\ OneBusy' /\ AtRest' /\ QuestionOpen'
        /\ TokenOfTurn' /\ Decisions' /\ ResultScoped'
  BY DEF RunnerTimeout, TurnInv, CallsAndShells, OneBusy, AtRest, QuestionOpen,
     TokenOfTurn, Decisions, ResultScoped, runtime, outcome, InterruptKeepsSession
<1> QED BY <1>2, <1>3 DEF TurnInv

\* A process ends.
LEMMA ShellExitsKeeps ==
  ASSUME TurnInv, NEW s \in Shells, ShellExits(s)
  PROVE  TurnInv'
<1>1. shells' \in [Shells -> {"none", "running", "asked", "over"}]
  BY DEF TurnInv, ShellExits, TypeOK
<1>2. TypeOK' BY DEF ShellExits, TurnInv, TypeOK, runtime, outcome
<1>3. CallsAndShells' /\ OneBusy' /\ AtRest' /\ QuestionOpen'
        /\ TokenOfTurn' /\ Decisions' /\ ResultScoped'
  BY DEF ShellExits, TurnInv, CallsAndShells, OneBusy, AtRest, QuestionOpen,
     TokenOfTurn, Decisions, ResultScoped, runtime, outcome, InterruptKeepsSession
<1> QED BY <1>2, <1>3 DEF TurnInv

-----------------------------------------------------------------------------
(* The invariant and the theorems *)

\* The invariant holds when the process starts.
LEMMA InitTurn == Init => TurnInv
<1> SUFFICES ASSUME Init PROVE TurnInv OBVIOUS
<1>1. \A t \in Turns : w[t].pc = "unborn" BY DEF Init
<1>2. TypeOK
  <2>1. ctl \in Controller /\ appr \in Question
    BY BoundsAssumption DEF Init, Controller, Question, NoDecision, Decision
  <2>2. ui \in UiThread BY BoundsAssumption DEF Init, AtLoop, UiThread, UiAt, Texts
  <2>3. w \in [Turns -> Worker]
    BY BoundsAssumption DEF Init, Worker, WorkerAt, Results
  <2>4. completions \in Seq(Completion) BY DEF Init
  <2>5. /\ fact \in [Turns -> {"none", "assistant", "cancelled", "failed"}]
        /\ shells \in [Shells -> {"none", "running", "asked", "over"}]
    BY DEF Init
  <2> QED BY <2>1, <2>2, <2>3, <2>4, <2>5, BoundsAssumption DEF Init, TypeOK
<1>3. CallsAndShells /\ OneBusy /\ AtRest
  BY <1>1 DEF Init, CallsAndShells, InCall, OneBusy, Busy, InRun, AtRest
<1>4. QuestionOpen /\ TokenOfTurn /\ Decisions
  BY <1>1 DEF Init, QuestionOpen, TokenOfTurn, Decisions, AtLoop, NoDecision
<1>5. ResultScoped BY <1>1 DEF Init, ResultScoped, InterruptKeepsSession
<1> QED BY <1>2, <1>3, <1>4, <1>5 DEF TurnInv

\* Every step, stuttering included, preserves the invariant.
LEMMA NextTurn == TurnInv /\ [Next]_vars => TurnInv'
<1>1. ASSUME TurnInv, Keys PROVE TurnInv'
  BY <1>1, PressEnterKeeps, PressAnswerKeeps, PressInterruptKeeps DEF Keys
<1>2. ASSUME TurnInv, UiStep PROVE TurnInv'
  BY <1>2, SubmitChecksPendingKeeps, AnswerKeeps, StartTurnKeeps, SlashExitKeeps,
     InterruptRunningKeeps, InterruptIdleKeeps, DenyPendingKeeps, SnapshotTurnKeeps,
     SetTokenKeeps, TerminateShellsKeeps, DrainFatalKeeps, DrainResultKeeps
     DEF UiStep
<1>3. ASSUME TurnInv, NEW t \in Turns, WorkerStep(t) PROVE TurnInv'
  BY <1>3, InstallTokenKeeps, CallModelKeeps, ModelReturnsKeeps, BrokerInvokeKeeps,
     BeginApprovalKeeps, ShowApprovalKeeps, TakeDecisionKeeps, HideApprovalKeeps,
     LockInputKeeps, ExecuteKeeps, RegisterHandleKeeps, ShellLeftKeeps,
     FinishTurnKeeps, ReleaseTokenKeeps, PutResultKeeps, FailExitCodeKeeps,
     FailControlStateKeeps, FailExecutingKeeps, FailDiscardKeeps
     DEF WorkerStep, FailClosed
<1>4. ASSUME TurnInv, NEW s \in Shells, ProcessStep(s) PROVE TurnInv'
  BY <1>4, RunnerTimeoutKeeps, ShellExitsKeeps DEF ProcessStep
<1>5. ASSUME TurnInv, UNCHANGED vars PROVE TurnInv'
  <2> USE <1>5 DEF vars, TurnInv
  <2>1. TypeOK' /\ CallsAndShells' /\ OneBusy' BY DEF TypeOK, CallsAndShells, OneBusy
  <2>2. AtRest' /\ QuestionOpen' /\ TokenOfTurn'
    BY DEF AtRest, QuestionOpen, TokenOfTurn
  <2>3. Decisions' /\ ResultScoped'
    BY DEF Decisions, ResultScoped, InterruptKeepsSession
  <2> QED BY <2>1, <2>2, <2>3
<1> QED BY <1>1, <1>2, <1>3, <1>4, <1>5 DEF Next

\* The inductive invariant holds in every reachable state, for any number of
\* turns, model calls, tool calls and shell processes.
THEOREM TurnInvariance == Spec => []TurnInv
BY InitTurn, NextTurn, PTL DEF Spec

\* Controller, question, thread positions and queue keep their types.
THEOREM TurnTypes == Spec => []TypeOK
<1>1. TurnInv => TypeOK BY DEF TurnInv
<1> QED BY <1>1, TurnInvariance, PTL

\* When the prompt is back, or the session is terminal, no worker is inside
\* run_turn, no question is open and no result is on its way.
THEOREM TurnsQuiet == Spec => []QuietBetweenTurns
<1>1. TurnInv => QuietBetweenTurns
  BY DEF TurnInv, QuietBetweenTurns, AtRest, OneBusy, Busy, QuestionOpen, InRun
<1> QED BY <1>1, TurnInvariance, PTL

\* Only interrupted turns are cancelled; the active token is the running turn's.
THEOREM CancelScoped == Spec => []CancelHitsItsTurn
<1>1. TurnInv => CancelHitsItsTurn BY DEF TurnInv, CancelHitsItsTurn, TokenOfTurn
<1> QED BY <1>1, TurnInvariance, PTL

\* No result the controller drains is a bare provider cancellation.
THEOREM SessionKept == Spec => []InterruptKeepsSession
<1>1. TurnInv => InterruptKeepsSession BY DEF TurnInv, ResultScoped
<1> QED BY <1>1, TurnInvariance, PTL

\* Only TakeDecision grants, and only what the decision says.
LEMMA GrantIsTaken ==
  ASSUME TurnInv, [Next]_vars, NEW t \in Turns, Grant(t)
  PROVE  TakeDecision(t) /\ appr.decision.verdict = "granted"
<1>1. w[t].pc = "await" /\ w'[t].pc = "granted" /\ w # w' BY DEF Grant
<1>2. PICK u \in Turns : WorkerStep(u) \/ StartTurn
  <2>1. CASE Keys BY <1>1, <2>1 DEF Keys, PressEnter, PressAnswer, PressInterrupt
  <2>2. CASE UiStep
    BY <1>1, <2>2 DEF UiStep, SubmitChecksPending, Answer, SlashExit,
       InterruptRunning,
       InterruptIdle, DenyPending, SnapshotTurn, SetToken, TerminateShells, DrainFatal, DrainResult
  <2>3. CASE \E s \in Shells : ProcessStep(s)
    BY <1>1, <2>3 DEF ProcessStep, RunnerTimeout, ShellExits
  <2>4. CASE UNCHANGED vars BY <1>1, <2>4 DEF vars
  <2> QED BY <2>1, <2>2, <2>3, <2>4 DEF Next
<1>3. ~StartTurn
  <2>1. turns < MaxTurns => turns + 1 \in Turns
    BY BoundsAssumption DEF TurnInv, TypeOK, Turns
  <2>2. CASE turns < MaxTurns /\ w' = [w EXCEPT ![turns + 1].pc = "entry"]
    <3>1. w[turns + 1] \in Worker BY <2>1, <2>2 DEF TurnInv, TypeOK
    <3>2. t = turns + 1 => w'[t].pc = "entry"
      BY <2>2, <3>1 DEF TurnInv, TypeOK, Worker
    <3>3. t # turns + 1 => w'[t] = w[t] BY <2>2 DEF TurnInv, TypeOK
    <3> QED BY <1>1, <3>2, <3>3
  <2> QED BY <1>1, <2>2 DEF StartTurn
<1>4. WorkerStep(u) /\ u = t
  BY <1>1, <1>2, <1>3 DEF TurnInv, TypeOK, WorkerStep, InstallToken, CallModel,
     ModelReturns, BrokerInvoke, BeginApproval, ShowApproval, TakeDecision,
     HideApproval, LockInput, Execute, RegisterHandle, ShellEnds, BrokerTimeout,
     FinishTurn, ReleaseToken, PutResult, FailClosed, FailExitCode,
     FailControlState, FailExecuting, FailDiscard, Goto, End, NextTool
<1>5. TakeDecision(t)
  BY <1>1, <1>4 DEF TurnInv, TypeOK, WorkerStep, InstallToken, CallModel,
     ModelReturns, BrokerInvoke, BeginApproval, ShowApproval, TakeDecision,
     HideApproval, LockInput, Execute, RegisterHandle, ShellEnds, BrokerTimeout,
     FinishTurn, ReleaseToken, PutResult, FailClosed, FailExitCode,
     FailControlState, FailExecuting, FailDiscard, Goto, End, NextTool
<1>6. w'[t].pc = IF appr.decision.verdict = "granted" THEN "granted" ELSE "refused"
  <2> DEFINE pc == IF appr.decision.verdict = "granted" THEN "granted" ELSE "refused"
  <2>1. pc \in WorkerAt BY DEF WorkerAt, InRun
  <2>2. Goto(t, pc) BY <1>5 DEF TakeDecision
  <2> HIDE DEF pc
  <2>3. w'[t].pc = pc BY <2>1, <2>2 DEF Goto, TurnInv, TypeOK, Worker
  <2> QED BY <2>3 DEF pc
<1> QED BY <1>1, <1>5, <1>6

\* A grant answers the turn's own question, and no interrupt
\* has denied it before.
LEMMA GrantSound ==
  ASSUME TurnInv, [Next]_vars, NEW t \in Turns, Grant(t)
  PROVE  /\ appr.decision.turn = t
         /\ ~(ctl.state = "cancelling" /\ ui.pc # "deny")
<1>1. TakeDecision(t) /\ appr.decision.verdict = "granted" BY GrantIsTaken
<1>2. t = turns /\ appr.pending
  BY <1>1 DEF TakeDecision, TurnInv, OneBusy, QuestionOpen, Busy, InRun
<1> QED BY <1>1, <1>2 DEF TurnInv, Decisions

\* After an interrupt has denied the pending question, nothing is approved.
THEOREM NoLateGrant == Spec => NoGrantAfterInterrupt
<1>1. TurnInv /\ [Next]_vars
      => [\A t \in Turns : Grant(t) => ~(ctl.state = "cancelling" /\ ui.pc # "deny")]_vars
  BY GrantSound
<1> QED BY <1>1, TurnInvariance, PTL DEF Spec, NoGrantAfterInterrupt

\* A decision that is taken was given in the turn that asked.
THEOREM GrantInTurn == Spec => GrantStaysInTurn
<1>1. TurnInv /\ [Next]_vars => [\A t \in Turns : Grant(t) => appr.decision.turn = t]_vars
  BY GrantSound
<1> QED BY <1>1, TurnInvariance, PTL DEF Spec, GrantStaysInTurn
===============================================================================
