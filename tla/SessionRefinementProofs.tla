---------------------- MODULE SessionRefinementProofs -----------------------
(***************************************************************************)
(* SessionOwnership implements SessionLifecycle.                           *)
(***************************************************************************)
EXTENDS SessionOwnershipProofs, SessionRefinement

\* The refinement mapping of SessionRefinement, named.
life == [s \in Sessions |-> Stage(s)]
kept == [s \in Sessions |-> Kept(s)]

\* An empty database is the initial abstract state.
LEMMA InitRefines == Init => Lifecycle!Init
<1> SUFFICES ASSUME Init PROVE Lifecycle!Init OBVIOUS
<1>1. \A s \in Sessions : Stage(s) = "absent" /\ Kept(s) = 0
  BY DEF Init, NoSession, Stage, Kept, Recoverable, Terminal
<1> QED BY <1>1 DEF Init, Lifecycle!Init

\* A running session is open and keeps nothing yet.
LEMMA StageOfRunning ==
  ASSUME NEW s \in Sessions, Running(s)
  PROVE  Stage(s) = "open" /\ Kept(s) = 0
BY DEF Running, Stage, Kept, Recoverable, Terminal

\* A recoverable session keeps its whole conversation.
LEMMA KeptIsLog ==
  ASSUME Inv, NEW s \in Sessions, Recoverable(s)
  PROVE  Stage(s) = "closed" /\ Kept(s) = log[s]
           /\ sess[s].latest \in 1..Len(chks)
BY DEF Recoverable, Stage, Kept, Inv, CheckpointCoversLog, Terminal

\* A session whose status, checkpoint and startup marker stay keeps its
\* abstract state.
LEMMA Unmoved ==
  ASSUME Inv, NEW p \in Procs, ProcStep(p), NEW t \in Sessions,
         sess'[t].status = sess[t].status, sess'[t].latest = sess[t].latest,
         sess'[t].startupFailure = sess[t].startupFailure
  PROVE  Stage(t)' = Stage(t) /\ Kept(t)' = Kept(t)
<1>1. Recoverable(t)' <=> Recoverable(t) BY DEF Recoverable
<1>2. Recoverable(t) => chks'[sess'[t].latest] = chks[sess[t].latest]
  BY CheckpointsKept, KeptIsLog
<1> QED BY <1>1, <1>2 DEF Stage, Kept

\* A step that moves no session is an abstract stutter.
LEMMA StutterStep ==
  ASSUME Inv, NEW p \in Procs, ProcStep(p), log' = log,
         \A t \in Sessions :
           /\ sess'[t].status = sess[t].status
           /\ sess'[t].latest = sess[t].latest
           /\ sess'[t].startupFailure = sess[t].startupFailure
  PROVE  UNCHANGED Lifecycle!vars
<1>1. \A t \in Sessions : Stage(t)' = Stage(t) /\ Kept(t)' = Kept(t) BY Unmoved
<1> QED BY <1>1 DEF Lifecycle!vars

\* A step that writes one session row moves that session only.
LEMMA MovedTo ==
  ASSUME Inv, NEW p \in Procs, ProcStep(p), NEW x \in Sessions, NEW v, NEW k,
         Stage(x)' = v, Kept(x)' = k,
         \A t \in Sessions : t # x => sess'[t] = sess[t]
  PROVE  /\ life' = [life EXCEPT ![x] = v]
         /\ kept' = [kept EXCEPT ![x] = k]
<1>1. \A t \in Sessions : t # x => Stage(t)' = Stage(t) /\ Kept(t)' = Kept(t)
  BY Unmoved
<1> QED BY <1>1 DEF life, kept

\* No running row is no open session.
LEMMA NoneOpenFree == FreeWorkspace => Lifecycle!NoneOpen
BY DEF FreeWorkspace, Lifecycle!NoneOpen, Running, Stage, Recoverable, Terminal

\* An abstract step or stutter.
LifecycleStep ==
  \/ \E s \in Sessions :
       \/ Lifecycle!Open(s) \/ Lifecycle!Extend(s) \/ Lifecycle!Close(s)
       \/ Lifecycle!Seal(s) \/ Lifecycle!Reopen(s)
  \/ UNCHANGED Lifecycle!vars

\* A running session that turns terminal is closed with its whole
\* conversation, or sealed.
LEMMA CloseOrSeal ==
  ASSUME Inv, Inv', NEW p \in Procs, ProcStep(p), NEW x \in Sessions,
           Running(x),
         sess'[x].status \in Terminal, log' = log,
         \A t \in Sessions : t # x => sess'[t] = sess[t]
  PROVE  Lifecycle!Close(x) \/ Lifecycle!Seal(x)
<1>0. Stage(x) = "open" /\ Kept(x) = 0 BY StageOfRunning
<1>1. CASE Recoverable(x)'
  <2>1. Stage(x)' = "closed" BY <1>1 DEF Stage, Recoverable, Terminal
  <2>2. Kept(x)' = log'[x]
    BY <1>1 DEF Kept, Recoverable, Inv, CheckpointCoversLog
  <2>3. /\ life' = [life EXCEPT ![x] = "closed"]
        /\ kept' = [kept EXCEPT ![x] = log[x]]
    BY <2>1, <2>2, MovedTo
  <2> QED BY <1>0, <2>3 DEF life, kept, Lifecycle!Close
<1>2. CASE ~Recoverable(x)'
  <2>1. Stage(x)' = "sealed" /\ Kept(x)' = 0 BY <1>2 DEF Stage, Kept, Terminal
  <2>2. /\ life' = [life EXCEPT ![x] = "sealed"]
        /\ kept' = [kept EXCEPT ![x] = 0]
    BY <2>1, MovedTo
  <2> QED BY <1>0, <2>2 DEF life, kept, Lifecycle!Seal
<1> QED BY <1>1, <1>2

\* Every step of every process is an abstract step or a stutter.
LEMMA StepRefines ==
  ASSUME Inv, Inv', NEW p \in Procs, ProcStep(p)
  PROVE  LifecycleStep
<1> DEFINE s == mem[p].sid
<1>t. /\ mem \in [Procs -> Memory] /\ sess \in [Sessions -> SessionRow]
      /\ run \in [Sessions -> RunRow] /\ log \in [Sessions -> 0..MaxLog]
           /\ chks \in Seq(Manifest)
      /\ LocalState /\ LiveOwnerKeepsItsClaim /\ ManifestsCover
  BY DEF Inv, TypeOK
<1>s. pc[p] \in Holding => s \in Sessions /\ Running(s)
  BY <1>t DEF LocalState, LiveOwnerKeepsItsClaim
<1>u. ASSUME log' = log, NEW x \in Sessions, NEW o,
             \/ sess' = [sess EXCEPT ![x].owner = o]
             \/ sess' = [sess EXCEPT ![x].activeRun = o]
             \/ sess' = sess
      PROVE LifecycleStep
  <2>1. ASSUME NEW t \in Sessions
        PROVE  /\ sess'[t].status = sess[t].status
                    /\ sess'[t].latest = sess[t].latest
               /\ sess'[t].startupFailure = sess[t].startupFailure
    <3>1. CASE sess' = [sess EXCEPT ![x].owner = o]
      BY <3>1, <1>t DEF SessionRow
    <3>2. CASE sess' = [sess EXCEPT ![x].activeRun = o]
      BY <3>2, <1>t DEF SessionRow
    <3> QED BY <1>u, <3>1, <3>2
  <2> QED BY <1>u, <2>1, StutterStep DEF LifecycleStep
<1> USE DEF Holding, Creating, Claimed
<1>1. ASSUME NEW x \in Sessions, InsertSession(p, x) PROVE LifecycleStep
  <2>1. sess'[x].status = "running" /\ log' = log /\ FreeWorkspace
          /\ sess[x].status = "absent"
        /\ \A t \in Sessions : t # x => sess'[t] = sess[t]
    BY <1>1, <1>t DEF InsertSession, NoSession, data
  <2>2. Stage(x)' = "open" /\ Kept(x)' = 0
    BY <2>1 DEF Stage, Kept, Recoverable, Terminal
  <2>3. Stage(x) = "absent" /\ Kept(x) = 0
    BY <2>1 DEF Stage, Kept, Recoverable, Terminal
  <2>4. life' = [life EXCEPT ![x] = "open"] /\ kept' = [kept EXCEPT ![x] = 0]
    BY <2>1, <2>2, MovedTo
  <2>5. Lifecycle!Open(x)
    BY <2>1, <2>3, <2>4, NoneOpenFree DEF life, kept, Lifecycle!Open
  <2> QED BY <2>5 DEF LifecycleStep
<1>2. CASE CreatePromptRun(p) \/ StartupFailureRun(p) \/ FallbackRun(p)
  BY <1>2, StutterStep
    DEF CreatePromptRun, StartupFailureRun, FallbackRun, data, LifecycleStep
<1>3. CASE SetActiveRun(p) \/ RecordOwner(p) \/ ReleaseOwnership(p)
  <2>1. s \in Sessions
    BY <1>3, <1>t DEF SetActiveRun, RecordOwner, ReleaseOwnership, LocalState
  <2> QED
    BY <2>1, <1>3, <1>u DEF SetActiveRun, RecordOwner, ReleaseOwnership, data
<1>4. CASE AcceptTurn(p) \/ CancelIdle(p)
  <2>1. s \in Sessions /\ Running(s) BY <1>4, <1>s DEF AcceptTurn, CancelIdle
  <2>2. sess' = sess BY <1>4 DEF AcceptTurn, CancelIdle, rows
  <2>3. \A t \in Sessions : Stage(t)' = Stage(t) /\ Kept(t)' = Kept(t)
    BY <2>2, Unmoved
  <2>4. Stage(s) = "open" BY <2>1, StageOfRunning
  <2>5. log' = [log EXCEPT ![s] = @ + 1]
    BY <1>4 DEF AcceptTurn, CancelIdle, AppendMessage
  <2>6. Lifecycle!Extend(s) BY <2>1, <2>3, <2>4, <2>5 DEF Lifecycle!Extend
  <2> QED BY <2>1, <2>6 DEF LifecycleStep
<1>5. CASE StartupFailureSession(p) \/ FallbackSession(p) \/ CommitTerminal(p)
  <2>1. s \in Sessions /\ Running(s)
    BY <1>5, <1>s DEF StartupFailureSession, FallbackSession, CommitTerminal
  <2>2. log' = log
    BY <1>5 DEF StartupFailureSession, FallbackSession, CommitTerminal, data
  <2>3. CASE CommitTerminal(p)
    <3>1. mem[p].prep.status \in Terminal
      BY <2>3, <1>t, ManifestFields DEF CommitTerminal, ManifestsCover
    <3>2. sess'[s].status \in Terminal
            /\ \A t \in Sessions : t # s => sess'[t] = sess[t]
      BY <2>1, <2>3, <3>1, <1>t DEF CommitTerminal
    <3> QED BY <2>1, <2>2, <3>2, CloseOrSeal DEF LifecycleStep
  <2>4. CASE StartupFailureSession(p) \/ FallbackSession(p)
    <3>2. sess'[s].status \in Terminal
            /\ \A t \in Sessions : t # s => sess'[t] = sess[t]
      BY <2>1, <2>4, <1>t, StatusTyped
        DEF StartupFailureSession, FallbackSession, MarkSessionFailed
    <3> QED BY <2>1, <2>2, <3>2, CloseOrSeal DEF LifecycleStep
  <2> QED BY <1>5, <2>3, <2>4
<1>6. CASE FailCloseStaleOwner(p)
  <2> DEFINE b == mem[p].blk
  <2>1. b \in Sessions /\ Running(b)
    BY <1>6, <1>t DEF FailCloseStaleOwner, Fence, LocalState, StaleSteps
  <2>2. sess'[b].status \in Terminal
          /\ \A t \in Sessions : t # b => sess'[t] = sess[t]
    BY <2>1, <1>6, <1>t, StatusTyped DEF FailCloseStaleOwner
  <2> QED
    BY <2>1, <2>2, <1>6, CloseOrSeal
      DEF LifecycleStep, FailCloseStaleOwner, data
<1>7. ASSUME NEW x \in Sessions, x = s, Revive(p) PROVE LifecycleStep
  <2>1. sess'[x].status = "running" /\ log' = log /\ FreeWorkspace
          /\ Recoverable(x)
        /\ \A t \in Sessions : t # x => sess'[t] = sess[t]
    BY <1>7, <1>t DEF Revive, Revivable, Recoverable, SessionRow
  <2>2. Stage(x)' = "open" /\ Kept(x)' = 0
    BY <2>1 DEF Stage, Kept, Recoverable, Terminal
  <2>3. Stage(x) = "closed" /\ Kept(x) = log[x] BY <2>1, KeptIsLog
  <2>4. life' = [life EXCEPT ![x] = "open"] /\ kept' = [kept EXCEPT ![x] = 0]
    BY <2>1, <2>2, MovedTo
  <2>5. Lifecycle!Reopen(x)
    BY <2>1, <2>3, <2>4, NoneOpenFree DEF life, kept, Lifecycle!Reopen
  <2> QED BY <2>5 DEF LifecycleStep
<1>r. Revive(p) => s \in Sessions BY <1>t DEF Revive, LocalState
<1>8. CASE RollbackHandoff(p)
  <2>1. s \in Sessions /\ Running(s) BY <1>8, <1>s DEF RollbackHandoff
  <2>2. chks[sess[s].latest].status \in Terminal
    <3>1. pc[p] = "handoff" /\ sess[s].latest # 0 BY <1>8 DEF RollbackHandoff
    <3>2. sess[s].latest \in DOMAIN chks
      BY <3>1, <1>t DEF ManifestsCover, Covers
    <3>3. chks[sess[s].latest] \in Manifest BY <3>2, <1>t
    <3> QED BY <3>3, ManifestFields
  <2>3. sess'[s].status \in Terminal
          /\ \A t \in Sessions : t # s => sess'[t] = sess[t]
    BY <2>1, <2>2, <1>8, <1>t DEF RollbackHandoff, SessionRow
  <2> QED
    BY <2>1, <2>3, <1>8, CloseOrSeal DEF LifecycleStep, RollbackHandoff, data
<1>9. CASE UNCHANGED <<rows, data>>
  BY <1>9, StutterStep DEF rows, data, LifecycleStep
<1> QED
  BY <1>1, <1>2, <1>3, <1>4, <1>5, <1>6, <1>7, <1>r, <1>8, <1>9, WritersOnly
    DEF WriteStep

\* SessionOwnership implements SessionLifecycle, for any number of
\* processes, hosts, sessions and launches.
THEOREM Refinement == Spec => ImplementsLifecycle
<1>1. Inv /\ Inv' /\ [Next]_vars => [Lifecycle!Next]_(Lifecycle!vars)
  <2> SUFFICES ASSUME Inv, Inv', [Next]_vars
  PROVE  [Lifecycle!Next]_(Lifecycle!vars)
    OBVIOUS
  <2>1. CASE UNCHANGED vars
    <3>1. sess' = sess /\ chks' = chks /\ log' = log
      BY <2>1 DEF vars, rows, data
    <3>2. \A t \in Sessions : Stage(t)' = Stage(t) /\ Kept(t)' = Kept(t)
      BY <3>1 DEF Stage, Kept, Recoverable
    <3> QED BY <3>1, <3>2 DEF Lifecycle!vars
  <2>2. CASE Next
    BY <2>2, StepRefines DEF Next, LifecycleStep, Lifecycle!Next
  <2> QED BY <2>1, <2>2
<1> QED
  BY <1>1, InitRefines, Invariance, PTL
    DEF Spec, ImplementsLifecycle, Lifecycle!Spec

=============================================================================
