----------------------- MODULE SessionOwnershipProofs -----------------------
(***************************************************************************)
(* Type correctness and the safety properties of SessionOwnership hold in  *)
(* every instance.  After the lemmas on types, one lemma per part of Inv   *)
(* shows that a step of any process preserves it; HeldRowsKept and         *)
(* FenceStable say why the other processes are not disturbed.              *)
(***************************************************************************)
EXTENDS SessionInvariant, TLAPS

(* Types: lemmas about the records, which steps write the database, and the *)
(* preservation of TypeOK.                                                  *)

\* The fields of local state, row and checkpoint records.
LEMMA MemoryFields ==
  ASSUME NEW m \in Memory
  PROVE  /\ m.sid \in Sessions \union {None}
         /\ m.flow \in {"start", "resume", "self", "other"}
         /\ m.blk \in Sessions \union {None}
         /\ m.token \in 0..MaxLaunches
         /\ m.proof \in OwnerFacts \union {None}
         /\ m.prep \in Manifest \union {None}
         /\ m.seen \in SessionRow \union {None}
         /\ m.chk \in Nat
         /\ m.view \in 0..MaxLog
BY DEF Memory

\* Local state stays typed when one field gets a typed value.
LEMMA MemoryUpdate ==
  ASSUME NEW m \in Memory
  PROVE  /\ \A v \in Sessions \union {None} : [m EXCEPT !.sid = v] \in Memory
         /\ \A v \in {"start", "resume", "self",
              "other"} : [m EXCEPT !.flow = v] \in Memory
         /\ \A v \in Sessions \union {None} : [m EXCEPT !.blk = v] \in Memory
         /\ \A v \in 0..MaxLaunches : [m EXCEPT !.token = v] \in Memory
         /\ \A v \in OwnerFacts \union {None} : [m EXCEPT !.proof = v] \in Memory
         /\ \A v \in Manifest \union {None} : [m EXCEPT !.prep = v] \in Memory
         /\ \A v \in SessionRow \union {None} : [m EXCEPT !.seen = v] \in Memory
         /\ \A v \in Nat : [m EXCEPT !.chk = v] \in Memory
         /\ \A v \in 0..MaxLog : [m EXCEPT !.view = v] \in Memory
BY DEF Memory

\* A new or dead process has typed local state.
LEMMA FreshMemoryTyped == FreshMemory \in Memory
BY OwnershipAssumption DEF FreshMemory, Memory

\* The fields of a session row.
LEMMA SessionRowFields ==
  ASSUME NEW r \in SessionRow
  PROVE  /\ r.status \in RowStatus /\ r.activeRun \in BOOLEAN
              /\ r.latest \in Nat
         /\ r.startupFailure \in BOOLEAN
              /\ r.owner \in OwnerFacts \union {None}
BY DEF SessionRow

\* A session row stays typed when one column is updated.
LEMMA SessionRowUpdate ==
  ASSUME NEW r \in SessionRow
  PROVE  /\ \A v \in RowStatus : [r EXCEPT !.status = v] \in SessionRow
         /\ \A v \in BOOLEAN : [r EXCEPT !.activeRun = v] \in SessionRow
         /\ \A v \in OwnerFacts \union {None} : [r EXCEPT !.owner = v] \in SessionRow
BY DEF SessionRow

\* A row put together from typed columns is a session row.
LEMMA SessionRowBuild ==
  ASSUME NEW st \in RowStatus, NEW a \in BOOLEAN, NEW l \in Nat,
           NEW f \in BOOLEAN,
         NEW o \in OwnerFacts \union {None}
  PROVE  [status |-> st, activeRun |-> a, latest |-> l, startupFailure |-> f,
           owner |-> o] \in SessionRow
BY DEF SessionRow

\* A row put together from typed columns is a run row.
LEMMA RunRowBuild ==
  ASSUME NEW st \in RowStatus, NEW l \in Nat, NEW f \in BOOLEAN
  PROVE  [status |-> st, latest |-> l, startupFailure |-> f] \in RunRow
BY DEF RunRow

\* The fields of a run row, and the update of its status.
LEMMA RunRowFields ==
  ASSUME NEW r \in RunRow
  PROVE  /\ r.status \in RowStatus /\ r.latest \in Nat
              /\ r.startupFailure \in BOOLEAN
         /\ \A v \in RowStatus : [r EXCEPT !.status = v] \in RunRow
BY DEF RunRow

\* The fields of a checkpoint manifest.
LEMMA ManifestFields ==
  ASSUME NEW m \in Manifest
  PROVE  m.session \in Sessions /\ m.status \in Terminal
           /\ m.cut \in 0..MaxLog /\ m.todo \in 0..MaxTodo
BY DEF Manifest

\* _build_terminal_manifest yields a manifest.
LEMMA ManifestTyped ==
  ASSUME TypeOK, NEW s \in Sessions, NEW st \in Terminal
  PROVE  ManifestOf(s, st) \in Manifest
BY DEF TypeOK, ManifestOf, Manifest

\* An owner token is a launch number.
LEMMA OwnerFactsFields ==
  ASSUME NEW o \in OwnerFacts
  PROVE  o.token \in 1..MaxLaunches
BY DEF OwnerFacts

\* The facts a live process records are owner facts with its own pid,
\* host and token.
LEMMA FactsTyped ==
  ASSUME TypeOK, TokensUnique, NEW p \in Procs, alive(p)
  PROVE  FactsOf(p) \in OwnerFacts /\ FactsOf(p).token = mem[p].token
  /\ FactsOf(p).pid = PidOf[p] /\ FactsOf(p).host = HostOf[p]
BY OwnershipAssumption DEF TypeOK, TokensUnique, FactsOf, OwnerFacts

\* The steps that write the database.
WriteStep(p) ==
    \/ /\ pc[p] \in {"create", "recreate"}
       /\ CanWrite(p)
       /\ \E s \in Sessions : InsertSession(p, s)
    \/ CreatePromptRun(p) \/ SetActiveRun(p) \/ RecordOwner(p)
    \/ StartupFailureRun(p) \/ StartupFailureSession(p)
    \/ AcceptTurn(p) \/ CancelIdle(p) \/ CommitTerminal(p)
    \/ FallbackRun(p) \/ FallbackSession(p) \/ ReleaseOwnership(p)
    \/ FailCloseStaleOwner(p) \/ Revive(p) \/ RollbackHandoff(p)

\* Only fifteen kinds of step write the database; all others read it.
LEMMA WritersOnly == ASSUME NEW p \in Procs, ProcStep(p)
  PROVE WriteStep(p) \/ UNCHANGED <<rows, data>>
<1>1. CASE StartSession(p) \/ StartResume(p) \/ Crash(p) \/ Confirm(p)
           \/ Decline(p)
  BY <1>1 DEF StartSession, StartResume, Crash, Confirm, Decline, Launch
<1>2. CASE AdmissionStep(p)
  <2>1. CASE CreateSession(p) \/ CreateConflict(p) \/ RecreateSession(p)
    BY <2>1 DEF WriteStep, CreateSession, CreateConflict, RecreateSession
  <2>2. CASE FindActive(p) \/ CaptureProof(p) \/ ProbeOwner(p)
             \/ PrepareStale(p)
             \/ FenceMiss(p) \/ FenceRaise(p) \/ LoadSession(p) \/ LoadRun(p)
             \/ ReviveRefused(p) \/ LockTimeout(p)
    BY <2>2 DEF FindActive, CaptureProof, ProbeOwner, PrepareStale, FenceMiss,
                FenceRaise, LoadSession, LoadRun, ReviveRefused, LockTimeout
  <2> QED  BY <1>2, <2>1, <2>2 DEF AdmissionStep, WriteStep
<1>3. CASE OwnerStep(p)
  <2>1. CASE BootSucceeds(p) \/ Complete(p) \/ FailTurn(p)
             \/ BuildFailureManifest(p)
             \/ RejectFailureManifest(p) \/ Handoff(p)
    BY <2>1
      DEF BootSucceeds, Complete, FailTurn, BuildFailureManifest,
        RejectFailureManifest, Handoff
  <2> QED  BY <1>3, <2>1 DEF OwnerStep, WriteStep
<1> QED BY <1>1, <1>2, <1>3 DEF ProcStep

\* How the status names relate.
LEMMA StatusTyped ==
  /\ Terminal \subseteq RowStatus /\ "running" \in RowStatus
       /\ "absent" \in RowStatus
  /\ "completed" \in Terminal /\ "failed" \in Terminal
       /\ "running" \notin Terminal
  /\ "absent" \notin Terminal
BY DEF RowStatus, Terminal

\* A writing step leaves typed session and run rows.
LEMMA SessTyped ==
  ASSUME Inv, NEW p \in Procs, WriteStep(p)
  PROVE  sess' \in [Sessions -> SessionRow] /\ run' \in [Sessions -> RunRow]
<1> DEFINE s == mem[p].sid
<1>t. sess \in [Sessions -> SessionRow] /\ run \in [Sessions -> RunRow]
        /\ chks \in Seq(Manifest) /\ mem[p] \in Memory
  BY DEF Inv, TypeOK
<1>h. pc[p] \in Holding \union {"release", "revive"} => s \in Sessions
  BY DEF Inv, LocalState
<1>f. alive(p) => FactsOf(p) \in OwnerFacts
  BY FactsTyped DEF Inv
<1>1. ASSUME NEW t \in Sessions, InsertSession(p, t)
      PROVE  sess' \in [Sessions -> SessionRow]
               /\ run' \in [Sessions -> RunRow]
  <2>1. [NoSession EXCEPT !.status = "running"] \in SessionRow
    BY StatusTyped DEF NoSession, SessionRow
  <2> QED BY <1>1, <1>t, <2>1 DEF InsertSession
<1>2. CASE CreatePromptRun(p)
  <2>1. [NoRun EXCEPT !.status = "running"] \in RunRow
    BY StatusTyped DEF NoRun, RunRow
  <2> QED BY <1>2, <1>t, <2>1 DEF CreatePromptRun
<1>3. CASE SetActiveRun(p)
  BY <1>3, <1>t, SessionRowUpdate DEF SetActiveRun
<1>4. CASE RecordOwner(p)
  <2>1. alive(p) /\ s \in Sessions
    BY <1>4, <1>h DEF RecordOwner, alive, Dead, Holding, Creating
  <2>2. [sess[s] EXCEPT !.owner = FactsOf(p)] \in SessionRow
    BY <2>1, <1>f, <1>t, SessionRowUpdate
  <2> QED BY <2>2, <1>4, <1>t DEF RecordOwner
<1>5. CASE StartupFailureRun(p) \/ FallbackRun(p)
  <2>1. \E b \in BOOLEAN : MarkRunFailed(s, b) /\ UNCHANGED sess
    BY <1>5 DEF StartupFailureRun, FallbackRun
  <2>2. PICK b \in BOOLEAN : MarkRunFailed(s, b) /\ UNCHANGED sess
    BY <2>1
  <2>3. [status |-> "failed", latest |-> 0, startupFailure |-> b] \in RunRow
    BY StatusTyped, RunRowBuild
  <2> QED BY <2>2, <2>3, <1>t DEF MarkRunFailed
<1>6. CASE StartupFailureSession(p) \/ FallbackSession(p)
  <2>1. \E b \in BOOLEAN : MarkSessionFailed(s, b) /\ UNCHANGED run
    BY <1>6 DEF StartupFailureSession, FallbackSession
  <2>2. PICK b \in BOOLEAN : MarkSessionFailed(s, b) /\ UNCHANGED run
    BY <2>1
  <2>3. s \in Sessions
    BY <1>6, <1>h DEF StartupFailureSession, FallbackSession, Holding, Claimed
  <2>4. [status |-> "failed", activeRun |-> FALSE, latest |-> 0,
          startupFailure |-> b, owner |-> sess[s].owner] \in SessionRow
    BY StatusTyped, SessionRowBuild, SessionRowFields, <1>t, <2>3
  <2> QED BY <2>2, <2>3, <2>4, <1>t DEF MarkSessionFailed
<1>7. CASE AcceptTurn(p) \/ CancelIdle(p)
  BY <1>7, <1>t DEF AcceptTurn, CancelIdle, rows
<1>8. CASE CommitTerminal(p)
  <2> DEFINE m == mem[p].prep
             id == Len(chks) + 1
  <2>1. m \in Manifest /\ s \in Sessions
    BY <1>8, <1>h DEF Inv, ManifestsCover, CommitTerminal, Holding, Claimed
  <2>2. m.status \in RowStatus /\ id \in Nat
    BY <1>t, <2>1, ManifestFields, StatusTyped
  <2>3. /\ [status |-> m.status, activeRun |-> FALSE, latest |-> id,
            startupFailure |-> FALSE, owner |-> sess[s].owner] \in SessionRow
        /\ [status |-> m.status, latest |-> id,
             startupFailure |-> FALSE] \in RunRow
    <3> HIDE DEF s, m, id
    <3> QED BY <1>t, <2>1, <2>2, SessionRowBuild, SessionRowFields, RunRowBuild
  <2> QED BY <1>8, <1>t, <2>1, <2>3 DEF CommitTerminal
<1>9. CASE ReleaseOwnership(p)
  <2>1. s \in Sessions BY <1>9, <1>h DEF ReleaseOwnership
  <2>2. [sess[s] EXCEPT !.owner = None] \in SessionRow
    BY <1>t, <2>1, SessionRowUpdate
  <2> QED BY <1>9, <1>t, <2>2 DEF ReleaseOwnership
<1>10. CASE FailCloseStaleOwner(p)
  <2> DEFINE id == IF mem[p].prep = None THEN 0 ELSE Len(chks) + 1
  <2>1. id \in Nat BY <1>t 
  <2>2. /\ [status |-> "failed", activeRun |-> FALSE, latest |-> id,
            startupFailure |-> FALSE, owner |-> None] \in SessionRow
        /\ [status |-> "failed", latest |-> id,
             startupFailure |-> FALSE] \in RunRow
    <3> HIDE DEF id
    <3> QED BY <2>1, StatusTyped, SessionRowBuild, RunRowBuild
  <2> QED BY <1>10, <1>t, <2>2 DEF FailCloseStaleOwner
<1>11. CASE Revive(p)
  <2>1. alive(p) /\ s \in Sessions BY <1>11, <1>h DEF Revive, alive, Dead
  <2>2. [[[sess[s] EXCEPT !.status = "running"] EXCEPT !.activeRun = TRUE]
          EXCEPT !.owner = FactsOf(p)] \in SessionRow
    BY <2>1, <1>t, <1>f, SessionRowUpdate, StatusTyped
  <2>3. [run[s] EXCEPT !.status = "running"] \in RunRow
    BY <2>1, <1>t, RunRowFields, StatusTyped
  <2> QED BY <1>11, <1>t, <2>2, <2>3 DEF Revive
<1>12. CASE RollbackHandoff(p)
  <2> DEFINE st == chks[sess[s].latest].status
  <2>1. Covers(sess[s].latest, s) /\ s \in Sessions
    BY <1>12, <1>h DEF Inv, ManifestsCover, RollbackHandoff, Holding, Claimed
  <2>2. st \in RowStatus BY <1>t, <2>1, ManifestFields, StatusTyped DEF Covers
  <2>3. /\ [[[sess[s] EXCEPT !.status = st] EXCEPT !.activeRun = FALSE]
             EXCEPT !.owner = None] \in SessionRow
        /\ [run[s] EXCEPT !.status = st] \in RunRow
    <3> HIDE DEF s, st
    <3> QED BY <1>t, <2>1, <2>2, SessionRowUpdate, RunRowFields
  <2> QED BY <1>12, <2>3, <1>t DEF RollbackHandoff
<1> QED
  BY <1>1, <1>2, <1>3, <1>4, <1>5, <1>6, <1>7, <1>8, <1>9, <1>10, <1>11, <1>12
    DEF WriteStep

\* A writing step leaves typed checkpoints, logs and plan versions.
LEMMA DataTyped ==
  ASSUME Inv, NEW p \in Procs, WriteStep(p)
  PROVE  chks' \in Seq(Manifest) /\ log' \in [Sessions -> 0..MaxLog]
           /\ todo' \in [Sessions -> 0..MaxTodo]
<1>t. chks \in Seq(Manifest) /\ log \in [Sessions -> 0..MaxLog]
        /\ todo \in [Sessions -> 0..MaxTodo] /\ mem[p] \in Memory
  BY DEF Inv, TypeOK
<1>1. CASE AcceptTurn(p) \/ CancelIdle(p)
  <2> DEFINE s == mem[p].sid
  <2>1. s \in Sessions
    BY <1>1 DEF Inv, LocalState, AcceptTurn, CancelIdle, Holding, Claimed
  <2>2. log[s] < MaxLog => log[s] + 1 \in 0..MaxLog
    BY <1>t, <2>1, OwnershipAssumption
  <2>3. todo[s] < MaxTodo => todo[s] + 1 \in 0..MaxTodo
    BY <1>t, <2>1, OwnershipAssumption
  <2>4. log' \in [Sessions -> 0..MaxLog] /\ UNCHANGED chks
    BY <1>1, <1>t, <2>2 DEF AcceptTurn, CancelIdle, AppendMessage, rows
  <2>5. todo' \in [Sessions -> 0..MaxTodo]
    BY <1>1, <1>t, <2>3 DEF AcceptTurn, CancelIdle
  <2> QED BY <2>4, <2>5, <1>t
<1>2. CASE CommitTerminal(p)
  <2>1. mem[p].prep \in Manifest
    BY <1>2 DEF Inv, ManifestsCover, CommitTerminal
  <2> QED BY <1>2, <1>t, <2>1 DEF CommitTerminal, data
<1>3. CASE FailCloseStaleOwner(p)
  <2>1. mem[p].prep = None \/ mem[p].prep \in Manifest BY <1>t, MemoryFields
  <2> QED BY <1>3, <1>t, <2>1 DEF FailCloseStaleOwner, data
<1>4. CASE Revive(p)
  <2>1. mem[p].chk \in 1..Len(chks) BY <1>4 DEF Inv, LocalState, Revive
  <2>2. chks[mem[p].chk].todo \in 0..MaxTodo BY <1>t, <2>1, ManifestFields
  <2> QED BY <1>4, <1>t, <2>2 DEF Revive
<1>5. CASE UNCHANGED <<chks, log, todo>> BY <1>5, <1>t
<1> QED
  BY <1>1, <1>2, <1>3, <1>4, <1>5
    DEF WriteStep, InsertSession, CreatePromptRun, SetActiveRun, RecordOwner,
  StartupFailureRun, StartupFailureSession, FallbackRun, FallbackSession,
    ReleaseOwnership, RollbackHandoff, data

\* What every step does to local state: only its own process changes.
OwnStep(p) ==
  /\ pc' = [pc EXCEPT ![p] = pc'[p]]
  /\ mem' = [mem EXCEPT ![p] = mem'[p]]
  /\ pc'[p] \in Steps \union Dead
  /\ mem'[p] \in Memory
  /\ launches' \in 0..MaxLaunches
  /\ writer' \in {writer, None, p}

\* An admission step touches the local state of its own process only.
LEMMA OwnStepAdm ==
  ASSUME Inv, NEW p \in Procs, AdmissionStep(p)
  PROVE  OwnStep(p)
<1> DEFINE m == mem[p]
<1> USE DEF OwnStep
<1>t. pc \in [Procs -> Steps \union Dead] /\ mem \in [Procs -> Memory]
        /\ launches \in 0..MaxLaunches
   /\ sess \in [Sessions -> SessionRow]
  BY DEF Inv, TypeOK
<1>m. m \in Memory BY <1>t
<1>x. ASSUME NEW l \in Dead, Exit(p, l), UNCHANGED launches PROVE OwnStep(p)
  BY <1>x, <1>t, FreshMemoryTyped DEF Exit, Goto
<1>l. {"find", "proof", "probe", "confirm", "prepare", "fence", "recreate",
        "load", "loadrun", "revive", "newrun", "activate", "claim", "boot",
          "handoff"} \subseteq Steps
  BY DEF Steps, Admission, StaleSteps, Creating, Claimed
<1>d. "off" \in Dead /\ "raised" \in Dead BY DEF Dead
<1>1. ASSUME NEW s \in Sessions, InsertSession(p, s) PROVE OwnStep(p)
  <2>1. [m EXCEPT !.sid = s] \in Memory BY <1>m, MemoryUpdate
  <2> QED BY <1>1, <2>1, <1>t, <1>l DEF InsertSession, Goto
<1>2. CASE CreateSession(p) \/ RecreateSession(p)
  BY <1>2, <1>1, <1>x, <1>d DEF CreateSession, RecreateSession
<1>3. CASE CreateConflict(p)
  BY <1>3, <1>t, <1>l DEF CreateConflict, Goto
<1>4. CASE CreatePromptRun(p) \/ SetActiveRun(p) \/ RecordOwner(p)
  BY <1>4, <1>t, <1>l DEF CreatePromptRun, SetActiveRun, RecordOwner, Goto
<1>5. CASE FindActive(p)
  <2>1. ASSUME NEW s \in Sessions, mem' = [mem EXCEPT ![p].blk = s],
                 Goto(p, "proof"), UNCHANGED <<launches, writer>>
        PROVE  OwnStep(p)
    <3>1. [m EXCEPT !.blk = s] \in Memory BY <1>m, MemoryUpdate
    <3> QED BY <2>1, <3>1, <1>t, <1>l DEF Goto
  <2>2. CASE mem' = mem /\ Goto(p, "revive") /\ UNCHANGED <<launches, writer>>
    BY <2>2, <1>t, <1>l DEF Goto
  <2> QED BY <1>5, <2>1, <2>2, <1>x, <1>d DEF FindActive
<1>6. CASE CaptureProof(p)
  <2>1. ASSUME ProofReadable(p, sess[m.blk]),
                 mem' = [mem EXCEPT ![p].proof = sess[m.blk].owner],
                   Goto(p, "probe"), UNCHANGED <<launches, writer>>,
                     pc[p] = "proof"
        PROVE OwnStep(p)
    <3>0. m.blk \in Sessions BY <2>1 DEF Inv, LocalState, StaleSteps
    <3>1. sess[m.blk].owner \in OwnerFacts
      BY <1>t, <2>1, <3>0, SessionRowFields DEF ProofReadable
    <3>2. [m EXCEPT !.proof = sess[m.blk].owner] \in Memory
      BY <1>m, <3>1, MemoryUpdate
    <3> QED BY <2>1, <3>2, <1>t, <1>l DEF Goto
  <2> QED BY <1>6, <2>1, <1>x, <1>d DEF CaptureProof
<1>7. CASE ProbeOwner(p)
  <2>1. CASE mem' = mem /\ Goto(p, "confirm") /\ UNCHANGED <<launches, writer>>
    BY <2>1, <1>t, <1>l DEF Goto
  <2> QED BY <1>7, <2>1, <1>x, <1>d DEF ProbeOwner
<1>8. CASE PrepareStale(p)
  <2>0. m.blk \in Sessions
    BY <1>8 DEF PrepareStale, Inv, LocalState, StaleSteps
  <2>1. ManifestOf(m.blk, "failed") \in Manifest
    BY <2>0, ManifestTyped DEF Inv, Terminal
  <2>2. [m EXCEPT !.prep = ManifestOf(m.blk, "failed")] \in Memory
          /\ [m EXCEPT !.prep = None] \in Memory
    BY <1>m, <2>1, MemoryUpdate
  <2> QED BY <1>8, <2>2, <1>t, <1>l DEF PrepareStale, Goto
<1>9. CASE FailCloseStaleOwner(p)
  <2>1. [[[m EXCEPT !.blk = None] EXCEPT !.proof = None]
          EXCEPT !.prep = None] \in Memory
    BY <1>m, MemoryUpdate
  <2>2. AfterClose(m.flow) \in Steps BY <1>l DEF AfterClose
  <2> QED BY <1>9, <2>1, <2>2, <1>t DEF FailCloseStaleOwner, Goto
<1>10. CASE FenceMiss(p) \/ FenceRaise(p) \/ ReviveRefused(p) \/ LockTimeout(p)
  BY <1>10, <1>x, <1>d DEF FenceMiss, FenceRaise, ReviveRefused, LockTimeout
<1>11. CASE LoadSession(p)
  <2>1. m.sid \in Sessions BY <1>11 DEF LoadSession, Inv, LocalState
  <2>2. [m EXCEPT !.seen = sess[m.sid]] \in Memory
    BY <1>m, <1>t, <2>1, MemoryUpdate
  <2> QED BY <1>11, <2>2, <1>t, <1>l DEF LoadSession, Goto
<1>12. CASE LoadRun(p)
  <2>1. [[m EXCEPT !.flow = "self"] EXCEPT !.seen = None] \in Memory
    BY <1>m, MemoryUpdate
  <2>2. [[[m EXCEPT !.flow = "other"] EXCEPT !.seen = None]
          EXCEPT !.chk = m.seen.latest] \in Memory
        \/ ~ValidatedCheckpoint(m.sid, m.seen, run[m.sid])
    <3>1. CASE ValidatedCheckpoint(m.sid, m.seen, run[m.sid])
      <4>1. m.seen.latest \in Nat BY <3>1 DEF ValidatedCheckpoint
      <4> QED BY <1>m, <4>1, MemoryUpdate
    <3> QED BY <3>1
  <2>3. CASE mem' = [mem EXCEPT ![p].flow = "self", ![p].seen = None]
               /\ Goto(p, "find") /\ UNCHANGED <<launches, writer>>
    BY <2>3, <2>1, <1>t, <1>l DEF Goto
  <2>4. CASE ValidatedCheckpoint(m.sid, m.seen, run[m.sid])
               /\ mem' = [mem EXCEPT ![p].flow = "other", ![p].seen = None,
                    ![p].chk = m.seen.latest]
             /\ Goto(p, "find") /\ UNCHANGED <<launches, writer>>
    BY <2>4, <2>2, <1>t, <1>l DEF Goto
  <2> QED BY <1>12, <2>3, <2>4, <1>x, <1>d DEF LoadRun
<1>13. CASE Revive(p)
  BY <1>13, <1>t, <1>l DEF Revive, Goto
<1> QED
  BY <1>2, <1>3, <1>4, <1>5, <1>6, <1>7, <1>8, <1>9, <1>10, <1>11, <1>12, <1>13
    DEF AdmissionStep

\* So does a step of a process that drives or ends a session.
LEMMA OwnStepOwn ==
  ASSUME Inv, NEW p \in Procs, OwnerStep(p)
  PROVE  OwnStep(p)
<1> DEFINE m == mem[p]
           s == mem[p].sid
<1> USE DEF OwnStep
<1>t. pc \in [Procs -> Steps \union Dead] /\ mem \in [Procs -> Memory]
        /\ launches \in 0..MaxLaunches
   /\ sess \in [Sessions -> SessionRow] /\ chks \in Seq(Manifest)
  BY DEF Inv, TypeOK
<1>m. m \in Memory BY <1>t
<1>x. ASSUME NEW l \in Dead, Exit(p, l), UNCHANGED launches PROVE OwnStep(p)
  BY <1>x, <1>t, FreshMemoryTyped DEF Exit, Goto
<1>l. Claimed \union {"release"} \subseteq Steps
  BY DEF Steps
<1>c. {"driving", "startfail", "failing", "commit", "fallback", "markfail",
        "handoff", "boot"} \subseteq Claimed
  BY DEF Claimed
<1>d. "off" \in Dead BY DEF Dead
<1>s. pc[p] \in Claimed => s \in Sessions BY DEF Inv, LocalState, Holding
<1>1. CASE BootSucceeds(p) \/ StartupFailureRun(p) \/ StartupFailureSession(p)
           \/ FailTurn(p) \/ RejectFailureManifest(p) \/ FallbackRun(p)
           \/ FallbackSession(p)
  BY <1>1, <1>t, <1>l, <1>c
    DEF BootSucceeds, StartupFailureRun, StartupFailureSession, FailTurn,
      RejectFailureManifest, FallbackRun, FallbackSession, Goto
<1>2. CASE AcceptTurn(p) \/ CancelIdle(p)
  <2>0. m.view < MaxLog => m.view + 1 \in 0..MaxLog
    BY <1>m, MemoryFields, OwnershipAssumption
  <2>1. m.view < MaxLog => [m EXCEPT !.view = m.view + 1] \in Memory
    BY <1>m, <2>0, MemoryUpdate
  <2> QED
    BY <1>2, <2>1, <1>t, <1>l, <1>c
      DEF AcceptTurn, CancelIdle, AppendMessage, Goto
<1>3. CASE Complete(p) \/ BuildFailureManifest(p)
  <2>0. s \in Sessions BY <1>3, <1>s, <1>c DEF Complete, BuildFailureManifest
  <2>1. ManifestOf(s, "completed") \in Manifest
          /\ ManifestOf(s, "failed") \in Manifest
    BY <2>0, ManifestTyped DEF Inv, Terminal
  <2>2. [m EXCEPT !.prep = ManifestOf(s, "completed")] \in Memory
          /\ [m EXCEPT !.prep = ManifestOf(s, "failed")] \in Memory
    BY <1>m, <2>1, MemoryUpdate
  <2> QED
    BY <1>3, <2>2, <1>t, <1>l, <1>c DEF Complete, BuildFailureManifest, Goto
<1>4. CASE CommitTerminal(p)
  <2>1. [m EXCEPT !.prep = None] \in Memory BY <1>m, MemoryUpdate
  <2> QED BY <1>4, <2>1, <1>t, <1>l DEF CommitTerminal, Goto
<1>5. CASE ReleaseOwnership(p) \/ RollbackHandoff(p)
  BY <1>5, <1>x, <1>d DEF ReleaseOwnership, RollbackHandoff
<1>6. CASE Handoff(p)
  <2>0. Covers(run[s].latest, s) BY <1>6 DEF Inv, ManifestsCover, Handoff
  <2>1. chks[run[s].latest].cut \in 0..MaxLog
    BY <1>t, <2>0, ManifestFields DEF Covers
  <2>2. sess[s].owner = FactsOf(p)
    BY <1>6, <1>c DEF Handoff, Inv, LiveOwnerKeepsItsClaim, Holding
  <2>3. sess[s].owner.token \in 0..MaxLaunches
    BY <2>2, <1>m, MemoryFields DEF FactsOf
  <2>4. [[[m EXCEPT !.view = chks[run[s].latest].cut] EXCEPT !.chk = 0]
          EXCEPT !.token = sess[s].owner.token] \in Memory
    BY <1>m, <2>1, <2>3, MemoryUpdate
  <2> QED BY <1>6, <2>4, <1>t, <1>l, <1>c DEF Handoff, Goto
<1> QED BY <1>1, <1>2, <1>3, <1>4, <1>5, <1>6 DEF OwnerStep

\* Every step touches the local state of its own process only, and leaves
\* it typed.
LEMMA OwnStepAll ==
  ASSUME Inv, NEW p \in Procs, ProcStep(p)
  PROVE  OwnStep(p)
<1>t. pc \in [Procs -> Steps \union Dead] /\ mem \in [Procs -> Memory]
        /\ launches \in 0..MaxLaunches
  BY DEF Inv, TypeOK
<1>1. ASSUME NEW s \in Sessions \union {None}, NEW f \in {"start", "resume"},
               NEW l \in {"create", "load"}, Launch(p, s, f, l)
      PROVE  OwnStep(p)
  <2>1. launches + 1 \in 0..MaxLaunches
    BY <1>1, <1>t, OwnershipAssumption DEF Launch
  <2>2. [[[FreshMemory EXCEPT !.sid = s] EXCEPT !.flow = f]
          EXCEPT !.token = launches + 1] \in Memory
    BY <2>1, FreshMemoryTyped, MemoryUpdate
  <2>3. l \in Steps BY DEF Steps, Admission
  <2> QED BY <1>1, <1>t, <2>1, <2>2, <2>3 DEF Launch, OwnStep, Goto
<1>2. CASE StartSession(p) \/ StartResume(p)
  BY <1>1, <1>2 DEF StartSession, StartResume
<1>3. CASE Crash(p) \/ Decline(p)
  BY <1>3, <1>t, FreshMemoryTyped DEF Crash, Decline, Exit, Goto, OwnStep, Dead
<1>4. CASE Confirm(p)
  BY <1>4, <1>t DEF Confirm, Goto, OwnStep, Steps, Admission, StaleSteps
<1> QED BY <1>2, <1>3, <1>4, OwnStepAdm, OwnStepOwn DEF ProcStep

\* TypeOK is preserved by every step, given the invariant.
LEMMA TypeStep ==
  ASSUME Inv, NEW p \in Procs, ProcStep(p)
  PROVE  TypeOK'
<1>1. sess' \in [Sessions -> SessionRow] /\ run' \in [Sessions -> RunRow]
  BY SessTyped, WritersOnly DEF Inv, TypeOK, rows
<1>2. chks' \in Seq(Manifest) /\ log' \in [Sessions -> 0..MaxLog]
        /\ todo' \in [Sessions -> 0..MaxTodo]
  BY DataTyped, WritersOnly DEF Inv, TypeOK, rows, data
<1>3. OwnStep(p) BY OwnStepAll
<1>4. pc' \in [Procs -> Steps \union Dead] /\ mem' \in [Procs -> Memory]
      /\ writer' \in Procs \union {None} /\ launches' \in 0..MaxLaunches
  BY <1>3 DEF OwnStep, Inv, TypeOK
<1> QED BY <1>1, <1>2, <1>4 DEF TypeOK

-----------------------------------------------------------------------------
(* The safety invariants. *)

\* A step leaves the local state of the other processes alone.
LEMMA OthersKeepLocals ==
  ASSUME Inv, NEW p \in Procs, ProcStep(p), NEW q \in Procs, q # p
  PROVE  pc'[q] = pc[q] /\ mem'[q] = mem[q]
BY OwnStepAll DEF OwnStep, Inv, TypeOK

\* Checkpoints are only ever appended.
LEMMA CheckpointsKept ==
  ASSUME Inv, NEW p \in Procs, ProcStep(p)
  PROVE  /\ Len(chks') \in Nat /\ Len(chks) <= Len(chks')
         /\ \A i \in 1..Len(chks) : chks'[i] = chks[i]
<1>t. chks \in Seq(Manifest) BY DEF Inv, TypeOK
<1>1. chks' = chks \/ \E m \in Manifest : chks' = Append(chks, m)
  <2>1. CASE CommitTerminal(p)
    BY <2>1 DEF CommitTerminal, Inv, ManifestsCover
  <2>2. CASE FailCloseStaleOwner(p)
    <3>1. mem[p].prep \in Manifest \union {None}
      BY MemoryFields DEF Inv, TypeOK
    <3> QED BY <2>2, <3>1 DEF FailCloseStaleOwner
  <2> QED
    BY <2>1, <2>2, WritersOnly
      DEF WriteStep, rows, InsertSession, CreatePromptRun, SetActiveRun,
     RecordOwner, StartupFailureRun, StartupFailureSession, AcceptTurn,
       CancelIdle, FallbackRun,
     FallbackSession, ReleaseOwnership, Revive, RollbackHandoff
<1> QED BY <1>1, <1>t

\* The key fact: a step of one process does not touch the session row, run
\* row or conversation of a session another live process holds.
LEMMA HeldRowsKept ==
  ASSUME Inv, NEW p \in Procs, ProcStep(p), NEW q \in Procs, q # p,
           pc[q] \in Holding
  PROVE  LET t == mem[q].sid IN sess'[t] = sess[t] /\ run'[t] = run[t]
           /\ log'[t] = log[t]
<1> DEFINE t == mem[q].sid
           Kept == sess'[t] = sess[t] /\ run'[t] = run[t] /\ log'[t] = log[t]
<1>0. UNCHANGED <<rows, data>> => Kept BY DEF rows, data
<1>1. t \in Sessions /\ Running(t)
  BY DEF Inv, LocalState, LiveOwnerKeepsItsClaim
<1>2. ~FreeWorkspace BY <1>1 DEF FreeWorkspace
<1>3. pc[p] \notin Holding BY DEF Inv, OneLiveOwner
<1>4. CASE ReleaseOwnership(p)
  <2>1. ReleaseFence(mem[p].sid, mem[p].token) => mem[p].sid # t
    BY <1>1 DEF ReleaseFence, Running, Terminal
  <2>2. sess'[t] = sess[t]
    BY <1>4, <2>1, <1>1 DEF ReleaseOwnership, Inv, TypeOK
  <2> QED BY <1>4, <2>2 DEF ReleaseOwnership, data
<1>5. CASE FailCloseStaleOwner(p)
  <2>1. mem[p].proof \in OwnerFacts /\ pc[p] = "fence"
    BY <1>5 DEF FailCloseStaleOwner, Inv, LocalState
  <2>2. mem[p].blk # t
    <3> SUFFICES ASSUME mem[p].blk = t PROVE FALSE OBVIOUS
    <3>1. sess[t].owner = mem[p].proof BY <1>5 DEF FailCloseStaleOwner, Fence
    <3>2. pc[q] \in Claimed /\ sess[t].owner = FactsOf(q)
      BY <2>1, <3>1, NoneAssumption DEF Inv, LiveOwnerKeepsItsClaim
    <3>3. mem[p].proof.token = mem[q].token
      BY <3>1, <3>2 DEF FactsOf
    <3> QED BY <2>1, <3>2, <3>3 DEF Inv, ProofHonest
  <2> QED BY <1>5, <2>2, <1>1 DEF FailCloseStaleOwner, data, Inv, TypeOK
<1>6. ~Revive(p) BY <1>2 DEF Revive, Revivable
<1>7. \A s \in Sessions : ~InsertSession(p, s) BY <1>2 DEF InsertSession
<1>8. ~(CreatePromptRun(p) \/ SetActiveRun(p) \/ RecordOwner(p)
    \/ StartupFailureRun(p) \/ StartupFailureSession(p)
    \/ AcceptTurn(p) \/ CancelIdle(p) \/ CommitTerminal(p)
    \/ FallbackRun(p) \/ FallbackSession(p) \/ RollbackHandoff(p))
  BY <1>3
    DEF Holding, Creating, Claimed, CreatePromptRun, SetActiveRun,
      RecordOwner, StartupFailureRun, StartupFailureSession,
    AcceptTurn, CancelIdle, CommitTerminal, FallbackRun, FallbackSession,
      RollbackHandoff
<1> QED BY <1>0, <1>4, <1>5, <1>6, <1>7, <1>8, WritersOnly DEF WriteStep

\* The process keeps its token and, inside admission, comes from admission.
TokenKept(p) ==
  /\ alive(p) /\ pc'[p] \notin Dead
  /\ launches' = launches
  /\ mem'[p].token = mem[p].token
  /\ pc'[p] \in Admission => pc[p] \in Admission

\* The process is launched with the next token.
TokenDrawn(p) ==
  /\ ~alive(p) /\ pc'[p] \in {"create", "load"}
  /\ launches' = launches + 1
  /\ mem'[p].token = launches + 1
  /\ mem'[p].proof = None
  /\ UNCHANGED <<rows, data>>

\* The proof is dropped, kept, or read from the blocking session row.
ProofKept(p) ==
  \/ mem'[p].proof \in {None, mem[p].proof}
  \/ /\ CaptureProof(p)
     /\ pc'[p] = "probe"
     /\ mem'[p].proof = sess[mem[p].blk].owner

\* The process has ended.
Gone(p) == pc'[p] \in Dead /\ mem'[p] = FreshMemory /\ launches' = launches

\* A step ends its process, launches it with a new token, or keeps its
\* token; a proof is dropped, kept, or captured from a session row.
LEMMA TokenStep ==
  ASSUME Inv, NEW p \in Procs, ProcStep(p)
  PROVE  Gone(p) \/ TokenDrawn(p) \/ (TokenKept(p) /\ ProofKept(p))
<1> DEFINE Goal == Gone(p) \/ TokenDrawn(p) \/ (TokenKept(p) /\ ProofKept(p))
           m == mem[p]
<1>t. pc \in [Procs -> Steps \union Dead] /\ mem \in [Procs -> Memory]
        /\ launches \in 0..MaxLaunches
  BY DEF Inv, TypeOK
<1>x. ASSUME NEW l \in Dead, Exit(p, l), UNCHANGED launches PROVE Goal
  BY <1>x, <1>t DEF Exit, Goto, Gone
<1>d. "off" \in Dead /\ "raised" \in Dead BY DEF Dead
<1>k. ASSUME UNCHANGED launches, NEW l \in Steps, Goto(p, l), alive(p),
               l \in Admission => pc[p] \in Admission,
             mem'[p].token = mem[p].token,
               mem'[p].proof \in {None, mem[p].proof}
      PROVE Goal
  <2>1. l \notin Dead
    BY DEF Steps, Dead, Admission, StaleSteps, Creating, Claimed
  <2>2. pc'[p] = l BY <1>k, <1>t DEF Goto
  <2> QED BY <1>k, <2>1, <2>2 DEF TokenKept, ProofKept
<1>1. CASE StartSession(p) \/ StartResume(p)
  <2>1. ASSUME NEW s, NEW f, NEW l \in {"create", "load"}, Launch(p, s, f, l)
        PROVE  Goal
    BY <2>1, <1>t DEF Launch, FreshMemory, TokenDrawn, Goto, data
  <2> QED BY <1>1, <2>1 DEF StartSession, StartResume
<1>2. CASE Crash(p) \/ Decline(p) \/ FenceMiss(p) \/ FenceRaise(p)
           \/ ReviveRefused(p) \/ LockTimeout(p)
           \/ ReleaseOwnership(p) \/ RollbackHandoff(p)
  BY <1>2, <1>x, <1>d
    DEF Crash, Decline, FenceMiss, FenceRaise, ReviveRefused, LockTimeout,
      ReleaseOwnership, RollbackHandoff
<1> USE DEF alive, Dead, Steps, Admission, StaleSteps, Creating, Claimed
<1>3. CASE CreateSession(p) \/ RecreateSession(p)
  <2>1. ASSUME NEW s \in Sessions, InsertSession(p, s),
                 pc[p] \in {"create", "recreate"}
        PROVE  Goal
    <3>1. mem'[p].token = mem[p].token /\ mem'[p].proof = mem[p].proof
      BY <2>1, <1>t DEF InsertSession, Memory
    <3> QED BY <2>1, <3>1, <1>k DEF InsertSession
  <2> QED BY <1>3, <2>1, <1>x, <1>d DEF CreateSession, RecreateSession
<1>4. CASE CreateConflict(p) \/ CreatePromptRun(p) \/ SetActiveRun(p)
           \/ RecordOwner(p) \/ Confirm(p) \/ Revive(p)
  BY <1>4, <1>k
    DEF CreateConflict, CreatePromptRun, SetActiveRun, RecordOwner, Confirm,
      Revive
<1>5. CASE FindActive(p)
  <2>1. ASSUME NEW s \in Sessions, mem' = [mem EXCEPT ![p].blk = s]
        PROVE  mem'[p].token = mem[p].token /\ mem'[p].proof = mem[p].proof
    BY <2>1, <1>t DEF Memory
  <2> QED BY <1>5, <2>1, <1>k, <1>x, <1>d DEF FindActive
<1>6. CASE CaptureProof(p)
  <2>1. ASSUME mem' = [mem EXCEPT ![p].proof = sess[m.blk].owner],
                 Goto(p, "probe"), UNCHANGED launches, pc[p] = "proof"
        PROVE  Goal
    <3>1. mem'[p].token = mem[p].token /\ mem'[p].proof = sess[m.blk].owner
      BY <2>1, <1>t DEF Memory
    <3>2. pc'[p] = "probe" BY <2>1, <1>t DEF Goto
    <3> QED BY <1>6, <2>1, <3>1, <3>2 DEF TokenKept, ProofKept
  <2> QED BY <1>6, <2>1, <1>x, <1>d DEF CaptureProof
<1>7. CASE ProbeOwner(p)
  BY <1>7, <1>k, <1>x, <1>d DEF ProbeOwner
<1>8. CASE PrepareStale(p)
  <2>1. mem'[p].token = mem[p].token /\ mem'[p].proof = mem[p].proof
    BY <1>8, <1>t DEF PrepareStale, Memory
  <2> QED BY <1>8, <2>1, <1>k DEF PrepareStale
<1>9. CASE FailCloseStaleOwner(p)
  <2>1. mem'[p].token = mem[p].token /\ mem'[p].proof = None
    BY <1>9, <1>t DEF FailCloseStaleOwner, Memory
  <2>2. AfterClose(m.flow) \in Steps BY DEF AfterClose
  <2> QED BY <1>9, <2>1, <2>2, <1>k DEF FailCloseStaleOwner
<1>10. CASE LoadSession(p)
  <2>1. mem'[p].token = mem[p].token /\ mem'[p].proof = mem[p].proof
    BY <1>10, <1>t DEF LoadSession, Memory
  <2> QED BY <1>10, <2>1, <1>k DEF LoadSession
<1>11. CASE LoadRun(p)
  <2>1. ASSUME NEW f, NEW c,
                 mem' = [mem EXCEPT ![p].flow = f, ![p].seen = None,
                   ![p].chk = c]
        PROVE  mem'[p].token = mem[p].token /\ mem'[p].proof = mem[p].proof
    BY <2>1, <1>t DEF Memory
  <2>2. ASSUME NEW f, mem' = [mem EXCEPT ![p].flow = f, ![p].seen = None]
        PROVE  mem'[p].token = mem[p].token /\ mem'[p].proof = mem[p].proof
    BY <2>2, <1>t DEF Memory
  <2> QED BY <1>11, <2>1, <2>2, <1>k, <1>x, <1>d DEF LoadRun
<1>12. CASE BootSucceeds(p) \/ StartupFailureRun(p) \/ StartupFailureSession(p)
            \/ FailTurn(p) \/ RejectFailureManifest(p)
           \/ FallbackRun(p) \/ FallbackSession(p)
  BY <1>12, <1>k
    DEF BootSucceeds, StartupFailureRun, StartupFailureSession, FailTurn,
      RejectFailureManifest, FallbackRun, FallbackSession
<1>13. CASE AcceptTurn(p) \/ CancelIdle(p)
  <2>1. mem'[p].token = mem[p].token /\ mem'[p].proof = mem[p].proof
    BY <1>13, <1>t DEF AcceptTurn, CancelIdle, AppendMessage, Memory
  <2>2. pc'[p] \in {"driving", "failing"} /\ pc[p] = "driving"
    BY <1>13, <1>t DEF AcceptTurn, CancelIdle, Goto
  <2>3. UNCHANGED launches BY <1>13 DEF AcceptTurn, CancelIdle
  <2> QED BY <2>1, <2>2, <2>3 DEF TokenKept, ProofKept
<1>14. CASE Complete(p) \/ BuildFailureManifest(p) \/ CommitTerminal(p)
  <2>1. mem'[p].token = mem[p].token /\ mem'[p].proof = mem[p].proof
    BY <1>14, <1>t DEF Complete, BuildFailureManifest, CommitTerminal, Memory
  <2> QED
    BY <1>14, <2>1, <1>k DEF Complete, BuildFailureManifest, CommitTerminal
<1>15. CASE Handoff(p)
  <2>0. sess[m.sid].owner = FactsOf(p)
    BY <1>15 DEF Handoff, Inv, LiveOwnerKeepsItsClaim, Holding
  <2>1. mem'[p].token = sess[m.sid].owner.token /\ mem'[p].proof = mem[p].proof
    <3>1. mem' = [mem EXCEPT ![p].view = chks[run[m.sid].latest].cut, ![p].chk = 0,
                             ![p].token = sess[m.sid].owner.token]
      BY <1>15 DEF Handoff
    <3>2. mem[p] \in Memory /\ DOMAIN mem = Procs BY <1>t
    <3> QED BY <3>1, <3>2 DEF Memory
  <2>2. mem'[p].token = mem[p].token BY <2>0, <2>1 DEF FactsOf
  <2> QED BY <1>15, <2>1, <2>2, <1>k DEF Handoff
<1> QED
  BY <1>1, <1>2, <1>3, <1>4, <1>5, <1>6, <1>7, <1>8, <1>9, <1>10, <1>11,
    <1>12, <1>13, <1>14, <1>15
    DEF ProcStep, AdmissionStep, OwnerStep

\* Owner facts in a row stay, disappear, or become those of a process that
\* leaves admission with that very step.
LEMMA OwnersWritten ==
  ASSUME Inv, NEW p \in Procs, ProcStep(p), NEW s \in Sessions
  PROVE  \/ sess'[s].owner \in {None, sess[s].owner}
         \/ /\ pc[p] \in Admission /\ pc'[p] \in Claimed
            /\ sess'[s].owner = FactsOf(p)
<1>t. sess \in [Sessions -> SessionRow] /\ pc \in [Procs -> Steps \union Dead]
  BY DEF Inv, TypeOK
<1>1. CASE \E t \in Sessions : InsertSession(p, t)
  BY <1>1, <1>t DEF InsertSession, NoSession
<1>2. CASE SetActiveRun(p) \/ ReleaseOwnership(p)
  BY <1>2, <1>t DEF SetActiveRun, ReleaseOwnership, SessionRow
<1>3. CASE RecordOwner(p)
  BY <1>3, <1>t DEF RecordOwner, SessionRow, Goto, Admission, Creating, Claimed
<1>4. CASE StartupFailureSession(p) \/ FallbackSession(p)
  BY <1>4, <1>t DEF StartupFailureSession, FallbackSession, MarkSessionFailed
<1>5. CASE CommitTerminal(p)
  BY <1>5, <1>t DEF CommitTerminal
<1>6. CASE FailCloseStaleOwner(p)
  BY <1>6, <1>t DEF FailCloseStaleOwner
<1>7. CASE Revive(p)
  BY <1>7, <1>t DEF Revive, SessionRow, Goto, Admission, Claimed
<1>8. CASE RollbackHandoff(p)
  BY <1>8, <1>t DEF RollbackHandoff, SessionRow
<1>9. CASE UNCHANGED sess BY <1>9
<1> QED BY <1>1, <1>2, <1>3, <1>4, <1>5, <1>6, <1>7, <1>8, <1>9, WritersOnly
  DEF WriteStep, rows, CreatePromptRun, StartupFailureRun, FallbackRun,
    AcceptTurn, CancelIdle

\* Two sessions never run at once.
LEMMA OneRunningStep ==
  ASSUME Inv, NEW p \in Procs, ProcStep(p)
  PROVE  OneRunning'
<1>t. sess \in [Sessions -> SessionRow] BY DEF Inv, TypeOK
<1>o. OneRunning BY DEF Inv
<1> USE DEF OneRunning, Running
<1>0. (\A s \in Sessions : Running(s)' => Running(s)) => OneRunning'
  BY <1>o
<1>1. CASE \E t \in Sessions : InsertSession(p, t)
  BY <1>1, <1>t DEF InsertSession, FreeWorkspace
<1>2. CASE SetActiveRun(p) \/ ReleaseOwnership(p) \/ RecordOwner(p)
  BY <1>2, <1>0, <1>t
    DEF SetActiveRun, ReleaseOwnership, RecordOwner, SessionRow
<1>3. CASE StartupFailureSession(p) \/ FallbackSession(p)
  BY <1>3, <1>0, <1>t
    DEF StartupFailureSession, FallbackSession, MarkSessionFailed
<1>4. CASE CommitTerminal(p)
  BY <1>4, <1>0, <1>t DEF CommitTerminal
<1>5. CASE FailCloseStaleOwner(p)
  BY <1>5, <1>0, <1>t DEF FailCloseStaleOwner
<1>6. CASE Revive(p)
  BY <1>6, <1>t DEF Revive, Revivable, FreeWorkspace, SessionRow
<1>7. CASE RollbackHandoff(p)
  BY <1>7, <1>0, <1>t DEF RollbackHandoff, SessionRow
<1>8. CASE UNCHANGED sess BY <1>8, <1>o
<1> QED BY <1>1, <1>2, <1>3, <1>4, <1>5, <1>6, <1>7, <1>8, WritersOnly
  DEF WriteStep, rows, CreatePromptRun, StartupFailureRun, FallbackRun,
    AcceptTurn, CancelIdle

\* Tokens stay unique, and unclaimed ones stay out of rows and proofs.
LEMMA TokensStep ==
  ASSUME Inv, NEW p \in Procs, ProcStep(p)
  PROVE  TokensUnique' /\ TokensUnclaimed'
<1>t. /\ TypeOK /\ TokensUnique /\ TokensUnclaimed BY DEF Inv
<1>m. launches \in Nat /\ \A q \in Procs : mem[q].token \in Nat
        /\ mem[q].proof \in OwnerFacts \union {None}
  BY <1>t, MemoryFields, OwnershipAssumption DEF TypeOK
<1>s. \A s \in Sessions : sess[s].owner \in OwnerFacts \union {None}
  BY <1>t, SessionRowFields DEF TypeOK
<1>o. \A o \in OwnerFacts : o.token \in Nat
  <2> SUFFICES ASSUME NEW o \in OwnerFacts PROVE o.token \in Nat OBVIOUS
  <2>1. o.token \in 1..MaxLaunches BY OwnerFactsFields
  <2> QED BY <2>1, OwnershipAssumption
<1>f. FreshMemory.proof = None /\ FactsOf(p).token = mem[p].token
  <2>1. FreshMemory.proof = None BY DEF FreshMemory
  <2>2. FactsOf(p).token = mem[p].token BY DEF FactsOf
  <2> QED BY <2>1, <2>2
<1>q. \A q \in Procs \ {p} : pc'[q] = pc[q] /\ mem'[q] = mem[q]
  BY OthersKeepLocals
<1>d. Admission \intersect Dead = {} /\ "create" \notin Dead
        /\ "load" \notin Dead /\ Claimed \intersect Dead = {}
             /\ "probe" \notin Dead /\ Admission \intersect Claimed = {}
  BY DEF Admission, StaleSteps, Creating, Dead, Claimed
<1>w. \A s \in Sessions :
        \/ sess'[s].owner \in {None, sess[s].owner}
        \/ /\ pc[p] \in Admission /\ pc'[p] \in Claimed
           /\ sess'[s].owner = FactsOf(p)
  BY OwnersWritten
<1>1. CASE Gone(p)
  <2>1. TokensUnique'
    BY <1>1, <1>t, <1>m, <1>f, <1>q, <1>w, <1>d DEF TokensUnique, Gone, alive
  <2>2. TokensUnclaimed'
    BY <1>1, <1>t, <1>m, <1>f, <1>q, <1>w, <1>d DEF TokensUnclaimed, Gone
  <2> QED BY <2>1, <2>2
<1>2. CASE TokenDrawn(p)
  <2>0. UNCHANGED sess BY <1>2 DEF TokenDrawn, rows
  <2>1. TokensUnique'
    BY <1>2, <1>t, <1>m, <1>f, <1>q, <1>o, <1>s, <2>0, <1>d
      DEF TokensUnique, TokenDrawn, alive
  <2>2. TokensUnclaimed'
    <3>1. \A s \in Sessions : sess'[s].owner # None =>
            sess'[s].owner.token <= launches
      BY <2>0, <1>t DEF TokensUnique
    <3>2. \A q \in Procs : mem'[q].proof # None =>
            mem'[q].proof.token <= launches /\ mem'[q].proof = mem[q].proof
      BY <1>2, <1>q, <1>t DEF TokensUnique, TokenDrawn
    <3> QED
      BY <1>2, <1>t, <1>m, <1>q, <1>o, <1>s, <2>0, <3>1, <3>2
        DEF TokensUnclaimed, TokenDrawn
  <2> QED BY <2>1, <2>2
<1>3. CASE TokenKept(p) /\ ProofKept(p)
  <2>0. mem'[p].proof # None =>
          (mem'[p].proof = mem[p].proof \/ \E s \in Sessions : mem'[p].proof = sess[s].owner /\ sess[s].owner # None)
    <3>1. CASE CaptureProof(p)
      <4>1. mem[p].blk \in Sessions
        BY <3>1 DEF CaptureProof, Inv, LocalState, StaleSteps
      <4> QED BY <1>3, <4>1 DEF ProofKept
    <3> QED BY <1>3, <3>1 DEF ProofKept
  <2>a. alive(p) /\ FactsOf(p).token <= launches
    BY <1>3, <1>t, <1>f, <1>m DEF TokenKept, TokensUnique
  <2>1. TokensUnique'
    BY <1>3, <1>t, <1>m, <1>q, <1>w, <1>d, <2>0, <2>a
      DEF TokensUnique, TokenKept, alive
  <2>2. TokensUnclaimed'
    <3> SUFFICES ASSUME NEW q \in Procs, pc'[q] \in Admission
                 PROVE /\ \A s \in Sessions : sess'[s].owner # None =>
                            sess'[s].owner.token # mem'[q].token
                       /\ \A r \in Procs : mem'[r].proof # None =>
                            mem'[r].proof.token # mem'[q].token
      BY DEF TokensUnclaimed
    <3>1. pc[q] \in Admission /\ mem'[q].token = mem[q].token
      BY <1>3, <1>q DEF TokenKept
    <3>2. ASSUME NEW s \in Sessions, sess'[s].owner # None
          PROVE  sess'[s].owner.token # mem[q].token
      <4>1. CASE sess'[s].owner = sess[s].owner
        BY <4>1, <3>1, <3>2, <1>t DEF TokensUnclaimed
      <4>2. CASE pc[p] \in Admission /\ pc'[p] \in Claimed
                   /\ sess'[s].owner = FactsOf(p)
        <5>1. q # p BY <4>2, <1>d
        <5> QED
          BY <4>2, <5>1, <3>1, <1>t, <1>f, <1>d, <2>a DEF TokensUnique, alive
      <4> QED BY <3>2, <4>1, <4>2, <1>w
    <3>3. ASSUME NEW r \in Procs, mem'[r].proof # None
          PROVE  mem'[r].proof.token # mem[q].token
      BY <3>3, <3>1, <2>0, <1>q, <1>t DEF TokensUnclaimed
    <3> QED BY <3>1, <3>2, <3>3
  <2> QED BY <2>1, <2>2
<1> QED BY <1>1, <1>2, <1>3, TokenStep

\* A process starts to hold a session only while no session runs.
LEMMA EnterClaim ==
  ASSUME Inv, NEW p \in Procs, ProcStep(p), pc'[p] \in Holding
  PROVE  pc[p] \in Holding \/ FreeWorkspace
<1>t. pc \in [Procs -> Steps \union Dead] BY DEF Inv, TypeOK
<1> USE DEF Holding, Claimed, Creating, Goto
<1>1. CASE (\E s \in Sessions : InsertSession(p, s)) \/ Revive(p)
  BY <1>1 DEF InsertSession, Revive, Revivable
<1>2. CASE CreatePromptRun(p) \/ SetActiveRun(p) \/ RecordOwner(p)
           \/ OwnerStep(p)
  BY <1>2, <1>t
    DEF OwnerStep, CreatePromptRun, SetActiveRun, RecordOwner, BootSucceeds,
     StartupFailureRun, StartupFailureSession, AcceptTurn, Complete, FailTurn,
     CancelIdle, BuildFailureManifest, RejectFailureManifest, CommitTerminal,
     FallbackRun, FallbackSession, ReleaseOwnership, Handoff, RollbackHandoff,
       Exit
<1>3. CASE StartSession(p) \/ StartResume(p) \/ Crash(p) \/ Confirm(p)
           \/ Decline(p)
  BY <1>3, <1>t
    DEF StartSession, StartResume, Crash, Confirm, Decline, Launch, Exit
<1>4. CASE CreateConflict(p) \/ CreateSession(p) \/ RecreateSession(p)
           \/ FindActive(p) \/ CaptureProof(p) \/ ProbeOwner(p)
           \/ PrepareStale(p) \/ FailCloseStaleOwner(p)
  BY <1>1, <1>4, <1>t
    DEF CreateConflict, CreateSession, RecreateSession, FindActive,
      CaptureProof, ProbeOwner, PrepareStale, FailCloseStaleOwner, AfterClose,
      Exit
<1>5. CASE FenceMiss(p) \/ FenceRaise(p) \/ LoadSession(p) \/ LoadRun(p)
           \/ ReviveRefused(p) \/ LockTimeout(p)
  BY <1>5, <1>t
    DEF FenceMiss, FenceRaise, LoadSession, LoadRun, ReviveRefused,
      LockTimeout, Exit
<1> QED BY <1>1, <1>2, <1>3, <1>4, <1>5 DEF ProcStep, AdmissionStep

\* OneLiveOwner is preserved.
LEMMA OneLiveOwnerStep ==
  ASSUME Inv, NEW p \in Procs, ProcStep(p)
  PROVE  OneLiveOwner'
<1> SUFFICES ASSUME NEW q \in Procs, q # p, pc'[p] \in Holding,
    pc'[q] \in Holding
             PROVE FALSE
  <2>1. \A q, r \in Procs \ {p} : pc'[q] \in Holding
          /\ pc'[r] \in Holding => q = r
    BY OthersKeepLocals DEF Inv, OneLiveOwner
  <2> QED BY <2>1 DEF OneLiveOwner
<1>1. pc[q] \in Holding BY OthersKeepLocals
<1>2. ~FreeWorkspace
  BY <1>1 DEF Inv, LiveOwnerKeepsItsClaim, LocalState, FreeWorkspace
<1>3. pc[p] \in Holding BY <1>2, EnterClaim
<1> QED BY <1>1, <1>3 DEF Inv, OneLiveOwner

\* ProofHonest is preserved: a captured proof never comes to name a live
\* claimed process once the probe has found its pid absent.
LEMMA ProofHonestStep ==
  ASSUME Inv, NEW p \in Procs, ProcStep(p)
  PROVE  ProofHonest'
<1> DEFINE Probed == {"confirm", "prepare", "fence"}
<1>t. TypeOK /\ TokensUnclaimed /\ LocalState /\ LiveOwnerKeepsItsClaim
        /\ ProofHonest /\ OneRunning
  BY DEF Inv
<1> SUFFICES ASSUME NEW a \in Procs, NEW q \in Procs, pc'[q] \in Claimed
             PROVE /\ /\ pc'[a] = "probe" 
                      /\ mem'[a].proof.token = mem'[q].token
                      => PidOf[q] = mem'[a].proof.pid
                        /\ HostOf[q] = mem'[a].proof.host
                   /\ pc'[a] \in Probed => mem'[a].proof.token # mem'[q].token
  BY DEF ProofHonest
<1>d. Claimed \intersect Dead = {}
        /\ (Probed \union {"probe"}) \intersect (Dead \union {"create",
             "load"} \union Claimed) = {}
      /\ Claimed \intersect {"create", "load"} = {}
  BY DEF Claimed, Dead
<1>q. \A r \in Procs \ {p} : pc'[r] = pc[r] /\ mem'[r] = mem[r]
  BY OthersKeepLocals
\* the claimed process kept its token
<1>1. mem'[q].token = mem[q].token
  BY <1>q, <1>d, TokenStep DEF Gone, TokenDrawn, TokenKept
<1>c. ASSUME pc[q] \notin Claimed PROVE pc[q] \in Admission /\ p = q
  <2>1. p = q BY <1>c, <1>q
  <2> USE DEF Admission, StaleSteps, Creating, Claimed, Goto
  <2>2. CASE OwnerStep(p)
    BY <1>t, <1>c, <2>1, <2>2 DEF TypeOK, OwnerStep, BootSucceeds,
     StartupFailureRun, StartupFailureSession, AcceptTurn, Complete, FailTurn,
     CancelIdle, BuildFailureManifest, RejectFailureManifest, CommitTerminal,
     FallbackRun, FallbackSession, ReleaseOwnership, Handoff, RollbackHandoff,
       Exit
  <2>3. CASE StartSession(p) \/ StartResume(p) \/ Crash(p) \/ Confirm(p)
             \/ Decline(p)
    BY <1>t, <2>1, <2>3
      DEF TypeOK, StartSession, StartResume, Crash, Confirm, Decline, Launch,
        Exit
  <2>4. CASE AdmissionStep(p)
    <3>1. pc[p] \in Admission
      BY <2>4
        DEF AdmissionStep, CreateSession, CreateConflict, RecreateSession,
          CreatePromptRun,
      SetActiveRun, RecordOwner, FindActive, CaptureProof, ProbeOwner,
        PrepareStale,
      FailCloseStaleOwner, FenceMiss, FenceRaise, LoadSession, LoadRun,
        Revive, ReviveRefused, LockTimeout
    <3> QED BY <3>1, <2>1
  <2> QED BY <2>2, <2>3, <2>4 DEF ProcStep
<1>2. CASE pc[q] \notin Claimed
  <2>1. p = q /\ pc[q] \in Admission BY <1>2, <1>c
  <2>2. CASE a = q BY <2>2, <1>d
  <2>3. CASE a # q
    <3>1. pc'[a] = pc[a] /\ mem'[a] = mem[a] BY <2>1, <2>3, <1>q
    <3>2. pc[a] \in Probed \union {"probe"} => mem[a].proof \in OwnerFacts
      BY <1>t DEF LocalState
    <3>3. pc[a] \in Probed \union {"probe"} =>
            mem[a].proof.token # mem[q].token
      BY <3>2, <2>1, <1>t, NoneAssumption DEF TokensUnclaimed
    <3> QED BY <3>1, <3>3, <1>1
  <2> QED BY <2>2, <2>3
<1>3. CASE pc[q] \in Claimed
  <2>1. CASE a # p
    BY <2>1, <1>q, <1>1, <1>3, <1>t DEF ProofHonest
  <2>2. CASE a = p /\ CaptureProof(p)
    <3> DEFINE b == mem[p].blk
    <3> SUFFICES ASSUME pc'[p] = "probe", mem'[p].proof.token = mem[q].token
                 PROVE PidOf[q] = mem'[p].proof.pid
                         /\ HostOf[q] = mem'[p].proof.host
      <4>1. pc'[p] \notin Probed
        BY <2>2, <1>t DEF CaptureProof, Goto, Exit, TypeOK
      <4> QED BY <2>2, <1>1, <4>1
    <3>1. b \in Sessions BY <2>2, <1>t DEF CaptureProof, LocalState, StaleSteps
    <3>2. Running(b) /\ mem'[p].proof = sess[b].owner
      BY <2>2, <1>t
        DEF CaptureProof, ProofReadable, Running, Goto, Exit, TypeOK, Memory
    <3>3. Running(mem[q].sid) /\ sess[mem[q].sid].owner = FactsOf(q)
            /\ mem[q].sid \in Sessions
      BY <1>3, <1>t DEF LiveOwnerKeepsItsClaim, Holding, LocalState
    <3>4. mem'[p].proof = FactsOf(q) BY <3>1, <3>2, <3>3, <1>t DEF OneRunning
    <3> QED BY <3>4 DEF FactsOf
  <2>3. CASE a = p /\ ProbeOwner(p)
    <3>1. alive(q) BY <1>3, <1>d DEF alive
    <3>2. pc'[p] \notin Dead => pc'[p] = "confirm" /\ mem'[p] = mem[p]
            /\ ~PidExists(HostOf[p], mem[p].proof.pid)
      BY <2>3, <1>t DEF ProbeOwner, Goto, Exit, TypeOK, Dead
    <3>3. mem[p].proof.host = HostOf[p] /\ pc[p] = "probe"
      BY <2>3, <1>t DEF LocalState, ProbeOwner
    <3>4. mem[p].proof.token = mem[q].token =>
            PidExists(HostOf[p], mem[p].proof.pid)
      BY <3>1, <3>3, <1>3, <1>t DEF ProofHonest, PidExists
    <3> QED BY <2>3, <3>2, <3>4, <1>1, <1>d
  <2>4. CASE a = p /\ pc'[p] \in Probed \union {"probe"} /\ ~CaptureProof(p)
               /\ ~ProbeOwner(p)
    <3>1. pc[p] \in Probed /\ mem'[p].proof = mem[p].proof /\ pc'[p] # "probe"
      <4> USE DEF Goto, Exit
      <4>0. pc \in [Procs -> Steps \union Dead] /\ mem \in [Procs -> Memory]
        BY <1>t DEF TypeOK
      <4>1. CASE Confirm(p) BY <4>1, <4>0 DEF Confirm
      <4>2. CASE PrepareStale(p) BY <4>2, <4>0 DEF PrepareStale, Memory
      <4>3. CASE StartSession(p) \/ StartResume(p) \/ Crash(p) \/ Decline(p)
        BY <2>4, <4>3, <4>0
          DEF StartSession, StartResume, Crash, Decline, Launch
      <4>4. CASE OwnerStep(p)
        <5>1. pc'[p] \in Claimed \union {"release", "off"}
          BY <4>4, <4>0 DEF OwnerStep, BootSucceeds, Claimed,
           StartupFailureRun, StartupFailureSession, AcceptTurn, Complete,
             FailTurn,
           CancelIdle, BuildFailureManifest, RejectFailureManifest,
             CommitTerminal,
           FallbackRun, FallbackSession, ReleaseOwnership, Handoff,
             RollbackHandoff
        <5> QED BY <5>1, <2>4 DEF Claimed
      <4>5. CASE CreateSession(p) \/ CreateConflict(p) \/ RecreateSession(p)
                 \/ CreatePromptRun(p) \/ SetActiveRun(p) \/ RecordOwner(p)
        BY <2>4, <4>5, <4>0
          DEF CreateSession, CreateConflict, RecreateSession, CreatePromptRun,
            SetActiveRun, RecordOwner, InsertSession
      <4>6. CASE FindActive(p) \/ FailCloseStaleOwner(p) \/ FenceMiss(p)
                 \/ FenceRaise(p)
        BY <2>4, <4>6, <4>0
          DEF FindActive, FailCloseStaleOwner, AfterClose, FenceMiss,
            FenceRaise
      <4>7. CASE LoadSession(p) \/ LoadRun(p) \/ Revive(p) \/ ReviveRefused(p)
                 \/ LockTimeout(p)
        BY <2>4, <4>7, <4>0
          DEF LoadSession, LoadRun, Revive, ReviveRefused, LockTimeout
      <4> QED
        BY <2>4, <4>1, <4>2, <4>3, <4>4, <4>5, <4>6, <4>7
          DEF ProcStep, AdmissionStep
    <3> QED BY <3>1, <2>4, <1>3, <1>1, <1>t DEF ProofHonest
  <2> QED BY <2>1, <2>2, <2>3, <2>4
<1> QED BY <1>2, <1>3

\* LiveOwnerKeepsItsClaim is preserved.
LEMMA LiveOwnerStep ==
  ASSUME Inv, NEW p \in Procs, ProcStep(p)
  PROVE  LiveOwnerKeepsItsClaim'
<1>t. /\ pc \in [Procs -> Steps \union Dead] /\ mem \in [Procs -> Memory]
           /\ sess \in [Sessions -> SessionRow]
      /\ LocalState /\ LiveOwnerKeepsItsClaim
  BY DEF Inv, TypeOK
<1> DEFINE Claim(q) == pc[q] \in Holding =>
            /\ Running(mem[q].sid)
            /\ sess[mem[q].sid].owner =
                  IF pc[q] \in Claimed THEN FactsOf(q) ELSE None
<1>q. ASSUME NEW q \in Procs, q # p PROVE Claim(q)'
  <2>1. pc'[q] = pc[q] /\ mem'[q] = mem[q] BY <1>q, OthersKeepLocals
  <2>2. pc[q] \in Holding => sess'[mem[q].sid] = sess[mem[q].sid]
    BY <1>q, HeldRowsKept
  <2> QED BY <2>1, <2>2, <1>t DEF LiveOwnerKeepsItsClaim, Running, FactsOf
<1>p. Claim(p)'
  <2> DEFINE s == mem[p].sid
  <2> USE DEF Holding, Creating, Claimed, Goto
  <2>s. pc[p] \in Holding => s \in Sessions BY <1>t DEF LocalState
  <2>c. pc[p] \in Claimed => sess[s].owner = FactsOf(p) /\ Running(s)
    BY <1>t DEF LiveOwnerKeepsItsClaim
  <2>n. pc[p] \in Creating => sess[s].owner = None /\ Running(s)
    BY <1>t DEF LiveOwnerKeepsItsClaim
  <2>k. ASSUME UNCHANGED sess, mem'[p].sid = s, mem'[p].token = mem[p].token,
                 pc[p] \in Holding,
               pc[p] \in Claimed <=> pc'[p] \in Claimed
        PROVE Claim(p)'
    BY <2>k, <1>t DEF LiveOwnerKeepsItsClaim, FactsOf, Running
  <2>1. ASSUME NEW t \in Sessions, InsertSession(p, t) PROVE Claim(p)'
    <3>1. pc'[p] = "newrun" /\ mem'[p].sid = t
      BY <2>1, <1>t DEF InsertSession, Memory
    <3>2. sess'[t].status = "running" /\ sess'[t].owner = None
      BY <2>1, <1>t DEF InsertSession, NoSession
    <3> QED BY <3>1, <3>2 DEF Running
  <2>2. CASE CreatePromptRun(p)
    BY <2>2, <2>k, <1>t DEF CreatePromptRun
  <2>3. CASE SetActiveRun(p)
    <3>1. sess'[s].status = sess[s].status /\ sess'[s].owner = sess[s].owner
      BY <2>3, <2>s, <1>t DEF SetActiveRun, SessionRow
    <3> QED BY <3>1, <2>3, <2>n, <1>t DEF SetActiveRun, Running
  <2>4. CASE RecordOwner(p)
    <3>1. sess'[s].status = sess[s].status /\ sess'[s].owner = FactsOf(p)
      BY <2>4, <2>s, <2>n, <1>t DEF RecordOwner, SessionRow
    <3> QED BY <3>1, <2>4, <2>n, <1>t DEF RecordOwner, Running, FactsOf
  <2>5. CASE BootSucceeds(p) \/ StartupFailureRun(p) \/ FailTurn(p)
             \/ RejectFailureManifest(p) \/ FallbackRun(p)
    BY <2>5, <2>k, <1>t
      DEF BootSucceeds, StartupFailureRun, FailTurn, RejectFailureManifest,
        FallbackRun, rows
  <2>6. CASE AcceptTurn(p) \/ CancelIdle(p)
    <3>1. mem'[p].sid = s /\ mem'[p].token = mem[p].token
      BY <2>6, <1>t DEF AcceptTurn, CancelIdle, AppendMessage, Memory
    <3> QED BY <3>1, <2>6, <2>k, <1>t DEF AcceptTurn, CancelIdle, rows
  <2>7. CASE Complete(p) \/ BuildFailureManifest(p)
    <3>1. mem'[p].sid = s /\ mem'[p].token = mem[p].token
      BY <2>7, <1>t DEF Complete, BuildFailureManifest, Memory
    <3> QED BY <3>1, <2>7, <2>k, <1>t DEF Complete, BuildFailureManifest, rows
  <2>8. CASE Handoff(p)
    <3>1. mem'[p].sid = s /\ mem'[p].token = sess[s].owner.token
      BY <2>8, <1>t DEF Handoff, Memory
    <3>2. sess[s].owner.token = mem[p].token BY <2>8, <2>c DEF Handoff, FactsOf
    <3> QED BY <3>1, <3>2, <2>8, <2>k, <1>t DEF Handoff, rows
  <2>9. CASE Revive(p)
    <3>0. s \in Sessions BY <2>9, <1>t DEF Revive, LocalState
    <3>1. sess'[s].status = "running" /\ sess'[s].owner = FactsOf(p)
      BY <2>9, <3>0, <1>t DEF Revive, SessionRow
    <3> QED BY <3>1, <2>9, <1>t DEF Revive, Running, FactsOf
  <2>10. CASE pc'[p] \notin Holding
    BY <2>10
  <2>11. CASE StartupFailureSession(p) \/ FallbackSession(p)
              \/ CommitTerminal(p) \/ ReleaseOwnership(p) \/ RollbackHandoff(p)
    BY <2>11, <1>t
      DEF StartupFailureSession, FallbackSession, CommitTerminal,
        ReleaseOwnership, RollbackHandoff, Exit
  <2>12. CASE StartSession(p) \/ StartResume(p) \/ Crash(p) \/ Confirm(p)
              \/ Decline(p)
    BY <2>12, <1>t
      DEF StartSession, StartResume, Crash, Confirm, Decline, Launch, Exit
  <2>13. CASE CreateConflict(p) \/ CreateSession(p) \/ RecreateSession(p)
              \/ FindActive(p) \/ CaptureProof(p) \/ ProbeOwner(p)
             \/ PrepareStale(p) \/ FailCloseStaleOwner(p)
    <3>1. (\E t \in Sessions : InsertSession(p, t)) \/ pc'[p] \notin Holding
      BY <2>13, <1>t
        DEF CreateConflict, CreateSession, RecreateSession, FindActive,
          CaptureProof, ProbeOwner, PrepareStale, FailCloseStaleOwner,
          AfterClose, Exit
    <3> QED BY <3>1, <2>1, <2>10
  <2>14. CASE FenceMiss(p) \/ FenceRaise(p) \/ LoadSession(p) \/ LoadRun(p)
              \/ ReviveRefused(p) \/ LockTimeout(p)
    BY <2>14, <1>t
      DEF FenceMiss, FenceRaise, LoadSession, LoadRun, ReviveRefused,
        LockTimeout, Exit
  <2> QED
    BY <2>2, <2>3, <2>4, <2>5, <2>6, <2>7, <2>8, <2>9, <2>11, <2>12, <2>13,
      <2>14
      DEF ProcStep, AdmissionStep, OwnerStep
<1> QED BY <1>q, <1>p DEF LiveOwnerKeepsItsClaim

\* CheckpointCoversLog and TerminalRowsAgree are preserved.
LEMMA CheckpointCoversLogStep ==
  ASSUME Inv, NEW p \in Procs, ProcStep(p)
  PROVE  CheckpointCoversLog' /\ TerminalRowsAgree'
<1> DEFINE s == mem[p].sid
           Good(t) == /\ sess[t].status \in Terminal /\ sess[t].latest # 0 =>
                          /\ run[t].latest = sess[t].latest
                          /\ Covers(sess[t].latest, t)
                      /\ sess[t].status \in Terminal =>
                          /\ run[t].status = sess[t].status
                          /\ run[t].latest = sess[t].latest
                          /\ run[t].startupFailure = sess[t].startupFailure
<1>t. /\ chks \in Seq(Manifest) /\ mem \in [Procs -> Memory]
           /\ sess \in [Sessions -> SessionRow]
      /\ run \in [Sessions -> RunRow] /\ log \in [Sessions -> 0..MaxLog]
      /\ LocalState /\ LiveOwnerKeepsItsClaim /\ RowsInStep /\ ManifestsCover
  BY DEF Inv, TypeOK
<1>g. \A t \in Sessions : Good(t)
  BY DEF Inv, CheckpointCoversLog, TerminalRowsAgree, Covers
<1>s. pc[p] \in Holding => s \in Sessions /\ Running(s)
  BY <1>t DEF LocalState, LiveOwnerKeepsItsClaim
<1>h. Claimed \subseteq Holding /\ Creating \subseteq Holding BY DEF Holding
<1> SUFFICES ASSUME NEW t \in Sessions PROVE Good(t)'
  BY DEF CheckpointCoversLog, TerminalRowsAgree, Covers
<1>k. ASSUME sess'[t].status = sess[t].status,
               sess'[t].latest = sess[t].latest,
                 sess'[t].startupFailure = sess[t].startupFailure,
             run'[t] = run[t], log'[t] = log[t] PROVE Good(t)'
  <2>1. Covers(sess[t].latest, t) => Covers(sess[t].latest, t)'
    BY <1>k, <1>t, CheckpointsKept DEF Covers
  <2> QED BY <1>g, <1>k, <2>1
<1>r. ASSUME sess'[t].status = "running" PROVE Good(t)'
  BY <1>r DEF Terminal
<1>1. ASSUME NEW i \in Sessions, InsertSession(p, i) PROVE Good(t)'
  BY <1>1, <1>k, <1>r, <1>t DEF InsertSession, NoSession, data
<1>2. CASE CreatePromptRun(p) \/ StartupFailureRun(p) \/ FallbackRun(p)
  <2>0. pc[p] \in Holding
    BY <1>2
      DEF CreatePromptRun, StartupFailureRun, FallbackRun, Holding, Creating,
        Claimed
  <2>1. t = s => sess'[t].status = "running"
    BY <2>0, <1>2, <1>s
      DEF Running, CreatePromptRun, StartupFailureRun, FallbackRun
  <2>2. t # s => run'[t] = run[t]
    BY <1>2, <1>t
      DEF CreatePromptRun, StartupFailureRun, FallbackRun, MarkRunFailed
  <2>3. UNCHANGED <<sess, log>>
    BY <1>2 DEF CreatePromptRun, StartupFailureRun, FallbackRun, data
  <2> QED BY <2>1, <2>2, <2>3, <1>k, <1>r
<1>3. CASE SetActiveRun(p) \/ RecordOwner(p) \/ ReleaseOwnership(p)
  <2>1. UNCHANGED <<run, log>>
    BY <1>3 DEF SetActiveRun, RecordOwner, ReleaseOwnership, data
  <2>2. /\ sess'[t].status = sess[t].status /\ sess'[t].latest = sess[t].latest
        /\ sess'[t].startupFailure = sess[t].startupFailure
    <3>1. CASE SetActiveRun(p) BY <3>1, <1>t DEF SetActiveRun, SessionRow
    <3>2. ASSUME NEW o, sess' = [sess EXCEPT ![s].owner = o]
          PROVE  /\ sess'[t].status = sess[t].status
                      /\ sess'[t].latest = sess[t].latest
                 /\ sess'[t].startupFailure = sess[t].startupFailure
      BY <3>2, <1>t DEF SessionRow
    <3>3. CASE RecordOwner(p) BY <3>2, <3>3 DEF RecordOwner
    <3>4. CASE ReleaseOwnership(p) BY <3>2, <3>4 DEF ReleaseOwnership
    <3> QED BY <1>3, <3>1, <3>3, <3>4
  <2> QED BY <2>1, <2>2, <1>k
<1>4. CASE AcceptTurn(p) \/ CancelIdle(p)
  <2>0. pc[p] \in Holding BY <1>4 DEF AcceptTurn, CancelIdle, Holding, Claimed
  <2>1. t = s => sess'[t].status = "running"
    BY <2>0, <1>4, <1>s DEF Running, AcceptTurn, CancelIdle, rows
  <2>2. t # s => log'[t] = log[t]
    BY <1>4, <1>t DEF AcceptTurn, CancelIdle, AppendMessage
  <2>3. UNCHANGED <<sess, run>> BY <1>4 DEF AcceptTurn, CancelIdle, rows
  <2> QED BY <2>1, <2>2, <2>3, <1>k, <1>r
<1>5. CASE StartupFailureSession(p) \/ FallbackSession(p)
  <2>1. CASE t # s
    BY <2>1, <1>5, <1>k, <1>t
      DEF StartupFailureSession, FallbackSession, MarkSessionFailed, data
  <2>2. CASE t = s
    <3>1. sess'[t].latest = 0 /\ sess'[t].status = "failed" /\ UNCHANGED run
      BY <2>2, <1>5, <1>t
        DEF StartupFailureSession, FallbackSession, MarkSessionFailed
    <3>2. run[t].status = "failed" /\ run[t].latest = 0
            /\ run[t].startupFailure = sess'[t].startupFailure
      <4>1. CASE StartupFailureSession(p)
        <5>1. run[t] = [status |-> "failed", latest |-> 0,
                startupFailure |-> TRUE]
          BY <2>2, <4>1, <1>t DEF StartupFailureSession, RowsInStep
        <5>2. sess'[t].startupFailure = TRUE
          BY <2>2, <4>1, <1>t DEF StartupFailureSession, MarkSessionFailed
        <5>3. run[t].status = "failed" /\ run[t].latest = 0
          BY <5>1
        <5>4. run[t].startupFailure = TRUE
          BY <5>1
        <5> QED BY <5>2, <5>3, <5>4, Zenon
      <4>2. CASE FallbackSession(p)
        <5>1. run[t] = [status |-> "failed", latest |-> 0,
                startupFailure |-> FALSE]
          BY <2>2, <4>2, <1>t DEF FallbackSession, RowsInStep
        <5>2. sess'[t].startupFailure = FALSE
          BY <2>2, <4>2, <1>t DEF FallbackSession, MarkSessionFailed
        <5>3. run[t].status = "failed" /\ run[t].latest = 0
          BY <5>1
        <5>4. run[t].startupFailure = FALSE
          BY <5>1
        <5> QED BY <5>2, <5>3, <5>4, Zenon
      <4> QED BY <1>5, <4>1, <4>2
    <3> QED BY <3>1, <3>2
  <2> QED BY <2>1, <2>2
<1>6. CASE CommitTerminal(p)
  <2> DEFINE m == mem[p].prep
             id == Len(chks) + 1
  <2>m. m \in Manifest /\ m.session = s /\ m.cut = log[s]
    BY <1>6, <1>t DEF CommitTerminal, ManifestsCover
  <2>1. CASE t # s
    BY <2>1, <1>6, <1>k, <1>t DEF CommitTerminal, data
  <2>2. CASE t = s
    <3>1. /\ sess'[t].latest = id /\ sess'[t].status = m.status
               /\ ~sess'[t].startupFailure
          /\ run'[t].latest = id /\ run'[t].status = m.status
               /\ ~run'[t].startupFailure
          /\ run'[t].startupFailure = sess'[t].startupFailure
      BY <2>2, <1>6, <1>t DEF CommitTerminal
    <3>2. chks' = Append(chks, m) /\ log' = log
      BY <1>6 DEF CommitTerminal, data
    <3>3. /\ id \in 1..Len(chks') /\ id # 0
          /\ chks'[id].session = t /\ chks'[id].cut = log'[t]
      BY <3>2, <2>m, <2>2, <1>t
    <3> QED BY <3>1, <3>3 DEF Covers
  <2> QED BY <2>1, <2>2
<1>7. CASE FailCloseStaleOwner(p)
  <2> DEFINE m == mem[p].prep
             b == mem[p].blk
             id == IF m = None THEN 0 ELSE Len(chks) + 1
  <2>1. CASE t # b
    BY <2>1, <1>7, <1>k, <1>t DEF FailCloseStaleOwner, data
  <2>2. CASE t = b
    <3>1. /\ sess'[t].latest = id /\ sess'[t].status = "failed"
               /\ ~sess'[t].startupFailure
          /\ run'[t].latest = id /\ run'[t].status = "failed"
               /\ ~run'[t].startupFailure
          /\ run'[t].startupFailure = sess'[t].startupFailure
      BY <2>2, <1>7, <1>t DEF FailCloseStaleOwner
    <3>2. CASE m = None BY <3>1, <3>2
    <3>3. CASE m # None
      <4>1. m \in Manifest /\ m.session = b /\ m.cut = log[b]
        BY <3>3, <1>7, <1>t, MemoryFields
          DEF FailCloseStaleOwner, ManifestsCover
      <4>2. chks' = Append(chks, m) /\ log' = log
        BY <1>7, <3>3 DEF FailCloseStaleOwner, data
      <4>3. /\ id \in 1..Len(chks') /\ id # 0
            /\ chks'[id].session = t /\ chks'[id].cut = log'[t]
        BY <4>1, <4>2, <3>3, <2>2, <1>t
      <4> QED BY <3>1, <4>3 DEF Covers
    <3> QED BY <3>2, <3>3
  <2> QED BY <2>1, <2>2
<1>8. CASE Revive(p)
  <2>1. CASE t = s BY <2>1, <1>8, <1>r, <1>t DEF Revive, SessionRow
  <2>2. CASE t # s BY <2>2, <1>8, <1>k, <1>t DEF Revive
  <2> QED BY <2>1, <2>2
<1>9. CASE RollbackHandoff(p)
  <2>1. CASE t # s BY <2>1, <1>9, <1>k, <1>t DEF RollbackHandoff, data
  <2>2. CASE t = s
    <3>1. Covers(sess[s].latest, s) /\ run[s].latest = sess[s].latest
            /\ ~sess[s].startupFailure /\ ~run[s].startupFailure
      BY <1>9, <1>t DEF ManifestsCover, RollbackHandoff
    <3>2. sess[s].startupFailure \in BOOLEAN
            /\ run[s].startupFailure \in BOOLEAN
      BY <2>2, <1>t, SessionRowFields, RunRowFields
    <3>3. run[s].startupFailure = sess[s].startupFailure BY <3>1, <3>2
    <3>4. /\ sess'[t].latest = sess[s].latest
               /\ sess'[t].status = chks[sess[s].latest].status
                    /\ sess'[t].startupFailure = sess[s].startupFailure
          /\ run'[t].latest = run[s].latest
               /\ run'[t].status = chks[sess[s].latest].status
                    /\ run'[t].startupFailure = run[s].startupFailure
      BY <2>2, <1>9, <1>t DEF RollbackHandoff, SessionRow, RunRow
    <3>5. Covers(sess[t].latest, t)'
      BY <3>1, <3>4, <2>2, <1>9 DEF Covers, RollbackHandoff, data
    <3> QED BY <2>2, <3>1, <3>3, <3>4, <3>5
  <2> QED BY <2>1, <2>2
<1>10. CASE UNCHANGED <<rows, data>>
  BY <1>10, <1>k DEF rows, data
<1> QED
  BY <1>1, <1>2, <1>3, <1>4, <1>5, <1>6, <1>7, <1>8, <1>9, <1>10, WritersOnly
    DEF WriteStep

\* LocalState is preserved.
LEMMA LocalStateStep ==
  ASSUME Inv, NEW p \in Procs, ProcStep(p)
  PROVE  LocalState'
<1> DEFINE Local(q) ==
        /\ pc[q] \in Dead \union {"create", "recreate"} \union Creating
             => mem[q].view = 0
        /\ pc[q] = "create" => mem[q].flow = "start"
        /\ pc[q] \in Holding \union {"release", "load", "loadrun", "revive"}
             => mem[q].sid \in Sessions
        /\ pc[q] \in StaleSteps =>
             /\ mem[q].flow \in {"start", "self", "other"}
             /\ mem[q].flow # "start" => mem[q].sid \in Sessions
             /\ mem[q].flow = "start" => mem[q].view = 0
        /\ pc[q] = "boot" => mem[q].view = 0
        /\ pc[q] = "revive" => mem[q].flow = "other"
        /\ pc[q] \in {"load", "loadrun"} => mem[q].flow \in {"resume", "self"}
        /\ pc[q] = "loadrun" => mem[q].seen # None
        /\ pc[q] \in StaleSteps \union {"revive"} /\ mem[q].flow = "other" =>
             mem[q].chk \in 1..Len(chks)
        /\ pc[q] \in StaleSteps \ {"find"} => mem[q].blk \in Sessions
        /\ pc[q] \in {"probe", "confirm", "prepare", "fence"} =>
             /\ mem[q].proof \in OwnerFacts
             /\ mem[q].proof.host = HostOf[q]
<1>t. /\ pc \in [Procs -> Steps \union Dead] /\ mem \in [Procs -> Memory]
      /\ sess \in [Sessions -> SessionRow] /\ chks \in Seq(Manifest)
      /\ \A q \in Procs : Local(q)
  BY DEF Inv, TypeOK, LocalState
<1>c. \A i : i \in 1..Len(chks) => i \in 1..Len(chks')
  BY <1>t, CheckpointsKept
<1>q. ASSUME NEW q \in Procs, q # p PROVE Local(q)'
  BY <1>q, <1>t, <1>c, OthersKeepLocals
<1> HIDE DEF Local
<1>p. Local(p)'
  <2> DEFINE m == mem[p]
  <2>l. Local(p) /\ m \in Memory BY <1>t
  <2>x. ASSUME NEW l \in Dead, Exit(p, l) PROVE Local(p)'
    <3>1. pc'[p] \in Dead /\ mem'[p].view = 0
      BY <2>x, <1>t DEF Exit, Goto, FreshMemory
    <3> QED BY <3>1 DEF Local, Dead, Creating, Holding, Claimed, StaleSteps
  <2>d. "off" \in Dead /\ "raised" \in Dead BY DEF Dead
  <2> USE DEF Dead, Creating, Holding, Claimed, StaleSteps, Goto
  <2>1. CASE StartSession(p)
    <3>1. pc'[p] = "create" /\ mem'[p].view = 0 /\ mem'[p].flow = "start"
      BY <2>1, <1>t DEF StartSession, Launch, FreshMemory
    <3> QED BY <3>1 DEF Local
  <2>2. CASE StartResume(p)
    <3>1. pc'[p] = "load" /\ mem'[p].sid \in Sessions
            /\ mem'[p].flow = "resume"
      BY <2>2, <1>t DEF StartResume, Launch, FreshMemory
    <3> QED BY <3>1 DEF Local
  <2>3. CASE Crash(p) \/ Decline(p) \/ FenceMiss(p) \/ FenceRaise(p)
             \/ ReviveRefused(p) \/ LockTimeout(p)
             \/ ReleaseOwnership(p) \/ RollbackHandoff(p)
    BY <2>3, <2>x, <2>d
      DEF Crash, Decline, FenceMiss, FenceRaise, ReviveRefused, LockTimeout,
        ReleaseOwnership, RollbackHandoff
  <2>4. CASE CreateSession(p) \/ RecreateSession(p)
    <3>1. ASSUME NEW s \in Sessions, InsertSession(p, s),
                   pc[p] \in {"create", "recreate"}
          PROVE  Local(p)'
      <4>1. pc'[p] = "newrun" /\ mem'[p].sid = s /\ mem'[p].view = m.view
        BY <3>1, <1>t DEF InsertSession, Memory
      <4> QED BY <3>1, <4>1, <2>l DEF Local
    <3> QED BY <2>4, <3>1, <2>x, <2>d DEF CreateSession, RecreateSession
  <2>5. CASE CreateConflict(p)
    <3> QED BY <2>5, <2>l, <1>t DEF CreateConflict, Local
  <2>6. CASE CreatePromptRun(p) \/ SetActiveRun(p) \/ RecordOwner(p)
    BY <2>6, <2>l, <1>t DEF CreatePromptRun, SetActiveRun, RecordOwner, Local
  <2>7. CASE BootSucceeds(p) \/ StartupFailureRun(p)
             \/ StartupFailureSession(p) \/ FailTurn(p)
             \/ RejectFailureManifest(p)
             \/ FallbackRun(p) \/ FallbackSession(p)
    BY <2>7, <2>l, <1>t
      DEF BootSucceeds, StartupFailureRun, StartupFailureSession, FailTurn,
        RejectFailureManifest, FallbackRun, FallbackSession, Local
  <2>8. CASE AcceptTurn(p) \/ CancelIdle(p) \/ Complete(p)
             \/ BuildFailureManifest(p) \/ CommitTerminal(p) \/ Handoff(p)
    <3>1. pc[p] \in {"driving", "failing", "commit", "handoff"}
            /\ pc'[p] \in {"driving", "failing", "commit", "release"}
      BY <2>8, <1>t
        DEF AcceptTurn, CancelIdle, Complete, BuildFailureManifest,
          CommitTerminal, Handoff
    <3>2. CASE AcceptTurn(p) \/ CancelIdle(p)
      <4>1. mem'[p].sid = m.sid
        BY <3>2, <1>t DEF AcceptTurn, CancelIdle, AppendMessage, Memory
      <4> QED BY <3>1, <4>1, <2>l DEF Local
    <3>3. CASE Complete(p) \/ BuildFailureManifest(p) \/ CommitTerminal(p)
      <4>1. mem'[p].sid = m.sid
        BY <3>3, <1>t
          DEF Complete, BuildFailureManifest, CommitTerminal, Memory
      <4> QED BY <3>1, <4>1, <2>l DEF Local
    <3>4. CASE Handoff(p)
      <4>1. mem'[p].sid = m.sid BY <3>4, <1>t DEF Handoff, Memory
      <4> QED BY <3>1, <4>1, <2>l DEF Local
    <3> QED BY <2>8, <3>2, <3>3, <3>4
  <2>9. CASE FindActive(p)
    <3>1. ASSUME NEW s \in Sessions, mem' = [mem EXCEPT ![p].blk = s],
                   Goto(p, "proof"), UNCHANGED chks, pc[p] = "find"
          PROVE  Local(p)'
      <4>1. pc'[p] = "proof" /\ mem'[p].sid = m.sid /\ mem'[p].view = m.view
              /\ mem'[p].flow = m.flow /\ mem'[p].chk = m.chk
                   /\ mem'[p].blk = s
        BY <3>1, <1>t DEF Memory
      <4> QED BY <3>1, <4>1, <2>l DEF Local
    <3>2. CASE mem' = mem /\ Goto(p, "revive") /\ UNCHANGED chks
                 /\ pc[p] = "find" /\ m.flow = "other"
      BY <3>2, <2>l, <1>t DEF Local
    <3> QED BY <2>9, <3>1, <3>2, <2>x, <2>d DEF FindActive, rows
  <2>10. CASE CaptureProof(p)
    <3>1. ASSUME ProofReadable(p, sess[m.blk]),
                   mem' = [mem EXCEPT ![p].proof = sess[m.blk].owner],
                     Goto(p, "probe"), UNCHANGED chks, pc[p] = "proof"
          PROVE  Local(p)'
      <4>1. pc'[p] = "probe" /\ mem'[p].sid = m.sid /\ mem'[p].view = m.view
              /\ mem'[p].flow = m.flow /\ mem'[p].chk = m.chk
                   /\ mem'[p].blk = m.blk
         /\ mem'[p].proof = sess[m.blk].owner
        BY <3>1, <1>t DEF Memory
      <4>2. m.blk \in Sessions BY <3>1, <2>l DEF Local
      <4>3. sess[m.blk].owner \in OwnerFacts
              /\ sess[m.blk].owner.host = HostOf[p]
        BY <3>1, <4>2, <1>t, SessionRowFields DEF ProofReadable
      <4> QED BY <3>1, <4>1, <4>3, <2>l DEF Local
    <3> QED BY <2>10, <3>1, <2>x, <2>d DEF CaptureProof, rows
  <2>11. CASE ProbeOwner(p)
    <3>1. CASE mem' = mem /\ Goto(p, "confirm") /\ UNCHANGED chks
                 /\ pc[p] = "probe"
      BY <3>1, <2>l, <1>t DEF Local
    <3> QED BY <2>11, <3>1, <2>x, <2>d DEF ProbeOwner, rows
  <2>12. CASE Confirm(p)
    BY <2>12, <2>l, <1>t DEF Confirm, Local, rows
  <2>13. CASE PrepareStale(p)
    <3>1. mem'[p].sid = m.sid /\ mem'[p].view = m.view
            /\ mem'[p].flow = m.flow /\ mem'[p].chk = m.chk
                 /\ mem'[p].blk = m.blk
         /\ mem'[p].proof = m.proof
      BY <2>13, <1>t DEF PrepareStale, Memory
    <3>2. pc[p] = "prepare" /\ pc'[p] = "fence" /\ chks' = chks
      BY <2>13, <1>t DEF PrepareStale, rows
    <3> QED BY <3>1, <3>2, <2>l DEF Local
  <2>14. CASE FailCloseStaleOwner(p)
    <3>1. mem'[p].sid = m.sid /\ mem'[p].view = m.view
            /\ mem'[p].flow = m.flow /\ mem'[p].chk = m.chk
      BY <2>14, <1>t DEF FailCloseStaleOwner, Memory
    <3>2. pc[p] = "fence" /\ pc'[p] = AfterClose(m.flow)
      BY <2>14, <1>t DEF FailCloseStaleOwner
    <3>3. m.flow \in {"start", "self", "other"} BY <3>2, <2>l DEF Local
    <3>4. CASE m.flow = "start"
      BY <3>1, <3>2, <3>4, <2>l DEF Local, AfterClose
    <3>5. CASE m.flow = "self"
      BY <3>1, <3>2, <3>5, <2>l DEF Local, AfterClose
    <3>6. CASE m.flow = "other"
      <4>1. m.chk \in 1..Len(chks') BY <3>2, <3>6, <2>l, <1>c DEF Local
      <4> QED BY <3>1, <3>2, <3>6, <4>1, <2>l DEF Local, AfterClose
    <3> QED BY <3>3, <3>4, <3>5, <3>6
  <2>15. CASE LoadSession(p)
    <3>1. mem'[p].sid = m.sid /\ mem'[p].flow = m.flow
            /\ mem'[p].seen = sess[m.sid]
      BY <2>15, <1>t DEF LoadSession, Memory
    <3>2. pc[p] = "load" /\ pc'[p] = "loadrun" BY <2>15, <1>t DEF LoadSession
    <3>3. sess[m.sid] # None
      BY <3>2, <2>l, <1>t, NoneAssumption DEF Local
    <3> QED BY <3>1, <3>2, <3>3, <2>l DEF Local
  <2>16. CASE LoadRun(p)
    <3>0. m.sid \in Sessions /\ pc[p] = "loadrun"
      BY <2>16, <2>l DEF Local, LoadRun
    <3>1. CASE mem' = [mem EXCEPT ![p].flow = "self", ![p].seen = None]
                 /\ Goto(p, "find")
      <4>1. mem'[p].sid = m.sid /\ mem'[p].flow = "self"
        BY <3>1, <1>t DEF Memory
      <4>2. pc'[p] = "find" BY <3>1, <1>t
      <4> QED BY <3>0, <4>1, <4>2 DEF Local
    <3>2. CASE ValidatedCheckpoint(m.sid, m.seen, run[m.sid])
                 /\ mem' = [mem EXCEPT ![p].flow = "other", ![p].seen = None,
                      ![p].chk = m.seen.latest]
               /\ Goto(p, "find") /\ UNCHANGED chks
      <4>1. mem'[p].sid = m.sid /\ mem'[p].flow = "other"
              /\ mem'[p].chk = m.seen.latest
        BY <3>2, <1>t DEF Memory
      <4>2. pc'[p] = "find" BY <3>2, <1>t
      <4>3. m.seen.latest \in 1..Len(chks') BY <3>2 DEF ValidatedCheckpoint
      <4> QED BY <3>0, <4>1, <4>2, <4>3 DEF Local
    <3> QED BY <2>16, <3>1, <3>2, <2>x, <2>d DEF LoadRun, rows
  <2>17. CASE Revive(p)
    BY <2>17, <2>l, <1>t DEF Revive, Local
  <2> QED
    BY <2>1, <2>2, <2>3, <2>4, <2>5, <2>6, <2>7, <2>8, <2>9, <2>10, <2>11,
      <2>12, <2>13, <2>14, <2>15, <2>16, <2>17
       DEF ProcStep, AdmissionStep, OwnerStep
<1> QED BY <1>q, <1>p DEF LocalState, Local

\* RowsInStep is preserved.
LEMMA RowsInStepStep ==
  ASSUME Inv, NEW p \in Procs, ProcStep(p)
  PROVE  RowsInStep'
<1> DEFINE s == mem[p].sid
           Blank(t) == sess[t].status = "absent" => log[t] = 0
             /\ sess[t] = NoSession
           InStep(q) ==
             /\ pc[q] \in Creating \union {"boot"} => log[mem[q].sid] = 0
             /\ pc[q] = "startfail" =>
                  run[mem[q].sid] = [status |-> "failed", latest |-> 0,
                    startupFailure |-> TRUE]
             /\ pc[q] = "markfail" =>
                  run[mem[q].sid] = [status |-> "failed", latest |-> 0,
                    startupFailure |-> FALSE]
<1>t. /\ pc \in [Procs -> Steps \union Dead] /\ mem \in [Procs -> Memory]
           /\ sess \in [Sessions -> SessionRow]
      /\ run \in [Sessions -> RunRow] /\ log \in [Sessions -> 0..MaxLog]
           /\ chks \in Seq(Manifest)
      /\ LocalState /\ LiveOwnerKeepsItsClaim /\ RowsInStep /\ ManifestsCover
  BY DEF Inv, TypeOK
<1>b. (\A t \in Sessions : Blank(t)) /\ (\A q \in Procs : InStep(q))
  BY <1>t DEF RowsInStep
<1>s. pc[p] \in Holding => s \in Sessions /\ Running(s)
  BY <1>t DEF LocalState, LiveOwnerKeepsItsClaim
<1>1. ASSUME NEW t \in Sessions PROVE Blank(t)'
  <2>k. sess'[t] = sess[t] /\ log'[t] = log[t] => Blank(t)' BY <1>b
  <2>a. sess'[t].status # "absent" => Blank(t)' OBVIOUS
  <2>1. ASSUME NEW i \in Sessions, InsertSession(p, i) PROVE Blank(t)'
    BY <2>1, <2>k, <2>a, <1>t DEF InsertSession, data, NoSession
  <2>2. CASE CreatePromptRun(p) \/ StartupFailureRun(p) \/ FallbackRun(p)
    BY <2>2, <2>k DEF CreatePromptRun, StartupFailureRun, FallbackRun, data
  <2>3. CASE SetActiveRun(p)
    <3>1. sess'[s].status = "running"
      BY <2>3, <1>s, <1>t
        DEF SetActiveRun, Running, SessionRow, Holding, Creating
    <3>2. t # s => sess'[t] = sess[t] BY <2>3, <1>t DEF SetActiveRun
    <3> QED BY <3>1, <3>2, <2>3, <2>k, <2>a DEF SetActiveRun, data
  <2>4. CASE RecordOwner(p)
    <3>1. sess' = [sess EXCEPT ![s].owner = FactsOf(p)] /\ s \in Sessions
            /\ Running(s)
      BY <2>4, <1>s DEF RecordOwner, Holding, Creating
    <3>2. sess'[s].status = "running" BY <3>1, <1>t DEF Running, SessionRow
    <3>3. t # s => sess'[t] = sess[t] BY <3>1, <1>t
    <3> QED BY <3>2, <3>3, <2>4, <2>k, <2>a DEF RecordOwner, data
  <2>5. CASE StartupFailureSession(p) \/ FallbackSession(p)
    BY <2>5, <2>k, <2>a, <1>t
      DEF StartupFailureSession, FallbackSession, MarkSessionFailed, data
  <2>6. CASE AcceptTurn(p) \/ CancelIdle(p)
    <3>1. s \in Sessions /\ Running(s)
      BY <2>6, <1>s DEF AcceptTurn, CancelIdle, Holding, Claimed
    <3>2. sess' = sess BY <2>6 DEF AcceptTurn, CancelIdle, rows
    <3>3. t # s => log'[t] = log[t]
      BY <2>6, <1>t DEF AcceptTurn, CancelIdle, AppendMessage
    <3> QED BY <3>1, <3>2, <3>3, <2>k, <2>a DEF Running
  <2>7. CASE CommitTerminal(p)
    <3>1. mem[p].prep.status \in Terminal
      BY <2>7, <1>t, ManifestFields DEF CommitTerminal, ManifestsCover
    <3>2. t = s => sess'[t].status = mem[p].prep.status
      BY <2>7, <1>t DEF CommitTerminal
    <3>3. t # s => sess'[t] = sess[t] BY <2>7, <1>t DEF CommitTerminal
    <3> QED
      BY <3>1, <3>2, <3>3, <2>7, <2>k, <2>a, StatusTyped
        DEF CommitTerminal, data
  <2>8. CASE ReleaseOwnership(p)
    <3>1. CASE ReleaseFence(s, mem[p].token)
      <4>0. sess' = [sess EXCEPT ![s].owner = None]
        BY <3>1, <2>8 DEF ReleaseOwnership
      <4>1. t # s => sess'[t] = sess[t] BY <4>0, <1>t
      <4>2. t = s => sess'[t].status = sess[t].status
        BY <4>0, <1>t DEF SessionRow
      <4>3. t = s => sess[t].status # "absent"
        BY <3>1, StatusTyped DEF ReleaseFence
      <4> QED BY <4>1, <4>2, <4>3, <2>8, <2>k, <2>a DEF ReleaseOwnership, data
    <3>2. CASE sess' = sess BY <3>2, <2>8, <2>k DEF ReleaseOwnership, data
    <3> QED BY <3>1, <3>2, <2>8 DEF ReleaseOwnership
  <2>9. CASE FailCloseStaleOwner(p)
    BY <2>9, <2>k, <2>a, <1>t DEF FailCloseStaleOwner, data
  <2>10. CASE Revive(p)
    BY <2>10, <2>k, <2>a, <1>t DEF Revive, SessionRow
  <2>11. CASE RollbackHandoff(p)
    <3>1. chks[sess[s].latest].status \in Terminal
      BY <2>11, <1>t, ManifestFields
        DEF RollbackHandoff, ManifestsCover, Covers
    <3>2. t = s => sess'[t].status = chks[sess[s].latest].status
      BY <2>11, <1>t DEF RollbackHandoff, SessionRow
    <3>3. t # s => sess'[t] = sess[t] BY <2>11, <1>t DEF RollbackHandoff
    <3> QED
      BY <3>1, <3>2, <3>3, <2>11, <2>k, <2>a, StatusTyped
        DEF RollbackHandoff, data
  <2>12. CASE UNCHANGED <<rows, data>> BY <2>12, <2>k DEF rows, data
  <2> QED
    BY <2>1, <2>2, <2>3, <2>4, <2>5, <2>6, <2>7, <2>8, <2>9, <2>10, <2>11,
      <2>12, WritersOnly
      DEF WriteStep
<1>2. ASSUME NEW q \in Procs, q # p PROVE InStep(q)'
  <2>1. pc'[q] = pc[q] /\ mem'[q] = mem[q] BY <1>2, OthersKeepLocals
  <2>2. pc[q] \in Holding => run'[mem[q].sid] = run[mem[q].sid]
          /\ log'[mem[q].sid] = log[mem[q].sid]
    BY <1>2, HeldRowsKept
  <2> QED BY <2>1, <2>2, <1>b DEF Holding, Creating, Claimed
<1>3. InStep(p)'
  <2> DEFINE Early == Creating \union {"boot", "startfail", "markfail"}
  <2> USE DEF Creating, Goto
  <2>x. pc'[p] \notin Early => InStep(p)' OBVIOUS
  <2>1. ASSUME NEW i \in Sessions, InsertSession(p, i) PROVE InStep(p)'
    <3>1. pc'[p] = "newrun" /\ mem'[p].sid = i /\ log' = log
      BY <2>1, <1>t DEF InsertSession, Memory, data
    <3> QED BY <3>1, <2>1, <1>b DEF InsertSession
  <2>2. CASE CreatePromptRun(p) \/ SetActiveRun(p) \/ RecordOwner(p)
    BY <2>2, <1>b, <1>t DEF CreatePromptRun, SetActiveRun, RecordOwner, data
  <2>3. CASE StartupFailureRun(p)
    <3>1. pc[p] = "boot" /\ mem'[p] = mem[p] /\ pc'[p] = "startfail"
      BY <2>3, <1>t DEF StartupFailureRun
    <3>2. run'[s] = [status |-> "failed", latest |-> 0,
            startupFailure |-> TRUE]
      BY <2>3, <3>1, <1>s, <1>t
        DEF StartupFailureRun, MarkRunFailed, Holding, Claimed
    <3> QED BY <3>1, <3>2
  <2>4. CASE FallbackRun(p)
    <3>1. pc[p] = "fallback" /\ mem'[p] = mem[p] /\ pc'[p] = "markfail"
      BY <2>4, <1>t DEF FallbackRun
    <3>2. run'[s] = [status |-> "failed", latest |-> 0,
            startupFailure |-> FALSE]
      BY <2>4, <3>1, <1>s, <1>t
        DEF FallbackRun, MarkRunFailed, Holding, Claimed
    <3> QED BY <3>1, <3>2
  <2>5. CASE BootSucceeds(p) \/ StartupFailureSession(p) \/ FailTurn(p)
             \/ RejectFailureManifest(p) \/ FallbackSession(p)
             \/ AcceptTurn(p) \/ CancelIdle(p) \/ Complete(p)
             \/ BuildFailureManifest(p) \/ CommitTerminal(p)
             \/ ReleaseOwnership(p) \/ Handoff(p) \/ RollbackHandoff(p)
    BY <2>5, <2>x, <1>t
      DEF BootSucceeds, StartupFailureSession, FailTurn,
        RejectFailureManifest, FallbackSession,
       AcceptTurn, CancelIdle, Complete, BuildFailureManifest, CommitTerminal,
         ReleaseOwnership, Handoff, RollbackHandoff, Exit
  <2>6. CASE StartSession(p) \/ StartResume(p) \/ Crash(p) \/ Confirm(p)
             \/ Decline(p)
    BY <2>6, <2>x, <1>t
      DEF StartSession, StartResume, Crash, Confirm, Decline, Launch, Exit
  <2>7. CASE CreateConflict(p) \/ CreateSession(p) \/ RecreateSession(p)
             \/ FindActive(p) \/ CaptureProof(p) \/ ProbeOwner(p)
             \/ PrepareStale(p) \/ FailCloseStaleOwner(p)
    <3>1. (\E t \in Sessions : InsertSession(p, t)) \/ pc'[p] \notin Early
      BY <2>7, <1>t
        DEF CreateConflict, CreateSession, RecreateSession, FindActive,
          CaptureProof, ProbeOwner, PrepareStale, FailCloseStaleOwner,
          AfterClose, Exit
    <3> QED BY <3>1, <2>1, <2>x
  <2>8. CASE FenceMiss(p) \/ FenceRaise(p) \/ LoadSession(p) \/ LoadRun(p)
             \/ Revive(p) \/ ReviveRefused(p) \/ LockTimeout(p)
    BY <2>8, <2>x, <1>t
      DEF FenceMiss, FenceRaise, LoadSession, LoadRun, Revive, ReviveRefused,
        LockTimeout, Exit
  <2> QED
    BY <2>2, <2>3, <2>4, <2>5, <2>6, <2>7, <2>8
      DEF ProcStep, AdmissionStep, OwnerStep
<1> QED BY <1>1, <1>2, <1>3 DEF RowsInStep

\* DriverSeesWholeLog is preserved.
LEMMA DriverSeesWholeLogStep ==
  ASSUME Inv, NEW p \in Procs, ProcStep(p)
  PROVE  DriverSeesWholeLog'
<1> DEFINE s == mem[p].sid
           Drives == {"driving", "failing", "commit"}
           Whole(q) == pc[q] \in Drives => mem[q].view = log[mem[q].sid]
<1>t. /\ pc \in [Procs -> Steps \union Dead] /\ mem \in [Procs -> Memory]
      /\ log \in [Sessions -> 0..MaxLog]
      /\ LocalState /\ RowsInStep /\ ManifestsCover /\ DriverSeesWholeLog
  BY DEF Inv, TypeOK
<1>1. ASSUME NEW q \in Procs, q # p PROVE Whole(q)'
  <2>1. pc'[q] = pc[q] /\ mem'[q] = mem[q] BY <1>1, OthersKeepLocals
  <2>2. pc[q] \in Holding => log'[mem[q].sid] = log[mem[q].sid]
    BY <1>1, HeldRowsKept
  <2> QED BY <2>1, <2>2, <1>t DEF DriverSeesWholeLog, Holding, Claimed
<1>2. Whole(p)'
  <2> USE DEF Goto
  <2>1. CASE BootSucceeds(p)
    BY <2>1, <1>t DEF BootSucceeds, LocalState, RowsInStep, data
  <2>2. CASE AcceptTurn(p) \/ CancelIdle(p)
    <3>0. s \in Sessions
      BY <2>2, <1>t DEF AcceptTurn, CancelIdle, LocalState, Holding, Claimed
    <3>1. mem'[p].sid = s /\ mem'[p].view = mem[p].view + 1
      BY <2>2, <1>t DEF AcceptTurn, CancelIdle, AppendMessage, Memory
    <3>2. log'[s] = log[s] + 1
      BY <3>0, <2>2, <1>t DEF AcceptTurn, CancelIdle, AppendMessage
    <3>3. mem[p].view = log[s]
      BY <2>2, <1>t DEF AcceptTurn, CancelIdle, DriverSeesWholeLog
    <3> QED BY <3>1, <3>2, <3>3
  <2>3. CASE Complete(p) \/ BuildFailureManifest(p)
    <3>1. mem'[p].sid = s /\ mem'[p].view = mem[p].view /\ log' = log
      BY <2>3, <1>t DEF Complete, BuildFailureManifest, Memory, data
    <3> QED
      BY <3>1, <2>3, <1>t
        DEF Complete, BuildFailureManifest, DriverSeesWholeLog
  <2>4. CASE FailTurn(p) \/ RejectFailureManifest(p)
    BY <2>4, <1>t DEF FailTurn, RejectFailureManifest, DriverSeesWholeLog, data
  <2>5. CASE Handoff(p)
    <3>1. mem'[p].sid = s /\ mem'[p].view = chks[run[s].latest].cut
            /\ log' = log
      BY <2>5, <1>t DEF Handoff, Memory, data
    <3>2. chks[run[s].latest].cut = log[s]
      BY <2>5, <1>t DEF Handoff, ManifestsCover, Covers
    <3> QED BY <3>1, <3>2
  <2>6. CASE pc'[p] \notin Drives BY <2>6
  <2>7. CASE StartupFailureRun(p) \/ StartupFailureSession(p)
             \/ CommitTerminal(p) \/ FallbackRun(p) \/ FallbackSession(p)
             \/ ReleaseOwnership(p) \/ RollbackHandoff(p)
    BY <2>7, <2>6, <1>t
      DEF StartupFailureRun, StartupFailureSession, CommitTerminal,
        FallbackRun, FallbackSession, ReleaseOwnership, RollbackHandoff, Exit
  <2>8. CASE StartSession(p) \/ StartResume(p) \/ Crash(p) \/ Confirm(p)
             \/ Decline(p)
    BY <2>8, <2>6, <1>t
      DEF StartSession, StartResume, Crash, Confirm, Decline, Launch, Exit
  <2>9. CASE CreateConflict(p) \/ CreateSession(p) \/ RecreateSession(p)
             \/ CreatePromptRun(p) \/ SetActiveRun(p) \/ RecordOwner(p)
    BY <2>9, <2>6, <1>t
      DEF CreateConflict, CreateSession, RecreateSession, InsertSession,
        CreatePromptRun, SetActiveRun, RecordOwner, Exit
  <2>10. CASE FindActive(p) \/ CaptureProof(p) \/ ProbeOwner(p)
              \/ PrepareStale(p) \/ FailCloseStaleOwner(p)
    BY <2>10, <2>6, <1>t
      DEF FindActive, CaptureProof, ProbeOwner, PrepareStale,
        FailCloseStaleOwner, AfterClose, Exit
  <2>11. CASE FenceMiss(p) \/ FenceRaise(p) \/ LoadSession(p) \/ LoadRun(p)
              \/ Revive(p) \/ ReviveRefused(p) \/ LockTimeout(p)
    BY <2>11, <2>6, <1>t
      DEF FenceMiss, FenceRaise, LoadSession, LoadRun, Revive, ReviveRefused,
        LockTimeout, Exit
  <2> QED
    BY <2>1, <2>2, <2>3, <2>4, <2>5, <2>7, <2>8, <2>9, <2>10, <2>11
      DEF ProcStep, AdmissionStep, OwnerStep
<1> QED BY <1>1, <1>2 DEF DriverSeesWholeLog

\* If the fence another process has prepared would match after a step, it
\* matched before, and the conversation it closes did not grow.
LEMMA FenceStable ==
  ASSUME Inv, NEW p \in Procs, ProcStep(p), NEW q \in Procs, q # p,
           pc[q] = "fence",
         Fence(mem[q].blk, mem[q].proof)'
  PROVE  Fence(mem[q].blk, mem[q].proof) /\ log'[mem[q].blk] = log[mem[q].blk]
<1> DEFINE s == mem[p].sid
           b == mem[q].blk
           o == mem[q].proof
           Same == sess'[b] = sess[b] /\ log'[b] = log[b]
<1>t. /\ mem \in [Procs -> Memory] /\ sess \in [Sessions -> SessionRow]
      /\ log \in [Sessions -> 0..MaxLog] /\ chks \in Seq(Manifest)
      /\ LocalState /\ LiveOwnerKeepsItsClaim /\ TokensUnclaimed
           /\ ProofHonest /\ ManifestsCover /\ RowsInStep
  BY DEF Inv, TypeOK
<1>q. mem'[q] = mem[q] BY OthersKeepLocals
<1>b. b \in Sessions /\ o \in OwnerFacts /\ o # None
  BY <1>t, NoneAssumption DEF LocalState, StaleSteps
<1>f. sess'[b].status = "running" /\ sess'[b].owner = o /\ sess'[b].activeRun
  BY <1>q DEF Fence, Running
<1>g. Same => Fence(b, o) /\ log'[b] = log[b]
  BY <1>f DEF Fence, Running
<1> SUFFICES Same
  BY <1>g
<1>o. sess'[b].owner = sess[b].owner
  <2>1. ~(pc[p] \in Admission /\ sess'[b].owner = FactsOf(p))
    <3> SUFFICES ASSUME pc[p] \in Admission, o = FactsOf(p) PROVE FALSE BY <1>f
    <3>1. o.token = mem[p].token BY DEF FactsOf
    <3> QED BY <3>1, <1>b, <1>t DEF TokensUnclaimed
  <2> QED BY <2>1, <1>f, <1>b, OwnersWritten
\* the owner fenced against is nobody alive, in particular not p
<1>p. ASSUME pc[p] \in Holding PROVE b # s
  <2> SUFFICES ASSUME b = s PROVE FALSE OBVIOUS
  <2>1. sess[s].owner = o BY <1>f, <1>o
  <2>2. pc[p] \in Claimed /\ o = FactsOf(p)
    BY <1>p, <2>1, <1>b, <1>t DEF LiveOwnerKeepsItsClaim
  <2>3. o.token = mem[p].token BY <2>2 DEF FactsOf
  <2> QED BY <2>2, <2>3, <1>t DEF ProofHonest
<1> USE DEF Holding, Creating, Claimed
<1>1. ASSUME NEW i \in Sessions, InsertSession(p, i) PROVE Same
  <2>1. sess'[i].owner = None BY <1>1, <1>t DEF InsertSession, NoSession
  <2>2. i # b BY <2>1, <1>f, <1>b
  <2> QED BY <1>1, <2>2, <1>b, <1>t DEF InsertSession, data
<1>2. CASE CreatePromptRun(p) \/ StartupFailureRun(p) \/ FallbackRun(p)
  BY <1>2 DEF CreatePromptRun, StartupFailureRun, FallbackRun, data
<1>3. CASE SetActiveRun(p) \/ RecordOwner(p)
  <2>1. b # s BY <1>3, <1>p DEF SetActiveRun, RecordOwner
  <2> QED BY <2>1, <1>3, <1>b, <1>t DEF SetActiveRun, RecordOwner, data
<1>4. CASE AcceptTurn(p) \/ CancelIdle(p)
  <2>1. b # s BY <1>4, <1>p DEF AcceptTurn, CancelIdle
  <2> QED
    BY <2>1, <1>4, <1>b, <1>t DEF AcceptTurn, CancelIdle, AppendMessage, rows
<1>5. CASE StartupFailureSession(p) \/ FallbackSession(p) \/ CommitTerminal(p)
  <2>1. b # s
    BY <1>5, <1>p DEF StartupFailureSession, FallbackSession, CommitTerminal
  <2> QED
    BY <2>1, <1>5, <1>b, <1>t
      DEF StartupFailureSession, FallbackSession, CommitTerminal,
        MarkSessionFailed, data
<1>6. CASE ReleaseOwnership(p)
  <2>1. CASE sess' = [sess EXCEPT ![s].owner = None]
    <3>1. s \in Sessions BY <1>6, <1>t DEF ReleaseOwnership, LocalState
    <3>2. sess'[s].owner = None BY <2>1, <3>1, <1>t DEF SessionRow
    <3>3. b # s BY <3>2, <1>f, <1>b
    <3> QED BY <3>3, <2>1, <1>6, <1>b, <1>t DEF ReleaseOwnership, data
  <2>2. CASE sess' = sess BY <2>2, <1>6 DEF ReleaseOwnership, data
  <2> QED BY <1>6, <2>1, <2>2 DEF ReleaseOwnership
<1>7. CASE FailCloseStaleOwner(p)
  <2>1. b # mem[p].blk BY <1>7, <1>f, <1>b, <1>t DEF FailCloseStaleOwner
  <2> QED BY <2>1, <1>7, <1>b, <1>t DEF FailCloseStaleOwner, data
<1>8. CASE Revive(p)
  <2>1. sess'[b].owner # FactsOf(p)
    <3> SUFFICES ASSUME o = FactsOf(p) PROVE FALSE BY <1>f
    <3>1. o.token = mem[p].token BY DEF FactsOf
    <3>2. pc[p] \in Admission BY <1>8 DEF Revive, Admission
    <3> QED BY <3>1, <3>2, <1>b, <1>t DEF TokensUnclaimed
  <2>2. b # s BY <2>1, <1>8, <1>b, <1>t DEF Revive, SessionRow
  <2> QED BY <2>2, <1>8, <1>b, <1>t DEF Revive
<1>9. CASE RollbackHandoff(p)
  <2>1. b # s BY <1>9, <1>p DEF RollbackHandoff
  <2> QED BY <2>1, <1>9, <1>b, <1>t DEF RollbackHandoff, data
<1>10. CASE UNCHANGED <<rows, data>> BY <1>10 DEF rows, data
<1> QED
  BY <1>1, <1>2, <1>3, <1>4, <1>5, <1>6, <1>7, <1>8, <1>9, <1>10, WritersOnly
    DEF WriteStep

\* ManifestsCover is preserved.
LEMMA ManifestsCoverStep ==
  ASSUME Inv, NEW p \in Procs, ProcStep(p)
  PROVE  ManifestsCover'
<1> DEFINE s == mem[p].sid
           Built(q) == pc[q] = "commit" =>
             /\ mem[q].prep \in Manifest
             /\ mem[q].prep.session = mem[q].sid
             /\ mem[q].prep.cut = log[mem[q].sid]
           Prepared(q) == pc[q] = "fence" /\ mem[q].prep # None =>
             /\ mem[q].prep.session = mem[q].blk
             /\ mem[q].prep.status = "failed"
             /\ Fence(mem[q].blk, mem[q].proof) =>
                  mem[q].prep.cut = log[mem[q].blk]
           Revived(q) == pc[q] = "handoff" =>
             /\ Covers(sess[mem[q].sid].latest, mem[q].sid)
             /\ run[mem[q].sid].latest = sess[mem[q].sid].latest
             /\ ~sess[mem[q].sid].startupFailure
             /\ ~run[mem[q].sid].startupFailure
<1>t. /\ pc \in [Procs -> Steps \union Dead] /\ mem \in [Procs -> Memory]
           /\ sess \in [Sessions -> SessionRow]
      /\ run \in [Sessions -> RunRow] /\ log \in [Sessions -> 0..MaxLog]
           /\ chks \in Seq(Manifest)
      /\ LocalState /\ ManifestsCover /\ CheckpointCoversLog /\ TypeOK
  BY DEF Inv, TypeOK
<1>i. \A q \in Procs : Built(q) /\ Prepared(q) /\ Revived(q)
  BY <1>t DEF ManifestsCover
<1>1. ASSUME NEW q \in Procs, q # p
      PROVE  Built(q)' /\ Prepared(q)' /\ Revived(q)'
  <2>1. pc'[q] = pc[q] /\ mem'[q] = mem[q] BY <1>1, OthersKeepLocals
  <2> DEFINE z == mem[q].sid
  <2>2. pc[q] \in Holding => sess'[z] = sess[z] /\ run'[z] = run[z]
          /\ log'[z] = log[z]
    BY <1>1, HeldRowsKept
  <2>3. Built(q)' BY <2>1, <2>2, <1>i DEF Holding, Claimed
  <2>4. Prepared(q)'
    <3>1. pc[q] = "fence" /\ Fence(mem[q].blk, mem[q].proof)'
          => Fence(mem[q].blk, mem[q].proof)
            /\ log'[mem[q].blk] = log[mem[q].blk]
      BY <1>1, FenceStable
    <3> QED BY <3>1, <2>1, <1>i
  <2>5. Revived(q)'
    <3> SUFFICES ASSUME pc[q] = "handoff" PROVE Revived(q)' BY <2>1
    <3>1. Covers(sess[z].latest, z) => Covers(sess[z].latest, z)'
      BY <2>1, <2>2, <1>t, CheckpointsKept DEF Covers, Holding, Claimed
    <3> QED BY <3>1, <2>1, <2>2, <1>i DEF Holding, Claimed
  <2> QED BY <2>3, <2>4, <2>5
<1>2. Built(p)' /\ Prepared(p)' /\ Revived(p)'
  <2> DEFINE Labels == {"commit", "fence", "handoff"}
  <2> USE DEF Goto
  <2>x. pc'[p] \notin Labels => Built(p)' /\ Prepared(p)'
          /\ Revived(p)' OBVIOUS
  <2>1. CASE Complete(p) \/ BuildFailureManifest(p)
    <3>0. s \in Sessions
      BY <2>1, <1>t
        DEF Complete, BuildFailureManifest, LocalState, Holding, Claimed
    <3>1. pc'[p] = "commit" /\ mem'[p].sid = s /\ log' = log
      BY <2>1, <1>t DEF Complete, BuildFailureManifest, Memory, data
    <3>2. mem'[p].prep \in {ManifestOf(s, "completed"), ManifestOf(s,
            "failed")}
      BY <2>1, <1>t DEF Complete, BuildFailureManifest, Memory
    <3>3. mem'[p].prep \in Manifest
      BY <3>0, <3>2, <1>t, ManifestTyped, StatusTyped
    <3>4. mem'[p].prep.session = s /\ mem'[p].prep.cut = log[s]
      BY <3>2 DEF ManifestOf
    <3> QED BY <3>1, <3>3, <3>4
  <2>2. CASE PrepareStale(p)
    <3>1. pc'[p] = "fence" /\ mem'[p].blk = mem[p].blk /\ log' = log
      BY <2>2, <1>t DEF PrepareStale, Memory, data
    <3>2. mem'[p].prep \in {None, ManifestOf(mem[p].blk, "failed")}
      BY <2>2, <1>t DEF PrepareStale, Memory
    <3>3. mem'[p].prep # None =>
            /\ mem'[p].prep.session = mem[p].blk
            /\ mem'[p].prep.status = "failed"
            /\ mem'[p].prep.cut = log[mem[p].blk]
      BY <3>2 DEF ManifestOf
    <3> QED BY <3>1, <3>3
  <2>3. CASE Revive(p)
    <3>0. s \in Sessions BY <2>3, <1>t DEF Revive, LocalState
    <3>1. pc'[p] = "handoff" /\ mem' = mem /\ log' = log /\ chks' = chks
      BY <2>3, <1>t DEF Revive
    <3>2. sess'[s].latest = sess[s].latest
            /\ sess'[s].startupFailure = sess[s].startupFailure
      BY <3>0, <2>3, <1>t DEF Revive, SessionRow
    <3>3. run'[s].latest = run[s].latest
            /\ run'[s].startupFailure = run[s].startupFailure
      BY <3>0, <2>3, <1>t DEF Revive, RunRow
    <3>4. run[s].latest = sess[s].latest /\ Covers(sess[s].latest, s)
            /\ ~sess[s].startupFailure /\ ~run[s].startupFailure
      BY <3>0, <2>3, <1>t DEF Revive, Revivable, CheckpointCoversLog, Covers
    <3>5. Covers(sess[s].latest, s)' BY <3>1, <3>2, <3>4 DEF Covers
    <3> QED BY <3>1, <3>2, <3>3, <3>4, <3>5
  <2>4. CASE BootSucceeds(p) \/ StartupFailureRun(p)
             \/ StartupFailureSession(p) \/ FailTurn(p)
             \/ RejectFailureManifest(p)
             \/ AcceptTurn(p) \/ CancelIdle(p) \/ CommitTerminal(p)
             \/ FallbackRun(p) \/ FallbackSession(p)
             \/ ReleaseOwnership(p) \/ Handoff(p) \/ RollbackHandoff(p)
    BY <2>4, <2>x, <1>t
      DEF BootSucceeds, StartupFailureRun, StartupFailureSession, FailTurn,
        RejectFailureManifest, AcceptTurn, CancelIdle,
       CommitTerminal, FallbackRun, FallbackSession, ReleaseOwnership,
         Handoff, RollbackHandoff, Exit
  <2>5. CASE StartSession(p) \/ StartResume(p) \/ Crash(p) \/ Confirm(p)
             \/ Decline(p)
    BY <2>5, <2>x, <1>t
      DEF StartSession, StartResume, Crash, Confirm, Decline, Launch, Exit
  <2>6. CASE CreateConflict(p) \/ CreateSession(p) \/ RecreateSession(p)
             \/ CreatePromptRun(p) \/ SetActiveRun(p) \/ RecordOwner(p)
    BY <2>6, <2>x, <1>t
      DEF CreateConflict, CreateSession, RecreateSession, InsertSession,
        CreatePromptRun, SetActiveRun, RecordOwner, Exit
  <2>7. CASE FindActive(p) \/ CaptureProof(p) \/ ProbeOwner(p)
             \/ FailCloseStaleOwner(p)
    BY <2>7, <2>x, <1>t
      DEF FindActive, CaptureProof, ProbeOwner, FailCloseStaleOwner,
        AfterClose, Exit
  <2>8. CASE FenceMiss(p) \/ FenceRaise(p) \/ LoadSession(p) \/ LoadRun(p)
             \/ ReviveRefused(p) \/ LockTimeout(p)
    BY <2>8, <2>x, <1>t
      DEF FenceMiss, FenceRaise, LoadSession, LoadRun, ReviveRefused,
        LockTimeout, Exit
  <2> QED
    BY <2>1, <2>2, <2>3, <2>4, <2>5, <2>6, <2>7, <2>8
      DEF ProcStep, AdmissionStep, OwnerStep
<1> QED BY <1>1, <1>2 DEF ManifestsCover

\* The invariant holds initially.
LEMMA InitInv == Init => Inv
<1> SUFFICES ASSUME Init PROVE Inv OBVIOUS
<1>i. /\ \A s \in Sessions : sess[s] = NoSession /\ run[s] = NoRun
           /\ log[s] = 0 /\ todo[s] = 0
      /\ \A p \in Procs : pc[p] = "off" /\ mem[p] = FreshMemory
      /\ chks = <<>> /\ launches = 0
  BY DEF Init
<1>s. NoSession.status = "absent" /\ NoSession.owner = None BY DEF NoSession
<1>m. FreshMemory.view = 0 /\ FreshMemory.proof = None BY DEF FreshMemory
<1>1. TypeOK
  <2>1. NoSession \in SessionRow BY StatusTyped DEF NoSession, SessionRow
  <2>2. NoRun \in RunRow BY StatusTyped DEF NoRun, RunRow
  <2>3. FreshMemory \in Memory BY FreshMemoryTyped
  <2>4. sess \in [Sessions -> SessionRow] /\ run \in [Sessions -> RunRow]
    BY <2>1, <2>2 DEF Init
  <2>5. mem \in [Procs -> Memory] BY <2>3 DEF Init
  <2>6. pc \in [Procs -> Steps \union Dead] BY DEF Init, Dead
  <2>7. log \in [Sessions -> 0..MaxLog] /\ todo \in [Sessions -> 0..MaxTodo]
          /\ launches \in 0..MaxLaunches
    BY OwnershipAssumption DEF Init
  <2>8. chks \in Seq(Manifest) /\ writer \in Procs \union {None} BY DEF Init
  <2> QED BY <2>4, <2>5, <2>6, <2>7, <2>8 DEF TypeOK
<1>o. "off" \in Dead /\ "off" \notin Steps /\ "off" \notin Holding
        /\ "off" \notin Admission /\ "off" \notin StaleSteps
             /\ "off" \notin Claimed /\ "off" \notin Creating
  BY DEF Dead, Steps, Admission, StaleSteps, Creating, Claimed, Holding
<1>2. OneRunning BY <1>i, <1>s DEF OneRunning, Running
<1>3. TokensUnique /\ TokensUnclaimed
  BY <1>i, <1>s, <1>m, <1>o DEF TokensUnique, TokensUnclaimed, alive
<1>4. LocalState BY <1>i, <1>m, <1>o DEF LocalState
<1>5. LiveOwnerKeepsItsClaim /\ OneLiveOwner /\ ProofHonest
  BY <1>i, <1>o DEF LiveOwnerKeepsItsClaim, OneLiveOwner, ProofHonest
<1>6. RowsInStep BY <1>i, <1>s, <1>o DEF RowsInStep
<1>7. ManifestsCover BY <1>i DEF ManifestsCover
<1>8. CheckpointCoversLog /\ TerminalRowsAgree
  BY <1>i, <1>s, StatusTyped DEF CheckpointCoversLog, TerminalRowsAgree
<1>9. DriverSeesWholeLog BY <1>i DEF DriverSeesWholeLog
<1> QED BY <1>1, <1>2, <1>3, <1>4, <1>5, <1>6, <1>7, <1>8, <1>9 DEF Inv

\* Every step, stuttering included, preserves the invariant.
LEMMA NextInv == Inv /\ [Next]_vars => Inv'
<1>1. ASSUME Inv, NEW p \in Procs, ProcStep(p) PROVE Inv'
  BY <1>1, TypeStep, OneRunningStep, TokensStep, LocalStateStep,
    LiveOwnerStep, OneLiveOwnerStep, ProofHonestStep,
     RowsInStepStep, ManifestsCoverStep, CheckpointCoversLogStep,
       DriverSeesWholeLogStep
       DEF Inv
<1>2. ASSUME Inv, UNCHANGED vars PROVE Inv'
  <2>0. /\ sess' = sess /\ run' = run /\ chks' = chks /\ log' = log
             /\ todo' = todo
        /\ launches' = launches /\ writer' = writer /\ pc' = pc /\ mem' = mem
    BY <1>2 DEF vars, rows, data
  <2> USE <1>2, <2>0 DEF Inv
  <2>1. TypeOK' /\ OneRunning'
    BY DEF TypeOK, OneRunning, Running
  <2>2. TokensUnique' /\ TokensUnclaimed'
    BY DEF TokensUnique, TokensUnclaimed, alive
  <2>3. LocalState' BY DEF LocalState
  <2>4. LiveOwnerKeepsItsClaim' /\ OneLiveOwner'
    BY DEF LiveOwnerKeepsItsClaim, OneLiveOwner, Running, FactsOf
  <2>5. ProofHonest' /\ RowsInStep'
    BY DEF ProofHonest, RowsInStep
  <2>6. ManifestsCover'
    BY DEF ManifestsCover, Covers, Fence, Running
  <2>7. CheckpointCoversLog' /\ TerminalRowsAgree' /\ DriverSeesWholeLog'
    BY DEF CheckpointCoversLog, TerminalRowsAgree, DriverSeesWholeLog
  <2> QED BY <2>1, <2>2, <2>3, <2>4, <2>5, <2>6, <2>7
<1> QED BY <1>1, <1>2 DEF Next

\* The inductive invariant holds in every reachable state, for any number of
\* processes, hosts, sessions and launches.
THEOREM Invariance == Spec => []Inv
BY InitInv, NextInv, PTL DEF Spec

\* Every row, checkpoint, counter and local variable keeps its type.
THEOREM TypeCorrect == Spec => []TypeOK
BY Invariance, PTL DEF Inv

\* No process ever takes a live owner's session away from it.
THEOREM OwnershipKept == Spec => []LiveOwnerKeepsItsClaim
BY Invariance, PTL DEF Inv

\* At most one live process owns a session of the workspace.
THEOREM SingleOwner == Spec => []OneLiveOwner
BY Invariance, PTL DEF Inv

\* What a terminal session names as its checkpoint covers its conversation.
THEOREM CheckpointComplete == Spec => []CheckpointCoversLog
BY Invariance, PTL DEF Inv

\* A driving process sees the whole durable conversation.
THEOREM WholeConversation == Spec => []DriverSeesWholeLog
BY Invariance, PTL DEF Inv

\* Session and run rows agree once the session is terminal.
THEOREM RowsAgree == Spec => []TerminalRowsAgree
BY Invariance, PTL DEF Inv

=============================================================================
