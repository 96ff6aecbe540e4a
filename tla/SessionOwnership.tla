-------------------------- MODULE SessionOwnership --------------------------
(***************************************************************************)
(* Who owns a workspace.  Several debug-agent processes, possibly on       *)
(* several hosts, share one SQLite database.  A session row with status    *)
(* "running" owns the workspace; a process obtains such a row by starting  *)
(* a session (run_one_shot, start_repl) or by reviving a terminal one      *)
(* (resume), and gives it up by terminalizing it.  A row whose owner died  *)
(* is closed by another process: stale proof, operator confirmation,       *)
(* token-fenced fail-close.                                                *)
(*                                                                         *)
(* Every action is one SQLite transaction, one read, or one local step of  *)
(* one process, so a crash (Crash) falls between any two commits.          *)
(*   src/src/debug_agent/runtime/orchestrator.py                           *)
(*   src/src/debug_agent/persistence/{sessions,runs,checkpoints}.py        *)
(***************************************************************************)
EXTENDS Naturals, Sequences

CONSTANTS
    Procs,           \* process slots; a slot is one pid of one host
    Sessions,        \* session ids the processes may create
    HostOf,          \* host_id each process computes, or NoHost
    PidOf,           \* os.getpid() of each process
    NoHost,          \* "host-v1:sha256(unavailable)": no machine id readable
    None,            \* SQL NULL / Python None
    MaxLog,          \* bound: durable conversation messages per session
    MaxTodo,         \* bound: Todo Plan versions per session
    MaxLaunches      \* bound: processes ever launched

\* The bounds are naturals; None is no process and no session.
ASSUME OwnershipAssumption ==
    /\ MaxLog \in Nat /\ MaxTodo \in Nat /\ MaxLaunches \in Nat
    /\ None \notin Procs /\ None \notin Sessions

VARIABLES
    sess,     \* sessions table: one row per session id
    run,      \* runs table: the single prompt run of each session
    chks,     \* checkpoints table; a checkpoint id is a position in it
    log,      \* conversation_messages: accepted rows per session
    todo,     \* todo_plans: current plan_version per session
    launches, \* processes launched so far; numbers their owner tokens
    writer,   \* process holding SQLite's write lock across steps, or None
    pc,       \* what each process does next; "off" and "raised" are dead
    mem       \* local variables of each process

rows == <<sess, run, chks>>
data == <<log, todo>>
vars == <<rows, data, launches, writer, pc, mem>>

(***************************************************************************)
(* Rows and local state.                                                   *)
(***************************************************************************)

Terminal == {"completed", "failed"}
RowStatus == {"absent", "running"} \union Terminal

OwnerFacts == [pid : {PidOf[p] : p \in Procs},
               host : {HostOf[p] : p \in Procs},
               token : 1..MaxLaunches]

\* latest = 0 is latest_checkpoint_id IS NULL.
SessionRow == [status : RowStatus, activeRun : BOOLEAN, latest : Nat,
               startupFailure : BOOLEAN, owner : OwnerFacts \union {None}]

RunRow == [status : RowStatus, latest : Nat, startupFailure : BOOLEAN]

\* The parts of the terminal recovery manifest that recovery depends on.
Manifest == [session : Sessions, status : Terminal, cut : 0..MaxLog,
             todo : 0..MaxTodo]

\* NULL is no owner, no checkpoint and no row.
ASSUME NoneAssumption ==
    None \notin OwnerFacts /\ None \notin Manifest /\ None \notin SessionRow

NoSession == [status |-> "absent", activeRun |-> FALSE, latest |-> 0,
              startupFailure |-> FALSE, owner |-> None]
NoRun == [status |-> "absent", latest |-> 0, startupFailure |-> FALSE]

\* Steps of a process inside sessions/runs creation, before owner facts exist.
Creating == {"newrun", "activate", "claim"}
\* Steps of a process that has claimed a running row with its own token.
Claimed == {"boot", "startfail", "driving", "failing", "commit",
            "fallback", "markfail", "handoff"}
Holding == Creating \union Claimed
\* Steps of the stale fail-close workflow (_try_fail_close_stale_owner).
StaleSteps == {"find", "proof", "probe", "confirm", "prepare", "fence"}
Admission == {"create", "recreate", "load", "loadrun", "revive"}
             \union StaleSteps \union Creating
Steps == Admission \union Claimed \union {"release"}
Dead == {"off", "raised"}

Memory == [sid : Sessions \union {None},       \* session being driven or resumed
           flow : {"start", "resume", "self", "other"},
           blk : Sessions \union {None},       \* session blocking the workspace
           token : 0..MaxLaunches,             \* owner_token of this process
           proof : OwnerFacts \union {None},   \* _StaleProof
           prep : Manifest \union {None},      \* checkpoint built, not committed
           seen : SessionRow \union {None},    \* session row read by resume
           chk : Nat,                          \* checkpoint validated by resume
           view : 0..MaxLog]                   \* in-memory conversation length

FreshMemory == [sid |-> None, flow |-> "start", blk |-> None, token |-> 0,
                proof |-> None, prep |-> None, seen |-> None, chk |-> 0,
                view |-> 0]

alive(p) == pc[p] \notin Dead
Running(s) == sess[s].status = "running"
FreeWorkspace == \A s \in Sessions : ~Running(s)

(***************************************************************************)
(* SQLite allows one writer.  Python opens a transaction before the        *)
(* INSERT of SessionStore.create and an IntegrityError leaves it open, so  *)
(* a start that meets a conflict keeps the write lock through the whole    *)
(* stale workflow; every other write commits within its own step.          *)
(***************************************************************************)
CanWrite(p) == writer \in {None, p}

Goto(p, label) == pc' = [pc EXCEPT ![p] = label]

\* The process ends; closing (or losing) its connection drops its write lock.
Exit(p, label) ==
    /\ Goto(p, label)
    /\ mem' = [mem EXCEPT ![p] = FreshMemory]
    /\ writer' = IF writer = p THEN None ELSE writer

-----------------------------------------------------------------------------
(***************************************************************************)
(* Starting a session: create, create_prompt_run, set_active_run and       *)
(* record_owner are four commits.                                          *)
(***************************************************************************)

\* A new process in slot p, possibly reusing the pid of one that died.
Launch(p, sid, flow, label) ==
    /\ ~alive(p)
    /\ launches < MaxLaunches
    /\ launches' = launches + 1
    /\ mem' = [mem EXCEPT ![p] = [FreshMemory EXCEPT !.sid = sid,
                                  !.flow = flow, !.token = launches + 1]]
    /\ Goto(p, label)
    /\ UNCHANGED <<rows, data, writer>>

StartSession(p) ==
    /\ \E s \in Sessions : sess[s].status = "absent"
    /\ Launch(p, None, "start", "create")

\* INSERT INTO sessions ... status 'running'; the partial unique index
\* idx_sessions_one_running_per_workspace admits it in a free workspace only.
InsertSession(p, s) ==
    /\ FreeWorkspace
    /\ sess[s].status = "absent"
    /\ sess' = [sess EXCEPT ![s] = [NoSession EXCEPT !.status = "running"]]
    /\ mem' = [mem EXCEPT ![p].sid = s]
    /\ Goto(p, "newrun")
    /\ UNCHANGED <<run, chks, data, launches, writer>>

CreateSession(p) ==
    /\ pc[p] = "create"
    /\ CanWrite(p)
    /\ \E s \in Sessions : InsertSession(p, s)

CreateConflict(p) ==
    /\ pc[p] = "create"
    /\ CanWrite(p)
    /\ ~FreeWorkspace
    /\ writer' = p
    /\ Goto(p, "find")
    /\ UNCHANGED <<rows, data, launches, mem>>

\* The second create after a successful fail-close.  Its StoreError is not
\* caught: another process took the workspace in between.
RecreateSession(p) ==
    /\ pc[p] = "recreate"
    /\ CanWrite(p)
    /\ \/ \E s \in Sessions : InsertSession(p, s)
       \/ /\ ~FreeWorkspace
          /\ Exit(p, "off")
          /\ UNCHANGED <<rows, data, launches>>

CreatePromptRun(p) ==
    /\ pc[p] = "newrun"
    /\ CanWrite(p)
    /\ run' = [run EXCEPT ![mem[p].sid] = [NoRun EXCEPT !.status = "running"]]
    /\ Goto(p, "activate")
    /\ UNCHANGED <<sess, chks, data, launches, writer, mem>>

SetActiveRun(p) ==
    /\ pc[p] = "activate"
    /\ CanWrite(p)
    /\ sess' = [sess EXCEPT ![mem[p].sid].activeRun = TRUE]
    /\ Goto(p, "claim")
    /\ UNCHANGED <<run, chks, data, launches, writer, mem>>

\* Mutation: the facts are recorded before the token is drawn.
FactsWithoutToken(p) == [pid |-> PidOf[p], host |-> HostOf[p], token |-> 0]

\* _current_owner_facts.  The code draws a uuid4 token at the claim; a process
\* claims at most once, so a number unique to its launch stands for it.
FactsOf(p) == [pid |-> PidOf[p], host |-> HostOf[p], token |-> mem[p].token]

\* UPDATE ... WHERE status = 'running'.
RecordOwner(p) ==
    /\ pc[p] = "claim"
    /\ CanWrite(p)
    /\ IF Running(mem[p].sid)
       THEN sess' = [sess EXCEPT ![mem[p].sid].owner = FactsOf(p)]
       ELSE sess' = sess
    /\ Goto(p, "boot")
    /\ UNCHANGED <<run, chks, data, launches, writer, mem>>

\* Skills snapshotted and model built.
BootSucceeds(p) ==
    /\ pc[p] = "boot"
    /\ Goto(p, "driving")
    /\ UNCHANGED <<rows, data, launches, writer, mem>>

(***************************************************************************)
(* Failing without a checkpoint: RunStore._mark_terminal commits, then     *)
(* SessionStore._mark_terminal commits.  The owner facts stay in the row.  *)
(***************************************************************************)
MarkRunFailed(s, startup) ==
    /\ run[s].status = "running"
    /\ run' = [run EXCEPT ![s] = [status |-> "failed", latest |-> 0,
                                  startupFailure |-> startup]]

MarkSessionFailed(s, startup) ==
    /\ Running(s)
    /\ sess' = [sess EXCEPT ![s] = [status |-> "failed", activeRun |-> FALSE,
                                    latest |-> 0, startupFailure |-> startup,
                                    owner |-> @.owner]]

StartupFailureRun(p) ==
    /\ pc[p] = "boot"
    /\ CanWrite(p)
    /\ MarkRunFailed(mem[p].sid, TRUE)
    /\ Goto(p, "startfail")
    /\ UNCHANGED <<sess, chks, data, launches, writer, mem>>

StartupFailureSession(p) ==
    /\ pc[p] = "startfail"
    /\ CanWrite(p)
    /\ MarkSessionFailed(mem[p].sid, TRUE)
    /\ Goto(p, "release")
    /\ UNCHANGED <<run, chks, data, launches, writer, mem>>

-----------------------------------------------------------------------------
(***************************************************************************)
(* Driving a session: turns append durable messages and may replace the    *)
(* Todo Plan; the session ends by completion, failure or idle cancel.      *)
(***************************************************************************)

\* A closed group is appended; the in-memory conversation follows it.
AppendMessage(p) ==
    LET s == mem[p].sid IN
    /\ log[s] < MaxLog
    /\ mem[p].view < MaxLog
    /\ log' = [log EXCEPT ![s] = @ + 1]
    /\ mem' = [mem EXCEPT ![p].view = @ + 1]

AcceptTurn(p) ==
    /\ pc[p] = "driving"
    /\ CanWrite(p)
    /\ AppendMessage(p)
    /\ \/ todo' = todo
       \/ /\ todo[mem[p].sid] < MaxTodo
          /\ todo' = [todo EXCEPT ![mem[p].sid] = @ + 1]
    /\ UNCHANGED <<rows, launches, writer, pc>>

\* _build_terminal_manifest over the committed tables.
ManifestOf(s, status) ==
    [session |-> s, status |-> status, cut |-> log[s], todo |-> todo[s]]

\* complete() and the one-shot success path; /exit may leave a log of length
\* zero.  A StoreError here is uncaught and ends the process: see Crash.
Complete(p) ==
    /\ pc[p] = "driving"
    /\ mem' = [mem EXCEPT ![p].prep = ManifestOf(mem[p].sid, "completed")]
    /\ Goto(p, "commit")
    /\ UNCHANGED <<rows, data, launches, writer>>

\* _mark_failed_terminal for a failed turn.
FailTurn(p) ==
    /\ pc[p] = "driving"
    /\ Goto(p, "failing")
    /\ UNCHANGED <<rows, data, launches, writer, mem>>

\* Mutation: the cancellation fact is appended after the manifest is built.
CancelIdleAfterManifest(p) ==
    /\ pc[p] = "driving"
    /\ CanWrite(p)
    /\ log[mem[p].sid] \in 1..(MaxLog - 1)
    /\ log' = [log EXCEPT ![mem[p].sid] = @ + 1]
    /\ mem' = [mem EXCEPT ![p].view = @ + 1,
                          ![p].prep = ManifestOf(mem[p].sid, "failed")]
    /\ Goto(p, "commit")
    /\ UNCHANGED <<rows, todo, launches, writer>>

\* _mark_failed_terminal for user_cancel_idle: the cancellation fact is
\* appended before the manifest is built.
CancelIdle(p) ==
    /\ pc[p] = "driving"
    /\ CanWrite(p)
    /\ AppendMessage(p)
    /\ Goto(p, "failing")
    /\ UNCHANGED <<rows, todo, launches, writer>>

BuildFailureManifest(p) ==
    /\ pc[p] = "failing"
    /\ log[mem[p].sid] > 0
    /\ mem' = [mem EXCEPT ![p].prep = ManifestOf(mem[p].sid, "failed")]
    /\ Goto(p, "commit")
    /\ UNCHANGED <<rows, data, launches, writer>>

\* StoreError: a zero-message cut, or a fact that does not validate.
RejectFailureManifest(p) ==
    /\ pc[p] = "failing"
    /\ Goto(p, "fallback")
    /\ UNCHANGED <<rows, data, launches, writer, mem>>

\* One transaction: checkpoint row, run and session terminal; the session
\* keeps its owner facts.  Each UPDATE must hit a running row.
CommitTerminal(p) ==
    LET s == mem[p].sid
        m == mem[p].prep
        id == Len(chks) + 1
    IN
    /\ pc[p] = "commit"
    /\ CanWrite(p)
    /\ run[s].status = "running"
    /\ Running(s)
    /\ chks' = Append(chks, m)
    /\ run' = [run EXCEPT ![s] = [status |-> m.status, latest |-> id,
                                  startupFailure |-> FALSE]]
    /\ sess' = [sess EXCEPT ![s] = [status |-> m.status, activeRun |-> FALSE,
                                    latest |-> id, startupFailure |-> FALSE,
                                    owner |-> @.owner]]
    /\ mem' = [mem EXCEPT ![p].prep = None]
    /\ Goto(p, "release")
    /\ UNCHANGED <<data, launches, writer>>

FallbackRun(p) ==
    /\ pc[p] = "fallback"
    /\ CanWrite(p)
    /\ MarkRunFailed(mem[p].sid, FALSE)
    /\ Goto(p, "markfail")
    /\ UNCHANGED <<sess, chks, data, launches, writer, mem>>

FallbackSession(p) ==
    /\ pc[p] = "markfail"
    /\ CanWrite(p)
    /\ MarkSessionFailed(mem[p].sid, FALSE)
    /\ Goto(p, "release")
    /\ UNCHANGED <<run, chks, data, launches, writer, mem>>

\* UPDATE ... WHERE status is terminal AND owner_token = ?; a miss only
\* records ownership_release_failed.
ReleaseFence(s, token) ==
    /\ sess[s].status \in Terminal
    /\ sess[s].owner # None
    /\ sess[s].owner.token = token

ReleaseOwnership(p) ==
    /\ pc[p] = "release"
    /\ CanWrite(p)
    /\ IF ReleaseFence(mem[p].sid, mem[p].token)
       THEN sess' = [sess EXCEPT ![mem[p].sid].owner = None]
       ELSE sess' = sess
    /\ Exit(p, "off")
    /\ UNCHANGED <<run, chks, data, launches>>

-----------------------------------------------------------------------------
(***************************************************************************)
(* Stale fail-close of the session that blocks a start or a resume.        *)
(***************************************************************************)

\* find_active_for_workspace.  A resume of the running session itself
\* ("self") insists on finding its own target; a resume that finds the
\* workspace free goes on to revive.
FindActive(p) ==
    /\ pc[p] = "find"
    /\ \/ \E s \in Sessions :
            /\ Running(s)
            /\ mem[p].flow = "self" => s = mem[p].sid
            /\ mem' = [mem EXCEPT ![p].blk = s]
            /\ Goto(p, "proof")
            /\ UNCHANGED writer
       \/ /\ FreeWorkspace
          /\ mem[p].flow = "other"
          /\ Goto(p, "revive")
          /\ UNCHANGED <<mem, writer>>
       \/ /\ mem[p].flow = "self"
          /\ ~Running(mem[p].sid)
          /\ Exit(p, "off")
    /\ UNCHANGED <<rows, data, launches>>

\* _capture_stale_proof up to the host comparison.
ProofReadable(p, row) ==
    /\ row.status = "running"
    /\ row.activeRun
    /\ row.owner # None
    /\ HostOf[p] # NoHost
    /\ row.owner.host = HostOf[p]

CaptureProof(p) ==
    LET row == sess[mem[p].blk] IN
    /\ pc[p] = "proof"
    /\ \/ /\ ProofReadable(p, row)
          /\ mem' = [mem EXCEPT ![p].proof = row.owner]
          /\ Goto(p, "probe")
          /\ UNCHANGED writer
       \/ /\ ~ProofReadable(p, row)
          /\ Exit(p, "off")
    /\ UNCHANGED <<rows, data, launches>>

\* process_liveness.pid_exists(pid) asks the prober's own host.
PidExists(host, pid) ==
    \E q \in Procs : alive(q) /\ HostOf[q] = host /\ PidOf[q] = pid

\* Mutation: the pid is not probed.
ProbeSkipped(p) ==
    /\ pc[p] = "probe"
    /\ Goto(p, "confirm")
    /\ UNCHANGED <<rows, data, launches, mem, writer>>

ProbeOwner(p) ==
    /\ pc[p] = "probe"
    /\ \/ /\ ~PidExists(HostOf[p], mem[p].proof.pid)
          /\ Goto(p, "confirm")
          /\ UNCHANGED <<mem, writer>>
       \/ /\ PidExists(HostOf[p], mem[p].proof.pid)
          /\ Exit(p, "off")
    /\ UNCHANGED <<rows, data, launches>>

\* The operator answers; an unavailable prompt counts as a refusal.
Confirm(p) ==
    /\ pc[p] = "confirm"
    /\ Goto(p, "prepare")
    /\ UNCHANGED <<rows, data, launches, writer, mem>>

Decline(p) ==
    /\ pc[p] = "confirm"
    /\ Exit(p, "off")
    /\ UNCHANGED <<rows, data, launches>>

\* _prepare_stale_terminal_checkpoint: None when the facts are insufficient.
PrepareStale(p) ==
    /\ pc[p] = "prepare"
    /\ \/ /\ log[mem[p].blk] > 0
          /\ mem' = [mem EXCEPT ![p].prep = ManifestOf(mem[p].blk, "failed")]
       \/ mem' = [mem EXCEPT ![p].prep = None]
    /\ Goto(p, "fence")
    /\ UNCHANGED <<rows, data, launches, writer>>

\* Mutation: the fence compares pid and host, not the token.
FenceByPid(s, proof) ==
    /\ Running(s)
    /\ sess[s].activeRun
    /\ sess[s].owner # None
    /\ sess[s].owner.pid = proof.pid
    /\ sess[s].owner.host = proof.host

\* The WHERE clause of fail_close_stale_owner.
Fence(s, proof) ==
    /\ Running(s)
    /\ sess[s].activeRun
    /\ sess[s].owner = proof

AfterClose(flow) ==
    IF flow = "start" THEN "recreate"
    ELSE IF flow = "self" THEN "load" ELSE "revive"

FailCloseStaleOwner(p) ==
    LET s == mem[p].blk
        m == mem[p].prep
        id == IF m = None THEN 0 ELSE Len(chks) + 1
    IN
    /\ pc[p] = "fence"
    /\ CanWrite(p)
    /\ Fence(s, mem[p].proof)
    /\ run[s].status = "running"
    /\ sess' = [sess EXCEPT ![s] = [status |-> "failed", activeRun |-> FALSE,
                                    latest |-> id, startupFailure |-> FALSE,
                                    owner |-> None]]
    /\ run' = [run EXCEPT ![s] = [status |-> "failed", latest |-> id,
                                  startupFailure |-> FALSE]]
    /\ chks' = IF m = None THEN chks ELSE Append(chks, m)
    /\ mem' = [mem EXCEPT ![p].blk = None, ![p].proof = None, ![p].prep = None]
    /\ writer' = None
    /\ Goto(p, AfterClose(mem[p].flow))
    /\ UNCHANGED <<data, launches>>

\* The conditional UPDATE hit no row: reported as an ownership conflict.
FenceMiss(p) ==
    /\ pc[p] = "fence"
    /\ CanWrite(p)
    /\ ~Fence(mem[p].blk, mem[p].proof)
    /\ Exit(p, "off")
    /\ UNCHANGED <<rows, data, launches>>

\* The session row matched but its run is no longer running: StoreError,
\* the transaction rolls back and the exception leaves the process.
FenceRaise(p) ==
    /\ pc[p] = "fence"
    /\ CanWrite(p)
    /\ Fence(mem[p].blk, mem[p].proof)
    /\ run[mem[p].blk].status # "running"
    /\ Exit(p, "raised")
    /\ UNCHANGED <<rows, data, launches>>

-----------------------------------------------------------------------------
(***************************************************************************)
(* Resuming a session: _resume_lineage reads and validates outside any     *)
(* transaction, revives in one, and the handoff validates again.           *)
(***************************************************************************)

StartResume(p) ==
    \E s \in Sessions :
        /\ sess[s].status # "absent"
        /\ Launch(p, s, "resume", "load")

LoadSession(p) ==
    /\ pc[p] = "load"
    /\ mem' = [mem EXCEPT ![p].seen = sess[mem[p].sid]]
    /\ Goto(p, "loadrun")
    /\ UNCHANGED <<rows, data, launches, writer>>

\* The checkpoint named by both rows is this lineage's and validates.
ValidatedCheckpoint(s, seen, r) ==
    /\ seen.status \in Terminal /\ r.status \in Terminal
    /\ seen.latest # 0 /\ seen.latest = r.latest
    /\ seen.latest \in 1..Len(chks)
    /\ chks[seen.latest].session = s

NotEligible(seen, r) ==
    r.status = "absent" \/ seen.startupFailure \/ r.startupFailure

LoadRun(p) ==
    LET s == mem[p].sid
        seen == mem[p].seen
        nonTerminal == "running" \in {seen.status, run[s].status}
    IN
    /\ pc[p] = "loadrun"
    /\ \/ /\ ~NotEligible(seen, run[s])
          /\ nonTerminal
          /\ mem[p].flow = "resume"
          /\ mem' = [mem EXCEPT ![p].flow = "self", ![p].seen = None]
          /\ Goto(p, "find")
          /\ UNCHANGED writer
       \/ /\ ~NotEligible(seen, run[s])
          /\ ValidatedCheckpoint(s, seen, run[s])
          /\ mem' = [mem EXCEPT ![p].flow = "other", ![p].seen = None,
                                ![p].chk = seen.latest]
          /\ Goto(p, "find")
          /\ UNCHANGED writer
       \/ /\ \/ NotEligible(seen, run[s])
             \/ /\ ~ValidatedCheckpoint(s, seen, run[s])
                /\ ~(nonTerminal /\ mem[p].flow = "resume")
          /\ Exit(p, "off")
    /\ UNCHANGED <<rows, data, launches>>

\* Mutation: no unique index on running sessions.
RevivableInBusyWorkspace(s) ==
    /\ run[s].status \in Terminal /\ ~run[s].startupFailure
    /\ run[s].latest # 0
    /\ sess[s].status \in Terminal /\ ~sess[s].startupFailure
    /\ sess[s].latest # 0

\* Mutation: the statements do not ask for a checkpoint.
RevivableWithoutCheckpoint(s) ==
    /\ run[s].status \in Terminal /\ ~run[s].startupFailure
    /\ sess[s].status \in Terminal /\ ~sess[s].startupFailure
    /\ FreeWorkspace

\* The WHERE clauses of the two revive_for_explicit_resume statements and
\* the unique index on running sessions.
Revivable(s) ==
    /\ run[s].status \in Terminal /\ ~run[s].startupFailure
    /\ run[s].latest # 0
    /\ sess[s].status \in Terminal /\ ~sess[s].startupFailure
    /\ sess[s].latest # 0
    /\ FreeWorkspace

\* _revive_same_lineage: the Todo Plan of the checkpoint read earlier, both
\* rows running, a fresh token.
Revive(p) ==
    LET s == mem[p].sid IN
    /\ pc[p] = "revive"
    /\ CanWrite(p)
    /\ Revivable(s)
    /\ todo' = [todo EXCEPT ![s] = chks[mem[p].chk].todo]
    /\ run' = [run EXCEPT ![s].status = "running"]
    /\ sess' = [sess EXCEPT ![s].status = "running", ![s].activeRun = TRUE,
                            ![s].owner = FactsOf(p)]
    /\ Goto(p, "handoff")
    /\ UNCHANGED <<chks, log, launches, writer, mem>>

ReviveRefused(p) ==
    /\ pc[p] = "revive"
    /\ CanWrite(p)
    /\ ~Revivable(mem[p].sid)
    /\ Exit(p, "off")
    /\ UNCHANGED <<rows, data, launches>>

\* Mutation: the conversation is rebuilt from the checkpoint read earlier.
HandoffFromEarlierRead(p) ==
    LET s == mem[p].sid IN
    /\ pc[p] = "handoff"
    /\ Running(s) /\ sess[s].activeRun
    /\ run[s].status = "running"
    /\ mem' = [mem EXCEPT ![p].view = chks[mem[p].chk].cut, ![p].chk = 0]
    /\ Goto(p, "driving")
    /\ UNCHANGED <<rows, data, launches, writer>>

\* _runtime_from_resumed_session: the row is read again, its latest
\* checkpoint is validated against the current plan, and the in-memory
\* conversation is rebuilt from that checkpoint's cut.
Handoff(p) ==
    LET s == mem[p].sid
        c == run[s].latest
    IN
    /\ pc[p] = "handoff"
    /\ Running(s) /\ sess[s].activeRun
    /\ run[s].status = "running" /\ c # 0
    /\ todo[s] = chks[c].todo
    /\ mem' = [mem EXCEPT ![p].view = chks[c].cut, ![p].chk = 0,
                          ![p].token = sess[s].owner.token]
    /\ Goto(p, "driving")
    /\ UNCHANGED <<rows, data, launches, writer>>

\* Mutation: the rollback forgets the run row.
RollbackSessionOnly(p) ==
    LET s == mem[p].sid
        c == sess[s].latest
    IN
    /\ pc[p] = "handoff"
    /\ CanWrite(p)
    /\ Running(s) /\ sess[s].activeRun /\ c # 0
    /\ sess' = [sess EXCEPT ![s].status = chks[c].status,
                            ![s].activeRun = FALSE, ![s].owner = None]
    /\ Exit(p, "off")
    /\ UNCHANGED <<run, chks, data, launches>>

\* _rollback_failed_resume_handoff after a failed validation or an
\* unavailable model; the statements carry no owner token.
RollbackHandoff(p) ==
    LET s == mem[p].sid
        c == sess[s].latest
    IN
    /\ pc[p] = "handoff"
    /\ CanWrite(p)
    /\ Running(s) /\ sess[s].activeRun /\ c # 0
    /\ run' = [run EXCEPT ![s].status = chks[c].status]
    /\ sess' = [sess EXCEPT ![s].status = chks[c].status,
                            ![s].activeRun = FALSE, ![s].owner = None]
    /\ Exit(p, "off")
    /\ UNCHANGED <<chks, data, launches>>

-----------------------------------------------------------------------------
\* The process dies: killed, or an exception nothing catches (a rejected
\* completion manifest, an open provider boundary in one-shot mode).
Crash(p) ==
    /\ alive(p)
    /\ Exit(p, "off")
    /\ UNCHANGED <<rows, data, launches>>

\* Mutation: a writer waits for the lock without a timeout.
LockWaitsForever(p) == FALSE

\* SQLite's busy timeout: "database is locked" is uncaught during admission.
LockTimeout(p) ==
    /\ pc[p] \in {"create", "recreate", "newrun", "activate", "claim",
                  "fence", "revive"}
    /\ ~CanWrite(p)
    /\ Exit(p, "off")
    /\ UNCHANGED <<rows, data, launches>>

\* Steps of a start or resume that need no operator.
AdmissionStep(p) ==
    \/ CreateSession(p) \/ CreateConflict(p) \/ RecreateSession(p)
    \/ CreatePromptRun(p) \/ SetActiveRun(p) \/ RecordOwner(p)
    \/ FindActive(p) \/ CaptureProof(p) \/ ProbeOwner(p) \/ PrepareStale(p)
    \/ FailCloseStaleOwner(p) \/ FenceMiss(p) \/ FenceRaise(p)
    \/ LoadSession(p) \/ LoadRun(p) \/ Revive(p) \/ ReviveRefused(p)
    \/ LockTimeout(p)

OwnerStep(p) ==
    \/ BootSucceeds(p) \/ StartupFailureRun(p) \/ StartupFailureSession(p)
    \/ AcceptTurn(p) \/ Complete(p) \/ FailTurn(p) \/ CancelIdle(p)
    \/ BuildFailureManifest(p) \/ RejectFailureManifest(p)
    \/ CommitTerminal(p) \/ FallbackRun(p) \/ FallbackSession(p)
    \/ ReleaseOwnership(p) \/ Handoff(p) \/ RollbackHandoff(p)

Init ==
    /\ sess = [s \in Sessions |-> NoSession]
    /\ run = [s \in Sessions |-> NoRun]
    /\ chks = <<>>
    /\ log = [s \in Sessions |-> 0]
    /\ todo = [s \in Sessions |-> 0]
    /\ launches = 0
    /\ writer = None
    /\ pc = [p \in Procs |-> "off"]
    /\ mem = [p \in Procs |-> FreshMemory]

ProcStep(p) ==
    \/ StartSession(p) \/ StartResume(p) \/ Crash(p)
    \/ AdmissionStep(p) \/ Confirm(p) \/ Decline(p) \/ OwnerStep(p)

Next == \E p \in Procs : ProcStep(p)

Spec == Init /\ [][Next]_vars

\* A launched process keeps executing (nothing else schedules it); an operator
\* may leave the stale prompt unanswered for ever.
FairSpec == Spec /\ \A p \in Procs : WF_vars(AdmissionStep(p))

-----------------------------------------------------------------------------
(***************************************************************************)
(* Properties.                                                             *)
(***************************************************************************)

\* Every row, checkpoint, counter and local variable has its declared type.
TypeOK ==
    /\ sess \in [Sessions -> SessionRow]
    /\ run \in [Sessions -> RunRow]
    /\ chks \in Seq(Manifest)
    /\ log \in [Sessions -> 0..MaxLog]
    /\ todo \in [Sessions -> 0..MaxTodo]
    /\ launches \in 0..MaxLaunches
    /\ writer \in Procs \union {None}
    /\ pc \in [Procs -> Steps \union Dead]
    /\ mem \in [Procs -> Memory]

\* A live process that holds a session never loses it to another process:
\* from create (sessions.py:19) to its own terminalization its row stays
\* "running", and from record_owner on the row carries exactly its pid, host
\* and token.  Stale fail-close, resume, rollback and late release by other
\* processes, pid reuse included, never touch it.
LiveOwnerKeepsItsClaim ==
    \A p \in Procs :
        pc[p] \in Holding =>
            /\ Running(mem[p].sid)
            /\ sess[mem[p].sid].owner =
                  IF pc[p] \in Claimed THEN FactsOf(p) ELSE None

\* At most one live process is past admission in a workspace.
OneLiveOwner ==
    \A p, q \in Procs :
        pc[p] \in Holding /\ pc[q] \in Holding => p = q

\* A terminal session that names a checkpoint names one of its own, recorded
\* by both rows, whose fact cut is the whole durable conversation: nothing
\* was accepted between building the manifest (outside the transaction,
\* checkpoints.py:106, orchestrator.py:700) and committing it, or since.
CheckpointCoversLog ==
    \A s \in Sessions :
        sess[s].status \in Terminal /\ sess[s].latest # 0 =>
            /\ run[s].latest = sess[s].latest
            /\ sess[s].latest \in 1..Len(chks)
            /\ chks[sess[s].latest].session = s
            /\ chks[sess[s].latest].cut = log[s]

\* The in-memory conversation of a process that drives a session is the
\* durable one, after a start and after any chain of closes and resumes.
DriverSeesWholeLog ==
    \A p \in Procs :
        pc[p] \in {"driving", "failing", "commit"} =>
            mem[p].view = log[mem[p].sid]

\* The session row and its run row agree once the session is terminal, in
\* status, checkpoint and startup marker, although the failure paths write
\* them in two commits (orchestrator.py:2239, 2304).
TerminalRowsAgree ==
    \A s \in Sessions :
        sess[s].status \in Terminal =>
            /\ run[s].status = sess[s].status
            /\ run[s].latest = sess[s].latest
            /\ run[s].startupFailure = sess[s].startupFailure

\* A start or resume ends up driving a session, gone, or at its own stale
\* prompt.  In particular nobody waits for ever on another start that keeps
\* the write lock while its operator does not answer: SQLite's busy timeout
\* (sqlite.py:114, the default of sqlite3.connect) ends the wait.
NobodyWaitsOnAnotherPrompt ==
    \A p \in Procs :
        pc[p] \in Admission \ {"confirm"} ~> pc[p] \notin Admission \ {"confirm"}

(***************************************************************************)
(* A statement of the documentation that the code does not meet.           *)
(***************************************************************************)

\* stale-fail-close.md:32: a start or resume that cannot close a stale owner
\* ends with an ownership conflict, never with an escaping StoreError
\* (sessions.py:238).
StaleCloseFailsClosed ==
    \A p \in Procs : pc[p] # "raised"

=============================================================================
