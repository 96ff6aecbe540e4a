------------------------------ MODULE ToolBroker ------------------------------
(***************************************************************************)
(* ToolBroker.invoke (tools/broker.py) with the handlers of tools/native.py *)
(* and tools/runtime_control.py.  The turn calls tools one at a time; each  *)
(* call is validated, judged by the policy, perhaps put to the user, and    *)
(* then run in a thread of its own under a deadline.  A call that times out *)
(* leaves its thread behind, so that threads of several calls and external  *)
(* programs meet on the disk, on the write locks and on the stores.         *)
(***************************************************************************)
EXTENDS ToolPolicy

CONSTANTS MaxCalls,   \* tool calls of the whole behaviour
          Sessions,   \* sessions of the workspace
          Files,      \* paths that tools and external programs write
          Scenarios   \* what Init chooses from: policies, requests and bounds

\* Paths are sequences; the tools whose arguments name files have one, the plan
\* and a skill have none.
ASSUME BrokerAssumption ==
    /\ MaxCalls \in Nat /\ Sessions # {}
    /\ \A s \in Scenarios :
         /\ s.calls \in 0 .. MaxCalls /\ s.modes \subseteq {"normal", "semi-auto", "yolo"}
         /\ \A r \in s.requests :
              /\ r.tool \in Tools /\ r.paths \in Seq(ToSet(r.paths))
              /\ \A p \in ToSet(r.paths) : p \in Seq(ToSet(p))
              /\ r.tool \in {"read_file", "write_file", "edit_file"} => r.paths # <<>>
              /\ r.tool \in {"write_file", "edit_file"} => Head(r.paths) \in Files
              /\ r.tool \in {"todo", "activate_skill"} => r.paths = <<>>

Calls == 1 .. MaxCalls
Modes == {"normal", "semi-auto", "yolo"}
Skills == {"skill"}

\* Contents: 0 is no file; i \in Calls is what call i writes; the rest are the
\* initial content and the contents written by other programs.
Absent == 0
Base == MaxCalls + 1
Contents == 0 .. MaxCalls + 4

VARIABLES
    scene,    \* the policy, the environment and the bounds of this behaviour
    repl,     \* [session, mode, turn]: the process and its prompt
    calls,    \* the calls of tools so far
    thread,   \* the thread of each call
    disk,     \* [file, dirs, edits]: contents, directories, edits by others
    cache,    \* FileMetadataCache: the last accepted content of each file
    lock,     \* WriteLockRegistry: the call that holds a file's lock, or 0
    store,    \* [grants, skills, plan, artifacts]: the workspace database
    seen      \* history: contents shown to the agent; edits made in a quiet moment

vars == <<scene, repl, calls, thread, disk, cache, lock, store, seen>>

NoThread == [pc |-> "none", saw |-> Absent, existed |-> FALSE, todo |-> <<>>,
             created |-> {}, stage |-> {}, abandoned |-> FALSE, late |-> FALSE, out |-> "none"]
Gone == [NoThread EXCEPT !.pc = "gone"]

Init ==
    /\ scene \in Scenarios
    /\ \E m \in scene.modes : repl = [session |-> CHOOSE s \in Sessions : TRUE,
                                   mode |-> m, turn |-> "on"]
    /\ calls = <<>>
    /\ thread = [i \in Calls |-> NoThread]
    /\ disk = [file |-> [f \in Files |-> IF f \in scene.exist THEN Base ELSE Absent],
               dirs |-> scene.dirs, edits |-> 0]
    /\ cache = [f \in Files |-> Absent]
    /\ lock = [f \in Files |-> 0]
    /\ store = [grants |-> {}, skills |-> [s \in Sessions |-> {}],
                plan |-> [s \in Sessions |-> [version |-> 0, by |-> 0]],
                artifacts |-> [s \in Sessions |-> {}]]
    /\ seen = [shown |-> {}, quiet |-> {Base}]

N == Len(calls)
Idle == calls # <<>> => calls[N].pc = "returned"
Alive(i) == thread[i].pc \notin {"none", "done", "gone"}
Quiet == \A i \in Calls : ~Alive(i)
Target(i) == Head(calls[i].req.paths)
Tool(i) == calls[i].req.tool

-----------------------------------------------------------------------------
(* Validation and normalization. *)

\* The checks of invoke in their order; each returns an error result at once.
Defects == {"not_object", "unknown_tool", "schema", "search_semantics", "native_semantics",
            "image_semantics", "shell_timeout", "image_disabled", "target"}

Ancestors(path) == {SubSeq(path, 1, n) : n \in 1 .. Len(path) - 1}

\* _planned_parent_directories: the missing ancestors, outermost first.
PlannedParents(path, dirs) ==
    LET Missing == {n \in 1 .. Len(path) - 1 : SubSeq(path, 1, n) \notin dirs}
        first == Len(path) - Cardinality(Missing)
    IN [k \in 1 .. Cardinality(Missing) |-> SubSeq(path, 1, first + k - 1)]

\* _accepted_artifact_path: read_file of an artifact that this session has.
IsArtifact(req, session) ==
    /\ req.tool = "read_file" /\ req.detail = "artifact" /\ store.artifacts[session] # {}

\* _normalize_tool_arguments: the paths the policy judges and the scope's parts.
\* An artifact of the session is read by its path without a path check.
Normalize(req) ==
    LET parents == IF req.tool = "write_file"
                     THEN PlannedParents(Head(req.paths), disk.dirs) ELSE <<>>
        paths == CASE req.tool = "shell_exec" -> {req.cwd} \union ArgvPaths(req.argv)
                   [] IsArtifact(req, repl.session) -> {}
                   [] OTHER -> ToSet(req.paths) \union ToSet(parents)
    IN [tool |-> req.tool, paths |-> paths, parents |-> parents,
        argv |-> NormalizeArgv(req.argv), detail |-> <<req.detail, req.cwd>>,
        active |-> req.detail \in store.skills[repl.session]]

\* Skill tools name a skill of the session's frozen snapshots; a resource is
\* loaded only from an active skill.
TargetDenied(req) ==
    \/ req.tool = "activate_skill" /\ req.detail \notin Skills
    \/ req.tool = "load_skill_resource" /\ req.detail \notin store.skills[repl.session]

Rejected(req) == req.defect \in Defects \/ TargetDenied(req)

-----------------------------------------------------------------------------
(* invoke, up to the start of the handler. *)

Call(req, pc, decision, result, audit) ==
    [req |-> req, norm |-> Normalize(req), session |-> repl.session, mode |-> repl.mode,
     pc |-> pc, decision |-> decision, result |-> result, audit |-> audit]

\* invoke: validation, policy, and the approval_requested event.
Invoke(req) ==
    /\ repl.turn = "on" /\ Idle /\ N < scene.calls /\ req \in scene.requests
    /\ LET decision == Evaluate(scene.facts, repl.mode, repl.session, store.grants,
                                Normalize(req))
       IN calls' = Append(calls,
            IF Rejected(req) THEN Call(req, "returned", "none", "error", <<"failed">>)
            ELSE IF decision = "deny" THEN Call(req, "returned", "deny", "denied", <<"denied">>)
            ELSE IF decision = "ask"
              THEN Call(req, "asking", "ask", "none",
                        IF scene.interactive THEN <<"requested">> ELSE <<>>)
            ELSE Call(req, "ready", "allow", "none", <<>>))
    /\ UNCHANGED <<scene, repl, thread, disk, cache, lock, store, seen>>

\* The answer of the approval provider.  Every interactive answer is recorded,
\* denials too; a denial returns a result that aborts the turn.
Answer(d) ==
    /\ ~Idle /\ calls[N].pc = "asking"
    /\ d \in IF scene.interactive THEN {"approved_once", "approved_for_session", "denied"}
                                  ELSE {"denied"}
    /\ store' = IF scene.interactive
         THEN [store EXCEPT !.grants = @ \union {[session |-> repl.session,
                                 scope |-> Scope(calls[N].norm), decision |-> d]}]
         ELSE store
    /\ LET told == calls[N].audit \o IF scene.interactive THEN <<"decided">> ELSE <<>>
       IN IF d = "denied"
            THEN /\ calls' = [calls EXCEPT ![N] = [@ EXCEPT !.pc = "returned", !.decision = d,
                                !.result = "denied", !.audit = told \o <<"denied">>]]
                 /\ repl' = [repl EXCEPT !.turn = "over"]
            ELSE /\ calls' = [calls EXCEPT ![N] = [@ EXCEPT !.pc = "ready", !.decision = d,
                                !.audit = told]]
                 /\ UNCHANGED repl
    /\ UNCHANGED <<scene, thread, disk, cache, lock, seen>>

\* tool_call_started; the handler's thread and its deadline begin.
Execute ==
    /\ ~Idle /\ calls[N].pc = "ready"
    /\ calls' = [calls EXCEPT ![N] = [@ EXCEPT !.pc = "running",
                                            !.audit = Append(calls[N].audit, "started")]]
    /\ thread' = [thread EXCEPT ![N] = [@ EXCEPT !.pc = "start", !.todo = calls[N].norm.parents]]
    /\ UNCHANGED <<scene, repl, disk, cache, lock, store, seen>>

-----------------------------------------------------------------------------
(* The handler's thread. *)

To(i, pc) == thread' = [thread EXCEPT ![i].pc = pc]
Done(i, out) ==
    thread' = [thread EXCEPT ![i] = IF @.abandoned THEN Gone
                                    ELSE [@ EXCEPT !.pc = "done", !.out = out]]

\* A handler that leaves the with block gives the lock back.
Unlock(i) == lock' = [f \in Files |-> IF lock[f] = i THEN 0 ELSE lock[f]]

Writes == {"write_file", "edit_file"}
Reports == {"ok", "large", "error", "cancelled", "denied", "open"}

\* _execute_tool_call_inside_timeout: the check before the handler.
Start(i) ==
    /\ thread[i].pc = "start"
    /\ IF thread[i].late THEN Done(i, "deadline")
       ELSE To(i, CASE Tool(i) = "read_file" -> "scan"
                    [] Tool(i) \in Writes -> "lock"
                    [] Tool(i) \in {"todo", "activate_skill"} -> "store"
                    [] OTHER -> "work")
    /\ UNCHANGED <<scene, repl, calls, disk, cache, lock, store, seen>>

\* read_file hashes and pages the file in one pass.
Scan(i) ==
    /\ thread[i].pc = "scan"
    /\ IF IsArtifact(calls[i].req, calls[i].session) THEN To(i, "finish")
       ELSE IF Target(i) \notin Files \/ disk.file[Target(i)] = Absent THEN Done(i, "error")
       ELSE thread' = [thread EXCEPT ![i] = [@ EXCEPT !.pc = "record", !.saw = disk.file[Target(i)]]]
    /\ UNCHANGED <<scene, repl, calls, disk, cache, lock, store, seen>>

\* Mutant: the write is not serialized with other writes of the process.
TakeNoLock(i) ==
    /\ thread[i].pc = "lock"
    /\ IF thread[i].late THEN Done(i, "deadline")
       ELSE LET exists == disk.file[Target(i)] # Absent
            IN IF ~exists /\ Tool(i) = "edit_file" THEN Done(i, "error")
               ELSE thread' = [thread EXCEPT ![i] =
                       [@ EXCEPT !.existed = exists, !.pc = IF exists THEN "guard" ELSE "mkdir"]]
    /\ UNCHANGED <<scene, repl, calls, disk, cache, lock, store, seen>>

\* write_file, edit_file: the lock, the first check, and whether there is a file.
TakeLock(i) ==
    /\ thread[i].pc = "lock" /\ lock[Target(i)] = 0
    /\ LET exists == disk.file[Target(i)] # Absent
       IN IF thread[i].late THEN Done(i, "deadline") /\ UNCHANGED lock
          ELSE IF ~exists /\ Tool(i) = "edit_file" THEN Done(i, "error") /\ UNCHANGED lock
          ELSE /\ lock' = [lock EXCEPT ![Target(i)] = i]
               /\ thread' = [thread EXCEPT ![i] =
                    [@ EXCEPT !.existed = exists, !.pc = IF exists THEN "guard" ELSE "mkdir"]]
    /\ UNCHANGED <<scene, repl, calls, disk, cache, store, seen>>

\* Mutant: any cached observation of the file will do.
GuardAnyEntry(i, entry) == entry # Absent

\* guard_existing_file: the cached hash must be that of the file now.
GuardPasses(i, entry) == entry # Absent /\ entry = disk.file[Target(i)]

Guard(i) ==
    /\ thread[i].pc = "guard"
    /\ IF GuardPasses(i, cache[Target(i)])
         THEN /\ thread' = [thread EXCEPT ![i] =
                   [@ EXCEPT !.saw = disk.file[Target(i)],
                             !.pc = IF Tool(i) = "edit_file" THEN "edit" ELSE "ready"]]
              /\ UNCHANGED lock
         ELSE Done(i, "error") /\ Unlock(i)
    /\ UNCHANGED <<scene, repl, calls, disk, cache, store, seen>>

\* edit_file reads the file again and looks for the old text in what it reads.
EditRead(i, found) ==
    /\ thread[i].pc = "edit" /\ found \in BOOLEAN
    /\ IF found /\ disk.file[Target(i)] # Absent
         THEN /\ thread' = [thread EXCEPT ![i] = [@ EXCEPT !.saw = disk.file[Target(i)], !.pc = "ready"]]
              /\ UNCHANGED lock
         ELSE Done(i, "error") /\ Unlock(i)
    /\ UNCHANGED <<scene, repl, calls, disk, cache, store, seen>>

\* The next planned parent directory; it must not have appeared meanwhile.
MakeDir(i) ==
    /\ thread[i].pc = "mkdir" /\ thread[i].todo # <<>>
    /\ LET d == Head(thread[i].todo)
       IN IF thread[i].late THEN Done(i, "deadline") /\ Unlock(i) /\ UNCHANGED disk
          ELSE IF d \in disk.dirs THEN Done(i, "error") /\ Unlock(i) /\ UNCHANGED disk
          ELSE /\ disk' = [disk EXCEPT !.dirs = @ \union {d}]
               /\ thread' = [thread EXCEPT ![i] = [@ EXCEPT !.todo = Tail(thread[i].todo),
                                                            !.created = thread[i].created \union {d}]]
               /\ UNCHANGED lock
    /\ UNCHANGED <<scene, repl, calls, cache, store, seen>>

\* The last check before the file is replaced or created.
CheckWrite(i) ==
    /\ thread[i].pc = "ready" \/ (thread[i].pc = "mkdir" /\ thread[i].todo = <<>>)
    /\ IF thread[i].late THEN Done(i, "deadline") /\ Unlock(i)
                         ELSE To(i, "put") /\ UNCHANGED lock
    /\ UNCHANGED <<scene, repl, calls, disk, cache, store, seen>>

\* os.replace of the temporary file, or the exclusive create.
Put(i) ==
    /\ thread[i].pc = "put"
    /\ IF ~thread[i].existed /\ disk.file[Target(i)] # Absent
         THEN Done(i, "error") /\ Unlock(i) /\ UNCHANGED disk
         ELSE /\ disk' = [disk EXCEPT !.file[Target(i)] = i]
              /\ To(i, "written") /\ UNCHANGED lock
    /\ UNCHANGED <<scene, repl, calls, cache, store, seen>>

CheckWritten(i) ==
    /\ thread[i].pc = "written"
    /\ IF thread[i].late THEN Done(i, "deadline") /\ Unlock(i)
                         ELSE To(i, "record") /\ UNCHANGED lock
    /\ UNCHANGED <<scene, repl, calls, disk, cache, store, seen>>

\* record_file_metadata hashes the file once more; an abandoned stage drops it.
Record(i) ==
    /\ thread[i].pc = "record"
    /\ LET now == disk.file[Target(i)]
       IN IF now = Absent THEN Done(i, "error") /\ Unlock(i)
          ELSE /\ thread' = [thread EXCEPT ![i] = [@ EXCEPT !.pc = "finish",
                    !.stage = thread[i].stage \union
                                IF thread[i].abandoned THEN {} ELSE {<<Target(i), now>>}]]
               /\ UNCHANGED lock
    /\ UNCHANGED <<scene, repl, calls, disk, cache, store, seen>>

\* The checks after the metadata and after the handler; a large page that was
\* read becomes an artifact.
Finish(i, large) ==
    /\ thread[i].pc = "finish" /\ (large => Tool(i) = "read_file")
    /\ IF thread[i].late THEN Done(i, "deadline")
       ELSE IF large THEN To(i, "artifact") ELSE Done(i, "ok")
    /\ Unlock(i)
    /\ UNCHANGED <<scene, repl, calls, disk, cache, store, seen>>

\* Handlers that only report: search, image, command, skill resource.  A resource
\* that no longer is what was validated is denied; an image whose provider call did
\* not close raises ProviderBoundaryNotClosed past the checks of the deadline.
Work(i, out) ==
    /\ thread[i].pc = "work" /\ out \in Reports
    /\ out = "large" => Tool(i) # "load_skill_resource"
    /\ out = "denied" => Tool(i) = "load_skill_resource"
    /\ out = "open" => Tool(i) = "view_image"
    /\ IF thread[i].late /\ out # "open" THEN Done(i, "deadline")
       ELSE IF out = "large" THEN To(i, "artifact") ELSE Done(i, out)
    /\ UNCHANGED <<scene, repl, calls, disk, cache, lock, store, seen>>

\* A large output becomes an artifact, taken back if the deadline has passed.
StoreArtifact(i) ==
    /\ thread[i].pc = "artifact"
    /\ store' = IF thread[i].late THEN store
                ELSE [store EXCEPT !.artifacts[calls[i].session] = @ \union {i}]
    /\ Done(i, IF thread[i].late THEN "deadline" ELSE "ok")
    /\ UNCHANGED <<scene, repl, calls, disk, cache, lock, seen>>

\* activate_skill adds to the run's skills, and lists a skill once, unless the
\* skill no longer is what was validated.
ActivateSkill(i, valid) ==
    /\ thread[i].pc = "store" /\ Tool(i) = "activate_skill"
    /\ IF valid
         THEN /\ store' = [store EXCEPT !.skills[calls[i].session] = @ \union {calls[i].req.detail}]
              /\ To(i, "finish")
         ELSE /\ Done(i, IF thread[i].late THEN "deadline" ELSE "denied")
              /\ UNCHANGED store
    /\ UNCHANGED <<scene, repl, calls, disk, cache, lock, seen>>

\* replace_plan: the version is read before the transaction that writes the next.
ReadPlan(i) ==
    /\ thread[i].pc = "store" /\ Tool(i) = "todo"
    /\ thread' = [thread EXCEPT ![i] = [@ EXCEPT !.pc = "plan",
                                              !.saw = store.plan[calls[i].session].version]]
    /\ UNCHANGED <<scene, repl, calls, disk, cache, lock, store, seen>>

ReplacePlan(i) ==
    /\ thread[i].pc = "plan"
    /\ store' = [store EXCEPT !.plan[calls[i].session] = [version |-> thread[i].saw + 1, by |-> i]]
    /\ To(i, "finish")
    /\ UNCHANGED <<scene, repl, calls, disk, cache, lock, seen>>

Handler(i) ==
    \/ Start(i) \/ Scan(i) \/ TakeLock(i) \/ Guard(i) \/ \E b \in BOOLEAN : EditRead(i, b)
    \/ MakeDir(i) \/ CheckWrite(i) \/ Put(i) \/ CheckWritten(i) \/ Record(i)
    \/ \E b \in BOOLEAN : Finish(i, b) \/ ActivateSkill(i, b)
    \/ \E out \in Reports : Work(i, out)
    \/ StoreArtifact(i) \/ ReadPlan(i) \/ ReplacePlan(i)

\* The deadline passes.
Expire(i) ==
    /\ Alive(i) /\ ~thread[i].late
    /\ thread' = [thread EXCEPT ![i].late = TRUE]
    /\ UNCHANGED <<scene, repl, calls, disk, cache, lock, store, seen>>

-----------------------------------------------------------------------------
(* The result. *)

Return(i, result, event) ==
    calls' = [calls EXCEPT ![i] = [@ EXCEPT !.pc = "returned", !.result = result,
                                            !.audit = Append(calls[i].audit, event)]]

\* Only an accepted result advances the cache.
Commit(i, ok) ==
    [f \in Files |-> IF ok /\ \E c \in Contents : <<f, c>> \in thread[i].stage
                       THEN CHOOSE c \in Contents : <<f, c>> \in thread[i].stage ELSE cache[f]]

\* Mutant: the handler's word is passed on as the status.
ResultRaw(out) == out

\* The status of the result the turn gets.
ResultOf(out) == IF out = "deadline" THEN "timeout" ELSE out

\* Mutant: a cancelled handler counts as completed.
EventOfAnswer(out) == IF out \in {"ok", "cancelled"} THEN "completed" ELSE "failed"

EventOf(out) == IF out = "ok" THEN "completed" ELSE "failed"

\* future.result, _tool_result_from_prepared and the terminal event.
Collect ==
    /\ ~Idle /\ calls[N].pc = "running" /\ thread[N].pc = "done" /\ thread[N].out # "open"
    /\ LET ok == thread[N].out = "ok"
       IN /\ Return(N, ResultOf(thread[N].out), EventOf(thread[N].out))
          /\ cache' = Commit(N, ok)
          /\ seen' = IF ~ok THEN seen
                     ELSE [seen EXCEPT !.shown = @ \union
                             IF Tool(N) = "read_file" THEN {thread[N].saw}
                             ELSE IF Tool(N) \in Writes THEN {N} ELSE {}]
    /\ thread' = [thread EXCEPT ![N] = Gone]
    /\ UNCHANGED <<scene, repl, disk, lock, store>>

\* ProviderBoundaryNotClosed is raised through invoke and ends the turn, no terminal
\* event.
BoundaryOpen ==
    /\ ~Idle /\ calls[N].pc = "running" /\ thread[N].pc = "done" /\ thread[N].out = "open"
    /\ calls' = [calls EXCEPT ![N] = [@ EXCEPT !.pc = "returned", !.result = "raised"]]
    /\ repl' = [repl EXCEPT !.turn = "over"]
    /\ UNCHANGED <<scene, thread, disk, cache, lock, store, seen>>

\* Mutant: the executor is shut down with wait=True.
TimeOutJoined ==
    /\ ~Idle /\ calls[N].pc = "running" /\ thread[N].pc = "done" /\ thread[N].late
    /\ Return(N, "timeout", "failed")
    /\ UNCHANGED <<scene, repl, thread, disk, cache, lock, store, seen>>

\* The wait times out: the stage is abandoned and the thread left running.
TimeOut ==
    /\ ~Idle /\ calls[N].pc = "running" /\ Alive(N) /\ thread[N].late
    /\ Return(N, "timeout", "failed")
    /\ thread' = [thread EXCEPT ![N] = [@ EXCEPT !.abandoned = TRUE, !.stage = {}]]
    /\ UNCHANGED <<scene, repl, disk, cache, lock, store, seen>>

\* KeyboardInterrupt in the plain view: raised through invoke, no terminal event.
Interrupted ==
    /\ ~Idle /\ calls[N].pc = "running" /\ scene.plain
    /\ calls' = [calls EXCEPT ![N] = [@ EXCEPT !.pc = "returned", !.result = "raised"]]
    /\ repl' = [repl EXCEPT !.turn = "over"]
    /\ UNCHANGED <<scene, thread, disk, cache, lock, store, seen>>

-----------------------------------------------------------------------------
(* Around the calls. *)

\* The turn ends, and the user may change the approval mode before the next.
NextTurn(m) ==
    /\ Idle /\ m \in scene.modes
    /\ repl.turn = "over" \/ m # repl.mode
    /\ repl' = [repl EXCEPT !.turn = "on", !.mode = m]
    /\ UNCHANGED <<scene, calls, thread, disk, cache, lock, store, seen>>

\* The process ends or dies; another one starts or resumes a session.  Cache and
\* locks are in memory, grants, skills and the plan in the database.
Restart(s) ==
    /\ N > 0 /\ s \in Sessions /\ scene.restarts
    /\ repl' = [repl EXCEPT !.session = s, !.turn = "on"]
    /\ calls' = [calls EXCEPT ![N] = IF Idle THEN @
                   ELSE [@ EXCEPT !.pc = "returned", !.result = "raised"]]
    /\ thread' = [i \in Calls |-> IF thread[i].pc = "none" THEN NoThread ELSE Gone]
    /\ cache' = [f \in Files |-> Absent]
    /\ lock' = [f \in Files |-> 0]
    /\ repl.session # s \/ ~Idle \/ cache # cache'
    /\ UNCHANGED <<scene, disk, store, seen>>

\* Another program, or a command that a tool started, writes or removes a file.
External(f, c) ==
    /\ disk.edits < scene.edits /\ f \in Files
    /\ c \in {Absent, Base + disk.edits + 1} /\ c # disk.file[f]
    /\ disk' = [disk EXCEPT !.file[f] = c, !.edits = @ + 1,
                 !.dirs = IF c = Absent THEN @ ELSE @ \union Ancestors(f)]
    /\ seen' = IF Quiet /\ c # Absent THEN [seen EXCEPT !.quiet = @ \union {c}] ELSE seen
    /\ UNCHANGED <<scene, repl, calls, thread, cache, lock, store>>

Broker ==
    \/ \E req \in scene.requests : Invoke(req)
    \/ Execute \/ Collect \/ BoundaryOpen \/ TimeOut

Next ==
    \/ Broker \/ Interrupted
    \/ \E d \in {"approved_once", "approved_for_session", "denied"} : Answer(d)
    \/ \E i \in Calls : Handler(i) \/ Expire(i)
    \/ \E m \in Modes : NextTurn(m)
    \/ \E s \in Sessions : Restart(s)
    \/ \E f \in Files, c \in Contents : External(f, c)

Spec == Init /\ [][Next]_vars

\* The broker's own thread runs and time passes; a handler's thread may hang in
\* a system call for ever, and the user may never answer.
FairSpec ==
    /\ Spec
    /\ WF_vars(Execute) /\ WF_vars(Collect) /\ WF_vars(BoundaryOpen) /\ WF_vars(TimeOut)
    /\ \A i \in Calls : WF_vars(Expire(i))

-----------------------------------------------------------------------------
Decisions == {"none", "allow", "deny", "ask", "approved_once", "approved_for_session", "denied"}
Results == {"none", "ok", "error", "denied", "timeout", "cancelled", "raised"}
Events == {"requested", "decided", "started", "completed", "failed", "denied"}
Outs == {"none", "ok", "error", "cancelled", "denied", "open", "deadline"}
ThreadAt == {"none", "start", "scan", "lock", "guard", "edit", "mkdir", "ready", "put", "written",
             "record", "finish", "work", "store", "artifact", "plan", "done", "gone"}

TypeOK ==
    /\ scene \in Scenarios
    /\ repl \in [session : Sessions, mode : Modes, turn : {"on", "over"}]
    /\ N <= MaxCalls
    /\ \A i \in 1 .. N :
         /\ calls[i].req \in scene.requests /\ calls[i].session \in Sessions
         /\ calls[i].pc \in {"asking", "ready", "running", "returned"}
         /\ calls[i].decision \in Decisions /\ calls[i].result \in Results
         /\ calls[i].audit \in Seq(Events)
    /\ \A i \in Calls : /\ thread[i].pc \in ThreadAt /\ thread[i].out \in Outs
                        /\ thread[i].saw \in Contents
                        /\ thread[i].stage \subseteq Files \X Contents
    /\ disk.file \in [Files -> Contents]
    /\ cache \in [Files -> Contents]
    /\ lock \in [Files -> 0 .. MaxCalls]

\* What the approval modes let pass without a question, as a table.
FreeIn(mode, tool, trusted) ==
    \/ tool \in {"todo", "load_skill_resource"}
    \/ <<mode, Risk(tool)>> \in {<<"semi-auto", "read">>, <<"semi-auto", "runtime_control">>}
    \/ mode = "yolo"
    \/ trusted /\ <<mode, Risk(tool)>> \in {<<"normal", "read">>, <<"semi-auto", "write">>,
                                          <<"semi-auto", "execute">>}

\* Every handler that was started, and every directory and file it touched, is
\* licensed: no path or command of it is denied by the policy, and either the
\* mode of that moment lets it pass, or the user said yes to this very call, or
\* approved before, in the same session, a call that agrees in tool, paths,
\* command and remaining arguments.
EffectLicensed ==
    \A i \in 1 .. N : thread[i].pc # "none" =>
        LET c == calls[i]
            f == scene.facts
            Hit(entries, p) == \E e \in entries : Matches(e, p)
        IN /\ \A p \in c.norm.paths : ~Hit(f.builtin_path_deny \union f.path_deny, p)
           /\ c.req.tool = "shell_exec" => ~ShellDenied(f, c.norm.argv)
           /\ \/ FreeIn(c.mode, c.req.tool, \A p \in c.norm.paths : Hit(f.path_trust, p))
              \/ c.req.tool = "activate_skill" /\ c.norm.active
              \/ c.decision \in {"approved_once", "approved_for_session"}
              \/ \E j \in 1 .. i - 1 :
                    /\ calls[j].decision = "approved_for_session" /\ calls[j].session = c.session
                    /\ calls[j].req.tool = c.req.tool /\ calls[j].norm.paths = c.norm.paths
                    /\ calls[j].norm.argv = c.norm.argv /\ calls[j].norm.detail = c.norm.detail
           /\ thread[i].created \subseteq c.norm.paths
           /\ \A p \in Files : disk.file[p] = i => p \in c.norm.paths

\* The audit of a returned call ends with its one terminal event, which agrees
\* with the result: "denied" tells a denial before the handler ran, a handler that
\* denies has failed.  A handler ran only after "started", and an answer of the user
\* stands between the request and the start.
AuditTrail ==
    \A i \in 1 .. N :
        LET c == calls[i]
            a == c.audit
            Terminal == {k \in DOMAIN a : a[k] \in {"completed", "failed", "denied"}}
        IN /\ Terminal = IF c.pc = "returned" /\ c.result # "raised" THEN {Len(a)} ELSE {}
           /\ "completed" \in ToSet(a) <=> c.result = "ok"
           /\ "denied" \in ToSet(a) <=> c.result = "denied" /\ "started" \notin ToSet(a)
           /\ "started" \in ToSet(a) <=> thread[i].pc # "none"
           /\ c.decision \in {"approved_once", "approved_for_session"}
                 => SubSeq(a, 1, 2) = <<"requested", "decided">>

\* A write of the agent never destroys a content that another program made while
\* no tool was running and that the agent was never shown, time-outs and
\* abandoned handlers included.
StaleWriteRefused ==
    [][\A i \in Calls, f \in Files :
          disk'.file[f] = i /\ disk.file[f] # i /\ disk.file[f] \in seen.quiet
              => disk.file[f] \in seen.shown]_vars

\* Two writes of this process are serialized, an abandoned one included: what a
\* handler replaces is what its guard saw, or the work of another program.
OwnWritesSerialized ==
    [][\A i \in Calls, f \in Files :
          disk'.file[f] = i /\ disk.file[f] \in Calls \ {i} => disk.file[f] = thread[i].saw]_vars

\* Every call that has started returns to the turn, even if its handler hangs
\* in a system call or waits for the lock of an abandoned one.
EveryCallReturns ==
    \A i \in Calls :
        (i <= N /\ calls[i].pc = "running") ~> (i <= N /\ calls[i].pc = "returned")

-----------------------------------------------------------------------------
(* What the documentation promises and the code does not keep *)

\* native-tools.md: a successful read computes the hash of the whole file and
\* updates the cache with it.  record_file_metadata hashes the file again.
ReadCachesWhatItShowed ==
    [][\A f \in Files : cache'[f] \notin {cache[f], Absent} /\ Tool(N) = "read_file"
                           => cache'[f] = thread[N].saw]_vars

\* todo-plan.md: the version grows with every mutation that succeeds.
PlanVersionGrows ==
    [][\A s \in Sessions : store'.plan[s] # store.plan[s]
                              => store'.plan[s].version > store.plan[s].version]_vars
=============================================================================
