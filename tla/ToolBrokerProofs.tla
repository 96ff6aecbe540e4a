--------------------------- MODULE ToolBrokerProofs ---------------------------
(***************************************************************************)
(* BrokerInv is an inductive invariant of ToolBroker: lemmas about its     *)
(* records, one lemma per action, and the theorems that follow from it.    *)
(***************************************************************************)
EXTENDS ToolBrokerInvariant, SequenceTheorems, FiniteSetTheorems, TLAPS

(* Records and sequences. *)

\* The empty sequence is a sequence over any set.
LEMMA NoElements == ASSUME NEW S PROVE <<>> \in Seq(S)
BY EmptySeq

\* The fields of a thread's record.
LEMMA ThreadFields ==
  ASSUME NEW t, ThreadRec(t)
  PROVE  /\ t.pc \in ThreadAt /\ t.saw \in Contents /\ t.existed \in BOOLEAN
         /\ t.stage \subseteq Files \X Contents /\ t.abandoned \in BOOLEAN
         /\ t.late \in BOOLEAN /\ t.out \in Outs
BY DEF ThreadRec

\* A thread that moves on, keeping what it knows.
LEMMA ThreadMove ==
  ASSUME NEW t, ThreadRec(t), NEW pc \in ThreadAt, NEW u,
         u = [t EXCEPT !.pc = pc]
  PROVE  /\ ThreadRec(u) /\ u.pc = pc /\ u.saw = t.saw /\ u.existed = t.existed
         /\ u.todo = t.todo /\ u.created = t.created /\ u.stage = t.stage /\ u.out = t.out
BY DEF ThreadRec

\* A thread that was not started.
LEMMA ThreadNone ==
  /\ ThreadRec(NoThread) /\ NoThread.pc = "none" /\ NoThread.stage = {}
  /\ NoThread.todo = <<>> /\ NoThread.created = {} /\ NoThread.out = "none"
BY BrokerAssumption DEF ThreadRec, NoThread, ThreadAt, Contents, Absent, Outs

\* A thread that is gone.
LEMMA ThreadGone ==
  /\ ThreadRec(Gone) /\ Gone.pc = "gone" /\ Gone.stage = {}
  /\ Gone.todo = <<>> /\ Gone.created = {} /\ Gone.out = "none"
<1>1. ThreadRec(NoThread) BY ThreadNone
<1>2. "gone" \in ThreadAt BY DEF ThreadAt
<1>3. Gone = [NoThread EXCEPT !.pc = "gone"] BY DEF Gone
<1> QED BY ThreadNone, <1>1, <1>2, <1>3, ThreadMove

-----------------------------------------------------------------------------
(* A step of one handler. *)

\* What a step of handler i, which becomes u, may change: its own locks, a file
\* that it puts, directories, and stores other than the grants.
HandlerChange(i, u) ==
    /\ thread' = [thread EXCEPT ![i] = u] /\ ThreadRec(u)
    /\ UNCHANGED <<scene, repl, calls, cache, seen>>
    /\ lock' \in [Files -> 0 .. MaxCalls]
    /\ \A f \in Files : lock[f] \notin {0, i} => lock'[f] = lock[f]
    /\ disk' \in [file : [Files -> Contents], dirs : {disk'.dirs}, edits : Nat]
    /\ disk'.edits = disk.edits
    /\ \A f \in Files : \/ disk'.file[f] = disk.file[f]
                        \/ thread[i].pc = "put" /\ f = Target(i) /\ disk'.file[f] = i
    /\ store' \in [grants : {store.grants}, skills : {store'.skills}, plan : Plans,
                   artifacts : {store'.artifacts}]

\* Contents of calls are not contents of other programs.
LEMMA OwnContents ==
  ASSUME BrokerInv, NEW i \in Calls
  PROVE  i \notin seen.quiet /\ i <= Base + disk.edits /\ i # 0 /\ i \in Nat /\ i \in Contents
BY BrokerAssumption DEF BrokerInv, Numbered, Typed, Calls, Base, Contents

\* A handler at work belongs to a call of the behaviour.
LEMMA HandlerCall ==
  ASSUME BrokerInv, NEW i \in Calls, thread[i].pc # "none"
  PROVE  i \in 1 .. N /\ CallRec(calls[i]) /\ Normalized(calls[i]) /\ Started(calls[i])
<1>1. N \in Nat BY LenProperties DEF BrokerInv, Typed, N
<1>2. i \in 1 .. N BY <1>1 DEF BrokerInv, ThreadInv, Calls
<1>3. CallRec(calls[i]) BY <1>2 DEF BrokerInv, Typed
<1> QED BY <1>2, <1>3 DEF BrokerInv, CallInv

\* A handler that writes has a target among the files.
LEMMA WriteTarget ==
  ASSUME BrokerInv, NEW i \in Calls, thread[i].pc # "none", Tool(i) \in Writes
  PROVE  Target(i) \in Files
<1>1. calls[i].req \in scene.requests /\ scene \in Scenarios
  BY HandlerCall DEF Normalized, BrokerInv, Typed
<1> QED BY <1>1, BrokerAssumption DEF Tool, Target, Writes

\* The threads of other calls keep their part of the invariant.
LEMMA OthersKeep ==
  ASSUME BrokerInv, NEW i \in Calls, NEW u, HandlerChange(i, u), Alive(i),
         NEW j \in Calls, j # i
  PROVE  ThreadInv(j)'
<1>1. thread'[j] = thread[j] /\ ThreadInv(j) /\ calls' = calls /\ seen' = seen
  BY DEF HandlerChange, BrokerInv, Typed
<1>2. i # 0 /\ j # 0 /\ i \notin seen.quiet BY OwnContents
<1>3. ToolOf(j)' BY <1>1 DEF ThreadInv, ToolOf, Tool, Target
<1>4. thread[j].pc \in Holding => /\ Target(j) \in Files /\ lock[Target(j)] = j
                                 /\ lock'[Target(j)] = j
  BY <1>1, <1>2, WriteTarget DEF ThreadInv, ToolOf, LockOf, HandlerChange, Holding
<1>5. LockOf(j)' BY <1>1, <1>4 DEF LockOf, Target
<1>6. thread[i].pc = "put" => lock[Target(i)] = i
  BY DEF BrokerInv, ThreadInv, LockOf, Holding
<1>7. ASSUME thread[j].pc \in Guarded PROVE disk'.file[Target(j)] = disk.file[Target(j)]
  BY <1>7, <1>4, <1>6 DEF HandlerChange, Guarded, Holding
<1>8. thread[j].pc \in {"written", "record"} => Target(j) \in Files
  BY <1>1, WriteTarget DEF ThreadInv, ToolOf
<1>9. thread[j].pc \in {"written", "record"} =>
        disk'.file[Target(j)] = disk.file[Target(j)] \/ disk'.file[Target(j)] = i
  BY <1>8 DEF HandlerChange
<1>10. FileOf(j)'
  BY <1>1, <1>2, <1>7, <1>9 DEF ThreadInv, FileOf, Shown, Target, Tool
<1>11. StageOf(j)' BY <1>1 DEF ThreadInv, StageOf, Tool, HandlerChange
<1>12. N' = N BY <1>1 DEF N
<1> QED BY <1>1, <1>3, <1>5, <1>10, <1>11, <1>12 DEF ThreadInv

\* The indices of the calls so far.
LEMMA CallCount == ASSUME BrokerInv PROVE N \in Nat /\ N <= MaxCalls /\ 1 .. N \subseteq Calls
BY BrokerAssumption, LenProperties DEF BrokerInv, Typed, N, Calls

\* The calls keep their part of the invariant, and those of the turn.
LEMMA CallsKeep ==
  ASSUME BrokerInv, NEW i \in Calls, NEW u, HandlerChange(i, u), Alive(i), u.pc # "none"
  PROVE  LastOnly' /\ GrantsKnown' /\ Numbered' /\ DiskKnown' /\ CacheKnown'
         /\ \A j \in 1 .. N' : CallInv(j)'
<1>1. /\ calls' = calls /\ repl' = repl /\ scene' = scene /\ cache' = cache /\ seen' = seen
      /\ store'.grants = store.grants /\ disk'.edits = disk.edits
      /\ \A j \in Calls : thread'[j] = IF j = i THEN u ELSE thread[j]
  BY DEF HandlerChange, BrokerInv, Typed
<1>2. N' = N /\ (Idle' <=> Idle) BY <1>1 DEF N, Idle
<1>3. LastOnly' BY <1>1, <1>2 DEF BrokerInv, LastOnly
<1>4. GrantsKnown' BY <1>1, <1>2 DEF BrokerInv, GrantsKnown
<1>5. Numbered' BY <1>1, OwnContents DEF BrokerInv, Numbered, HandlerChange
<1>6. CacheKnown' BY <1>1 DEF BrokerInv, CacheKnown, Shown
<1>7. thread[i].pc # "none" BY DEF Alive
<1>8. i <= N /\ (thread[i].pc = "put" => Target(i) \in calls[i].norm.paths)
  BY <1>7, HandlerCall DEF BrokerInv, ThreadInv, ToolOf, Holding, Normalized, Tool, Target
<1>9. DiskKnown' BY <1>1, <1>2, <1>8 DEF BrokerInv, DiskKnown, HandlerChange
<1>10. ASSUME NEW j \in 1 .. N PROVE CallInv(j)'
  <2>1. CallInv(j) /\ j \in Calls BY CallCount DEF BrokerInv
  <2>2. Judged(j)' BY <1>1, <2>1 DEF CallInv, Judged
  <2>3. Normalized(calls[j])' BY <1>1, <2>1 DEF CallInv, Normalized
  <2>4. thread'[j].pc = "none" <=> thread[j].pc = "none" BY <1>1, <1>7, <2>1
  <2>5. (Unstarted(calls[j])' <=> Unstarted(calls[j])) /\ (Started(calls[j])' <=> Started(calls[j]))
    BY <1>1 DEF Unstarted, Started, StartedAfter
  <2> QED BY <2>1, <2>2, <2>3, <2>4, <2>5 DEF CallInv
<1> QED BY <1>2, <1>3, <1>4, <1>5, <1>6, <1>9, <1>10

\* A step of a handler preserves the invariant if it establishes the handler's
\* own part of it.
LEMMA HandlerStep ==
  ASSUME BrokerInv, NEW i \in Calls, NEW u, HandlerChange(i, u), Alive(i), u.pc # "none",
         u.pc = "done" => u.out # "none", u.pc = "mkdir" => ~u.existed,
         u.todo \in Seq(calls[i].norm.paths), u.created \subseteq calls[i].norm.paths,
         ToolOf(i)', LockOf(i)', FileOf(i)', StageOf(i)', PlanCounted'
  PROVE  BrokerInv'
<1>1. /\ calls' = calls /\ repl' = repl /\ scene' = scene /\ cache' = cache /\ seen' = seen
      /\ \A j \in Calls : thread'[j] = IF j = i THEN u ELSE thread[j]
      /\ thread' = [j \in Calls |-> thread'[j]] /\ ThreadRec(u)
  BY DEF HandlerChange, BrokerInv, Typed
<1>2. N' = N BY <1>1 DEF N
<1>3. \A j \in Calls : ThreadRec(thread[j]) BY DEF BrokerInv, Typed
<1>4. \A j \in Calls : ThreadRec(thread'[j]) BY <1>1, <1>3
<1>5. Typed' BY <1>1, <1>2, <1>4 DEF BrokerInv, Typed, HandlerChange
<1>6. i <= N BY HandlerCall DEF Alive, BrokerInv, ThreadInv
<1>7. ThreadInv(i)' BY <1>1, <1>2, <1>6 DEF ThreadInv
<1>8. \A j \in Calls : ThreadInv(j)' BY <1>7, OthersKeep
<1> QED BY <1>5, <1>8, CallsKeep DEF BrokerInv

\* A set of calls, counted.
LEMMA CountCalls ==
  ASSUME NEW T \in SUBSET Calls
  PROVE  IsFiniteSet(T) /\ Cardinality(T) \in Nat /\ Cardinality(T) <= MaxCalls
<1>1. IsFiniteSet(Calls) /\ Cardinality(Calls) = MaxCalls
  BY BrokerAssumption, FS_Interval DEF Calls
<1> QED BY <1>1, FS_Subset, FS_CardinalityType

\* When more handlers are through, the count does not shrink.
LEMMA MoreThrough ==
  ASSUME Through \subseteq Through'
  PROVE  /\ Cardinality(Through) \in Nat /\ Cardinality(Through') \in Nat
         /\ Cardinality(Through) <= Cardinality(Through')
<1>1. Through \in SUBSET Calls /\ Through' \in SUBSET Calls BY DEF Through
<1>2. IsFiniteSet(Through') BY <1>1, CountCalls
<1> QED BY <1>1, <1>2, CountCalls, FS_Subset

\* A step that leaves the plan alone keeps the count.
LEMMA PlanKept ==
  ASSUME BrokerInv, NEW i \in Calls, NEW u, HandlerChange(i, u), u.pc # "plan",
         thread[i].pc \in {"finish", "artifact", "done", "gone"}
           => u.pc \in {"finish", "artifact", "done", "gone"},
         store'.plan = store.plan
  PROVE  PlanCounted'
<1>1. \A j \in Calls : thread'[j] = IF j = i THEN u ELSE thread[j]
  BY DEF HandlerChange, BrokerInv, Typed
<1>2. Through \subseteq Through' BY <1>1 DEF Through
<1>3. Cardinality(Through) <= Cardinality(Through') BY <1>2, MoreThrough
<1>4. Cardinality(Through) \in Nat /\ Cardinality(Through') \in Nat BY <1>2, MoreThrough
<1>5. ASSUME NEW s \in Sessions PROVE store.plan[s].version \in Nat
  BY <1>5, BrokerAssumption DEF BrokerInv, Typed, Plans
<1>6. ASSUME NEW j \in Calls PROVE thread[j].saw \in Nat
  BY ThreadFields, BrokerAssumption DEF BrokerInv, Typed, Contents
<1>7. \A s \in Sessions : store'.plan[s].version <= Cardinality(Through')
  BY <1>3, <1>4, <1>5 DEF BrokerInv, PlanCounted
<1>8. \A j \in Calls : thread'[j].pc = "plan" => thread'[j].saw <= Cardinality(Through')
  BY <1>1, <1>3, <1>4, <1>6 DEF BrokerInv, PlanCounted
<1> QED BY <1>7, <1>8 DEF PlanCounted

-----------------------------------------------------------------------------
(* The handler's actions. *)

\* A handler that gives its lock back, or keeps it.
LEMMA LockGiven ==
  ASSUME BrokerInv, NEW i \in Calls, Unlock(i) \/ UNCHANGED lock
  PROVE  /\ lock' \in [Files -> 0 .. MaxCalls]
         /\ \A f \in Files : lock[f] \notin {0, i} => lock'[f] = lock[f]
BY BrokerAssumption DEF BrokerInv, Typed, Unlock

\* What a step is that changes the handler's thread and, perhaps, its lock.
LEMMA ThreadOnly ==
  ASSUME BrokerInv, NEW i \in Calls, NEW u, ThreadRec(u), thread' = [thread EXCEPT ![i] = u],
         UNCHANGED <<scene, repl, calls, disk, cache, store, seen>>,
         Unlock(i) \/ UNCHANGED lock
  PROVE  HandlerChange(i, u)
BY LockGiven DEF BrokerInv, Typed, HandlerChange

\* A handler that gives its answer preserves the invariant.
LEMMA EndStep ==
  ASSUME BrokerInv, NEW i \in Calls, Alive(i), NEW out \in Outs \ {"none"}, Done(i, out),
         UNCHANGED <<scene, repl, calls, disk, cache, seen>>, Unlock(i) \/ UNCHANGED lock,
         store'.plan = store.plan,
         store' \in [grants : {store.grants}, skills : {store'.skills}, plan : Plans,
                     artifacts : {store'.artifacts}]
  PROVE  BrokerInv'
<1>1. ThreadRec(thread[i]) /\ ThreadInv(i) /\ thread[i].pc # "none"
  BY DEF BrokerInv, Typed, Alive
<1>2. PICK u : u = IF thread[i].abandoned THEN Gone ELSE [thread[i] EXCEPT !.pc = "done", !.out = out]
  OBVIOUS
<1>3. thread' = [thread EXCEPT ![i] = u] BY <1>2 DEF Done
<1>4. /\ ThreadRec(u) /\ u.pc \in {"done", "gone"} /\ (u.pc = "done" => u.out # "none")
      /\ u.todo \in Seq(calls[i].norm.paths) /\ u.created \subseteq calls[i].norm.paths
      /\ u.stage = {} \/ (u.stage = thread[i].stage /\ u.saw = thread[i].saw)
  <2>1. CASE thread[i].abandoned
    <3>1. u = Gone BY <2>1, <1>2
    <3>2. Gone.todo \in Seq(calls[i].norm.paths) BY ThreadGone, NoElements
    <3> QED BY <3>1, <3>2, ThreadGone
  <2>2. CASE ~thread[i].abandoned
    <3>1. u = [thread[i] EXCEPT !.pc = "done", !.out = out] BY <2>2, <1>2
    <3>2. ThreadRec(u) /\ u.pc = "done" /\ u.out = out /\ u.saw = thread[i].saw
          /\ u.todo = thread[i].todo /\ u.created = thread[i].created
          /\ u.stage = thread[i].stage
      BY <3>1, <1>1 DEF ThreadRec, ThreadAt
    <3> QED BY <3>2, <1>1 DEF ThreadInv
  <2> QED BY <2>1, <2>2
<1>5. HandlerChange(i, u)
  BY <1>3, <1>4, LockGiven DEF BrokerInv, Typed, HandlerChange
<1>6. PlanCounted' BY <1>4, <1>5, PlanKept
<1>7. thread'[i] = u BY <1>3 DEF BrokerInv, Typed
<1>8. ToolOf(i)' /\ LockOf(i)' /\ FileOf(i)'
  BY <1>4, <1>7 DEF ToolOf, LockOf, FileOf, Holding, Guarded
<1>9. StageOf(i)' BY <1>1, <1>4, <1>7 DEF ThreadInv, StageOf, Tool
<1> QED BY <1>4, <1>5, <1>6, <1>8, <1>9, HandlerStep

\* A handler that moves on, having looked or not, keeps what it staged, which is
\* nothing before it has seen a file that it reads.
LEMMA MoveStep ==
  ASSUME BrokerInv, NEW i \in Calls, Alive(i), NEW u, HandlerChange(i, u),
         u.pc \notin {"none", "done", "start", "plan"},
         thread[i].pc \in {"finish", "artifact"} => u.pc = "artifact",
         u.pc = "mkdir" => ~u.existed, u.todo = thread[i].todo, u.created = thread[i].created,
         u.stage = thread[i].stage, u.saw # thread[i].saw => Tool(i) # "read_file" \/ u.stage = {},
         u.pc = "scan" => thread[i].pc = "start",
         ToolOf(i)', LockOf(i)', FileOf(i)', store'.plan = store.plan
  PROVE  BrokerInv'
<1>1. ThreadInv(i) /\ thread[i].pc # "none" BY DEF BrokerInv, Alive
<1>2. thread'[i] = u /\ calls' = calls /\ seen' = seen /\ disk'.edits = disk.edits
  BY DEF HandlerChange, BrokerInv, Typed
<1>3. StageOf(i)' BY <1>1, <1>2 DEF ThreadInv, StageOf, Tool
<1>4. PlanCounted' BY PlanKept DEF Alive
<1> QED BY <1>1, <1>3, <1>4, HandlerStep DEF ThreadInv

\* The handler passes the check before it runs, or finds its deadline passed.
LEMMA StartKeeps == ASSUME BrokerInv, NEW i \in Calls, Start(i) PROVE BrokerInv'
<1>1. Alive(i) /\ thread[i].pc = "start" /\ ThreadRec(thread[i]) /\ ThreadInv(i)
  BY DEF Start, Alive, BrokerInv, Typed
<1>2. CASE thread[i].late
  <2>1. "deadline" \in Outs \ {"none"} BY DEF Outs
  <2> QED BY <1>1, <1>2, <2>1, EndStep DEF Start, BrokerInv, Typed
<1>3. CASE ~thread[i].late
  <2>1. PICK pc : /\ pc = CASE Tool(i) = "read_file" -> "scan"
                            [] Tool(i) \in Writes -> "lock"
                            [] Tool(i) \in {"todo", "activate_skill"} -> "store"
                            [] OTHER -> "work"
    OBVIOUS
  <2>2. /\ pc \in {"scan", "lock", "store", "work"} /\ (pc = "scan" => Tool(i) = "read_file")
        /\ pc = "lock" => Tool(i) \in Writes
    BY <2>1 DEF Writes
  <2>3. PICK u : u = [thread[i] EXCEPT !.pc = pc] OBVIOUS
  <2>4. thread' = [thread EXCEPT ![i] = u] BY <1>3, <2>1, <2>3 DEF Start, To
  <2>5. pc \in ThreadAt BY <2>2 DEF ThreadAt
  <2>6. HandlerChange(i, u) BY <1>1, <2>3, <2>4, <2>5, ThreadMove, ThreadOnly DEF Start
  <2>7. thread'[i] = u BY <2>4 DEF BrokerInv, Typed
  <2>8. ToolOf(i)' /\ LockOf(i)' /\ FileOf(i)'
    BY <1>1, <2>2, <2>3, <2>5, <2>7, ThreadMove
    DEF Start, ToolOf, LockOf, FileOf, Holding, Guarded, Tool
  <2> QED BY <1>1, <2>2, <2>3, <2>5, <2>6, <2>8, ThreadMove, MoveStep DEF Start
<1> QED BY <1>2, <1>3

\* A read sees the content of the moment.
LEMMA ScanKeeps == ASSUME BrokerInv, NEW i \in Calls, Scan(i) PROVE BrokerInv'
<1>1. Alive(i) /\ thread[i].pc = "scan" /\ ThreadRec(thread[i]) /\ ThreadInv(i)
  BY DEF Scan, Alive, BrokerInv, Typed
<1>2. Tool(i) = "read_file" /\ thread[i].stage = {} BY <1>1 DEF ThreadInv, ToolOf, StageOf
<1>3. CASE IsArtifact(calls[i].req, calls[i].session)
  <2>1. PICK u : u = [thread[i] EXCEPT !.pc = "finish"] OBVIOUS
  <2>2. thread' = [thread EXCEPT ![i] = u] BY <1>3, <2>1 DEF Scan, To
  <2>3. "finish" \in ThreadAt BY DEF ThreadAt
  <2>4. HandlerChange(i, u) BY <1>1, <2>1, <2>2, <2>3, ThreadMove, ThreadOnly DEF Scan
  <2>5. thread'[i] = u BY <2>2 DEF BrokerInv, Typed
  <2>6. ToolOf(i)' /\ LockOf(i)' /\ FileOf(i)'
    BY <1>1, <2>1, <2>3, <2>5, ThreadMove DEF ToolOf, LockOf, FileOf, Holding, Guarded
  <2> QED BY <1>1, <2>1, <2>3, <2>4, <2>6, ThreadMove, MoveStep DEF Scan
<1>4. CASE /\ ~IsArtifact(calls[i].req, calls[i].session)
           /\ Target(i) \notin Files \/ disk.file[Target(i)] = Absent
  <2>1. "error" \in Outs \ {"none"} BY DEF Outs
  <2> QED BY <1>1, <1>4, <2>1, EndStep DEF Scan, BrokerInv, Typed
<1>5. CASE /\ ~IsArtifact(calls[i].req, calls[i].session)
           /\ Target(i) \in Files /\ disk.file[Target(i)] # Absent
  <2>1. PICK c : c = disk.file[Target(i)] OBVIOUS
  <2>2. PICK u : u = [thread[i] EXCEPT !.pc = "record", !.saw = c] OBVIOUS
  <2>3. thread' = [thread EXCEPT ![i] = u] BY <1>5, <2>1, <2>2 DEF Scan
  <2>4. "record" \in ThreadAt /\ c \in Contents BY <1>5, <2>1 DEF ThreadAt, BrokerInv, Typed
  <2>5. /\ ThreadRec(u) /\ u.pc = "record" /\ u.saw = c /\ u.todo = thread[i].todo
        /\ u.created = thread[i].created /\ u.stage = thread[i].stage
    BY <1>1, <2>2, <2>4 DEF ThreadRec
  <2>6. HandlerChange(i, u) BY <2>3, <2>5, ThreadOnly DEF Scan
  <2>7. thread'[i] = u BY <2>3 DEF BrokerInv, Typed
  <2>8. calls' = calls /\ disk' = disk /\ seen' = seen BY DEF Scan
  <2>9. ToolOf(i)' /\ LockOf(i)' /\ FileOf(i)'
    BY <1>2, <1>5, <2>1, <2>5, <2>7, <2>8
    DEF ToolOf, LockOf, FileOf, Holding, Guarded, Tool, Target, Writes
  <2> QED BY <1>1, <1>2, <2>5, <2>6, <2>9, MoveStep DEF Scan
<1> QED BY <1>3, <1>4, <1>5

\* A write takes a free lock, so no other handler holds one of the file.
LEMMA TakeLockKeeps == ASSUME BrokerInv, NEW i \in Calls, TakeLock(i) PROVE BrokerInv'
<1>1. /\ Alive(i) /\ thread[i].pc = "lock" /\ ThreadRec(thread[i]) /\ ThreadInv(i)
      /\ lock[Target(i)] = 0 /\ thread[i].pc # "none"
  BY DEF TakeLock, Alive, BrokerInv, Typed
<1>2. Tool(i) \in Writes /\ Target(i) \in Files
  BY <1>1, WriteTarget DEF ThreadInv, ToolOf
<1>3. "deadline" \in Outs \ {"none"} /\ "error" \in Outs \ {"none"} BY DEF Outs
<1>4. CASE thread[i].late
  BY <1>1, <1>3, <1>4, EndStep DEF TakeLock, BrokerInv, Typed
<1>5. CASE ~thread[i].late /\ disk.file[Target(i)] = Absent /\ Tool(i) = "edit_file"
  BY <1>1, <1>3, <1>5, EndStep DEF TakeLock, BrokerInv, Typed
<1>6. CASE ~thread[i].late /\ (disk.file[Target(i)] # Absent \/ Tool(i) # "edit_file")
  <2>1. PICK b \in BOOLEAN : b = (disk.file[Target(i)] # Absent) OBVIOUS
  <2>2. PICK pc : pc = IF b THEN "guard" ELSE "mkdir" OBVIOUS
  <2>3. PICK u : u = [thread[i] EXCEPT !.existed = b, !.pc = pc] OBVIOUS
  <2>4. lock' = [lock EXCEPT ![Target(i)] = i] BY <1>6 DEF TakeLock
  <2>5. thread' = [thread EXCEPT ![i] = u] BY <1>6, <2>1, <2>2, <2>3 DEF TakeLock
  <2>6. pc \in ThreadAt /\ pc \in {"guard", "mkdir"} BY <2>2 DEF ThreadAt
  <2>7. /\ ThreadRec(u) /\ u.pc = pc /\ u.existed = b /\ u.saw = thread[i].saw
        /\ u.todo = thread[i].todo /\ u.created = thread[i].created
        /\ u.stage = thread[i].stage
    BY <1>1, <2>3, <2>6 DEF ThreadRec
  <2>8. i \in 0 .. MaxCalls BY BrokerAssumption DEF Calls
  <2>9. /\ lock' \in [Files -> 0 .. MaxCalls] /\ lock'[Target(i)] = i
        /\ \A f \in Files : lock[f] \notin {0, i} => lock'[f] = lock[f]
    BY <1>1, <1>2, <2>4, <2>8 DEF BrokerInv, Typed
  <2>10. HandlerChange(i, u)
    BY <2>5, <2>7, <2>9 DEF TakeLock, HandlerChange, BrokerInv, Typed
  <2>11. thread'[i] = u BY <2>5 DEF BrokerInv, Typed
  <2>12. ToolOf(i)' /\ LockOf(i)' /\ FileOf(i)'
    BY <1>2, <2>6, <2>7, <2>9, <2>11
    DEF TakeLock, ToolOf, LockOf, FileOf, Holding, Guarded, Tool, Target
  <2>13. u.pc = "mkdir" => ~u.existed BY <2>2, <2>7
  <2> QED BY <1>1, <2>6, <2>7, <2>10, <2>12, <2>13, MoveStep DEF TakeLock
<1> QED BY <1>4, <1>5, <1>6

\* The guard compares with the cache, and the cache holds what was shown.
LEMMA GuardKeeps == ASSUME BrokerInv, NEW i \in Calls, Guard(i) PROVE BrokerInv'
<1>1. /\ Alive(i) /\ thread[i].pc = "guard" /\ ThreadRec(thread[i]) /\ ThreadInv(i)
      /\ thread[i].pc # "none"
  BY DEF Guard, Alive, BrokerInv, Typed
<1>2. /\ Tool(i) \in Writes /\ Target(i) \in Files /\ lock[Target(i)] = i
  BY <1>1, WriteTarget DEF ThreadInv, ToolOf, LockOf, Holding
<1>3. CASE ~GuardPasses(i, cache[Target(i)])
  <2>1. "error" \in Outs \ {"none"} BY DEF Outs
  <2> QED BY <1>1, <1>3, <2>1, EndStep DEF Guard, BrokerInv, Typed
<1>4. CASE GuardPasses(i, cache[Target(i)])
  <2>1. PICK pc : pc = IF Tool(i) = "edit_file" THEN "edit" ELSE "ready" OBVIOUS
  <2>2. PICK c : c = disk.file[Target(i)] OBVIOUS
  <2>3. PICK u : u = [thread[i] EXCEPT !.pc = pc, !.saw = c] OBVIOUS
  <2>4. u = [thread[i] EXCEPT !.saw = c, !.pc = pc] BY <1>1, <2>3 DEF ThreadRec
  <2>5. thread' = [thread EXCEPT ![i] = u] /\ UNCHANGED lock
    BY <1>4, <2>1, <2>2, <2>4 DEF Guard
  <2>6. pc \in ThreadAt /\ pc \in {"edit", "ready"} /\ c \in Contents
    BY <1>2, <2>1, <2>2 DEF ThreadAt, BrokerInv, Typed
  <2>7. /\ ThreadRec(u) /\ u.pc = pc /\ u.saw = c
        /\ u.todo = thread[i].todo /\ u.created = thread[i].created
        /\ u.stage = thread[i].stage
    BY <1>1, <2>3, <2>6 DEF ThreadRec
  <2>8. HandlerChange(i, u) BY <2>5, <2>7, ThreadOnly DEF Guard
  <2>9. thread'[i] = u BY <2>5 DEF BrokerInv, Typed
  <2>10. Shown(c) BY <1>2, <1>4, <2>2 DEF GuardPasses, BrokerInv, CacheKnown
  <2>11. ToolOf(i)' /\ LockOf(i)' /\ FileOf(i)'
    BY <1>2, <2>2, <2>5, <2>6, <2>7, <2>9, <2>10
    DEF Guard, ToolOf, LockOf, FileOf, Holding, Guarded, Tool, Target, Shown
  <2> QED BY <1>1, <1>2, <2>6, <2>7, <2>8, <2>11, MoveStep DEF Guard, Writes
<1> QED BY <1>3, <1>4

\* The lock keeps the file, between guard and reading, from this process.
LEMMA EditReadKeeps ==
  ASSUME BrokerInv, NEW i \in Calls, NEW found \in BOOLEAN, EditRead(i, found)
  PROVE  BrokerInv'
<1>1. /\ Alive(i) /\ thread[i].pc = "edit" /\ ThreadRec(thread[i]) /\ ThreadInv(i)
      /\ thread[i].pc # "none"
  BY DEF EditRead, Alive, BrokerInv, Typed
<1>2. /\ Tool(i) \in Writes /\ Target(i) \in Files /\ lock[Target(i)] = i
  BY <1>1, WriteTarget DEF ThreadInv, ToolOf, LockOf, Holding
<1>3. CASE ~(found /\ disk.file[Target(i)] # Absent)
  <2>1. "error" \in Outs \ {"none"} BY DEF Outs
  <2> QED BY <1>1, <1>3, <2>1, EndStep DEF EditRead, BrokerInv, Typed
<1>4. CASE found /\ disk.file[Target(i)] # Absent
  <2>1. PICK c : c = disk.file[Target(i)] OBVIOUS
  <2>2. PICK u : u = [thread[i] EXCEPT !.saw = c, !.pc = "ready"] OBVIOUS
  <2>3. thread' = [thread EXCEPT ![i] = u] /\ UNCHANGED lock
    BY <1>4, <2>1, <2>2 DEF EditRead
  <2>4. "ready" \in ThreadAt /\ c \in Contents
    BY <1>2, <2>1 DEF ThreadAt, BrokerInv, Typed
  <2>5. /\ ThreadRec(u) /\ u.pc = "ready" /\ u.saw = c
        /\ u.existed = thread[i].existed /\ u.todo = thread[i].todo
        /\ u.created = thread[i].created /\ u.stage = thread[i].stage
    BY <1>1, <2>2, <2>4 DEF ThreadRec
  <2>6. HandlerChange(i, u) BY <2>3, <2>5, ThreadOnly DEF EditRead
  <2>7. thread'[i] = u BY <2>3 DEF BrokerInv, Typed
  <2>8. u.existed => Shown(c) BY <1>1, <2>1, <2>5 DEF ThreadInv, FileOf, Guarded
  <2>9. ToolOf(i)' /\ LockOf(i)' /\ FileOf(i)'
    BY <1>2, <2>1, <2>3, <2>5, <2>7, <2>8
    DEF EditRead, ToolOf, LockOf, FileOf, Holding, Guarded, Tool, Target, Shown
  <2> QED BY <1>1, <1>2, <2>5, <2>6, <2>9, MoveStep DEF EditRead, Writes
<1> QED BY <1>3, <1>4

\* A handler that only takes the next check.
LEMMA ToStep ==
  ASSUME BrokerInv, NEW i \in Calls, Alive(i),
         NEW pc \in {"put", "written", "record", "finish", "artifact"}, To(i, pc),
         UNCHANGED <<scene, repl, calls, disk, cache, lock, seen>>,
         store'.plan = store.plan,
         store' \in [grants : {store.grants}, skills : {store'.skills}, plan : Plans,
                     artifacts : {store'.artifacts}],
         thread[i].pc \notin {"finish", "artifact"},
         pc = "put" => thread[i].pc \in {"ready", "mkdir"},
         pc \in {"written", "record"} => thread[i].pc = "written"
  PROVE  BrokerInv'
<1>1. ThreadRec(thread[i]) /\ ThreadInv(i) /\ thread[i].pc # "none"
  BY DEF BrokerInv, Typed, Alive
<1>2. PICK u : u = [thread[i] EXCEPT !.pc = pc] OBVIOUS
<1>3. pc \in ThreadAt BY DEF ThreadAt
<1>4. thread' = [thread EXCEPT ![i] = u] BY <1>2 DEF To
<1>5. /\ ThreadRec(u) /\ u.pc = pc /\ u.saw = thread[i].saw /\ u.existed = thread[i].existed
      /\ u.todo = thread[i].todo /\ u.created = thread[i].created
      /\ u.stage = thread[i].stage
  BY <1>1, <1>2, <1>3, ThreadMove
<1>6. HandlerChange(i, u) BY <1>4, <1>5 DEF HandlerChange, BrokerInv, Typed
<1>7. thread'[i] = u BY <1>4 DEF BrokerInv, Typed
<1>8. pc \in {"put", "written", "record"} => Tool(i) \in Writes /\ Target(i) \in Files
  BY <1>1, WriteTarget DEF ThreadInv, ToolOf, Holding
<1>9. ToolOf(i)' BY <1>5, <1>7, <1>8 DEF ToolOf, Holding, Tool, Target
<1>10. LockOf(i)' BY <1>1, <1>5, <1>7 DEF ThreadInv, LockOf, Holding, Target
<1>11. FileOf(i)'
  BY <1>1, <1>5, <1>7, <1>8 DEF ThreadInv, FileOf, Guarded, Target, Tool, Shown, Writes
<1> QED BY <1>1, <1>5, <1>6, <1>9, <1>10, <1>11, MoveStep

\* A parent directory that is made is one of the call's paths.
LEMMA MakeDirKeeps == ASSUME BrokerInv, NEW i \in Calls, MakeDir(i) PROVE BrokerInv'
<1>1. /\ Alive(i) /\ thread[i].pc = "mkdir" /\ ThreadRec(thread[i]) /\ ThreadInv(i)
      /\ thread[i].pc # "none" /\ thread[i].todo # <<>>
  BY DEF MakeDir, Alive, BrokerInv, Typed
<1>2. PICK d : d = Head(thread[i].todo) OBVIOUS
<1>3. "deadline" \in Outs \ {"none"} /\ "error" \in Outs \ {"none"} BY DEF Outs
<1>4. CASE thread[i].late
  BY <1>1, <1>3, <1>4, EndStep DEF MakeDir, BrokerInv, Typed
<1>5. CASE ~thread[i].late /\ d \in disk.dirs
  BY <1>1, <1>2, <1>3, <1>5, EndStep DEF MakeDir, BrokerInv, Typed
<1>6. CASE ~thread[i].late /\ d \notin disk.dirs
  <2>1. PICK a : a = Tail(thread[i].todo) OBVIOUS
  <2>2. PICK b : b = thread[i].created \union {d} OBVIOUS
  <2>3. PICK u : u = [thread[i] EXCEPT !.todo = a, !.created = b] OBVIOUS
  <2>4. /\ thread' = [thread EXCEPT ![i] = u] /\ UNCHANGED lock
        /\ disk' = [disk EXCEPT !.dirs = @ \union {d}]
    BY <1>2, <1>6, <2>1, <2>2, <2>3 DEF MakeDir
  <2>5. /\ ThreadRec(u) /\ u.pc = "mkdir" /\ u.saw = thread[i].saw
        /\ u.existed = thread[i].existed /\ u.todo = a /\ u.created = b
        /\ u.stage = thread[i].stage
    BY <1>1, <2>3 DEF ThreadRec
  <2>6. thread[i].todo \in Seq(calls[i].norm.paths) BY <1>1 DEF ThreadInv
  <2>7. d \in calls[i].norm.paths /\ a \in Seq(calls[i].norm.paths)
    BY <1>1, <1>2, <2>1, <2>6, HeadTailProperties
  <2>8. b \subseteq calls[i].norm.paths BY <1>1, <2>2, <2>7 DEF ThreadInv
  <2>9. HandlerChange(i, u)
    BY <2>4, <2>5, LockGiven DEF MakeDir, HandlerChange, BrokerInv, Typed
  <2>10. thread'[i] = u BY <2>4 DEF BrokerInv, Typed
  <2>11. ToolOf(i)' /\ LockOf(i)' /\ FileOf(i)'
    BY <1>1, <2>4, <2>5, <2>10
    DEF MakeDir, ThreadInv, ToolOf, LockOf, FileOf, Holding, Guarded, Tool, Target
  <2>12. StageOf(i)'
    BY <1>1, <2>5, <2>9, <2>10 DEF MakeDir, ThreadInv, StageOf, Tool, HandlerChange
  <2>13. PlanCounted' BY <1>1, <2>5, <2>9, PlanKept DEF MakeDir
  <2>14. ~u.existed BY <1>1, <2>5 DEF ThreadInv
  <2> QED BY <1>1, <2>5, <2>7, <2>8, <2>9, <2>11, <2>12, <2>13, <2>14, HandlerStep
<1> QED BY <1>4, <1>5, <1>6

\* The last check before a write changes nothing but the step.
LEMMA CheckWriteKeeps == ASSUME BrokerInv, NEW i \in Calls, CheckWrite(i) PROVE BrokerInv'
<1>1. Alive(i) /\ thread[i].pc \in {"ready", "mkdir"} BY DEF CheckWrite, Alive
<1>2. "deadline" \in Outs \ {"none"} BY DEF Outs
<1>3. CASE thread[i].late BY <1>1, <1>2, <1>3, EndStep DEF CheckWrite, BrokerInv, Typed
<1>4. CASE ~thread[i].late BY <1>1, <1>4, ToStep DEF CheckWrite, BrokerInv, Typed
<1> QED BY <1>3, <1>4

\* A write puts the call's own content, which no quiet moment made.
LEMMA PutKeeps == ASSUME BrokerInv, NEW i \in Calls, Put(i) PROVE BrokerInv'
<1>1. /\ Alive(i) /\ thread[i].pc = "put" /\ ThreadRec(thread[i]) /\ ThreadInv(i)
      /\ thread[i].pc # "none"
  BY DEF Put, Alive, BrokerInv, Typed
<1>2. Tool(i) \in Writes /\ Target(i) \in Files
  BY <1>1, WriteTarget DEF ThreadInv, ToolOf, Holding
<1>3. CASE ~thread[i].existed /\ disk.file[Target(i)] # Absent
  <2>1. "error" \in Outs \ {"none"} BY DEF Outs
  <2> QED BY <1>1, <1>3, <2>1, EndStep DEF Put, BrokerInv, Typed
<1>4. CASE thread[i].existed \/ disk.file[Target(i)] = Absent
  <2>1. PICK u : u = [thread[i] EXCEPT !.pc = "written"] OBVIOUS
  <2>2. /\ thread' = [thread EXCEPT ![i] = u] /\ UNCHANGED lock
        /\ disk' = [disk EXCEPT !.file[Target(i)] = i]
    BY <1>4, <2>1 DEF Put, To
  <2>3. "written" \in ThreadAt BY DEF ThreadAt
  <2>4. /\ ThreadRec(u) /\ u.pc = "written" /\ u.saw = thread[i].saw
        /\ u.todo = thread[i].todo /\ u.created = thread[i].created
        /\ u.stage = thread[i].stage
    BY <1>1, <2>1, <2>3, ThreadMove
  <2>5. i \in Contents /\ i \notin seen.quiet BY OwnContents
  <2>6. /\ disk' \in [file : [Files -> Contents], dirs : {disk'.dirs}, edits : Nat]
        /\ disk'.edits = disk.edits /\ disk'.file[Target(i)] = i
        /\ \A f \in Files : f # Target(i) => disk'.file[f] = disk.file[f]
    BY <1>2, <2>2, <2>5 DEF BrokerInv, Typed
  <2>7. HandlerChange(i, u)
    BY <1>1, <2>2, <2>4, <2>6, LockGiven DEF Put, HandlerChange, BrokerInv, Typed
  <2>8. thread'[i] = u BY <2>2 DEF BrokerInv, Typed
  <2>9. ToolOf(i)' /\ LockOf(i)' /\ FileOf(i)'
    BY <1>2, <2>4, <2>5, <2>6, <2>8
    DEF Put, ToolOf, LockOf, FileOf, Holding, Guarded, Tool, Target
  <2> QED BY <1>1, <2>4, <2>7, <2>9, MoveStep DEF Put
<1> QED BY <1>3, <1>4

\* The check after a write changes nothing but the step.
LEMMA CheckWrittenKeeps ==
  ASSUME BrokerInv, NEW i \in Calls, CheckWritten(i) PROVE BrokerInv'
<1>1. Alive(i) /\ thread[i].pc = "written" BY DEF CheckWritten, Alive
<1>2. "deadline" \in Outs \ {"none"} BY DEF Outs
<1>3. CASE thread[i].late BY <1>1, <1>2, <1>3, EndStep DEF CheckWritten, BrokerInv, Typed
<1>4. CASE ~thread[i].late BY <1>1, <1>4, ToStep DEF CheckWritten, BrokerInv, Typed
<1> QED BY <1>3, <1>4

\* What is staged is the file of the moment, not always what was read.
LEMMA RecordKeeps == ASSUME BrokerInv, NEW i \in Calls, Record(i) PROVE BrokerInv'
<1>1. /\ Alive(i) /\ thread[i].pc = "record" /\ ThreadRec(thread[i]) /\ ThreadInv(i)
      /\ thread[i].pc # "none"
  BY DEF Record, Alive, BrokerInv, Typed
<1>2. PICK c : c = disk.file[Target(i)] OBVIOUS
<1>3. Target(i) \in Files /\ Tool(i) \in Writes \union {"read_file"}
  BY <1>1 DEF ThreadInv, ToolOf
<1>4. c \in Contents /\ c <= Base + disk.edits
  BY <1>2, <1>3 DEF BrokerInv, Typed, Numbered
<1>5. c \in seen.quiet => Tool(i) = "read_file" /\ c = thread[i].saw
  BY <1>1, <1>2, <1>3 DEF ThreadInv, FileOf
<1>6. CASE c = Absent
  <2>1. "error" \in Outs \ {"none"} BY DEF Outs
  <2> QED BY <1>1, <1>2, <1>6, <2>1, EndStep DEF Record, BrokerInv, Typed
<1>7. CASE c # Absent
  <2>1. PICK S : S = thread[i].stage \union
                       IF thread[i].abandoned THEN {} ELSE {<<Target(i), c>>}
    OBVIOUS
  <2>2. \A s \in S : s \in thread[i].stage \/ s = <<Target(i), c>> BY <2>1
  <2>3. S \subseteq Files \X Contents
    BY <1>1, <1>3, <1>4, <2>2 DEF ThreadRec
  <2>4. PICK u : u = [thread[i] EXCEPT !.pc = "finish", !.stage = S] OBVIOUS
  <2>5. thread' = [thread EXCEPT ![i] = u] /\ UNCHANGED lock
    BY <1>2, <1>7, <2>1, <2>4 DEF Record
  <2>6. /\ ThreadRec(u) /\ u.pc = "finish" /\ u.saw = thread[i].saw
        /\ u.todo = thread[i].todo /\ u.created = thread[i].created /\ u.stage = S
    BY <1>1, <2>3, <2>4 DEF ThreadRec, ThreadAt
  <2>7. HandlerChange(i, u) BY <2>5, <2>6, ThreadOnly DEF Record
  <2>8. thread'[i] = u BY <2>5 DEF BrokerInv, Typed
  <2>9. ToolOf(i)' /\ LockOf(i)' /\ FileOf(i)'
    BY <2>6, <2>8 DEF ToolOf, LockOf, FileOf, Holding, Guarded
  <2>10. ASSUME NEW s \in S
         PROVE  /\ s[2] <= Base + disk.edits
                /\ s[2] \in seen.quiet => Tool(i) = "read_file" /\ s[2] = thread[i].saw
    <3>1. CASE s \in thread[i].stage BY <1>1, <3>1 DEF ThreadInv, StageOf
    <3>2. CASE s = <<Target(i), c>> BY <1>4, <1>5, <3>2
    <3> QED BY <2>2, <3>1, <3>2
  <2>11. StageOf(i)'
    <3>1. calls' = calls /\ disk' = disk /\ seen' = seen BY DEF Record
    <3>2. thread'[i].stage = S /\ thread'[i].saw = thread[i].saw /\ thread'[i].pc = "finish"
      BY <2>6, <2>8
    <3>3. ASSUME NEW s \in thread'[i].stage
          PROVE  /\ s[2] <= Base + disk'.edits
                 /\ s[2] \in seen'.quiet => Tool(i) = "read_file" /\ s[2] = thread'[i].saw
      BY <2>10, <3>1, <3>2
    <3>4. Tool(i)' = Tool(i) BY <3>1 DEF Tool
    <3> QED BY <3>2, <3>3, <3>4 DEF StageOf
  <2>12. PlanCounted' BY <1>1, <2>6, <2>7, PlanKept DEF Record
  <2> QED BY <1>1, <2>6, <2>7, <2>9, <2>11, <2>12, HandlerStep DEF ThreadInv
<1> QED BY <1>6, <1>7

\* The handler ends, or goes on to store its output, and gives its locks back.
LEMMA FinishKeeps ==
  ASSUME BrokerInv, NEW i \in Calls, NEW large \in BOOLEAN, Finish(i, large) PROVE BrokerInv'
<1>1. Alive(i) /\ thread[i].pc = "finish" /\ ThreadRec(thread[i])
  BY DEF Finish, Alive, BrokerInv, Typed
<1>2. CASE thread[i].late \/ ~large
  <2>1. PICK out : out = IF thread[i].late THEN "deadline" ELSE "ok" OBVIOUS
  <2>2. out \in Outs \ {"none"} BY <2>1 DEF Outs
  <2>3. Done(i, out) BY <1>2, <2>1 DEF Finish
  <2> QED BY <1>1, <2>2, <2>3, EndStep DEF Finish, BrokerInv, Typed
<1>3. CASE ~thread[i].late /\ large
  <2>1. PICK u : u = [thread[i] EXCEPT !.pc = "artifact"] OBVIOUS
  <2>2. thread' = [thread EXCEPT ![i] = u] BY <1>3, <2>1 DEF Finish, To
  <2>3. "artifact" \in ThreadAt BY DEF ThreadAt
  <2>4. HandlerChange(i, u) BY <1>1, <2>1, <2>2, <2>3, ThreadMove, ThreadOnly DEF Finish
  <2>5. thread'[i] = u BY <2>2 DEF BrokerInv, Typed
  <2>6. ToolOf(i)' /\ LockOf(i)' /\ FileOf(i)'
    BY <1>1, <2>1, <2>3, <2>5, ThreadMove DEF ToolOf, LockOf, FileOf, Holding, Guarded
  <2> QED BY <1>1, <2>1, <2>3, <2>4, <2>6, ThreadMove, MoveStep DEF Finish
<1> QED BY <1>2, <1>3

\* A handler that only reports ends, or goes on to store its output.
LEMMA WorkKeeps ==
  ASSUME BrokerInv, NEW i \in Calls, NEW out \in Reports, Work(i, out)
  PROVE  BrokerInv'
<1>1. Alive(i) /\ thread[i].pc = "work" BY DEF Work, Alive
<1>2. "deadline" \in Outs \ {"none"} /\ (out # "large" => out \in Outs \ {"none"})
  BY DEF Outs, Reports
<1>3. CASE thread[i].late /\ out # "open" BY <1>1, <1>2, <1>3, EndStep DEF Work, BrokerInv, Typed
<1>4. CASE ~thread[i].late /\ out = "large"
  BY <1>1, <1>4, ToStep DEF Work, BrokerInv, Typed
<1>5. CASE (~thread[i].late \/ out = "open") /\ out # "large"
  BY <1>1, <1>2, <1>5, EndStep DEF Work, BrokerInv, Typed
<1> QED BY <1>3, <1>4, <1>5

\* An artifact is added, which no part of the invariant reads.
LEMMA StoreArtifactKeeps ==
  ASSUME BrokerInv, NEW i \in Calls, StoreArtifact(i) PROVE BrokerInv'
<1>1. Alive(i) BY DEF StoreArtifact, Alive
<1>2. PICK out : out = IF thread[i].late THEN "deadline" ELSE "ok" OBVIOUS
<1>3. out \in Outs \ {"none"} BY <1>2 DEF Outs
<1>4. Done(i, out) BY <1>2 DEF StoreArtifact
<1>5. /\ store'.plan = store.plan
      /\ store' \in [grants : {store.grants}, skills : {store'.skills}, plan : Plans,
                     artifacts : {store'.artifacts}]
  BY DEF StoreArtifact, BrokerInv, Typed
<1> QED BY <1>1, <1>3, <1>4, <1>5, EndStep DEF StoreArtifact

\* A skill is added, which no part of the invariant reads, or the handler denies it.
LEMMA ActivateSkillKeeps ==
  ASSUME BrokerInv, NEW i \in Calls, NEW valid \in BOOLEAN, ActivateSkill(i, valid)
  PROVE  BrokerInv'
<1>1. Alive(i) /\ thread[i].pc = "store" BY DEF ActivateSkill, Alive
<1>2. /\ store'.plan = store.plan
      /\ store' \in [grants : {store.grants}, skills : {store'.skills}, plan : Plans,
                     artifacts : {store'.artifacts}]
  BY DEF ActivateSkill, BrokerInv, Typed
<1>3. CASE valid BY <1>1, <1>2, <1>3, ToStep DEF ActivateSkill
<1>4. CASE ~valid
  <2>1. PICK out : out = IF thread[i].late THEN "deadline" ELSE "denied" OBVIOUS
  <2>2. out \in Outs \ {"none"} /\ Done(i, out) BY <1>4, <2>1 DEF ActivateSkill, Outs
  <2> QED BY <1>1, <1>2, <2>2, EndStep DEF ActivateSkill
<1> QED BY <1>3, <1>4

\* The version that is read counts handlers that were through before.
LEMMA ReadPlanKeeps == ASSUME BrokerInv, NEW i \in Calls, ReadPlan(i) PROVE BrokerInv'
<1>1. /\ Alive(i) /\ thread[i].pc = "store" /\ ThreadRec(thread[i]) /\ ThreadInv(i)
      /\ thread[i].pc # "none" /\ Tool(i) = "todo"
  BY DEF ReadPlan, Alive, BrokerInv, Typed
<1>2. PICK c : c = store.plan[calls[i].session].version OBVIOUS
<1>3. calls[i].session \in Sessions BY <1>1, HandlerCall DEF CallRec
<1>4. c \in 0 .. MaxCalls /\ c <= Cardinality(Through)
  BY <1>2, <1>3 DEF BrokerInv, Typed, Plans, PlanCounted
<1>5. c \in Contents BY <1>4, BrokerAssumption DEF Contents
<1>6. PICK u : u = [thread[i] EXCEPT !.pc = "plan", !.saw = c] OBVIOUS
<1>7. thread' = [thread EXCEPT ![i] = u] BY <1>2, <1>6 DEF ReadPlan
<1>8. /\ ThreadRec(u) /\ u.pc = "plan" /\ u.saw = c /\ u.todo = thread[i].todo
      /\ u.created = thread[i].created /\ u.stage = thread[i].stage
  BY <1>1, <1>5, <1>6 DEF ThreadRec, ThreadAt
<1>9. HandlerChange(i, u) BY <1>7, <1>8, ThreadOnly DEF ReadPlan
<1>10. \A j \in Calls : thread'[j] = IF j = i THEN u ELSE thread[j]
  BY <1>7 DEF BrokerInv, Typed
<1>11. ToolOf(i)' /\ LockOf(i)' /\ FileOf(i)'
  BY <1>8, <1>10 DEF ToolOf, LockOf, FileOf, Holding, Guarded
<1>12. StageOf(i)'
  <2>1. \A s \in thread[i].stage : s[2] <= Base + disk.edits /\ s[2] \notin seen.quiet
    BY <1>1 DEF ThreadInv, StageOf
  <2> QED BY <1>8, <1>10, <2>1 DEF ReadPlan, StageOf
<1>13. Through' = Through BY <1>1, <1>8, <1>10 DEF Through
<1>14. PlanCounted' BY <1>4, <1>8, <1>10, <1>13 DEF ReadPlan, BrokerInv, PlanCounted
<1> QED BY <1>1, <1>8, <1>9, <1>11, <1>12, <1>14, HandlerStep DEF ThreadInv

\* The version that is written counts this handler too.
LEMMA ReplacePlanKeeps == ASSUME BrokerInv, NEW i \in Calls, ReplacePlan(i) PROVE BrokerInv'
<1>1. /\ Alive(i) /\ thread[i].pc = "plan" /\ ThreadRec(thread[i]) /\ ThreadInv(i)
      /\ thread[i].pc # "none"
  BY DEF ReplacePlan, Alive, BrokerInv, Typed
<1>2. PICK u : u = [thread[i] EXCEPT !.pc = "finish"] OBVIOUS
<1>3. thread' = [thread EXCEPT ![i] = u] BY <1>2 DEF ReplacePlan, To
<1>4. "finish" \in ThreadAt BY DEF ThreadAt
<1>5. /\ ThreadRec(u) /\ u.pc = "finish" /\ u.saw = thread[i].saw
      /\ u.todo = thread[i].todo /\ u.created = thread[i].created
      /\ u.stage = thread[i].stage
  BY <1>1, <1>2, <1>4, ThreadMove
<1>6. \A j \in Calls : thread'[j] = IF j = i THEN u ELSE thread[j]
  BY <1>3 DEF BrokerInv, Typed
<1>7. Through' = Through \union {i} /\ i \notin Through BY <1>1, <1>5, <1>6 DEF Through
<1>8. Through \in SUBSET Calls /\ Through' \in SUBSET Calls BY DEF Through
<1>9. /\ Cardinality(Through) \in Nat /\ Cardinality(Through') = Cardinality(Through) + 1
      /\ Cardinality(Through') <= MaxCalls
  BY <1>7, <1>8, CountCalls, FS_AddElement
<1>10. PICK v : v = thread[i].saw + 1 OBVIOUS
<1>11. thread[i].saw \in Nat /\ thread[i].saw <= Cardinality(Through)
  BY <1>1, ThreadFields, BrokerAssumption DEF Contents, BrokerInv, PlanCounted
<1>12. v \in 0 .. MaxCalls /\ v <= Cardinality(Through') BY <1>9, <1>10, <1>11, BrokerAssumption
<1>13. PICK r : r = [version |-> v, by |-> i] OBVIOUS
<1>14. r \in [version : 0 .. MaxCalls, by : 0 .. MaxCalls] /\ r.version = v
  BY <1>12, <1>13, BrokerAssumption DEF Calls
<1>15. store' = [store EXCEPT !.plan[calls[i].session] = r] BY <1>10, <1>13 DEF ReplacePlan
<1>16. /\ store' \in [grants : {store.grants}, skills : {store'.skills}, plan : Plans,
                     artifacts : {store'.artifacts}]
       /\ \A s \in Sessions : store'.plan[s] \in {store.plan[s], r}
  BY <1>14, <1>15 DEF BrokerInv, Typed, Plans
<1>17. HandlerChange(i, u)
  BY <1>3, <1>5, <1>16, LockGiven DEF ReplacePlan, HandlerChange, BrokerInv, Typed
<1>18. ASSUME NEW s \in Sessions PROVE store'.plan[s].version <= Cardinality(Through')
  <2>1. store.plan[s].version \in Nat /\ store.plan[s].version <= Cardinality(Through)
    BY BrokerAssumption DEF BrokerInv, Typed, Plans, PlanCounted
  <2> QED BY <2>1, <1>9, <1>12, <1>14, <1>16
<1>19. ASSUME NEW j \in Calls, thread'[j].pc = "plan"
       PROVE  thread'[j].saw <= Cardinality(Through')
  <2>1. thread'[j] = thread[j] BY <1>5, <1>6, <1>19
  <2>2. thread[j].saw \in Nat /\ thread[j].saw <= Cardinality(Through)
    BY <1>19, <2>1, ThreadFields, BrokerAssumption DEF Contents, BrokerInv, Typed, PlanCounted
  <2> QED BY <2>1, <2>2, <1>9
<1>20. PlanCounted' BY <1>18, <1>19 DEF PlanCounted
<1>21. ToolOf(i)' /\ LockOf(i)' /\ FileOf(i)'
  BY <1>5, <1>6 DEF ToolOf, LockOf, FileOf, Holding, Guarded
<1>22. StageOf(i)' BY <1>1, <1>5, <1>6 DEF ReplacePlan, ThreadInv, StageOf, Tool
<1> QED BY <1>1, <1>5, <1>17, <1>20, <1>21, <1>22, HandlerStep DEF ThreadInv

\* Every step of a handler preserves the invariant.
LEMMA HandlerKeeps == ASSUME BrokerInv, NEW i \in Calls, Handler(i) PROVE BrokerInv'
BY StartKeeps, ScanKeeps, TakeLockKeeps, GuardKeeps, EditReadKeeps, MakeDirKeeps,
   CheckWriteKeeps, PutKeeps, CheckWrittenKeeps, RecordKeeps, FinishKeeps, WorkKeeps,
   StoreArtifactKeeps, ActivateSkillKeeps, ReadPlanKeeps, ReplacePlanKeeps DEF Handler

-----------------------------------------------------------------------------
(* Time, the user, and other programs. *)

\* A deadline passes.
LEMMA ExpireKeeps == ASSUME BrokerInv, NEW i \in Calls, Expire(i) PROVE BrokerInv'
<1>1. /\ Alive(i) /\ ThreadRec(thread[i]) /\ ThreadInv(i) /\ thread[i].pc \notin {"none", "done"}
  BY DEF Expire, Alive, BrokerInv, Typed
<1>2. PICK u : u = [thread[i] EXCEPT !.late = TRUE] OBVIOUS
<1>3. thread' = [thread EXCEPT ![i] = u] BY <1>2 DEF Expire
<1>4. /\ ThreadRec(u) /\ u.pc = thread[i].pc /\ u.saw = thread[i].saw
      /\ u.existed = thread[i].existed /\ u.todo = thread[i].todo
      /\ u.created = thread[i].created /\ u.stage = thread[i].stage
  BY <1>1, <1>2 DEF ThreadRec
<1>5. HandlerChange(i, u) BY <1>3, <1>4, ThreadOnly DEF Expire
<1>6. \A j \in Calls : thread'[j] = IF j = i THEN u ELSE thread[j]
  BY <1>3 DEF BrokerInv, Typed
<1>7. calls' = calls /\ disk' = disk /\ lock' = lock /\ seen' = seen /\ store' = store
  BY DEF Expire
<1>8. ToolOf(i)' /\ LockOf(i)'
  BY <1>1, <1>4, <1>6, <1>7 DEF ThreadInv, ToolOf, LockOf, Tool, Target
<1>9. FileOf(i)' BY <1>1, <1>4, <1>6, <1>7 DEF ThreadInv, FileOf, Tool, Target, Shown
<1>10. StageOf(i)' BY <1>1, <1>4, <1>6, <1>7 DEF ThreadInv, StageOf, Tool
<1>11. Through' = Through BY <1>4, <1>6 DEF Through
<1>12. PlanCounted' BY <1>4, <1>6, <1>7, <1>11 DEF BrokerInv, PlanCounted
<1> QED BY <1>1, <1>4, <1>5, <1>8, <1>9, <1>10, <1>12, HandlerStep DEF ThreadInv

\* Steps that change neither calls nor threads keep what depends on them.
LEMMA CallInvSame ==
  ASSUME NEW j, CallInv(j), calls' = calls, thread' = thread, scene' = scene
  PROVE  CallInv(j)'
<1>1. Normalized(calls[j])' /\ Judged(j)' BY DEF CallInv, Normalized, Judged
<1>2. (Unstarted(calls[j])' <=> Unstarted(calls[j])) /\ (Started(calls[j])' <=> Started(calls[j]))
  BY DEF Unstarted, Started, StartedAfter
<1> QED BY <1>1, <1>2 DEF CallInv

\* A new turn and mode leave the calls as they are.
LEMMA NextTurnKeeps == ASSUME BrokerInv, NEW m \in Modes, NextTurn(m) PROVE BrokerInv'
<1>1. /\ UNCHANGED <<scene, calls, thread, disk, cache, lock, store, seen>> /\ Idle
      /\ repl' = [repl EXCEPT !.turn = "on", !.mode = m]
  BY DEF NextTurn
<1>2. repl' \in Replies BY <1>1 DEF BrokerInv, Typed, Replies
<1>3. N' = N /\ Idle' BY <1>1 DEF N, Idle
<1>4. Typed' BY <1>1, <1>2, <1>3 DEF BrokerInv, Typed
<1>5. LastOnly' BY <1>1, <1>3 DEF BrokerInv, LastOnly
<1>6. GrantsKnown' /\ Numbered' /\ DiskKnown' /\ CacheKnown'
  BY <1>1, <1>3 DEF BrokerInv, GrantsKnown, Numbered, DiskKnown, CacheKnown, Shown
<1>7. PlanCounted' BY <1>1 DEF BrokerInv, PlanCounted, Through
<1>8. \A j \in 1 .. N' : CallInv(j)' BY <1>1, <1>3, CallInvSame DEF BrokerInv
<1>9. ASSUME NEW j \in Calls PROVE ThreadInv(j)'
  <2>1. ThreadInv(j) BY DEF BrokerInv
  <2>2. ToolOf(j)' /\ LockOf(j)' BY <1>1, <2>1 DEF ThreadInv, ToolOf, LockOf, Tool, Target
  <2>3. FileOf(j)' /\ StageOf(j)'
    BY <1>1, <2>1 DEF ThreadInv, FileOf, StageOf, Tool, Target, Shown
  <2> QED BY <1>1, <1>3, <2>1, <2>2, <2>3 DEF ThreadInv
<1> QED BY <1>4, <1>5, <1>6, <1>7, <1>8, <1>9 DEF BrokerInv

\* What another program writes while a handler is at work is not of a quiet
\* moment; at any time it is new.
LEMMA ExternalKeeps ==
  ASSUME BrokerInv, NEW f \in Files, NEW c \in Contents, External(f, c) PROVE BrokerInv'
<1>1. /\ UNCHANGED <<scene, repl, calls, thread, cache, lock, store>>
      /\ c \in {Absent, Base + disk.edits + 1}
      /\ seen' = IF Quiet /\ c # Absent THEN [seen EXCEPT !.quiet = @ \union {c}] ELSE seen
  BY DEF External
<1>2. /\ disk \in [file : [Files -> Contents], dirs : {disk.dirs}, edits : Nat]
      /\ seen \in [shown : {seen.shown}, quiet : {seen.quiet}]
      /\ cache \in [Files -> Contents]
  BY DEF BrokerInv, Typed
<1>3. /\ disk' \in [file : [Files -> Contents], dirs : {disk'.dirs}, edits : Nat]
      /\ disk'.edits = disk.edits + 1 /\ disk'.file[f] = c
      /\ \A g \in Files : g # f => disk'.file[g] = disk.file[g]
  <2>1. PICK F : F = [disk.file EXCEPT ![f] = c] OBVIOUS
  <2>2. PICK d : d = IF c = Absent THEN disk.dirs ELSE disk.dirs \union Ancestors(f) OBVIOUS
  <2>3. disk' = [disk EXCEPT !.file = F, !.edits = disk.edits + 1, !.dirs = d]
    BY <1>2, <2>1, <2>2 DEF External
  <2>4. disk' = [file |-> F, dirs |-> d, edits |-> disk.edits + 1] BY <1>2, <2>3
  <2>5. /\ F \in [Files -> Contents] /\ F[f] = c
        /\ \A g \in Files : g # f => F[g] = disk.file[g]
    BY <1>2, <2>1
  <2> QED BY <1>2, <2>4, <2>5
<1>4. /\ seen' \in [shown : {seen'.shown}, quiet : {seen'.quiet}] /\ seen'.shown = seen.shown
      /\ seen'.quiet = seen.quiet \/ (Quiet /\ c # Absent /\ seen'.quiet = seen.quiet \union {c})
  BY <1>1, <1>2
<1>5. Base \in Nat /\ Base > MaxCalls /\ disk.edits \in Nat /\ Absent = 0 /\ MaxCalls \in Nat
      /\ Contents \subseteq Nat
  BY <1>2, BrokerAssumption DEF Base, Absent, Contents
<1>6. /\ seen.quiet \subseteq Base .. Base + disk.edits
      /\ \A g \in Files : disk.file[g] <= Base + disk.edits /\ cache[g] <= Base + disk.edits
  BY DEF BrokerInv, Numbered
<1>7. N' = N /\ (Idle' <=> Idle) BY <1>1 DEF N, Idle
<1>8. Typed' BY <1>1, <1>3, <1>4, <1>7 DEF BrokerInv, Typed
<1>9. LastOnly' BY <1>1, <1>7 DEF BrokerInv, LastOnly
<1>10. GrantsKnown' BY <1>1, <1>7 DEF BrokerInv, GrantsKnown
<1>11. PlanCounted' BY <1>1 DEF BrokerInv, PlanCounted, Through
<1>12. \A j \in 1 .. N' : CallInv(j)' BY <1>1, <1>7, CallInvSame DEF BrokerInv
<1>13. Numbered'
  <2>1. seen'.quiet \subseteq Base .. Base + disk'.edits BY <1>1, <1>3, <1>4, <1>5, <1>6
  <2>2. ASSUME NEW g \in Files
        PROVE  disk'.file[g] <= Base + disk'.edits /\ cache'[g] <= Base + disk'.edits
    <3>1. disk.file[g] \in Nat /\ cache[g] \in Nat BY <1>2, <1>5
    <3> QED BY <3>1, <1>1, <1>3, <1>5, <1>6
  <2> QED BY <2>1, <2>2 DEF Numbered
<1>14. c \notin Calls BY <1>1, <1>5 DEF Calls
<1>15. DiskKnown' BY <1>1, <1>3, <1>7, <1>14 DEF BrokerInv, DiskKnown
<1>16. ASSUME NEW d \in Nat, d <= Base + disk.edits PROVE d \in seen'.quiet <=> d \in seen.quiet
  BY <1>1, <1>4, <1>5, <1>16
<1>17. CacheKnown'
  <2>1. ASSUME NEW g \in Files PROVE Shown(cache[g])'
    <3>1. cache[g] \in Nat /\ Shown(cache[g]) BY <1>2, <1>5 DEF BrokerInv, CacheKnown
    <3> QED BY <3>1, <1>1, <1>4, <1>6, <1>16 DEF Shown
  <2> QED BY <2>1 DEF CacheKnown
<1>18. ASSUME NEW j \in Calls PROVE ThreadInv(j)'
  <2>1. ThreadInv(j) BY DEF BrokerInv
  <2>2. ToolOf(j)' /\ LockOf(j)' BY <1>1, <2>1 DEF ThreadInv, ToolOf, LockOf, Tool, Target
  <2>3. StageOf(j)'
    <3>1. ASSUME NEW s \in thread[j].stage
          PROVE  /\ s[2] <= Base + disk'.edits
                 /\ s[2] \in seen'.quiet => Tool(j) = "read_file" /\ s[2] = thread[j].saw
      <4>1. s[2] \in Nat BY <1>5, <3>1 DEF BrokerInv, Typed, ThreadRec
      <4>2. /\ s[2] <= Base + disk.edits
            /\ s[2] \in seen.quiet => Tool(j) = "read_file" /\ s[2] = thread[j].saw
        BY <2>1, <3>1 DEF ThreadInv, StageOf
      <4> QED BY <4>1, <4>2, <1>3, <1>5, <1>16
    <3>2. Tool(j)' = Tool(j) /\ thread' = thread BY <1>1 DEF Tool
    <3> QED BY <2>1, <3>1, <3>2 DEF ThreadInv, StageOf
  <2>4. CASE thread[j].pc \notin Guarded \union {"written", "record"}
    <3>1. FileOf(j)' BY <1>1, <2>4 DEF FileOf, Guarded
    <3> QED BY <1>1, <1>7, <2>1, <2>2, <2>3, <3>1 DEF ThreadInv
  <2>5. CASE thread[j].pc \in Guarded \union {"written", "record"}
    <3>1. ~Quiet BY <2>5 DEF Quiet, Alive, Guarded
    <3>2. seen' = seen BY <1>1, <3>1
    <3>3. c \notin seen.quiet /\ c \notin Calls BY <1>1, <1>5, <1>6, <1>14
    <3>4. Target(j) \in Files BY <2>1, <2>5, WriteTarget DEF ThreadInv, ToolOf, Guarded, Holding
    <3>5. disk'.file[Target(j)] \in {disk.file[Target(j)], c} BY <1>3, <3>4
    <3>6. FileOf(j)' BY <1>1, <2>1, <3>2, <3>3, <3>5 DEF ThreadInv, FileOf, Tool, Target, Shown
    <3> QED BY <1>1, <1>7, <2>1, <2>2, <2>3, <3>6 DEF ThreadInv
  <2> QED BY <2>4, <2>5
<1> QED BY <1>8, <1>9, <1>10, <1>11, <1>12, <1>13, <1>15, <1>17, <1>18 DEF BrokerInv

-----------------------------------------------------------------------------
(* Steps of the call that is under way. *)

\* What may change in the record of the last call, which becomes c: how far it
\* is, what was decided, its result and its audit.
CallChange(c) ==
    /\ calls # <<>> /\ calls' = [calls EXCEPT ![N] = c] /\ scene' = scene
    /\ CallRec(c) /\ c.req = calls[N].req /\ c.norm = calls[N].norm
    /\ c.session = calls[N].session /\ c.mode = calls[N].mode
    /\ \/ c.decision = calls[N].decision
       \/ calls[N].decision = "ask" /\ c.decision \in {"denied", "approved_once", "approved_for_session"}

\* The fields of a call.
LEMMA CallFields ==
  ASSUME NEW c, CallRec(c)
  PROVE  /\ c.session \in Sessions /\ c.mode \in Modes /\ c.decision \in Decisions
         /\ c.pc \in {"asking", "ready", "running", "returned"}
         /\ c.result \in Results /\ c.audit \in Seq(Events)
BY DEF CallRec

\* There is a last call, and it is one of the calls.
LEMMA LastCall ==
  ASSUME BrokerInv, calls # <<>>
  PROVE  /\ N \in 1 .. N /\ N \in Calls /\ CallRec(calls[N]) /\ CallInv(N)
         /\ ThreadInv(N) /\ ThreadRec(thread[N])
<1>1. calls \in Seq(ToSet(calls)) BY DEF BrokerInv, Typed
<1>2. N \in Nat /\ N # 0 BY <1>1, EmptySeq, LenProperties DEF N
<1> QED BY <1>2, CallCount DEF BrokerInv, Typed

\* After a change of the last call, the sequence of calls.
LEMMA CallsAfter ==
  ASSUME BrokerInv, NEW c, CallChange(c)
  PROVE  /\ N' = N /\ calls' # <<>> /\ calls' \in Seq(ToSet(calls')) /\ calls'[N] = c
         /\ \A j \in 1 .. N : j # N => calls'[j] = calls[j]
         /\ \A j \in 1 .. N : CallRec(calls'[j])
         /\ \A j \in 1 .. N : /\ calls'[j].req = calls[j].req /\ calls'[j].norm = calls[j].norm
                             /\ calls'[j].session = calls[j].session
<1>1. calls \in Seq(ToSet(calls)) /\ N \in 1 .. N /\ N \in Nat
  BY LastCall, CallCount DEF CallChange, BrokerInv, Typed
<1>2. PICK S : S = ToSet(calls) \union {c} OBVIOUS
<1>3. calls \in Seq(S) BY <1>1, <1>2, SeqMonotonic
<1>4. /\ calls' \in Seq(S) /\ Len(calls') = N
      /\ \A j \in 1 .. N : calls'[j] = IF j = N THEN c ELSE calls[j]
  BY <1>1, <1>2, <1>3, ExceptSeq, LenProperties DEF CallChange, N
<1>5. N' = N BY <1>4 DEF N
<1>6. DOMAIN calls' = 1 .. N BY <1>4, LenProperties
<1>7. \A j \in 1 .. N : calls'[j] \in ToSet(calls') BY <1>6 DEF ToSet
<1>8. calls' = [j \in 1 .. N |-> calls'[j]] BY <1>4, <1>6
<1>9. calls' \in Seq(ToSet(calls')) BY <1>1, <1>7, <1>8, IsASeq
<1>10. calls' # <<>> BY <1>1, <1>4, EmptySeq
<1>11. \A j \in 1 .. N : CallRec(calls[j]) BY DEF BrokerInv, Typed
<1> QED BY <1>1, <1>4, <1>5, <1>9, <1>10, <1>11 DEF CallChange

\* The policy's word on a call, its arguments and the approvals do not change.
LEMMA WordKept ==
  ASSUME BrokerInv, NEW c, CallChange(c), NEW j \in 1 .. N
  PROVE  Judged(j)' /\ Normalized(calls[j])'
<1>1. /\ CallInv(j) /\ scene' = scene /\ calls'[j].req = calls[j].req
      /\ calls'[j].norm = calls[j].norm /\ calls'[j].session = calls[j].session
  BY CallsAfter DEF BrokerInv, CallChange
<1>2. Normalized(calls[j])' BY <1>1 DEF CallInv, Normalized
<1>3. /\ calls'[j].mode = calls[j].mode
      /\ \/ calls'[j].decision = calls[j].decision
         \/ calls[j].decision = "ask" /\ calls'[j].decision \in {"denied", "approved_once", "approved_for_session"}
  BY CallsAfter DEF CallChange
<1>4. \A k \in 1 .. j - 1 : k \in 1 .. N BY CallCount
<1>5. ASSUME NEW k \in 1 .. j - 1, calls[k].decision = "approved_for_session"
      PROVE  /\ calls'[k].decision = "approved_for_session"
             /\ calls'[k].session = calls[k].session /\ calls'[k].norm = calls[k].norm
  BY <1>4, <1>5, CallsAfter DEF CallChange
<1>6. Judged(j)' BY <1>1, <1>3, <1>5 DEF CallInv, Judged
<1> QED BY <1>2, <1>6

\* The approvals recorded before stay those of calls.
LEMMA GrantsKept ==
  ASSUME BrokerInv, NEW c, CallChange(c), NEW g \in store.grants,
         g.decision = "approved_for_session"
  PROVE  \E j \in 1 .. N' : /\ calls'[j].decision = "approved_for_session"
                           /\ calls'[j].session = g.session /\ Scope(calls'[j].norm) = g.scope
<1>1. PICK j \in 1 .. N : /\ calls[j].decision = "approved_for_session"
                         /\ calls[j].session = g.session /\ Scope(calls[j].norm) = g.scope
  BY DEF BrokerInv, GrantsKnown
<1>2. /\ N' = N /\ calls'[j].session = calls[j].session /\ calls'[j].norm = calls[j].norm
  BY CallsAfter
<1>3. calls'[j].decision = calls[j].decision
  <2>1. CASE j # N BY <2>1, CallsAfter
  <2>2. CASE j = N
    <3>1. calls'[j] = c BY <2>2, CallsAfter
    <3> QED BY <1>1, <2>2, <3>1 DEF CallChange
  <2> QED BY <2>1, <2>2
<1>4. Scope(calls'[j].norm) = g.scope BY <1>1, <1>2
<1> QED BY <1>1, <1>2, <1>3, <1>4

\* Threads whose records stay keep their part of the invariant, also when the
\* agent is shown more.
LEMMA ThreadsKept ==
  ASSUME BrokerInv, NEW c, CallChange(c), disk' = disk, lock' = lock,
         seen'.quiet = seen.quiet, seen.shown \subseteq seen'.shown,
         NEW j \in Calls, thread'[j] = thread[j]
  PROVE  ThreadInv(j)'
<1>1. ThreadInv(j) BY DEF BrokerInv
<1>2. CASE thread[j].pc = "none"
  <2>1. thread[j] = NoThread BY <1>1, <1>2 DEF ThreadInv
  <2>2. thread[j].stage = {} BY <2>1, ThreadNone
  <2>3. ToolOf(j)' /\ LockOf(j)' /\ FileOf(j)'
    BY <1>2 DEF ToolOf, LockOf, FileOf, Holding, Guarded
  <2>4. StageOf(j)' BY <2>2 DEF StageOf
  <2> QED BY <1>2, <2>1, <2>3, <2>4 DEF ThreadInv
<1>3. CASE thread[j].pc # "none"
  <2>1. j \in 1 .. N BY <1>3, HandlerCall
  <2>2. /\ N' = N /\ calls'[j].req = calls[j].req /\ calls'[j].norm = calls[j].norm
    BY <2>1, CallsAfter
  <2>3. Tool(j)' = Tool(j) /\ Target(j)' = Target(j) BY <2>2 DEF Tool, Target
  <2>4. ToolOf(j)' /\ LockOf(j)' BY <1>1, <2>3 DEF ThreadInv, ToolOf, LockOf
  <2>5. FileOf(j)' BY <1>1, <2>3 DEF ThreadInv, FileOf, Shown
  <2>6. StageOf(j)' BY <1>1, <2>3 DEF ThreadInv, StageOf
  <2> QED BY <1>1, <1>3, <2>2, <2>4, <2>5, <2>6 DEF ThreadInv
<1> QED BY <1>2, <1>3

\* The other calls keep their part.
LEMMA OtherCalls ==
  ASSUME BrokerInv, NEW c, CallChange(c), NEW j \in 1 .. N, j # N,
         thread'[j].pc = "none" <=> thread[j].pc = "none"
  PROVE  CallInv(j)'
<1>1. CallInv(j) /\ calls'[j] = calls[j] /\ scene' = scene
  BY CallsAfter DEF BrokerInv, CallChange
<1>2. (Unstarted(calls[j])' <=> Unstarted(calls[j])) /\ (Started(calls[j])' <=> Started(calls[j]))
  BY <1>1 DEF Unstarted, Started, StartedAfter
<1> QED BY <1>1, <1>2, WordKept DEF CallInv

\* What a step of the last call may change besides its record: its thread, which
\* becomes u, what the agent was shown, the cache, the grants and the prompt.
CallStep(c, u) ==
    /\ CallChange(c) /\ thread' = [thread EXCEPT ![N] = u] /\ ThreadRec(u)
    /\ disk' = disk /\ lock' = lock
    /\ seen' \in [shown : {seen'.shown}, quiet : {seen.quiet}] /\ seen.shown \subseteq seen'.shown
    /\ store' \in [grants : {store'.grants}, skills : {store.skills}, plan : {store.plan},
                   artifacts : {store.artifacts}]
    /\ cache' \in [Files -> Contents] /\ repl' \in Replies
    /\ c.pc # "returned" => ~Idle /\ repl'.session = repl.session
    /\ thread[N].pc \in {"finish", "artifact", "done", "gone"}
         => u.pc \in {"finish", "artifact", "done", "gone"}
    /\ u.pc = "plan" => thread[N].pc = "plan" /\ u.saw = thread[N].saw

\* Such a step preserves the invariant if it establishes the part of the last
\* call, of its thread, of the cache and of the grants.
LEMMA CallStepKeeps ==
  ASSUME BrokerInv, NEW c, NEW u, CallStep(c, u), NEW n \in Calls, n = N,
         CallInv(n)', ThreadInv(n)', GrantsKnown', CacheKnown',
         \A f \in Files : cache'[f] <= Base + disk.edits
  PROVE  BrokerInv'
<1>1. CallChange(c) /\ calls # <<>> BY DEF CallStep, CallChange
<1>2. N \in Calls /\ N \in 1 .. N /\ N \in Nat /\ N' = N /\ calls' # <<>> /\ calls'[N] = c
  BY <1>1, LastCall, CallCount, CallsAfter
<1>3. \A j \in Calls : thread'[j] = IF j = N THEN u ELSE thread[j]
  BY <1>2 DEF CallStep, BrokerInv, Typed
<1>4. Typed'
  <2>1. scene' \in Scenarios /\ repl' \in Replies
    BY DEF CallStep, CallChange, BrokerInv, Typed
  <2>2. /\ calls' \in Seq(ToSet(calls')) /\ N' <= MaxCalls
        /\ \A i \in 1 .. N' : CallRec(calls'[i])
    BY <1>1, <1>2, CallsAfter, CallCount
  <2>3. thread' = [i \in Calls |-> thread'[i]] /\ \A i \in Calls : ThreadRec(thread'[i])
    BY <1>3 DEF CallStep, BrokerInv, Typed
  <2>4. /\ disk' \in [file : [Files -> Contents], dirs : {disk'.dirs}, edits : Nat]
        /\ lock' \in [Files -> 0 .. MaxCalls] /\ cache' \in [Files -> Contents]
    BY DEF CallStep, BrokerInv, Typed
  <2>5. /\ store' \in [grants : {store'.grants}, skills : {store'.skills}, plan : Plans,
                       artifacts : {store'.artifacts}]
        /\ seen' \in [shown : {seen'.shown}, quiet : {seen'.quiet}]
    BY DEF CallStep, BrokerInv, Typed
  <2> QED BY <2>1, <2>2, <2>3, <2>4, <2>5 DEF Typed
<1>5. LastOnly'
  <2>1. \A i \in 1 .. N' : i < N' => calls'[i].pc = "returned"
    BY <1>1, <1>2, CallsAfter DEF BrokerInv, LastOnly
  <2>2. ~Idle' => calls'[N'].session = repl'.session
    <3>1. Idle' <=> c.pc = "returned" BY <1>2 DEF Idle
    <3>2. c.session = calls[N].session BY <1>1 DEF CallChange
    <3> QED BY <1>2, <3>1, <3>2 DEF CallStep, BrokerInv, LastOnly
  <2> QED BY <2>1, <2>2 DEF LastOnly
<1>6. Numbered' BY DEF CallStep, BrokerInv, Numbered
<1>7. DiskKnown'
  <2>1. \A j \in 1 .. N : calls'[j].norm = calls[j].norm BY <1>1, CallsAfter
  <2>2. disk' = disk BY DEF CallStep
  <2>3. ASSUME NEW p \in Files, disk.file[p] \in Calls
        PROVE  disk.file[p] <= N /\ p \in calls'[disk.file[p]].norm.paths
    <3>1. disk.file[p] <= N /\ p \in calls[disk.file[p]].norm.paths
      BY <2>3 DEF BrokerInv, DiskKnown
    <3>2. disk.file[p] \in 1 .. N BY <1>2, <2>3, <3>1 DEF Calls
    <3> QED BY <2>1, <3>1, <3>2
  <2> QED BY <1>2, <2>2, <2>3 DEF DiskKnown
<1>8. PlanCounted'
  <2>1. Through \subseteq Through' BY <1>3 DEF Through, CallStep
  <2>2. /\ Cardinality(Through) \in Nat /\ Cardinality(Through') \in Nat
        /\ Cardinality(Through) <= Cardinality(Through')
    BY <2>1, MoreThrough
  <2>3. ASSUME NEW s \in Sessions PROVE store'.plan[s].version <= Cardinality(Through')
    <3>1. store.plan[s].version \in Nat /\ store.plan[s].version <= Cardinality(Through)
      BY BrokerAssumption DEF BrokerInv, Typed, Plans, PlanCounted
    <3>2. store'.plan = store.plan BY DEF CallStep
    <3> QED BY <2>2, <3>1, <3>2
  <2>4. ASSUME NEW j \in Calls, thread'[j].pc = "plan"
        PROVE  thread'[j].saw <= Cardinality(Through')
    <3>1. thread[j].pc = "plan" /\ thread'[j].saw = thread[j].saw
      BY <1>3, <2>4 DEF CallStep
    <3>2. thread[j].saw \in Nat /\ thread[j].saw <= Cardinality(Through)
      BY <3>1, ThreadFields, BrokerAssumption DEF Contents, BrokerInv, Typed, PlanCounted
    <3> QED BY <2>2, <3>1, <3>2
  <2> QED BY <2>3, <2>4 DEF PlanCounted
<1>9. \A j \in 1 .. N' : CallInv(j)'
  <2>1. ASSUME NEW j \in 1 .. N, j # N PROVE CallInv(j)'
    <3>1. thread'[j] = thread[j] BY <1>3, <2>1, CallCount
    <3> QED BY <1>1, <2>1, <3>1, OtherCalls
  <2> QED BY <1>2, <2>1
<1>10. \A j \in Calls : ThreadInv(j)'
  <2>1. ASSUME NEW j \in Calls, j # N PROVE ThreadInv(j)'
    <3>1. thread'[j] = thread[j] BY <1>3, <2>1
    <3>2. /\ disk' = disk /\ lock' = lock /\ seen'.quiet = seen.quiet
          /\ seen.shown \subseteq seen'.shown
      BY DEF CallStep
    <3> QED BY <1>1, <2>1, <3>1, <3>2, ThreadsKept
  <2> QED BY <2>1
<1> QED BY <1>4, <1>5, <1>6, <1>7, <1>8, <1>9, <1>10 DEF BrokerInv

\* The grants, when none is added.
LEMMA NoNewGrant ==
  ASSUME BrokerInv, NEW c, CallChange(c), store'.grants = store.grants
  PROVE  GrantsKnown'
BY GrantsKept DEF GrantsKnown

\* What Append is, element by element.
LEMMA AppendIs ==
  ASSUME NEW S, NEW s \in Seq(S), NEW t \in Seq(S), NEW e \in S, Len(t) = Len(s) + 1,
         t[Len(s) + 1] = e, \A i \in 1 .. Len(s) : t[i] = s[i]
  PROVE  Append(s, e) = t
<1>1. /\ Append(s, e) \in Seq(S) /\ Len(Append(s, e)) = Len(s) + 1 /\ Len(s) \in Nat
      /\ Append(s, e)[Len(s) + 1] = e /\ \A i \in 1 .. Len(s) : Append(s, e)[i] = s[i]
  BY AppendProperties, LenProperties
<1>2. \A i \in 1 .. Len(s) + 1 : Append(s, e)[i] = t[i] BY <1>1
<1> QED BY <1>1, <1>2, SeqEqual

\* Audits of one, two and three events, one event longer.
LEMMA Append1 == ASSUME NEW a, NEW e PROVE Append(<<a>>, e) = <<a, e>>
<1>1. PICK S, s, t : S = {a, e} /\ s = <<a>> /\ t = <<a, e>> OBVIOUS
<1>2. s \in Seq(S) /\ t \in Seq(S) /\ e \in S BY <1>1
<1>3. Len(t) = Len(s) + 1 BY <1>1
<1>4. t[Len(s) + 1] = e BY <1>1
<1>5. \A i \in 1 .. Len(s) : t[i] = s[i] BY <1>1
<1>6. Append(s, e) = t BY <1>2, <1>3, <1>4, <1>5, AppendIs
<1> QED BY <1>1, <1>6

\* Two events, and one more.
LEMMA Append2 == ASSUME NEW a, NEW b, NEW e PROVE Append(<<a, b>>, e) = <<a, b, e>>
<1>1. PICK S, s, t : S = {a, b, e} /\ s = <<a, b>> /\ t = <<a, b, e>> OBVIOUS
<1>2. s \in Seq(S) /\ t \in Seq(S) /\ e \in S BY <1>1
<1>3. Len(t) = Len(s) + 1 BY <1>1
<1>4. t[Len(s) + 1] = e BY <1>1
<1>5. \A i \in 1 .. Len(s) : t[i] = s[i] BY <1>1
<1>6. Append(s, e) = t BY <1>2, <1>3, <1>4, <1>5, AppendIs
<1> QED BY <1>1, <1>6

\* Three events, and one more.
LEMMA Append3 ==
  ASSUME NEW a, NEW b, NEW d, NEW e PROVE Append(<<a, b, d>>, e) = <<a, b, d, e>>
<1>1. PICK S, s, t : S = {a, b, d, e} /\ s = <<a, b, d>> /\ t = <<a, b, d, e>> OBVIOUS
<1>2. s \in Seq(S) /\ t \in Seq(S) /\ e \in S BY <1>1
<1>3. Len(t) = Len(s) + 1 BY <1>1
<1>4. t[Len(s) + 1] = e BY <1>1
<1>5. \A i \in 1 .. Len(s) : t[i] = s[i] BY <1>1
<1>6. Append(s, e) = t BY <1>2, <1>3, <1>4, <1>5, AppendIs
<1> QED BY <1>1, <1>6

\* The handler starts, and its audit says so.
LEMMA ExecuteKeeps == ASSUME BrokerInv, Execute PROVE BrokerInv'
<1>1. /\ ~Idle /\ calls # <<>> /\ calls[N].pc = "ready"
      /\ N \in Calls /\ CallRec(calls[N]) /\ CallInv(N) /\ ThreadInv(N) /\ ThreadRec(thread[N])
  BY LastCall DEF Execute, Idle
<1>2. thread[N].pc = "none" /\ Unstarted(calls[N])
  BY <1>1 DEF CallInv, Started, StartedAfter, At, Succeeded, Failed
<1>3. /\ calls[N].result = "none"
      /\ \/ calls[N].decision = "allow" /\ calls[N].audit = <<>>
         \/ /\ calls[N].decision \in {"approved_once", "approved_for_session"}
            /\ calls[N].audit = <<"requested", "decided">>
  BY <1>1, <1>2 DEF Unstarted, At
<1>4. PICK a : a = Append(calls[N].audit, "started") OBVIOUS
<1>5. a \in Seq(Events)
  BY <1>1, <1>4, CallFields, AppendProperties DEF Events
<1>6. PICK c : c = [calls[N] EXCEPT !.pc = "running", !.audit = a] OBVIOUS
<1>7. /\ CallRec(c) /\ c.pc = "running" /\ c.audit = a /\ c.req = calls[N].req
      /\ c.norm = calls[N].norm /\ c.session = calls[N].session /\ c.mode = calls[N].mode
      /\ c.decision = calls[N].decision /\ c.result = calls[N].result
  BY <1>1, <1>5, <1>6 DEF CallRec
<1>8. CallChange(c)
  <2>1. calls' = [calls EXCEPT ![N] = c] /\ scene' = scene BY <1>4, <1>6 DEF Execute
  <2> QED BY <1>1, <1>7, <2>1 DEF CallChange
<1>9. PICK u : u = [thread[N] EXCEPT !.pc = "start", !.todo = calls[N].norm.parents] OBVIOUS
<1>10. /\ ThreadRec(u) /\ u.pc = "start" /\ u.created = thread[N].created
       /\ u.todo = calls[N].norm.parents /\ u.stage = thread[N].stage
  BY <1>1, <1>9 DEF ThreadRec, ThreadAt
<1>11. thread' = [thread EXCEPT ![N] = u] BY <1>9 DEF Execute
<1>12. CallStep(c, u)
  BY <1>1, <1>2, <1>7, <1>8, <1>10, <1>11 DEF Execute, CallStep, BrokerInv, Typed
<1>13. PICK n \in Calls : n = N BY <1>1
<1>14. thread'[n] = u /\ calls'[n] = c /\ N' = n /\ n \in 1 .. N
  BY <1>1, <1>8, <1>11, <1>13, CallsAfter, LastCall DEF BrokerInv, Typed
<1>15. Started(c)
  <2>1. CASE calls[N].decision = "allow" /\ calls[N].audit = <<>>
    <3>1. a = <<"started">> BY <1>4, <2>1
    <3> QED BY <1>3, <1>7, <2>1, <3>1 DEF Started, StartedAfter, At
  <2>2. CASE /\ calls[N].decision \in {"approved_once", "approved_for_session"}
             /\ calls[N].audit = <<"requested", "decided">>
    <3>1. a = <<"requested", "decided", "started">> BY <1>4, <2>2, Append2
    <3> QED BY <1>3, <1>7, <2>2, <3>1 DEF Started, StartedAfter, At
  <2> QED BY <1>3, <2>1, <2>2
<1>16. CallInv(n)'
  <2>1. Judged(n)' /\ Normalized(calls[n])' BY <1>8, <1>14, WordKept
  <2>2. Started(calls[n])'
    BY <1>8, <1>14, <1>15 DEF Started, StartedAfter, At, Succeeded, Failed
  <2> QED BY <1>10, <1>14, <2>1, <2>2 DEF CallInv
<1>17. ThreadInv(n)'
  <2>1. thread[N] = NoThread BY <1>1, <1>2 DEF ThreadInv
  <2>2. u.created = {} /\ u.stage = {} BY <1>10, <2>1, ThreadNone
  <2>3. u.todo \in Seq(c.norm.paths) BY <1>1, <1>7, <1>10 DEF CallInv, Normalized
  <2>4. ToolOf(n)' /\ LockOf(n)' /\ FileOf(n)' /\ StageOf(n)'
    BY <1>10, <1>14, <2>2 DEF ToolOf, LockOf, FileOf, StageOf, Holding, Guarded
  <2> QED BY <1>10, <1>14, <2>2, <2>3, <2>4 DEF ThreadInv
<1>18. GrantsKnown' BY <1>8, NoNewGrant DEF Execute
<1>19. CacheKnown' /\ \A f \in Files : cache'[f] <= Base + disk.edits
  BY DEF Execute, BrokerInv, CacheKnown, Shown, Numbered
<1> QED BY <1>12, <1>13, <1>16, <1>17, <1>18, <1>19, CallStepKeeps

\* The last call changes its record from old to c, both of them waiting or ended,
\* and its thread does not move.
LEMMA ThreadStays ==
  ASSUME BrokerInv, NEW c, CallChange(c), UNCHANGED <<thread, disk, lock, seen>>,
         NEW n \in Calls, n = N
  PROVE  ThreadInv(n)'
BY ThreadsKept

\* A handler was started for the last call, or not, and c says which.
LEMMA RecordFits ==
  ASSUME BrokerInv, NEW c, CallChange(c), NEW n \in Calls, n = N,
         thread'[n].pc = "none" => Unstarted(c), thread'[n].pc # "none" => Started(c)
  PROVE  CallInv(n)'
<1>1. n \in 1 .. N /\ calls'[n] = c /\ scene' = scene
  BY CallsAfter, LastCall DEF CallChange
<1>2. Judged(n)' /\ Normalized(calls[n])' BY <1>1, WordKept
<1>3. Unstarted(c) => Unstarted(calls[n])' BY <1>1 DEF Unstarted, At
<1>4. Started(c) => Started(calls[n])'
  BY <1>1 DEF Started, StartedAfter, At, Succeeded, Failed
<1> QED BY <1>2, <1>3, <1>4 DEF CallInv

\* What a step that leaves the thread, the cache and what was shown alone has to
\* establish.
LEMMA QuietCallStep ==
  ASSUME BrokerInv, NEW c, CallChange(c), UNCHANGED <<thread, disk, cache, lock, seen>>,
         store' \in [grants : {store'.grants}, skills : {store.skills}, plan : {store.plan},
                     artifacts : {store.artifacts}],
         repl' \in Replies, c.pc # "returned" => ~Idle /\ repl'.session = repl.session,
         NEW n \in Calls, n = N, thread[n].pc = "none" => Unstarted(c),
         thread[n].pc # "none" => Started(c), GrantsKnown'
  PROVE  BrokerInv'
<1>1. PICK u : u = thread[n] OBVIOUS
<1>2. ThreadRec(u) /\ thread' = [thread EXCEPT ![N] = u] BY <1>1 DEF BrokerInv, Typed
<1>3. seen \in [shown : {seen.shown}, quiet : {seen.quiet}] /\ cache \in [Files -> Contents]
  BY DEF BrokerInv, Typed
<1>4. CallStep(c, u) BY <1>1, <1>2, <1>3 DEF CallStep
<1>5. CallInv(n)' BY RecordFits
<1>6. ThreadInv(n)' BY ThreadStays
<1>7. CacheKnown' /\ \A f \in Files : cache'[f] <= Base + disk.edits
  BY DEF BrokerInv, CacheKnown, Shown, Numbered
<1> QED BY <1>4, <1>5, <1>6, <1>7, CallStepKeeps

\* An exception is raised through invoke: the turn is over, the call's thread left
\* alone.
RaisedThrough ==
    /\ ~Idle /\ calls[N].pc = "running"
    /\ calls' = [calls EXCEPT ![N] = [@ EXCEPT !.pc = "returned", !.result = "raised"]]
    /\ repl' = [repl EXCEPT !.turn = "over"]
    /\ UNCHANGED <<scene, thread, disk, cache, lock, store, seen>>

\* It leaves the started call without a terminal event.
LEMMA RaisedKeeps == ASSUME BrokerInv, RaisedThrough PROVE BrokerInv'
<1>1. /\ ~Idle /\ calls # <<>> /\ calls[N].pc = "running"
      /\ N \in Calls /\ CallRec(calls[N]) /\ CallInv(N)
  BY LastCall DEF RaisedThrough, Idle
<1>2. PICK n \in Calls : n = N BY <1>1
<1>3. thread[n].pc # "none" /\ Started(calls[n])
  BY <1>1, <1>2 DEF CallInv, Unstarted, At
<1>4. PICK c : c = [calls[N] EXCEPT !.pc = "returned", !.result = "raised"] OBVIOUS
<1>5. /\ CallRec(c) /\ c.pc = "returned" /\ c.result = "raised" /\ c.audit = calls[N].audit
      /\ c.req = calls[N].req /\ c.norm = calls[N].norm /\ c.session = calls[N].session
      /\ c.mode = calls[N].mode /\ c.decision = calls[N].decision
  BY <1>1, <1>4 DEF CallRec, Results
<1>6. CallChange(c) BY <1>1, <1>4, <1>5 DEF RaisedThrough, CallChange
<1>7. Started(c)
  BY <1>1, <1>2, <1>3, <1>5 DEF Started, StartedAfter, At, Succeeded, Failed
<1>8. repl' \in Replies BY DEF RaisedThrough, BrokerInv, Typed, Replies
<1>9. GrantsKnown' BY <1>6, NoNewGrant DEF RaisedThrough
<1>10. store' \in [grants : {store'.grants}, skills : {store.skills}, plan : {store.plan},
                   artifacts : {store.artifacts}]
  BY DEF RaisedThrough, BrokerInv, Typed
<1> QED BY <1>2, <1>3, <1>5, <1>6, <1>7, <1>8, <1>9, <1>10, QuietCallStep DEF RaisedThrough

\* A KeyboardInterrupt is raised through invoke.
LEMMA InterruptedKeeps == ASSUME BrokerInv, Interrupted PROVE BrokerInv'
BY RaisedKeeps DEF Interrupted, RaisedThrough

\* So is an open provider boundary.
LEMMA BoundaryOpenKeeps == ASSUME BrokerInv, BoundaryOpen PROVE BrokerInv'
BY RaisedKeeps DEF BoundaryOpen, RaisedThrough

\* An answer moves the call on and becomes a grant of its session.
LEMMA AnswerKeeps ==
  ASSUME BrokerInv, NEW d \in {"approved_once", "approved_for_session", "denied"}, Answer(d)
  PROVE  BrokerInv'
<1>1. /\ ~Idle /\ calls # <<>> /\ calls[N].pc = "asking" /\ calls[N].session = repl.session
      /\ N \in Calls /\ CallRec(calls[N]) /\ CallInv(N)
  BY LastCall DEF Answer, Idle, BrokerInv, LastOnly
<1>2. PICK n \in Calls : n = N BY <1>1
<1>3. thread[n].pc = "none" /\ Unstarted(calls[n])
  BY <1>1, <1>2 DEF CallInv, Started, StartedAfter, At, Succeeded, Failed
<1>4. /\ calls[N].decision = "ask" /\ calls[N].result = "none"
      /\ scene.interactive => calls[N].audit = <<"requested">>
      /\ ~scene.interactive => calls[N].audit = <<>>
  BY <1>1, <1>2, <1>3 DEF Unstarted, At
<1>5. ~scene.interactive => d = "denied" BY DEF Answer
<1>6. PICK told : told = calls[N].audit \o IF scene.interactive THEN <<"decided">> ELSE <<>>
  OBVIOUS
<1>7. scene.interactive => told = <<"requested", "decided">>
  <2>1. <<"requested">> \in Seq({"requested", "decided"}) /\ "decided" \in {"requested", "decided"}
    OBVIOUS
  <2>2. <<"requested">> \o <<"decided">> = Append(<<"requested">>, "decided")
    BY <2>1, AppendIsConcat
  <2> QED BY <1>4, <1>6, <2>2, Append1
<1>8. ~scene.interactive => told = <<>>
  <2>1. <<>> \in Seq({"decided"}) BY EmptySeq
  <2> QED BY <1>4, <1>6, <2>1, ConcatEmptySeq
<1>9. PICK a : a = IF d = "denied" THEN told \o <<"denied">> ELSE told OBVIOUS
<1>10. /\ <<>> \in Seq(Events) /\ <<"denied">> \in Seq(Events)
       /\ <<"requested", "decided">> \in Seq(Events)
       /\ <<"requested", "decided", "denied">> \in Seq(Events) /\ "denied" \in Events
  BY NoElements DEF Events
<1>11. /\ a \in Seq(Events)
       /\ d = "denied" => a \in {<<"denied">>, <<"requested", "decided", "denied">>}
       /\ d # "denied" => scene.interactive /\ a = <<"requested", "decided">>
  <2>1. CASE d # "denied" BY <1>5, <1>7, <1>9, <1>10, <2>1
  <2>2. CASE d = "denied" /\ scene.interactive
    <3>1. a = Append(<<"requested", "decided">>, "denied")
      BY <1>7, <1>9, <1>10, <2>2, AppendIsConcat
    <3> QED BY <1>10, <2>2, <3>1, Append2
  <2>3. CASE d = "denied" /\ ~scene.interactive
    <3>1. a = Append(<<>>, "denied") BY <1>8, <1>9, <1>10, <2>3, AppendIsConcat
    <3>2. a = <<"denied">> BY <3>1
    <3> QED BY <1>10, <2>3, <3>2
  <2> QED BY <2>1, <2>2, <2>3
<1>12. PICK c : c = IF d = "denied"
                      THEN [calls[N] EXCEPT !.pc = "returned", !.decision = d,
                                            !.result = "denied", !.audit = a]
                      ELSE [calls[N] EXCEPT !.pc = "ready", !.decision = d, !.audit = a]
  OBVIOUS
<1>13. /\ CallRec(c) /\ c.req = calls[N].req /\ c.norm = calls[N].norm /\ c.audit = a
       /\ c.session = calls[N].session /\ c.mode = calls[N].mode /\ c.decision = d
       /\ d = "denied" => c.pc = "returned" /\ c.result = "denied"
       /\ d # "denied" => c.pc = "ready" /\ c.result = "none"
  BY <1>1, <1>4, <1>11, <1>12 DEF CallRec, Results, Decisions
<1>14. CallChange(c)
  <2>1. calls' = [calls EXCEPT ![N] = c] BY <1>6, <1>9, <1>12 DEF Answer
  <2> QED BY <1>1, <1>4, <1>13, <2>1 DEF Answer, CallChange
<1>15. Unstarted(c) BY <1>11, <1>13 DEF Unstarted, At
<1>16. repl' \in Replies /\ (d # "denied" => repl' = repl)
  BY DEF Answer, BrokerInv, Typed, Replies
<1>17. PICK g : g = [session |-> repl.session, scope |-> Scope(calls[N].norm), decision |-> d]
  OBVIOUS
<1>18. store' \in {store, [store EXCEPT !.grants = @ \union {g}]} BY <1>17 DEF Answer
<1>19. store' \in [grants : {store'.grants}, skills : {store.skills}, plan : {store.plan},
                   artifacts : {store.artifacts}]
  BY <1>18 DEF BrokerInv, Typed
<1>20. store'.grants \subseteq store.grants \union {g} BY <1>18 DEF BrokerInv, Typed
<1>21. ASSUME NEW h \in store'.grants, h.decision = "approved_for_session"
       PROVE  \E j \in 1 .. N' : /\ calls'[j].decision = "approved_for_session"
                                /\ calls'[j].session = h.session
                                /\ Scope(calls'[j].norm) = h.scope
  <2>1. CASE h \in store.grants BY <1>14, <1>21, <2>1, GrantsKept
  <2>2. CASE h = g
    <3>1. n \in 1 .. N' /\ calls'[n] = c BY <1>1, <1>2, <1>14, CallsAfter, LastCall
    <3>2. c.session = h.session /\ Scope(c.norm) = h.scope BY <1>1, <1>13, <1>17, <2>2
    <3>3. c.decision = "approved_for_session" BY <1>13, <1>17, <1>21, <2>2
    <3> QED BY <3>1, <3>2, <3>3
  <2> QED BY <1>20, <2>1, <2>2
<1>22. GrantsKnown' BY <1>21 DEF GrantsKnown
<1> QED BY <1>1, <1>2, <1>3, <1>13, <1>14, <1>15, <1>16, <1>19, <1>22, QuietCallStep DEF Answer

\* The result that a running call returns, and its terminal event.
LEMMA ReturnChange ==
  ASSUME BrokerInv, ~Idle, calls[N].pc = "running", scene' = scene,
         NEW result \in {"ok", "error", "denied", "cancelled", "timeout"}, NEW event,
         event = IF result = "ok" THEN "completed" ELSE "failed", Return(N, result, event)
  PROVE  \E c : CallChange(c) /\ c.pc = "returned" /\ Started(c)
<1>1. /\ calls # <<>> /\ N \in Calls /\ CallRec(calls[N]) /\ CallInv(N)
  BY LastCall DEF Idle
<1>2. /\ At(calls[N], "running")
      /\ \/ calls[N].decision = "allow" /\ calls[N].audit = <<"started">>
         \/ /\ calls[N].decision \in {"approved_once", "approved_for_session"}
            /\ calls[N].audit = <<"requested", "decided", "started">>
  BY <1>1 DEF CallInv, Unstarted, Started, StartedAfter, At, Succeeded, Failed
<1>3. PICK a : a = Append(calls[N].audit, event) OBVIOUS
<1>4. /\ calls[N].decision = "allow" => a = <<"started", event>>
      /\ calls[N].decision # "allow" => a = <<"requested", "decided", "started", event>>
  BY <1>2, <1>3, Append1, Append3
<1>5. a \in Seq(Events) BY <1>1, <1>3, CallFields, AppendProperties DEF Events
<1>6. PICK c : c = [calls[N] EXCEPT !.pc = "returned", !.result = result, !.audit = a] OBVIOUS
<1>7. /\ CallRec(c) /\ c.pc = "returned" /\ c.result = result /\ c.audit = a
      /\ c.req = calls[N].req /\ c.norm = calls[N].norm /\ c.session = calls[N].session
      /\ c.mode = calls[N].mode /\ c.decision = calls[N].decision
  BY <1>1, <1>5, <1>6 DEF CallRec, Results
<1>8. CallChange(c)
  <2>1. calls' = [calls EXCEPT ![N] = c] BY <1>3, <1>6 DEF Return
  <2> QED BY <1>1, <1>7, <2>1 DEF CallChange
<1>9. Started(c)
  BY <1>2, <1>4, <1>7 DEF Started, StartedAfter, At, Succeeded, Failed
<1> QED BY <1>7, <1>8, <1>9

\* The call returns; its thread loses what it staged, and keeps its locks.
LEMMA TimeOutKeeps == ASSUME BrokerInv, TimeOut PROVE BrokerInv'
<1>1. /\ ~Idle /\ calls # <<>> /\ calls[N].pc = "running" /\ Alive(N)
      /\ N \in Calls /\ ThreadInv(N) /\ ThreadRec(thread[N])
  BY LastCall DEF TimeOut, Idle
<1>2. PICK n \in Calls : n = N BY <1>1
<1>3. PICK c : CallChange(c) /\ c.pc = "returned" /\ Started(c)
  BY <1>1, ReturnChange DEF TimeOut
<1>4. PICK u : u = [thread[N] EXCEPT !.abandoned = TRUE, !.stage = {}] OBVIOUS
<1>5. /\ ThreadRec(u) /\ u.pc = thread[N].pc /\ u.saw = thread[N].saw
      /\ u.existed = thread[N].existed /\ u.todo = thread[N].todo
      /\ u.created = thread[N].created /\ u.stage = {} /\ u.out = thread[N].out
  BY <1>1, <1>4 DEF ThreadRec
<1>6. thread' = [thread EXCEPT ![N] = u] BY <1>4 DEF TimeOut
<1>7. CallStep(c, u) BY <1>3, <1>5, <1>6 DEF TimeOut, CallStep, BrokerInv, Typed
<1>8. /\ thread'[n] = u /\ calls'[n].req = calls[n].req /\ calls'[n].norm = calls[n].norm
      /\ N' = N /\ disk' = disk /\ lock' = lock /\ seen' = seen
  BY <1>1, <1>2, <1>3, <1>6, CallsAfter, LastCall DEF TimeOut, BrokerInv, Typed
<1>9. thread[n].pc \notin {"none", "done", "gone"} BY <1>1, <1>2 DEF Alive
<1>10. ThreadInv(n)'
  <2>1. Tool(n)' = Tool(n) /\ Target(n)' = Target(n) BY <1>8 DEF Tool, Target
  <2>2. ToolOf(n)' /\ LockOf(n)' BY <1>1, <1>2, <1>5, <1>8, <2>1 DEF ThreadInv, ToolOf, LockOf
  <2>3. FileOf(n)' BY <1>1, <1>2, <1>5, <1>8, <2>1 DEF ThreadInv, FileOf, Shown
  <2>4. StageOf(n)' BY <1>5, <1>8 DEF StageOf
  <2> QED BY <1>1, <1>2, <1>5, <1>8, <1>9, <2>2, <2>3, <2>4 DEF ThreadInv
<1>11. CallInv(n)' BY <1>2, <1>3, <1>5, <1>8, <1>9, RecordFits
<1>12. GrantsKnown' BY <1>3, NoNewGrant DEF TimeOut
<1>13. CacheKnown' /\ \A f \in Files : cache'[f] <= Base + disk.edits
  BY DEF TimeOut, BrokerInv, CacheKnown, Shown, Numbered
<1> QED BY <1>2, <1>7, <1>10, <1>11, <1>12, <1>13, CallStepKeeps

\* What a handler has answered is a result of the call.
LEMMA AnswerResult ==
  ASSUME NEW out \in Outs \ {"none", "open"}
  PROVE  /\ ResultOf(out) \in {"ok", "error", "denied", "cancelled", "timeout"}
         /\ EventOf(out) = IF ResultOf(out) = "ok" THEN "completed" ELSE "failed"
BY DEF Outs, ResultOf, EventOf

\* An accepted result puts staged contents into the cache.
LEMMA Committed ==
  ASSUME NEW i, NEW ok, NEW f \in Files, thread[i].stage \subseteq Files \X Contents
  PROVE  \/ Commit(i, ok)[f] = cache[f]
         \/ ok /\ Commit(i, ok)[f] \in Contents /\ <<f, Commit(i, ok)[f]>> \in thread[i].stage
<1>1. CASE ok /\ \E c \in Contents : <<f, c>> \in thread[i].stage
  <2>1. Commit(i, ok)[f] = CHOOSE c \in Contents : <<f, c>> \in thread[i].stage
    BY <1>1 DEF Commit
  <2> QED BY <1>1, <2>1
<1>2. CASE ~(ok /\ \E c \in Contents : <<f, c>> \in thread[i].stage) BY <1>2 DEF Commit
<1> QED BY <1>1, <1>2

\* An accepted result moves the stage into the cache and shows what was read.
LEMMA CollectKeeps == ASSUME BrokerInv, Collect PROVE BrokerInv'
<1>1. /\ ~Idle /\ calls # <<>> /\ calls[N].pc = "running" /\ thread[N].pc = "done"
      /\ N \in Calls /\ ThreadInv(N) /\ ThreadRec(thread[N])
  BY LastCall DEF Collect, Idle
<1>2. PICK n \in Calls : n = N BY <1>1
<1>3. PICK out : out = thread[N].out OBVIOUS
<1>4. out \in Outs \ {"none", "open"} BY <1>1, <1>3, ThreadFields DEF ThreadInv, Collect
<1>5. PICK c : CallChange(c) /\ c.pc = "returned" /\ Started(c)
  <2>1. Return(N, ResultOf(out), EventOf(out)) /\ scene' = scene BY <1>3 DEF Collect
  <2> QED BY <1>1, <1>4, <2>1, AnswerResult, ReturnChange
<1>6. thread' = [thread EXCEPT ![N] = Gone] BY DEF Collect
<1>7. PICK ok \in BOOLEAN : ok = (out = "ok") OBVIOUS
<1>8. cache' = Commit(n, ok) BY <1>2, <1>3, <1>7 DEF Collect
<1>9. thread[n].stage \subseteq Files \X Contents BY <1>1, <1>2, ThreadFields
<1>10. ASSUME NEW f \in Files
       PROVE  \/ cache'[f] = cache[f]
              \/ ok /\ cache'[f] \in Contents /\ <<f, cache'[f]>> \in thread[n].stage
  BY <1>8, <1>9, Committed
<1>11. cache' \in [Files -> Contents]
  <2>1. cache' = [f \in Files |-> cache'[f]] BY <1>8 DEF Commit
  <2>2. \A f \in Files : cache'[f] \in Contents BY <1>10 DEF BrokerInv, Typed
  <2> QED BY <2>1, <2>2
<1>12. PICK more : more = IF Tool(n) = "read_file" THEN {thread[n].saw}
                         ELSE IF Tool(n) \in Writes THEN {n} ELSE {}
  OBVIOUS
<1>13. /\ seen' \in [shown : {seen'.shown}, quiet : {seen.quiet}]
       /\ seen'.shown = IF ok THEN seen.shown \union more ELSE seen.shown
  <2>1. seen \in [shown : {seen.shown}, quiet : {seen.quiet}] BY DEF BrokerInv, Typed
  <2>2. CASE ok
    <3>1. seen' = [seen EXCEPT !.shown = @ \union more]
      BY <1>2, <1>3, <1>7, <1>12, <2>2 DEF Collect
    <3> QED BY <2>1, <2>2, <3>1
  <2>3. CASE ~ok
    <3>1. seen' = seen BY <1>3, <1>7, <2>3 DEF Collect
    <3> QED BY <2>1, <2>3, <3>1
  <2> QED BY <2>2, <2>3
<1>14. CallStep(c, Gone)
  <2>1. disk' = disk /\ lock' = lock /\ store' = store /\ repl' = repl BY DEF Collect
  <2>2. /\ store' \in [grants : {store'.grants}, skills : {store.skills}, plan : {store.plan},
                       artifacts : {store.artifacts}]
        /\ repl' \in Replies
    BY <2>1 DEF BrokerInv, Typed
  <2> QED BY <1>1, <1>5, <1>6, <1>11, <1>13, <2>1, <2>2, ThreadGone DEF CallStep
<1>15. thread'[n] = Gone /\ n <= N' /\ calls'[n] = c /\ n \in 1 .. N
  BY <1>1, <1>2, <1>5, <1>6, CallsAfter, LastCall DEF BrokerInv, Typed
<1>16. ThreadInv(n)'
  <2>1. ToolOf(n)' /\ LockOf(n)' /\ FileOf(n)' /\ StageOf(n)'
    BY <1>15, ThreadGone DEF ToolOf, LockOf, FileOf, StageOf, Holding, Guarded
  <2>2. Gone.todo \in Seq(c.norm.paths) BY ThreadGone, NoElements
  <2> QED BY <1>15, <2>1, <2>2, ThreadGone DEF ThreadInv
<1>17. CallInv(n)' BY <1>2, <1>5, <1>15, ThreadGone, RecordFits
<1>18. GrantsKnown' BY <1>5, NoNewGrant DEF Collect
<1>19. ASSUME NEW f \in Files
       PROVE  /\ cache'[f] <= Base + disk.edits
              /\ cache'[f] \in seen'.quiet => cache'[f] \in seen'.shown
  <2>1. CASE cache'[f] = cache[f]
    BY <1>13, <2>1 DEF BrokerInv, Numbered, CacheKnown, Shown
  <2>2. CASE ok /\ <<f, cache'[f]>> \in thread[n].stage
    <3>1. PICK s \in thread[n].stage : s = <<f, cache'[f]>> BY <2>2
    <3>2. /\ s[2] <= Base + disk.edits
          /\ s[2] \in seen.quiet => Tool(n) = "read_file" /\ s[2] = thread[n].saw
      BY <1>1, <1>2, <3>1 DEF ThreadInv, StageOf
    <3>3. s[2] = cache'[f] BY <3>1
    <3> QED BY <1>12, <1>13, <2>2, <3>2, <3>3
  <2> QED BY <1>10, <2>1, <2>2
<1>20. CacheKnown' BY <1>19 DEF CacheKnown, Shown
<1> QED BY <1>2, <1>14, <1>16, <1>17, <1>18, <1>19, <1>20, CallStepKeeps

\* Every handler is gone with its process, and the cache and the locks with it.
LEMMA RestartKeeps == ASSUME BrokerInv, NEW s \in Sessions, Restart(s) PROVE BrokerInv'
<1>1. N > 0 /\ calls # <<>> /\ N \in Calls /\ CallRec(calls[N]) /\ CallInv(N)
  <2>1. N > 0 BY DEF Restart
  <2>2. calls # <<>> BY <2>1, EmptySeq DEF N
  <2> QED BY <2>1, <2>2, LastCall
<1>2. PICK n \in Calls : n = N BY <1>1
<1>3. PICK c : c = IF Idle THEN calls[N]
                   ELSE [calls[N] EXCEPT !.pc = "returned", !.result = "raised"]
  OBVIOUS
<1>4. /\ CallRec(c) /\ c.req = calls[N].req /\ c.norm = calls[N].norm
      /\ c.session = calls[N].session /\ c.mode = calls[N].mode
      /\ c.decision = calls[N].decision /\ c.pc = "returned" /\ c.audit = calls[N].audit
      /\ c = calls[N] \/ (~Idle /\ c.result = "raised")
  BY <1>1, <1>3 DEF CallRec, Results, Idle
<1>5. CallChange(c)
  <2>1. calls' = [calls EXCEPT ![N] = c] BY <1>3 DEF Restart
  <2> QED BY <1>1, <1>4, <2>1 DEF Restart, CallChange
<1>6. /\ N' = N /\ calls' # <<>> /\ calls' \in Seq(ToSet(calls')) /\ calls'[n] = c /\ n \in 1 .. N
      /\ \A j \in 1 .. N : j # n => calls'[j] = calls[j]
      /\ \A j \in 1 .. N : CallRec(calls'[j]) /\ calls'[j].norm = calls[j].norm
  BY <1>1, <1>2, <1>5, CallsAfter, LastCall
<1>7. /\ thread' = [j \in Calls |-> thread'[j]]
      /\ \A j \in Calls : /\ thread[j].pc = "none" => thread'[j] = NoThread
                          /\ thread[j].pc # "none" => thread'[j] = Gone
  BY DEF Restart
<1>8. ASSUME NEW j \in Calls
      PROVE  /\ ThreadRec(thread'[j]) /\ thread'[j].stage = {} /\ thread'[j].created = {}
             /\ thread'[j].todo = <<>> /\ thread'[j].pc \in {"none", "gone"}
             /\ thread'[j].pc = "none" <=> thread[j].pc = "none"
             /\ thread'[j].pc = "none" => thread'[j] = NoThread
  BY <1>7, ThreadNone, ThreadGone
<1>9. /\ disk' = disk /\ store' = store /\ seen' = seen /\ scene' = scene
      /\ cache' = [f \in Files |-> Absent] /\ lock' = [f \in Files |-> 0]
      /\ repl' = [repl EXCEPT !.session = s, !.turn = "on"]
  BY DEF Restart
<1>10. Absent \in Contents /\ 0 \in 0 .. MaxCalls /\ MaxCalls \in Nat
  BY BrokerAssumption DEF Absent, Contents
<1>11. Absent <= Base + disk.edits /\ Absent \notin seen.quiet
  <2>1. disk.edits \in Nat /\ seen.quiet \subseteq Base .. Base + disk.edits
    BY DEF BrokerInv, Typed, Numbered
  <2> QED BY <1>10, <2>1 DEF Absent, Base
<1>12. Typed'
  <2>1. scene' \in Scenarios /\ N' <= MaxCalls BY <1>6, <1>9, CallCount DEF BrokerInv, Typed
  <2>2. repl' \in Replies BY <1>9 DEF BrokerInv, Typed, Replies
  <2>3. cache' \in [Files -> Contents] /\ lock' \in [Files -> 0 .. MaxCalls] BY <1>9, <1>10
  <2>4. /\ disk' \in [file : [Files -> Contents], dirs : {disk'.dirs}, edits : Nat]
        /\ store' \in [grants : {store'.grants}, skills : {store'.skills}, plan : Plans,
                       artifacts : {store'.artifacts}]
        /\ seen' \in [shown : {seen'.shown}, quiet : {seen'.quiet}]
    BY <1>9 DEF BrokerInv, Typed
  <2>5. /\ calls' \in Seq(ToSet(calls')) /\ \A i \in 1 .. N' : CallRec(calls'[i])
        /\ thread' = [i \in Calls |-> thread'[i]] /\ \A i \in Calls : ThreadRec(thread'[i])
    BY <1>6, <1>7, <1>8
  <2> QED BY <2>1, <2>2, <2>3, <2>4, <2>5 DEF Typed
<1>13. LastOnly'
  <2>1. \A i \in 1 .. N' : i < N' => calls'[i].pc = "returned"
    BY <1>2, <1>6 DEF BrokerInv, LastOnly
  <2>2. Idle' BY <1>2, <1>4, <1>6 DEF Idle
  <2> QED BY <2>1, <2>2 DEF LastOnly
<1>14. GrantsKnown' BY <1>5, <1>9, NoNewGrant
<1>15. Numbered' BY <1>9, <1>11 DEF BrokerInv, Numbered
<1>16. CacheKnown' BY <1>9, <1>11 DEF CacheKnown, Shown
<1>17. DiskKnown'
  <2>1. ASSUME NEW p \in Files, disk.file[p] \in Calls
        PROVE  disk.file[p] <= N /\ p \in calls'[disk.file[p]].norm.paths
    <3>1. disk.file[p] <= N /\ p \in calls[disk.file[p]].norm.paths
      BY <2>1 DEF BrokerInv, DiskKnown
    <3>2. disk.file[p] \in 1 .. N BY <2>1, <3>1, CallCount DEF Calls
    <3> QED BY <1>6, <3>1, <3>2
  <2> QED BY <1>6, <1>9, <2>1 DEF DiskKnown
<1>18. PlanCounted'
  <2>1. Through \subseteq Through' BY <1>7, ThreadGone DEF Through
  <2>2. /\ Cardinality(Through) \in Nat /\ Cardinality(Through') \in Nat
        /\ Cardinality(Through) <= Cardinality(Through')
    BY <2>1, MoreThrough
  <2>3. ASSUME NEW t \in Sessions PROVE store'.plan[t].version <= Cardinality(Through')
    <3>1. store.plan[t].version \in Nat /\ store.plan[t].version <= Cardinality(Through)
      BY BrokerAssumption DEF BrokerInv, Typed, Plans, PlanCounted
    <3> QED BY <1>9, <2>2, <3>1
  <2> QED BY <1>8, <2>3 DEF PlanCounted
<1>19. ASSUME NEW j \in 1 .. N PROVE CallInv(j)'
  <2>1. j \in Calls BY CallCount
  <2>2. CASE j # n BY <1>2, <1>5, <1>8, <2>1, <2>2, OtherCalls
  <2>3. CASE j = n
    <3>1. thread[n].pc = "none" => Unstarted(calls[n]) BY <1>1, <1>2 DEF CallInv
    <3>2. thread[n].pc # "none" => Started(calls[n]) BY <1>1, <1>2 DEF CallInv
    <3>3. CASE c = calls[n] BY <1>2, <1>5, <1>8, <2>3, <3>1, <3>2, <3>3, RecordFits
    <3>4. CASE ~Idle /\ c.result = "raised"
      <4>1. calls[n].pc # "returned" BY <1>1, <1>2, <3>4 DEF Idle
      <4>2. Unstarted(calls[n]) => Unstarted(c)
        BY <1>2, <1>4, <3>4, <4>1 DEF Unstarted, At
      <4>3. Started(calls[n]) => Started(c)
        BY <1>2, <1>4, <3>4, <4>1 DEF Started, StartedAfter, At, Succeeded, Failed
      <4> QED BY <1>2, <1>5, <1>8, <2>3, <3>1, <3>2, <4>2, <4>3, RecordFits
    <3> QED BY <1>2, <1>4, <3>3, <3>4
  <2> QED BY <2>2, <2>3
<1>20. ASSUME NEW j \in Calls PROVE ThreadInv(j)'
  <2>1. ToolOf(j)' /\ LockOf(j)' /\ FileOf(j)' /\ StageOf(j)'
    BY <1>8 DEF ToolOf, LockOf, FileOf, StageOf, Holding, Guarded
  <2>2. thread'[j].pc # "none" => j <= N'
    BY <1>6, <1>8 DEF BrokerInv, ThreadInv
  <2>3. thread'[j].todo \in Seq(calls'[j].norm.paths) BY <1>8, NoElements
  <2> QED BY <1>8, <2>1, <2>2, <2>3 DEF ThreadInv
<1> QED BY <1>6, <1>12, <1>13, <1>14, <1>15, <1>16, <1>17, <1>18, <1>19, <1>20 DEF BrokerInv

-----------------------------------------------------------------------------
(* A new call. *)

\* The range of a sequence that is given as a function.
LEMMA RangeOf ==
  ASSUME NEW s, NEW n \in Nat, s = [k \in 1 .. n |-> s[k]]
  PROVE  s \in Seq(ToSet(s))
<1>1. \A k \in 1 .. n : s[k] \in ToSet(s) BY DEF ToSet
<1> QED BY <1>1, IsASeq

\* The parent directories that a write plans to make are a sequence of paths.
LEMMA ParentsSeq ==
  ASSUME NEW path, path \in Seq(ToSet(path)), NEW dirs
  PROVE  PlannedParents(path, dirs) \in Seq(ToSet(PlannedParents(path, dirs)))
<1>1. PICK Missing : Missing = {n \in 1 .. Len(path) - 1 : SubSeq(path, 1, n) \notin dirs}
  OBVIOUS
<1>2. Len(path) \in Nat BY LenProperties
<1>3. IsFiniteSet(1 .. Len(path) - 1) BY <1>2, FS_Interval
<1>4. IsFiniteSet(Missing) BY <1>1, <1>3, FS_Subset
<1>5. PICK n \in Nat : n = Cardinality(Missing) BY <1>4, FS_CardinalityType
<1>6. PICK s : s = PlannedParents(path, dirs) OBVIOUS
<1>7. s = [k \in 1 .. n |-> SubSeq(path, 1, Len(path) - n + k - 1)]
  BY <1>1, <1>5, <1>6 DEF PlannedParents
<1>8. s = [k \in 1 .. n |-> s[k]] BY <1>7
<1>9. s \in Seq(ToSet(s)) BY <1>8, RangeOf
<1> QED BY <1>6, <1>9

\* What normalization does with the arguments of a request.
LEMMA NormalizedRequest ==
  ASSUME BrokerInv, NEW req \in scene.requests, NEW norm, norm = Normalize(req)
  PROVE  /\ norm.tool = req.tool /\ norm.parents \in Seq(norm.paths)
         /\ req.tool \in Writes => Head(req.paths) \in norm.paths
         /\ req.tool \in {"todo", "activate_skill"} => norm.paths = {}
<1>1. /\ req.tool \in Tools /\ req.paths \in Seq(ToSet(req.paths))
      /\ req.tool \in Writes => req.paths # <<>>
      /\ req.tool \in {"todo", "activate_skill"} => req.paths = <<>>
      /\ \A p \in ToSet(req.paths) : p \in Seq(ToSet(p))
  BY BrokerAssumption DEF BrokerInv, Typed, Writes
<1>2. PICK parents : parents = IF req.tool = "write_file"
                                 THEN PlannedParents(Head(req.paths), disk.dirs) ELSE <<>>
  OBVIOUS
<1>3. req.tool \in Writes => Head(req.paths) \in ToSet(req.paths)
  BY <1>1, HeadTailProperties
<1>4. norm.tool = req.tool /\ norm.parents = parents BY <1>2 DEF Normalize
<1>5. /\ req.tool = "shell_exec" \/ IsArtifact(req, repl.session)
           \/ norm.paths = ToSet(req.paths) \union ToSet(parents)
  BY <1>2 DEF Normalize
<1>6. IsArtifact(req, repl.session) => req.tool = "read_file" BY DEF IsArtifact
<1>7. CASE req.tool = "write_file"
  <2>1. norm.paths = ToSet(req.paths) \union ToSet(parents) BY <1>5, <1>6, <1>7
  <2>2. parents = PlannedParents(Head(req.paths), disk.dirs) BY <1>2, <1>7
  <2>3. Head(req.paths) \in Seq(ToSet(Head(req.paths))) BY <1>1, <1>3, <1>7 DEF Writes
  <2>4. parents \in Seq(ToSet(parents)) BY <2>2, <2>3, ParentsSeq
  <2>5. parents \in Seq(norm.paths) BY <2>1, <2>4, SeqMonotonic
  <2> QED BY <1>3, <1>4, <1>7, <2>1, <2>5
<1>8. CASE req.tool # "write_file"
  <2>1. parents = <<>> /\ parents \in Seq(norm.paths) BY <1>2, <1>8, NoElements
  <2>2. ToSet(<<>>) = {}
    <3>1. DOMAIN <<>> = {} OBVIOUS
    <3> QED BY <3>1 DEF ToSet
  <2>3. req.tool \in Writes \union {"todo", "activate_skill"} =>
          norm.paths = ToSet(req.paths) \union ToSet(parents)
    BY <1>5, <1>6 DEF Writes
  <2> QED BY <1>1, <1>3, <1>4, <2>1, <2>2, <2>3
<1> QED BY <1>7, <1>8

\* The risk of a tool.
LEMMA RiskOf ==
  ASSUME NEW tool
  PROVE  \/ /\ Risk(tool) = "read"
            /\ tool \in {"read_file", "search_text", "view_image", "load_skill_resource"}
         \/ Risk(tool) = "write" /\ tool \in {"write_file", "edit_file"}
         \/ Risk(tool) = "execute" /\ tool = "shell_exec"
         \/ Risk(tool) = "runtime_control"
BY DEF Risk

\* What the policy has made sure of, by its answer.
LEMMA Evaluated ==
  ASSUME NEW facts, NEW mode \in Modes, NEW session, NEW grants, NEW call, NEW d,
         d = Evaluate(facts, mode, session, grants, call),
         call.tool \in {"todo", "activate_skill"} => call.paths = {}
  PROVE  /\ d \in {"allow", "deny", "ask"}
         /\ d # "deny" =>
              /\ \A p \in call.paths : ~Hit(facts.builtin_path_deny \union facts.path_deny, p)
              /\ call.tool = "shell_exec" => ~ShellDenied(facts, call.argv)
         /\ d = "allow" =>
              \/ Free(facts, mode, call.tool, call.paths)
              \/ call.tool = "activate_skill" /\ call.active
              \/ Reusable(grants, session, call)
<1>1. PICK classes : classes = {Classify(facts, p) : p \in call.paths} OBVIOUS
<1>2. ASSUME "denied" \notin classes, NEW p \in call.paths
      PROVE  ~Hit(facts.builtin_path_deny \union facts.path_deny, p)
  BY <1>1, <1>2 DEF Classify, Hit
<1>3. ASSUME classes \subseteq {"trusted"}, NEW p \in call.paths
      PROVE  Hit(facts.path_trust, p)
  <2>1. Classify(facts, p) = "trusted" BY <1>1, <1>3
  <2> QED BY <2>1 DEF Classify, Hit
<1>4. CASE call.tool = "todo" \/ (call.tool = "activate_skill" /\ call.active)
  <2>1. d = "allow" BY <1>4 DEF Evaluate
  <2>2. call.paths = {} /\ call.tool # "shell_exec" BY <1>4
  <2>3. call.tool = "todo" =>
          Free(facts, mode, call.tool, call.paths)
    BY DEF Free, FreeIn
  <2> QED BY <1>4, <2>1, <2>2, <2>3
<1>5. CASE ~(call.tool = "todo" \/ (call.tool = "activate_skill" /\ call.active))
  <2>1. d = IF "denied" \in classes THEN "deny"
            ELSE IF call.tool = "shell_exec" /\ ShellDenied(facts, call.argv) THEN "deny"
            ELSE IF \/ AllowedByMode(mode, call.tool, classes \subseteq {"trusted"})
                    \/ Reusable(grants, session, call) THEN "allow"
            ELSE "ask"
    BY <1>1, <1>5 DEF Evaluate
  <2>2. d \in {"allow", "deny", "ask"} BY <2>1
  <2>3. d # "deny" => /\ "denied" \notin classes
                      /\ call.tool = "shell_exec" => ~ShellDenied(facts, call.argv)
    BY <2>1
  <2>4. d = "allow" => \/ AllowedByMode(mode, call.tool, classes \subseteq {"trusted"})
                       \/ Reusable(grants, session, call)
    BY <2>1
  <2>5. ASSUME AllowedByMode(mode, call.tool, classes \subseteq {"trusted"})
        PROVE  Free(facts, mode, call.tool, call.paths)
    <3>1. mode \in {"normal", "semi-auto", "yolo"} BY DEF Modes
    <3>2. (classes \subseteq {"trusted"}) => \A p \in call.paths : Hit(facts.path_trust, p)
      BY <1>3
    <3> QED BY <2>5, <3>1, <3>2, RiskOf DEF AllowedByMode, Free, FreeIn
  <2> QED BY <1>2, <2>2, <2>3, <2>4, <2>5
<1> QED BY <1>4, <1>5

\* Calls after one more.
LEMMA OneMore ==
  ASSUME BrokerInv, NEW c, calls' = Append(calls, c)
  PROVE  /\ N' = N + 1 /\ calls' # <<>> /\ calls' \in Seq(ToSet(calls')) /\ calls'[N + 1] = c
         /\ \A j \in 1 .. N : calls'[j] = calls[j]
<1>1. calls \in Seq(ToSet(calls)) /\ N \in Nat BY CallCount DEF BrokerInv, Typed
<1>2. PICK S : S = ToSet(calls) \union {c} OBVIOUS
<1>3. calls \in Seq(S) /\ c \in S BY <1>1, <1>2, SeqMonotonic
<1>4. /\ calls' \in Seq(S) /\ Len(calls') = N + 1 /\ calls' # <<>> /\ calls'[N + 1] = c
      /\ \A j \in 1 .. N : calls'[j] = calls[j]
  BY <1>3, AppendProperties DEF N
<1>5. PICK n \in Nat : n = N + 1 BY <1>1
<1>6. calls' = [j \in 1 .. n |-> calls'[j]] BY <1>4, <1>5, LenProperties
<1>7. calls' \in Seq(ToSet(calls')) BY <1>6, RangeOf
<1> QED BY <1>4, <1>7 DEF N

\* The new call's record: what the policy said of it.
LEMMA InvokedCall ==
  ASSUME BrokerInv, NEW req, Invoke(req)
  PROVE  \E c : /\ calls' = Append(calls, c) /\ CallRec(c) /\ Normalized(c) /\ Unstarted(c)
                /\ c.session = repl.session
                /\ c.decision \notin {"none", "deny"} =>
                     /\ \A p \in c.norm.paths :
                          ~Hit(scene.facts.builtin_path_deny \union scene.facts.path_deny, p)
                     /\ c.req.tool = "shell_exec" => ~ShellDenied(scene.facts, c.norm.argv)
                /\ c.decision = "allow" =>
                     \/ Free(scene.facts, c.mode, c.req.tool, c.norm.paths)
                     \/ c.req.tool = "activate_skill" /\ c.norm.active
                     \/ Reusable(store.grants, c.session, c.norm)
<1>1. req \in scene.requests /\ repl \in Replies BY DEF Invoke, BrokerInv, Typed
<1>2. PICK norm : norm = Normalize(req) OBVIOUS
<1>3. /\ norm.tool = req.tool /\ norm.parents \in Seq(norm.paths)
      /\ req.tool \in Writes => Head(req.paths) \in norm.paths
      /\ req.tool \in {"todo", "activate_skill"} => norm.paths = {}
  BY <1>1, <1>2, NormalizedRequest
<1>4. PICK d : d = Evaluate(scene.facts, repl.mode, repl.session, store.grants, norm) OBVIOUS
<1>5. repl.mode \in Modes /\ repl.session \in Sessions BY <1>1 DEF Replies
<1>6. /\ d \in {"allow", "deny", "ask"}
      /\ d # "deny" =>
           /\ \A p \in norm.paths :
                ~Hit(scene.facts.builtin_path_deny \union scene.facts.path_deny, p)
           /\ norm.tool = "shell_exec" => ~ShellDenied(scene.facts, norm.argv)
      /\ d = "allow" =>
           \/ Free(scene.facts, repl.mode, norm.tool, norm.paths)
           \/ norm.tool = "activate_skill" /\ norm.active
           \/ Reusable(store.grants, repl.session, norm)
  <2>1. norm.tool \in {"todo", "activate_skill"} => norm.paths = {} BY <1>3
  <2> QED BY <1>4, <1>5, <2>1, Evaluated
<1>7. PICK pc, decision, result, audit :
        /\ calls' = Append(calls, Call(req, pc, decision, result, audit))
        /\ \/ pc = "returned" /\ decision = "none" /\ result = "error" /\ audit = <<"failed">>
           \/ /\ d = "deny" /\ pc = "returned" /\ decision = "deny" /\ result = "denied"
              /\ audit = <<"denied">>
           \/ /\ d = "ask" /\ pc = "asking" /\ decision = "ask" /\ result = "none"
              /\ audit = IF scene.interactive THEN <<"requested">> ELSE <<>>
           \/ d = "allow" /\ pc = "ready" /\ decision = "allow" /\ result = "none" /\ audit = <<>>
  <2>1. CASE Rejected(req)
    <3>1. calls' = Append(calls, Call(req, "returned", "none", "error", <<"failed">>))
      BY <2>1 DEF Invoke
    <3> QED BY <3>1
  <2>2. CASE ~Rejected(req) /\ d = "deny"
    <3>1. calls' = Append(calls, Call(req, "returned", "deny", "denied", <<"denied">>))
      BY <1>2, <1>4, <2>2 DEF Invoke
    <3> QED BY <2>2, <3>1
  <2>3. CASE ~Rejected(req) /\ d = "ask"
    <3>1. PICK audit : audit = IF scene.interactive THEN <<"requested">> ELSE <<>> OBVIOUS
    <3>2. calls' = Append(calls, Call(req, "asking", "ask", "none", audit))
      BY <1>2, <1>4, <2>3, <3>1 DEF Invoke
    <3> QED BY <2>3, <3>1, <3>2
  <2>4. CASE ~Rejected(req) /\ d = "allow"
    <3>1. calls' = Append(calls, Call(req, "ready", "allow", "none", <<>>))
      BY <1>2, <1>4, <2>4 DEF Invoke
    <3> QED BY <2>4, <3>1
  <2> QED BY <1>6, <2>1, <2>2, <2>3, <2>4
<1>8. PICK c : c = Call(req, pc, decision, result, audit) OBVIOUS
<1>9. c = [req |-> req, norm |-> norm, session |-> repl.session, mode |-> repl.mode,
           pc |-> pc, decision |-> decision, result |-> result, audit |-> audit]
  BY <1>2, <1>8 DEF Call
<1>10. /\ c.req = req /\ c.norm = norm /\ c.session = repl.session /\ c.mode = repl.mode
       /\ c.pc = pc /\ c.decision = decision /\ c.result = result /\ c.audit = audit
  BY <1>9
<1>11. audit \in Seq(Events)
  <2>1. /\ <<>> \in Seq(Events) /\ <<"failed">> \in Seq(Events)
        /\ <<"denied">> \in Seq(Events) /\ <<"requested">> \in Seq(Events)
    BY NoElements DEF Events
  <2> QED BY <1>7, <2>1
<1>12. CallRec(c)
  <2>1. /\ pc \in {"asking", "ready", "running", "returned"} /\ decision \in Decisions
        /\ result \in Results
    BY <1>7 DEF Decisions, Results
  <2> QED BY <1>5, <1>9, <1>10, <1>11, <2>1 DEF CallRec
<1>13. Normalized(c) BY <1>1, <1>3, <1>10 DEF Normalized
<1>14. Unstarted(c) BY <1>7, <1>10 DEF Unstarted, At
<1>15. decision \notin {"none", "deny"} => d # "deny" BY <1>7
<1>16. decision = "allow" => d = "allow" BY <1>7
<1> QED BY <1>3, <1>6, <1>7, <1>8, <1>10, <1>12, <1>13, <1>14, <1>15, <1>16

\* A new call comes after all others, judged by the facts and by their grants.
LEMMA InvokeKeeps == ASSUME BrokerInv, NEW req, Invoke(req) PROVE BrokerInv'
<1>1. PICK c : /\ calls' = Append(calls, c) /\ CallRec(c) /\ Normalized(c) /\ Unstarted(c)
               /\ c.session = repl.session
               /\ c.decision \notin {"none", "deny"} =>
                    /\ \A p \in c.norm.paths :
                         ~Hit(scene.facts.builtin_path_deny \union scene.facts.path_deny, p)
                    /\ c.req.tool = "shell_exec" => ~ShellDenied(scene.facts, c.norm.argv)
               /\ c.decision = "allow" =>
                    \/ Free(scene.facts, c.mode, c.req.tool, c.norm.paths)
                    \/ c.req.tool = "activate_skill" /\ c.norm.active
                    \/ Reusable(store.grants, c.session, c.norm)
  BY InvokedCall
<1>2. /\ UNCHANGED <<scene, repl, thread, disk, cache, lock, store, seen>>
      /\ Idle /\ N < scene.calls
  BY DEF Invoke
<1>3. N \in Nat /\ MaxCalls \in Nat /\ 1 .. N \subseteq Calls BY CallCount, BrokerAssumption
<1>4. N + 1 <= MaxCalls
  <2>1. scene.calls \in 0 .. MaxCalls BY BrokerAssumption DEF BrokerInv, Typed
  <2> QED BY <1>2, <1>3, <2>1
<1>5. PICK n \in Calls : n = N + 1 BY <1>3, <1>4 DEF Calls
<1>6. /\ N' = n /\ calls' # <<>> /\ calls' \in Seq(ToSet(calls')) /\ calls'[n] = c
      /\ \A j \in 1 .. N : calls'[j] = calls[j]
      /\ 1 .. n = (1 .. N) \union {n} /\ n > N /\ n \in Nat
  <2>1. /\ N' = N + 1 /\ calls' # <<>> /\ calls' \in Seq(ToSet(calls'))
        /\ calls'[N + 1] = c /\ \A j \in 1 .. N : calls'[j] = calls[j]
    BY <1>1, OneMore
  <2>2. 1 .. N + 1 = (1 .. N) \union {N + 1} /\ N + 1 > N BY <1>3
  <2> QED BY <1>3, <1>5, <2>1, <2>2
<1>7. Typed'
  <2>1. \A i \in 1 .. N' : CallRec(calls'[i]) BY <1>1, <1>6 DEF BrokerInv, Typed
  <2> QED BY <1>2, <1>4, <1>5, <1>6, <2>1 DEF BrokerInv, Typed
<1>8. LastOnly'
  <2>1. ASSUME NEW i \in 1 .. N PROVE calls[i].pc = "returned"
    <3>1. calls # <<>> BY <1>3, EmptySeq DEF N
    <3>2. calls[N].pc = "returned" BY <1>2, <3>1 DEF Idle
    <3> QED BY <1>3, <3>2 DEF BrokerInv, LastOnly
  <2>2. \A i \in 1 .. N' : i < N' => calls'[i].pc = "returned" BY <1>6, <2>1
  <2>3. calls'[N'].session = repl'.session BY <1>1, <1>2, <1>6
  <2> QED BY <2>2, <2>3 DEF LastOnly
<1>9. GrantsKnown'
  <2>1. ASSUME NEW g \in store.grants, g.decision = "approved_for_session"
        PROVE  \E j \in 1 .. N' : /\ calls'[j].decision = "approved_for_session"
                                 /\ calls'[j].session = g.session
                                 /\ Scope(calls'[j].norm) = g.scope
    <3>1. PICK j \in 1 .. N : /\ calls[j].decision = "approved_for_session"
                             /\ calls[j].session = g.session /\ Scope(calls[j].norm) = g.scope
      BY <2>1 DEF BrokerInv, GrantsKnown
    <3>2. j \in 1 .. N' /\ calls'[j] = calls[j] BY <1>6
    <3> QED BY <3>1, <3>2
  <2> QED BY <1>2, <2>1 DEF GrantsKnown
<1>10. Numbered' /\ CacheKnown' BY <1>2 DEF BrokerInv, Numbered, CacheKnown, Shown
<1>11. DiskKnown'
  <2>1. ASSUME NEW p \in Files, disk.file[p] \in Calls
        PROVE  disk.file[p] <= N' /\ p \in calls'[disk.file[p]].norm.paths
    <3>1. disk.file[p] <= N /\ p \in calls[disk.file[p]].norm.paths
      BY <2>1 DEF BrokerInv, DiskKnown
    <3>2. disk.file[p] \in 1 .. N BY <1>3, <2>1, <3>1 DEF Calls
    <3> QED BY <1>6, <3>1, <3>2
  <2> QED BY <1>2, <2>1 DEF DiskKnown
<1>12. PlanCounted' BY <1>2 DEF BrokerInv, PlanCounted, Through
<1>13. ASSUME NEW j \in Calls PROVE ThreadInv(j)'
  <2>1. ThreadInv(j) /\ thread'[j] = thread[j] BY <1>2 DEF BrokerInv
  <2>2. CASE thread[j].pc = "none"
    <3>1. thread[j].stage = {} BY <2>1, <2>2, ThreadNone DEF ThreadInv
    <3>2. ToolOf(j)' /\ LockOf(j)' /\ FileOf(j)' /\ StageOf(j)'
      BY <2>1, <2>2, <3>1 DEF ToolOf, LockOf, FileOf, StageOf, Holding, Guarded
    <3> QED BY <2>1, <2>2, <3>2 DEF ThreadInv
  <2>3. CASE thread[j].pc # "none"
    <3>1. j \in 1 .. N BY <2>3, HandlerCall
    <3>2. calls'[j] = calls[j] /\ j <= N' BY <1>3, <1>6, <3>1
    <3>3. Tool(j)' = Tool(j) /\ Target(j)' = Target(j) BY <3>2 DEF Tool, Target
    <3>4. ToolOf(j)' /\ LockOf(j)' BY <1>2, <2>1, <3>3 DEF ThreadInv, ToolOf, LockOf
    <3>5. FileOf(j)' /\ StageOf(j)'
      BY <1>2, <2>1, <3>3 DEF ThreadInv, FileOf, StageOf, Shown
    <3> QED BY <2>1, <2>3, <3>2, <3>4, <3>5 DEF ThreadInv
  <2> QED BY <2>2, <2>3
<1>14. ASSUME NEW j \in 1 .. N PROVE CallInv(j)'
  <2>1. /\ CallInv(j) /\ calls'[j] = calls[j] /\ scene' = scene /\ thread' = thread
    BY <1>2, <1>6 DEF BrokerInv
  <2>2. Normalized(calls[j])' BY <2>1 DEF CallInv, Normalized
  <2>3. \A k \in 1 .. j - 1 : calls'[k] = calls[k] BY <1>3, <1>6
  <2>4. Judged(j)' BY <2>1, <2>3 DEF CallInv, Judged
  <2>5. (Unstarted(calls[j])' <=> Unstarted(calls[j])) /\ (Started(calls[j])' <=> Started(calls[j]))
    BY <2>1 DEF Unstarted, Started, StartedAfter, At, Succeeded, Failed
  <2> QED BY <2>1, <2>2, <2>4, <2>5 DEF CallInv
<1>15. CallInv(n)'
  <2>1. thread'[n].pc = "none"
    <3>1. ~(n <= N) BY <1>3, <1>6
    <3>2. ThreadInv(n) BY DEF BrokerInv
    <3> QED BY <1>2, <3>1, <3>2 DEF ThreadInv
  <2>2. Normalized(calls[n])' BY <1>1, <1>2, <1>6 DEF Normalized
  <2>3. Unstarted(calls[n])' BY <1>1, <1>2, <1>6 DEF Unstarted, At
  <2>4. ASSUME Reusable(store.grants, c.session, c.norm)
        PROVE  \E j \in 1 .. n - 1 : /\ calls'[j].decision = "approved_for_session"
                                    /\ calls'[j].session = c.session
                                    /\ Scope(calls'[j].norm) = Scope(c.norm)
    <3>1. PICK g \in store.grants : /\ g.session = c.session /\ g.scope = Scope(c.norm)
                                    /\ g.decision = "approved_for_session"
      BY <2>4 DEF Reusable
    <3>2. PICK j \in 1 .. N : /\ calls[j].decision = "approved_for_session"
                             /\ calls[j].session = g.session /\ Scope(calls[j].norm) = g.scope
      BY <3>1 DEF BrokerInv, GrantsKnown
    <3>3. j \in 1 .. n - 1 /\ calls'[j] = calls[j] BY <1>3, <1>5, <1>6
    <3> QED BY <3>1, <3>2, <3>3
  <2>5. Judged(n)' BY <1>1, <1>2, <1>6, <2>4 DEF Judged
  <2> QED BY <2>1, <2>2, <2>3, <2>5 DEF CallInv
<1>16. \A j \in 1 .. N' : CallInv(j)' BY <1>6, <1>14, <1>15
<1> QED BY <1>7, <1>8, <1>9, <1>10, <1>11, <1>12, <1>13, <1>16 DEF BrokerInv

\* Nothing is called yet, and every file is of a quiet moment.
LEMMA InitHolds == Init => BrokerInv
<1> SUFFICES ASSUME Init PROVE BrokerInv OBVIOUS
<1>1. /\ calls = <<>> /\ N = 0 /\ thread = [i \in Calls |-> NoThread] /\ scene \in Scenarios
      /\ cache = [f \in Files |-> Absent] /\ lock = [f \in Files |-> 0]
  BY DEF Init, N
<1>2. MaxCalls \in Nat /\ Base = MaxCalls + 1 /\ Absent = 0
  BY BrokerAssumption DEF Base, Absent
<1>3. Contents = 0 .. MaxCalls + 4 /\ Absent \in Contents /\ Base \in Contents
      /\ Base \notin Calls /\ Absent \notin Calls
  BY <1>2 DEF Contents, Calls
<1>4. PICK s \in Sessions : s = CHOOSE t \in Sessions : TRUE BY BrokerAssumption
<1>5. PICK m \in scene.modes : repl = [session |-> s, mode |-> m, turn |-> "on"]
  BY <1>4 DEF Init
<1>6. m \in Modes BY <1>1, <1>5, BrokerAssumption DEF Modes
<1>7. PICK file : file = [f \in Files |-> IF f \in scene.exist THEN Base ELSE Absent] OBVIOUS
<1>8. /\ disk = [file |-> file, dirs |-> scene.dirs, edits |-> 0]
      /\ file \in [Files -> {Base, Absent}]
  BY <1>7 DEF Init
<1>9. /\ store.grants = {} /\ seen = [shown |-> {}, quiet |-> {Base}]
      /\ store = [grants |-> {}, skills |-> [t \in Sessions |-> {}],
                  plan |-> [t \in Sessions |-> [version |-> 0, by |-> 0]],
                  artifacts |-> [t \in Sessions |-> {}]]
  BY DEF Init
<1>10. \A i \in Calls : thread[i] = NoThread /\ thread[i].pc = "none" /\ thread[i].stage = {}
  BY <1>1 DEF NoThread
<1>11. Typed
  <2>1. calls \in Seq(ToSet(calls)) /\ N <= MaxCalls BY <1>1, <1>2, NoElements
  <2>2. \A i \in 1 .. N : CallRec(calls[i]) BY <1>1
  <2>3. repl \in Replies BY <1>5, <1>6 DEF Replies
  <2>4. thread = [i \in Calls |-> thread[i]] BY <1>1
  <2>5. \A i \in Calls : ThreadRec(thread[i]) BY <1>10, ThreadNone
  <2>6. disk \in [file : [Files -> Contents], dirs : {disk.dirs}, edits : Nat]
    <3>1. file \in [Files -> Contents] BY <1>3, <1>8
    <3> QED BY <1>8, <3>1
  <2>7. cache \in [Files -> Contents] /\ lock \in [Files -> 0 .. MaxCalls]
    BY <1>1, <1>2, <1>3
  <2>8. store.plan \in Plans BY <1>2, <1>9 DEF Plans
  <2>9. store \in [grants : {store.grants}, skills : {store.skills}, plan : Plans,
                  artifacts : {store.artifacts}]
    BY <1>9, <2>8
  <2>10. seen \in [shown : {seen.shown}, quiet : {seen.quiet}] BY <1>9
  <2> QED BY <1>1, <2>1, <2>2, <2>3, <2>4, <2>5, <2>6, <2>7, <2>9, <2>10 DEF Typed
<1>12. LastOnly /\ GrantsKnown BY <1>1, <1>9 DEF LastOnly, GrantsKnown, Idle
<1>13. Numbered BY <1>1, <1>2, <1>8, <1>9 DEF Numbered
<1>14. DiskKnown BY <1>3, <1>8 DEF DiskKnown
<1>15. CacheKnown BY <1>1, <1>2, <1>9 DEF CacheKnown, Shown
<1>16. PlanCounted
  <2>1. Through \in SUBSET Calls BY DEF Through
  <2>2. Cardinality(Through) \in Nat BY <2>1, CountCalls
  <2> QED BY <1>9, <1>10, <2>2 DEF PlanCounted
<1>17. \A i \in Calls : ThreadInv(i)
  BY <1>10 DEF ThreadInv, ToolOf, LockOf, FileOf, StageOf, Holding, Guarded
<1>18. \A i \in 1 .. N : CallInv(i) BY <1>1
<1> QED BY <1>11, <1>12, <1>13, <1>14, <1>15, <1>16, <1>17, <1>18 DEF BrokerInv

\* Nothing changes.
LEMMA StutterKeeps == ASSUME BrokerInv, UNCHANGED vars PROVE BrokerInv'
<1>1. UNCHANGED <<scene, repl, calls, thread, disk, cache, lock, store, seen>> BY DEF vars
<1>2. N' = N /\ (Idle' <=> Idle) BY <1>1 DEF N, Idle
<1>3. Typed' /\ LastOnly' /\ GrantsKnown'
  BY <1>1, <1>2 DEF BrokerInv, Typed, LastOnly, GrantsKnown
<1>4. Numbered' /\ DiskKnown' /\ CacheKnown' /\ PlanCounted'
  BY <1>1, <1>2 DEF BrokerInv, Numbered, DiskKnown, CacheKnown, Shown, PlanCounted, Through
<1>5. \A i \in 1 .. N' : CallInv(i)'
  <2>1. ASSUME NEW i \in 1 .. N PROVE CallInv(i)'
    <3>1. CallInv(i) BY DEF BrokerInv
    <3> QED BY <1>1, <3>1 DEF CallInv, Normalized, Judged, Unstarted, Started, StartedAfter,
                              At, Failed, Succeeded
  <2> QED BY <1>2, <2>1
<1>6. \A i \in Calls : ThreadInv(i)'
  <2>1. ASSUME NEW i \in Calls PROVE ThreadInv(i)'
    <3>1. ThreadInv(i) BY DEF BrokerInv
    <3>2. Tool(i)' = Tool(i) /\ Target(i)' = Target(i) BY <1>1 DEF Tool, Target
    <3> QED BY <1>1, <1>2, <3>1, <3>2 DEF ThreadInv, ToolOf, LockOf, FileOf, StageOf, Shown
  <2> QED BY <2>1
<1> QED BY <1>3, <1>4, <1>5, <1>6 DEF BrokerInv

\* Every step of the broker, of its handlers and around them.
LEMMA NextKeeps == BrokerInv /\ [Next]_vars => BrokerInv'
<1> SUFFICES ASSUME BrokerInv, [Next]_vars PROVE BrokerInv' OBVIOUS
<1>1. CASE UNCHANGED vars BY <1>1, StutterKeeps
<1>2. CASE Broker BY <1>2, InvokeKeeps, ExecuteKeeps, CollectKeeps, BoundaryOpenKeeps, TimeOutKeeps
             DEF Broker
<1>3. CASE Interrupted BY <1>3, InterruptedKeeps
<1>4. CASE \E d \in {"approved_once", "approved_for_session", "denied"} : Answer(d)
  BY <1>4, AnswerKeeps
<1>5. CASE \E i \in Calls : Handler(i) \/ Expire(i) BY <1>5, HandlerKeeps, ExpireKeeps
<1>6. CASE \E m \in Modes : NextTurn(m) BY <1>6, NextTurnKeeps
<1>7. CASE \E s \in Sessions : Restart(s) BY <1>7, RestartKeeps
<1>8. CASE \E f \in Files, c \in Contents : External(f, c) BY <1>8, ExternalKeeps
<1> QED BY <1>1, <1>2, <1>3, <1>4, <1>5, <1>6, <1>7, <1>8 DEF Next

\* The conditions under which the broker works: who may write which file, what a
\* handler holds, and which audit goes with which state of a call.
THEOREM BrokerInvariance == Spec => []BrokerInv
<1> QED BY InitHolds, NextKeeps, PTL DEF Spec

-----------------------------------------------------------------------------
(* The safety properties. *)

\* The types of the broker's state, as the runs check them.
THEOREM BrokerTypes == Spec => []TypeOK
<1>1. ASSUME BrokerInv PROVE TypeOK
  <2>1. scene \in Scenarios /\ repl \in Replies /\ N <= MaxCalls
    BY <1>1 DEF BrokerInv, Typed
  <2>2. ASSUME NEW i \in 1 .. N
        PROVE  /\ calls[i].req \in scene.requests /\ calls[i].session \in Sessions
               /\ calls[i].pc \in {"asking", "ready", "running", "returned"}
               /\ calls[i].decision \in Decisions /\ calls[i].result \in Results
               /\ calls[i].audit \in Seq(Events)
    <3>1. Normalized(calls[i]) /\ CallRec(calls[i]) BY <1>1 DEF BrokerInv, Typed, CallInv
    <3> QED BY <3>1, CallFields DEF Normalized
  <2>3. ASSUME NEW i \in Calls
        PROVE  /\ thread[i].pc \in ThreadAt /\ thread[i].out \in Outs
               /\ thread[i].saw \in Contents /\ thread[i].stage \subseteq Files \X Contents
    <3>1. ThreadRec(thread[i]) BY <1>1 DEF BrokerInv, Typed
    <3> QED BY <3>1, ThreadFields
  <2>4. /\ disk.file \in [Files -> Contents] /\ cache \in [Files -> Contents]
        /\ lock \in [Files -> 0 .. MaxCalls]
    BY <1>1 DEF BrokerInv, Typed
  <2> QED BY <2>1, <2>2, <2>3, <2>4 DEF TypeOK, Replies
<1> QED BY <1>1, BrokerInvariance, PTL

\* No handler runs, and no path is touched, without a licence of the policy, the
\* mode or the user.
THEOREM EffectsLicensed == Spec => []EffectLicensed
<1>1. ASSUME BrokerInv PROVE EffectLicensed
  <2> SUFFICES ASSUME NEW i \in 1 .. N, thread[i].pc # "none"
               PROVE  /\ \A p \in calls[i].norm.paths :
                           ~Hit(scene.facts.builtin_path_deny \union scene.facts.path_deny, p)
                      /\ calls[i].req.tool = "shell_exec"
                           => ~ShellDenied(scene.facts, calls[i].norm.argv)
                      /\ \/ Free(scene.facts, calls[i].mode, calls[i].req.tool,
                                 calls[i].norm.paths)
                         \/ calls[i].req.tool = "activate_skill" /\ calls[i].norm.active
                         \/ calls[i].decision \in {"approved_once", "approved_for_session"}
                         \/ \E j \in 1 .. i - 1 :
                              /\ calls[j].decision = "approved_for_session"
                              /\ calls[j].session = calls[i].session
                              /\ calls[j].req.tool = calls[i].req.tool
                              /\ calls[j].norm.paths = calls[i].norm.paths
                              /\ calls[j].norm.argv = calls[i].norm.argv
                              /\ calls[j].norm.detail = calls[i].norm.detail
                      /\ thread[i].created \subseteq calls[i].norm.paths
                      /\ \A p \in Files : disk.file[p] = i => p \in calls[i].norm.paths
    BY DEF EffectLicensed, Free, Hit
  <2>1. i \in Calls /\ ThreadInv(i) /\ CallInv(i) /\ N \in Nat
    BY <1>1, CallCount DEF BrokerInv
  <2>2. calls[i].decision \in {"allow", "approved_once", "approved_for_session"}
    BY <2>1 DEF CallInv, Started, StartedAfter
  <2>3. ASSUME NEW j \in 1 .. i - 1, calls[j].decision = "approved_for_session",
               calls[j].session = calls[i].session,
               Scope(calls[j].norm) = Scope(calls[i].norm)
        PROVE  /\ calls[j].req.tool = calls[i].req.tool
               /\ calls[j].norm.paths = calls[i].norm.paths
               /\ calls[j].norm.argv = calls[i].norm.argv
               /\ calls[j].norm.detail = calls[i].norm.detail
    <3>1. j \in 1 .. N BY <2>1
    <3>2. Normalized(calls[j]) /\ Normalized(calls[i]) BY <1>1, <2>1, <3>1 DEF BrokerInv, CallInv
    <3> QED BY <2>3, <3>2 DEF Normalized, Scope
  <2>4. \/ Free(scene.facts, calls[i].mode, calls[i].req.tool, calls[i].norm.paths)
        \/ calls[i].req.tool = "activate_skill" /\ calls[i].norm.active
        \/ calls[i].decision \in {"approved_once", "approved_for_session"}
        \/ \E j \in 1 .. i - 1 : /\ calls[j].decision = "approved_for_session"
                                /\ calls[j].session = calls[i].session
                                /\ Scope(calls[j].norm) = Scope(calls[i].norm)
    BY <2>1, <2>2 DEF CallInv, Judged
  <2>5. /\ \A p \in calls[i].norm.paths :
             ~Hit(scene.facts.builtin_path_deny \union scene.facts.path_deny, p)
        /\ calls[i].req.tool = "shell_exec" => ~ShellDenied(scene.facts, calls[i].norm.argv)
    BY <2>1, <2>2 DEF CallInv, Judged
  <2>6. thread[i].created \subseteq calls[i].norm.paths BY <2>1 DEF ThreadInv
  <2>7. \A p \in Files : disk.file[p] = i => p \in calls[i].norm.paths
    BY <1>1, <2>1 DEF BrokerInv, DiskKnown
  <2> QED BY <2>3, <2>4, <2>5, <2>6, <2>7
<1> QED BY <1>1, BrokerInvariance, PTL

\* The terminal events of an audit, by their places in it.
Terminal == {"completed", "failed", "denied"}
Ends(a) == {k \in DOMAIN a : a[k] \in Terminal}

\* An audit without terminal event, and one more event after it.
LEMMA Audit1 ==
  ASSUME NEW a, NEW e, a = <<e>>
  PROVE  /\ Len(a) = 1 /\ ToSet(a) = {e}
         /\ e \in Terminal => Ends(a) = {1}
         /\ e \notin Terminal => Ends(a) = {}
<1>1. DOMAIN a = {1} /\ a[1] = e /\ Len(a) = 1 OBVIOUS
<1> QED BY <1>1 DEF ToSet, Ends, Terminal

\* Two events.
LEMMA Audit2 ==
  ASSUME NEW a, NEW d, d \notin Terminal, NEW e, a = <<d, e>>
  PROVE  /\ Len(a) = 2 /\ ToSet(a) = {d, e}
         /\ e \in Terminal => Ends(a) = {2}
         /\ e \notin Terminal => Ends(a) = {}
<1>1. DOMAIN a = {1, 2} /\ a[1] = d /\ a[2] = e /\ Len(a) = 2 OBVIOUS
<1> QED BY <1>1 DEF ToSet, Ends, Terminal

\* Three events.
LEMMA Audit3 ==
  ASSUME NEW a, NEW b, b \notin Terminal,
         NEW d, d \notin Terminal, NEW e, a = <<b, d, e>>
  PROVE  /\ Len(a) = 3 /\ ToSet(a) = {b, d, e}
         /\ e \in Terminal => Ends(a) = {3}
         /\ e \notin Terminal => Ends(a) = {}
<1>1. DOMAIN a = {1, 2, 3} /\ a[1] = b /\ a[2] = d /\ a[3] = e /\ Len(a) = 3 OBVIOUS
<1> QED BY <1>1 DEF ToSet, Ends, Terminal

\* Four events.
LEMMA Audit4 ==
  ASSUME NEW a, NEW b, b \notin Terminal,
         NEW c, c \notin Terminal,
         NEW d, d \notin Terminal, NEW e, a = <<b, c, d, e>>
  PROVE  /\ Len(a) = 4 /\ ToSet(a) = {b, c, d, e}
         /\ e \in Terminal => Ends(a) = {4}
<1>1. DOMAIN a = {1, 2, 3, 4} /\ a[1] = b /\ a[2] = c /\ a[3] = d /\ a[4] = e /\ Len(a) = 4
  OBVIOUS
<1> QED BY <1>1 DEF ToSet, Ends, Terminal

\* What the audit of a call says, next to the call.
AuditFits(c) ==
    /\ c.pc = "returned" /\ c.result # "raised" => Ends(c.audit) = {Len(c.audit)}
    /\ c.pc # "returned" \/ c.result = "raised" => Ends(c.audit) = {}
    /\ "completed" \in ToSet(c.audit) <=> c.result = "ok"
    /\ "denied" \in ToSet(c.audit) <=> c.result = "denied" /\ "started" \notin ToSet(c.audit)
    /\ c.decision \in {"approved_once", "approved_for_session"}
         => SubSeq(c.audit, 1, 2) = <<"requested", "decided">>

\* An audit of a question that was answered.
LEMMA AuditStart ==
  ASSUME NEW s \in Seq(Events), Len(s) >= 2, s[1] = "requested", s[2] = "decided"
  PROVE  SubSeq(s, 1, 2) = <<"requested", "decided">>
<1>1. PICK t : t = <<"requested", "decided">> OBVIOUS
<1>2. t \in Seq(Events) /\ Len(t) = 2 /\ t[1] = "requested" /\ t[2] = "decided"
  BY <1>1 DEF Events
<1>3. /\ SubSeq(s, 1, 2) \in Seq(Events) /\ Len(SubSeq(s, 1, 2)) = 2
      /\ SubSeq(s, 1, 2)[1] = s[1] /\ SubSeq(s, 1, 2)[2] = s[2]
  BY SubSeqProperties, LenProperties
<1>4. \A k \in 1 .. 2 : SubSeq(s, 1, 2)[k] = t[k] BY <1>2, <1>3
<1> QED BY <1>1, <1>2, <1>3, <1>4, SeqEqual

\* The audit of a call that no handler ran for.
LEMMA UnstartedAudit ==
  ASSUME NEW c, CallRec(c), Unstarted(c)
  PROVE  AuditFits(c) /\ "started" \notin ToSet(c.audit)
<1> DEFINE a == c.audit
<1>1. a \in Seq(Events) BY CallFields
<1>2. CASE a = <<>>
  <2>1. Ends(a) = {} /\ ToSet(a) = {} BY <1>2 DEF Ends, ToSet
  <2> QED BY <1>2, <2>1 DEF AuditFits, Unstarted, At
<1>3. CASE a = <<"failed">>
  <2>1. Len(a) = 1 /\ ToSet(a) = {"failed"} /\ Ends(a) = {1} BY <1>3, Audit1 DEF Terminal
  <2> QED BY <1>3, <2>1 DEF AuditFits, Unstarted, At
<1>4. CASE a = <<"denied">>
  <2>1. Len(a) = 1 /\ ToSet(a) = {"denied"} /\ Ends(a) = {1} BY <1>4, Audit1 DEF Terminal
  <2> QED BY <1>4, <2>1 DEF AuditFits, Unstarted, At
<1>5. CASE a = <<"requested">>
  <2>1. ToSet(a) = {"requested"} /\ Ends(a) = {} BY <1>5, Audit1 DEF Terminal
  <2> QED BY <1>5, <2>1 DEF AuditFits, Unstarted, At
<1>6. CASE a = <<"requested", "decided">>
  <2>1. ToSet(a) = {"requested", "decided"} /\ Ends(a) = {} BY <1>6, Audit2 DEF Terminal
  <2>2. Len(a) >= 2 /\ a[1] = "requested" /\ a[2] = "decided" BY <1>6
  <2>3. SubSeq(a, 1, 2) = <<"requested", "decided">> BY <1>1, <2>2, AuditStart
  <2> QED BY <1>6, <2>1, <2>3 DEF AuditFits, Unstarted, At
<1>7. CASE a = <<"requested", "decided", "denied">>
  <2>1. Len(a) = 3 /\ ToSet(a) = {"requested", "decided", "denied"} /\ Ends(a) = {3}
    BY <1>7, Audit3 DEF Terminal
  <2> QED BY <1>7, <2>1 DEF AuditFits, Unstarted, At
<1> QED BY <1>2, <1>3, <1>4, <1>5, <1>6, <1>7 DEF Unstarted

\* The audit of a call whose handler was started.
LEMMA StartedAudit ==
  ASSUME NEW c, CallRec(c), Started(c)
  PROVE  AuditFits(c) /\ "started" \in ToSet(c.audit)
<1> DEFINE a == c.audit
<1>1. a \in Seq(Events) BY CallFields
<1>2. CASE StartedAfter(c, {"allow"}, <<"started">>, <<"started", "completed">>,
                        <<"started", "failed">>)
  <2>1. CASE a = <<"started">> /\ At(c, "running")
    <3>1. ToSet(a) = {"started"} /\ Ends(a) = {} BY <2>1, Audit1 DEF Terminal
    <3> QED BY <1>2, <2>1, <3>1 DEF AuditFits, StartedAfter, At
  <2>2. CASE a = <<"started", "completed">> /\ Succeeded(c)
    <3>1. Len(a) = 2 /\ ToSet(a) = {"started", "completed"} /\ Ends(a) = {2}
      BY <2>2, Audit2 DEF Terminal
    <3> QED BY <1>2, <2>2, <3>1 DEF AuditFits, StartedAfter, Succeeded
  <2>3. CASE a = <<"started", "failed">> /\ Failed(c)
    <3>1. Len(a) = 2 /\ ToSet(a) = {"started", "failed"} /\ Ends(a) = {2}
      BY <2>3, Audit2 DEF Terminal
    <3> QED BY <1>2, <2>3, <3>1 DEF AuditFits, StartedAfter, Failed
  <2> QED BY <1>2, <2>1, <2>2, <2>3 DEF StartedAfter
<1>3. CASE StartedAfter(c, {"approved_once", "approved_for_session"},
                        <<"requested", "decided", "started">>,
                        <<"requested", "decided", "started", "completed">>,
                        <<"requested", "decided", "started", "failed">>)
  <2>1. CASE a = <<"requested", "decided", "started">> /\ At(c, "running")
    <3>1. ToSet(a) = {"requested", "decided", "started"} /\ Ends(a) = {}
      BY <2>1, Audit3 DEF Terminal
    <3>2. Len(a) >= 2 /\ a[1] = "requested" /\ a[2] = "decided" BY <2>1
    <3>3. SubSeq(a, 1, 2) = <<"requested", "decided">> BY <1>1, <3>2, AuditStart
    <3> QED BY <1>3, <2>1, <3>1, <3>3 DEF AuditFits, StartedAfter, At
  <2>2. CASE a = <<"requested", "decided", "started", "completed">> /\ Succeeded(c)
    <3>1. /\ Len(a) = 4 /\ ToSet(a) = {"requested", "decided", "started", "completed"}
          /\ Ends(a) = {4}
      BY <2>2, Audit4 DEF Terminal
    <3>2. Len(a) >= 2 /\ a[1] = "requested" /\ a[2] = "decided" BY <2>2
    <3>3. SubSeq(a, 1, 2) = <<"requested", "decided">> BY <1>1, <3>2, AuditStart
    <3> QED BY <1>3, <2>2, <3>1, <3>3 DEF AuditFits, StartedAfter, Succeeded
  <2>3. CASE a = <<"requested", "decided", "started", "failed">> /\ Failed(c)
    <3>1. /\ Len(a) = 4 /\ ToSet(a) = {"requested", "decided", "started", "failed"}
          /\ Ends(a) = {4}
      BY <2>3, Audit4 DEF Terminal
    <3>2. Len(a) >= 2 /\ a[1] = "requested" /\ a[2] = "decided" BY <2>3
    <3>3. SubSeq(a, 1, 2) = <<"requested", "decided">> BY <1>1, <3>2, AuditStart
    <3> QED BY <1>3, <2>3, <3>1, <3>3 DEF AuditFits, StartedAfter, Failed
  <2> QED BY <1>3, <2>1, <2>2, <2>3 DEF StartedAfter
<1> QED BY <1>2, <1>3 DEF Started

\* A call's audit ends with one terminal event that agrees with the result, and
\* no handler runs without "started" and, where the user was asked, an answer.
THEOREM AuditComplete == Spec => []AuditTrail
<1>1. ASSUME BrokerInv PROVE AuditTrail
  <2>1. ASSUME NEW i \in 1 .. N
        PROVE  /\ AuditFits(calls[i])
               /\ "started" \in ToSet(calls[i].audit) <=> thread[i].pc # "none"
    <3>1. CallRec(calls[i]) /\ CallInv(i) BY <1>1 DEF BrokerInv, Typed
    <3>2. CASE thread[i].pc = "none" BY <3>1, <3>2, UnstartedAudit DEF CallInv
    <3>3. CASE thread[i].pc # "none" BY <3>1, <3>3, StartedAudit DEF CallInv
    <3> QED BY <3>2, <3>3
  <2> QED BY <2>1 DEF AuditTrail, AuditFits, Ends, Terminal
<1> QED BY <1>1, BrokerInvariance, PTL

\* A file becomes the content of a call only when the call's handler puts it
\* there; an exclusive create finds no file.
LEMMA OnlyPutWrites ==
  ASSUME BrokerInv, [Next]_vars, NEW i \in Calls, NEW f \in Files,
         disk'.file[f] = i, disk.file[f] # i
  PROVE  thread[i].pc = "put" /\ f = Target(i) /\ (thread[i].existed \/ disk.file[f] = Absent)
<1>1. disk.file \in [Files -> Contents] BY DEF BrokerInv, Typed
<1>2. disk' # disk OBVIOUS
<1>3. ASSUME NEW g \in Files, NEW c \in Contents, External(g, c) PROVE FALSE
  <2>1. c \in {Absent, Base + disk.edits + 1} /\ disk.edits \in Nat
    BY <1>3 DEF External, BrokerInv, Typed
  <2>2. c \notin Calls BY <2>1, BrokerAssumption DEF Absent, Base, Calls
  <2>3. disk'.file = [disk.file EXCEPT ![g] = c] BY <1>3 DEF External, BrokerInv, Typed
  <2> QED BY <1>1, <2>2, <2>3
<1>4. ASSUME NEW j \in Calls, Handler(j) PROVE Put(j) \/ MakeDir(j)
  BY <1>2, <1>4 DEF Handler, Start, Scan, TakeLock, Guard, EditRead, CheckWrite, CheckWritten,
       Record, Finish, Work, StoreArtifact, ActivateSkill, ReadPlan, ReplacePlan
<1>5. ASSUME NEW j \in Calls, MakeDir(j) PROVE FALSE
  <2>1. disk'.file = disk.file BY <1>2, <1>5 DEF MakeDir, BrokerInv, Typed
  <2> QED BY <2>1
<1>6. ASSUME NEW j \in Calls, Put(j)
      PROVE  thread[i].pc = "put" /\ f = Target(i) /\ (thread[i].existed \/ disk.file[f] = Absent)
  <2>1. /\ thread[j].pc = "put" /\ disk' = [disk EXCEPT !.file[Target(j)] = j]
        /\ thread[j].existed \/ disk.file[Target(j)] = Absent
    BY <1>2, <1>6 DEF Put
  <2>2. disk'.file = [disk.file EXCEPT ![Target(j)] = j] BY <2>1 DEF BrokerInv, Typed
  <2>3. f = Target(j) /\ i = j BY <1>1, <2>2
  <2> QED BY <2>1, <2>3
<1>7. ASSUME ~\E j \in Calls : Handler(j), ~\E g \in Files, c \in Contents : External(g, c)
      PROVE  disk' = disk
  BY <1>7 DEF Next, Broker, Invoke, Execute, Collect, BoundaryOpen, TimeOut, Interrupted, Answer, Expire,
              NextTurn, Restart, vars
<1> QED BY <1>2, <1>3, <1>4, <1>5, <1>6, <1>7

\* What a write replaces: a content of a quiet moment that the agent was shown,
\* and of this process only what the writer's guard has seen.
LEMMA WhatIsReplaced ==
  ASSUME BrokerInv, [Next]_vars, NEW i \in Calls, NEW f \in Files,
         disk'.file[f] = i, disk.file[f] # i
  PROVE  Shown(disk.file[f]) /\ (disk.file[f] \in Calls => disk.file[f] = thread[i].saw)
<1>1. thread[i].pc = "put" /\ f = Target(i) /\ (thread[i].existed \/ disk.file[f] = Absent)
  BY OnlyPutWrites
<1>2. CASE thread[i].existed
  BY <1>1, <1>2 DEF BrokerInv, ThreadInv, FileOf, Guarded
<1>3. CASE disk.file[f] = Absent
  BY <1>3, BrokerAssumption DEF BrokerInv, Numbered, Typed, Absent, Base, Calls, Shown
<1> QED BY <1>1, <1>2, <1>3

\* A write never destroys a content that another program made in a quiet moment
\* and that the agent was never shown.
THEOREM StaleWritesRefused == Spec => StaleWriteRefused
<1>1. BrokerInv /\ [Next]_vars
      => [\A i \in Calls, f \in Files :
            disk'.file[f] = i /\ disk.file[f] # i /\ disk.file[f] \in seen.quiet
               => disk.file[f] \in seen.shown]_vars
  BY WhatIsReplaced DEF Shown
<1> QED BY <1>1, BrokerInvariance, PTL DEF Spec, StaleWriteRefused

\* Of two writes of the process, the second replaces what its guard saw.
THEOREM WritesSerialized == Spec => OwnWritesSerialized
<1>1. BrokerInv /\ [Next]_vars
      => [\A i \in Calls, f \in Files :
            disk'.file[f] = i /\ disk.file[f] \in Calls \ {i} => disk.file[f] = thread[i].saw]_vars
  BY WhatIsReplaced
<1> QED BY <1>1, BrokerInvariance, PTL DEF Spec, OwnWritesSerialized
=============================================================================
