------------------------- MODULE ToolBrokerInvariant -------------------------
(***************************************************************************)
(* The inductive invariant behind the safety properties of ToolBroker.     *)
(***************************************************************************)
EXTENDS ToolBroker

(* Types.  A field whose values no property ranges over, such as a         *)
(* normalized argument, is typed by its own value: that the field is there. *)

CallRec(c) ==
    c \in [req : {c.req}, norm : {c.norm}, session : Sessions, mode : Modes,
           pc : {"asking", "ready", "running", "returned"}, decision : Decisions,
           result : Results, audit : Seq(Events)]

ThreadRec(t) ==
    t \in [pc : ThreadAt, saw : Contents, existed : BOOLEAN, todo : {t.todo},
           created : {t.created}, stage : SUBSET (Files \X Contents),
           abandoned : BOOLEAN, late : BOOLEAN, out : Outs]

Replies == [session : Sessions, mode : Modes, turn : {"on", "over"}]
Plans == [Sessions -> [version : 0 .. MaxCalls, by : 0 .. MaxCalls]]

Typed ==
    /\ scene \in Scenarios /\ repl \in Replies
    /\ calls \in Seq(ToSet(calls)) /\ N <= MaxCalls
    /\ \A i \in 1 .. N : CallRec(calls[i])
    /\ thread = [i \in Calls |-> thread[i]] /\ \A i \in Calls : ThreadRec(thread[i])
    /\ disk \in [file : [Files -> Contents], dirs : {disk.dirs}, edits : Nat]
    /\ cache \in [Files -> Contents] /\ lock \in [Files -> 0 .. MaxCalls]
    /\ store \in [grants : {store.grants}, skills : {store.skills}, plan : Plans,
                  artifacts : {store.artifacts}]
    /\ seen \in [shown : {seen.shown}, quiet : {seen.quiet}]

(* The calls. *)

Hit(entries, p) == \E e \in entries : Matches(e, p)

\* What a mode lets pass, given what the facts trust.
Free(f, mode, tool, paths) == FreeIn(mode, tool, \A p \in paths : Hit(f.path_trust, p))

\* What the policy said of the call, in terms of the facts and of earlier calls.
Judged(i) ==
    LET c == calls[i]
        f == scene.facts
    IN /\ c.decision \notin {"none", "deny"} =>
            /\ \A p \in c.norm.paths : ~Hit(f.builtin_path_deny \union f.path_deny, p)
            /\ c.req.tool = "shell_exec" => ~ShellDenied(f, c.norm.argv)
       /\ c.decision = "allow" =>
            \/ Free(f, c.mode, c.req.tool, c.norm.paths)
            \/ c.req.tool = "activate_skill" /\ c.norm.active
            \/ \E j \in 1 .. i - 1 :
                  /\ calls[j].decision = "approved_for_session" /\ calls[j].session = c.session
                  /\ Scope(calls[j].norm) = Scope(c.norm)

\* What normalization did with the call's arguments.
Normalized(c) ==
    /\ c.req \in scene.requests /\ c.norm.tool = c.req.tool
    /\ c.norm.parents \in Seq(c.norm.paths)
    /\ c.req.tool \in Writes => Head(c.req.paths) \in c.norm.paths

\* A call that waits for pc, or was given up there.
At(c, pc) ==
    \/ c.pc = pc /\ c.result = "none"
    \/ c.pc = "returned" /\ c.result = "raised"

Failed(c) == c.pc = "returned" /\ c.result \in {"error", "denied", "cancelled", "timeout"}
Succeeded(c) == c.pc = "returned" /\ c.result = "ok"

\* A call that no handler ran for, and its audit.
Unstarted(c) ==
    \/ c.decision = "none" /\ c.pc = "returned" /\ c.result = "error" /\ c.audit = <<"failed">>
    \/ c.decision = "deny" /\ c.pc = "returned" /\ c.result = "denied" /\ c.audit = <<"denied">>
    \/ c.decision = "ask" /\ At(c, "asking") /\ ~scene.interactive /\ c.audit = <<>>
    \/ c.decision = "ask" /\ At(c, "asking") /\ scene.interactive /\ c.audit = <<"requested">>
    \/ c.decision = "denied" /\ c.pc = "returned" /\ c.result = "denied"
         /\ c.audit \in {<<"denied">>, <<"requested", "decided", "denied">>}
    \/ c.decision = "allow" /\ At(c, "ready") /\ c.audit = <<>>
    \/ c.decision \in {"approved_once", "approved_for_session"} /\ At(c, "ready")
         /\ c.audit = <<"requested", "decided">>

\* A call whose handler was started, and its audit.
StartedAfter(c, decisions, started, completed, failed) ==
    /\ c.decision \in decisions
    /\ \/ At(c, "running") /\ c.audit = started
       \/ Succeeded(c) /\ c.audit = completed
       \/ Failed(c) /\ c.audit = failed

Started(c) ==
    \/ StartedAfter(c, {"allow"}, <<"started">>, <<"started", "completed">>,
                    <<"started", "failed">>)
    \/ StartedAfter(c, {"approved_once", "approved_for_session"},
                    <<"requested", "decided", "started">>,
                    <<"requested", "decided", "started", "completed">>,
                    <<"requested", "decided", "started", "failed">>)

CallInv(i) ==
    /\ Normalized(calls[i]) /\ Judged(i)
    /\ thread[i].pc = "none" => Unstarted(calls[i])
    /\ thread[i].pc # "none" => Started(calls[i])

\* One call at a time, of the session at the prompt.
LastOnly ==
    /\ \A i \in 1 .. N : i < N => calls[i].pc = "returned"
    /\ ~Idle => calls[N].session = repl.session

\* A session's approval was given for one of its calls.
GrantsKnown ==
    \A g \in store.grants : g.decision = "approved_for_session" =>
        \E j \in 1 .. N : /\ calls[j].decision = "approved_for_session"
                          /\ calls[j].session = g.session /\ Scope(calls[j].norm) = g.scope

(* The threads. *)

\* The steps of a write that need the file's lock, and those after the guard.
Holding == {"guard", "edit", "mkdir", "ready", "put"}
Guarded == {"edit", "ready", "put"}

\* A content of a quiet moment is one the agent was shown.
Shown(c) == c \in seen.quiet => c \in seen.shown

ToolOf(i) ==
    LET pc == thread[i].pc
    IN /\ pc = "scan" => Tool(i) = "read_file"
       /\ pc \in Holding \union {"lock", "written"} => Tool(i) \in Writes
       /\ pc = "record" => Tool(i) \in Writes \union {"read_file"} /\ Target(i) \in Files

LockOf(i) == thread[i].pc \in Holding => lock[Target(i)] = i

\* What the file is under a handler that is past its guard.
FileOf(i) ==
    LET t == thread[i]
        c == disk.file[Target(i)]
    IN /\ t.pc \in Guarded /\ t.existed => Shown(c) /\ (c \in Calls => c = t.saw)
       /\ t.pc = "written" \/ (t.pc = "record" /\ Tool(i) \in Writes) => c \notin seen.quiet
       /\ t.pc = "record" /\ Tool(i) = "read_file" => (c \in seen.quiet => c = t.saw)

\* What a handler will put into the cache is old, and if it is of a quiet
\* moment, the result shows it.
StageOf(i) ==
    /\ thread[i].pc \in {"start", "scan"} => thread[i].stage = {}
    /\ \A s \in thread[i].stage :
         /\ s[2] <= Base + disk.edits
         /\ s[2] \in seen.quiet => Tool(i) = "read_file" /\ s[2] = thread[i].saw

ThreadInv(i) ==
    /\ thread[i].pc = "none" => thread[i] = NoThread
    /\ thread[i].pc # "none" => i <= N
    /\ thread[i].pc = "done" => thread[i].out # "none"
    /\ thread[i].pc = "mkdir" => ~thread[i].existed
    /\ thread[i].pc # "none" => /\ thread[i].todo \in Seq(calls[i].norm.paths)
                                /\ thread[i].created \subseteq calls[i].norm.paths
    /\ ToolOf(i) /\ LockOf(i) /\ FileOf(i) /\ StageOf(i)

\* Contents are numbered in the order they are made.
Numbered ==
    /\ seen.quiet \subseteq Base .. Base + disk.edits
    /\ \A f \in Files : disk.file[f] <= Base + disk.edits /\ cache[f] <= Base + disk.edits

\* A file that holds a call's content is one of the call's paths.
DiskKnown ==
    \A p \in Files : disk.file[p] \in Calls =>
        disk.file[p] <= N /\ p \in calls[disk.file[p]].norm.paths

CacheKnown == \A f \in Files : Shown(cache[f])

\* A plan's version counts handlers that are through with it.
Through == {i \in Calls : thread[i].pc \in {"finish", "artifact", "done", "gone"}}

PlanCounted ==
    /\ \A s \in Sessions : store.plan[s].version <= Cardinality(Through)
    /\ \A i \in Calls : thread[i].pc = "plan" => thread[i].saw <= Cardinality(Through)

BrokerInv ==
    /\ Typed /\ LastOnly /\ GrantsKnown /\ Numbered /\ DiskKnown /\ CacheKnown /\ PlanCounted
    /\ \A i \in 1 .. N : CallInv(i)
    /\ \A i \in Calls : ThreadInv(i)
=============================================================================
