------------------------------ MODULE ToolPolicy ------------------------------
(***************************************************************************)
(* The permission decision of a tool call (runtime/policy.py) and the      *)
(* scope of an approval.  Paths are canonical: sequences of components.    *)
(* An argv token is a record: its lower-case identity id, its form, the    *)
(* path it would name, and whether it looks like one.                      *)
(***************************************************************************)
EXTENDS Naturals, FiniteSets, Sequences, SequencesExt

TokenForms == {"word", "dash", "pathopt", "optassign", "envassign"}

Under(p, dir) == IsPrefix(dir, p)

\* _entry_matches
Matches(entry, p) ==
    \/ \E i \in DOMAIN p : p[i] = entry.component
    \/ IF entry.subtree THEN Under(p, entry.path) ELSE p = entry.path

\* Mutant: trust is looked up before deny.
ClassifyTrustFirst(facts, p) ==
    IF \E e \in facts.path_trust : Matches(e, p) THEN "trusted"
    ELSE IF \E e \in facts.builtin_path_deny \union facts.path_deny : Matches(e, p)
           THEN "denied" ELSE "untrusted"

\* PermissionEvaluator.classify_path: a deny entry wins over a trust entry.
Classify(facts, p) ==
    IF \E e \in facts.builtin_path_deny \union facts.path_deny : Matches(e, p) THEN "denied"
    ELSE IF \E e \in facts.path_trust : Matches(e, p) THEN "trusted" ELSE "untrusted"

\* build_builtin_policy: runtime directories are denied by name, the workspace
\* is trusted; load_main_agent_policy adds the user's entries to it.
PolicyFacts(workspace, runtimeDirs, userTrust, userDeny, shellAllow, shellDeny) ==
    [builtin_path_deny |->
         {[path |-> Append(workspace, d), subtree |-> TRUE, component |-> d] : d \in runtimeDirs},
     path_trust |-> {[path |-> workspace, subtree |-> TRUE, component |-> ""]} \union userTrust,
     path_deny |-> userDeny, shell_allow |-> shellAllow, shell_deny |-> shellDeny]

-----------------------------------------------------------------------------
(* Shell commands *)

\* normalize_shell_argv: "env A=1 cmd" is judged as "cmd".
NormalizeArgv(argv) ==
    LET Assigned == {i \in 2 .. Len(argv) : \A j \in 2 .. i : argv[j].form = "envassign"}
        tokens == IF argv # <<>> /\ argv[1].id = "env"
                    THEN SubSeq(argv, 2 + Cardinality(Assigned), Len(argv)) ELSE argv
    IN [i \in DOMAIN tokens |-> tokens[i].id]

\* A token after a path option is that option's value, even if it is an option.
IsOptionValue(argv, i) ==
    LET Run == {j \in 2 .. i - 1 : \A k \in j .. i - 1 : argv[k].form = "pathopt"}
    IN Cardinality(Run) % 2 = 1

\* classify_argv_paths
ArgvPaths(argv) ==
    LET Names(i) == IF i > 1 /\ IsOptionValue(argv, i)
                      THEN argv[i].form \in {"word", "envassign"}
                      ELSE argv[i].like /\ (i = 1 \/ argv[i].form \notin {"dash", "pathopt"})
    IN {argv[i].path : i \in {i \in DOMAIN argv : Names(i)}}

\* is_builtin_shell_denied
BuiltinShellDenied(ids) ==
    \/ ids = <<>>
    \/ ids[1] \in {"sudo", "su", "doas"}
    \/ ids[1] = "rm" /\ \E i \in 2 .. Len(ids) : ids[i] \in {"-r", "-rf", "--recursive"}
    \/ Len(ids) >= 2 /\ <<ids[1], ids[2]>> \in {<<"sh", "-c">>, <<"bash", "-c">>}

MatchesPrefix(prefixes, ids) == \E prefix \in prefixes : IsPrefix(prefix, ids)

\* The shell rules of evaluate: the builtin denials, a deny prefix, or a miss
\* of every allow prefix.
ShellDenied(facts, ids) ==
    \/ BuiltinShellDenied(ids)
    \/ MatchesPrefix(facts.shell_deny, ids)
    \/ facts.shell_allow # {} /\ ~MatchesPrefix(facts.shell_allow, ids)

-----------------------------------------------------------------------------
(* The decision.  A normalized call is a record of its tool, paths, shell  *)
(* identities, scope, and what its runtime-control target turned out to be. *)

Tools == {"read_file", "search_text", "write_file", "edit_file", "shell_exec",
          "view_image", "activate_skill", "load_skill_resource", "todo"}

\* The risk levels of the tool definitions.
Risk(tool) ==
    CASE tool \in {"read_file", "search_text", "view_image", "load_skill_resource"} -> "read"
      [] tool \in {"write_file", "edit_file"} -> "write"
      [] tool = "shell_exec" -> "execute"
      [] OTHER -> "runtime_control"

\* scope_signature_for_tool, _phase_3_5_scope_signature: what a session approval
\* covers.  detail stands for the arguments that count besides the paths: the
\* pattern of a search, replace_all, the shell timeout, the skill's hash.
Scope(call) == [tool |-> call.tool, risk |-> Risk(call.tool), paths |-> call.paths,
                argv |-> call.argv, detail |-> call.detail]

\* _approval_mode_decision
AllowedByMode(mode, tool, trusted) ==
    \/ tool = "load_skill_resource"
    \/ Risk(tool) = "runtime_control" /\ mode # "normal"
    \/ Risk(tool) # "runtime_control" /\ \/ mode = "yolo"
                                         \/ mode = "normal" /\ Risk(tool) = "read" /\ trusted
                                         \/ mode = "semi-auto" /\ (Risk(tool) = "read" \/ trusted)

\* find_reusable, _matching_grant: denials are recorded too, and once-only ones.
Reusable(grants, session, call) ==
    \E g \in grants : /\ g.session = session /\ g.scope = Scope(call)
                      /\ g.decision = "approved_for_session"

\* PermissionEvaluator.evaluate, and the broker's exception for todo.
Evaluate(facts, mode, session, grants, call) ==
    LET classes == {Classify(facts, p) : p \in call.paths}
    IN IF call.tool = "todo" \/ (call.tool = "activate_skill" /\ call.active) THEN "allow"
       ELSE IF "denied" \in classes THEN "deny"
       ELSE IF call.tool = "shell_exec" /\ ShellDenied(facts, call.argv) THEN "deny"
       ELSE IF \/ AllowedByMode(mode, call.tool, classes \subseteq {"trusted"})
               \/ Reusable(grants, session, call) THEN "allow"
       ELSE "ask"
=============================================================================
