---------------------------- MODULE MCToolBroker ----------------------------
(***************************************************************************)
(* TLC instances of ToolBroker.                                            *)
(*   ApprovalScenes, StoreScenes: requests of every kind against trusted,  *)
(*     untrusted and denied paths and commands, all modes, two sessions.   *)
(*   FileScene, CreateScene: reads, writes and edits of one file against   *)
(*     each other, abandoned threads and another program.                  *)
(***************************************************************************)
EXTENDS ToolBroker, TLC

ws == <<"ws">>
file == <<"ws", "dir", "file">>
other == <<"other", "file">>
secret == <<"ws", ".git", "file">>

Request(tool, paths, detail) ==
    [tool |-> tool, paths |-> paths, argv |-> <<>>, cwd |-> ws, detail |-> detail,
     defect |-> "none"]

Token(id, form, like, path) == [id |-> id, form |-> form, like |-> like, path |-> path]
make == Token("make", "word", FALSE, ws)
env == Token("env", "word", FALSE, ws)
assign == Token("A=1", "envassign", FALSE, ws)
rm == Token("rm", "word", FALSE, ws)
flag == Token("-r", "dash", FALSE, ws)
out == Token("--file", "pathopt", FALSE, ws)
name == Token("x", "word", FALSE, other)
Command(argv) == [Request("shell_exec", <<ws>>, "30s") EXCEPT !.argv = argv]

Scene(requests, modes, interactive, bound, edits) ==
    [facts |-> PolicyFacts(ws, {".git", ".sessions"}, {},
                 {[path |-> <<"ws", "key">>, subtree |-> FALSE, component |-> "none"]},
                 {}, {<<"curl">>}),
     requests |-> requests, modes |-> modes, interactive |-> interactive,
     calls |-> bound, edits |-> edits,
     exist |-> {file}, dirs |-> {ws, <<"ws", "dir">>}, plain |-> FALSE, restarts |-> FALSE]

\* Ask, refuse, share an approval or not, reach another session.
ApprovalRequests ==
    {Request("read_file", <<other>>, "none"), Request("write_file", <<other>>, "none"),
     Request("view_image", <<file, secret>>, "none"),
     Command(<<make>>), Command(<<make, out, name>>)}

\* Refused commands, artifacts, images, skills, the plan.
StoreRequests ==
    {Request("read_file", <<secret>>, "artifact"), Request("view_image", <<file>>, "none"),
     Request("search_text", <<ws>>, "pattern"),
     Command(<<env, assign, rm, flag>>), Request("activate_skill", <<>>, "skill"),
     Request("load_skill_resource", <<>>, "skill"), Request("todo", <<>>, "none"),
     [Request("todo", <<>>, "none") EXCEPT !.defect = "schema"]}

FileRequests ==
    {Request("read_file", <<file>>, "none"), Request("write_file", <<file>>, "none"),
     Request("edit_file", <<file>>, "none")}

ApprovalScenes ==
    {[Scene(ApprovalRequests, {m}, TRUE, 2, 0) EXCEPT !.restarts = TRUE] : m \in Modes}
StoreScenes ==
    {[Scene(StoreRequests, {m}, FALSE, 2, 0) EXCEPT !.plain = TRUE] : m \in Modes}
FileScene == Scene(FileRequests, {"yolo"}, FALSE, 3, 1)
\* Another program creates the file, or its directory, while the tool does.
CreateScene == Scene({Request("write_file", <<other>>, "none")}, {"yolo"}, FALSE, 1, 1)
AllScenes == ApprovalScenes \union StoreScenes \union {FileScene, CreateScene}
AllFiles == {file, other}
=============================================================================
