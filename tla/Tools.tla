------------------------------- MODULE Tools --------------------------------
(***************************************************************************)
(* Tools over a pipe: a client (mcp/client.rs) sends one request after the   *)
(* other, line by line, and reads one line for each, or gives up; the server *)
(* (run_stdio_server_with_capabilities of mcp/server.rs) takes the lines in  *)
(* order, handles a tool by operations of the GitHub client, and answers.    *)
(* Which forks a cleanup deletes is the subject of Mcp.                     *)
(***************************************************************************)
EXTENDS Naturals, Sequences, GitHubOperations

CONSTANTS
  Wanted,       \* the names of tools that a client may ask for
  MaxQuestions  \* bound: requests of a session

VARIABLE
  session       \* the grant, the lines in the two pipes, the requests sent, the one
                \* that waits, what was told last, what changed at the host, and
                \* whether the client ever gave up

toolsVars == session

(***************************************************************************)
(* The tools                                                               *)
(***************************************************************************)
\* tool_definitions, in the order of the source.
RepositoryTools ==
  {"search_repos", "get_repo_info", "get_file_tree", "get_file_content", "get_open_issues", "fork_repo",
   "create_branch", "push_file_change"}
PullRequestTools ==
  {"close_pr", "check_duplicate_pr", "check_ai_policy", "get_stats", "list_admission_audit", "patrol_prs",
   "cleanup_forks", "add_pr_review_comment"}
ReviewAndRunTools ==
  {"dismiss_review", "get_pr_reviews", "get_pr_comments", "get_authenticated_user", "list_runs",
   "inspect_run", "get_run_evidence", "inspect_consent", "estimate_review_surface"}

IsMutatingTool(tool) ==
  tool \in {"fork_repo", "create_branch", "push_file_change", "create_pr", "close_pr", "cleanup_forks",
            "add_pr_review_comment", "dismiss_review"}

NonDelegableTools == {"create_pr"}

\* What is advertised.
ToolDefinitions(grant) ==
  {t \in (RepositoryTools \cup PullRequestTools \cup ReviewAndRunTools) \ NonDelegableTools :
     grant \/ ~IsMutatingTool(t)}

\* How a tool is handled: by which operations, and what becomes of an error: it ends
\* the tool, it is told in the answer, or the tool goes on and says nothing.  What
\* only reads the memory and the artifacts has no operations.
Handled(operations, error) == [operations |-> operations, error |-> error]
Locally == Handled(<<>>, "ends")

RepositoryCalls ==
  [search_repos |-> Handled(<<"search_repositories">>, "ends"),
   get_repo_info |-> Handled(<<"get_repo_details">>, "ends"),
   get_file_tree |-> Handled(<<"get_file_tree_verbose">>, "ends"),
   get_file_content |-> Handled(<<"get_file_content">>, "ends"),
   get_open_issues |-> Handled(<<"get_open_issues">>, "ends"),
   fork_repo |-> Handled(<<"fork_repository">>, "ends"),
   create_branch |-> Handled(<<"create_branch">>, "ends"),
   push_file_change |-> Handled(<<"create_or_update_file">>, "ends")]

\* One policy file is enough: the others are like it.
PolicyCalls ==
  [get_stats |-> Locally, list_admission_audit |-> Locally,
   close_pr |-> Handled(<<"close_pull_request">>, "told"), check_duplicate_pr |-> Locally,
   check_ai_policy |-> Handled(<<"get_file_content">>, "ends")]

\* A fork is looked up before it is deleted, and listed as one to delete
\* whether or not it could be.
PullRequestCalls ==
  [patrol_prs |-> Handled(<<"get_pr_comments", "get_pr_review_comments">>, "goes on"),
   cleanup_forks |-> Handled(<<"list_user_forks", "get_repo_details", "delete_repository">>, "goes on"),
   add_pr_review_comment |-> Handled(<<"create_pr_comment">>, "ends")]

ReviewAndRunCalls ==
  [dismiss_review |-> Handled(<<"dismiss_review">>, "ends"),
   get_pr_reviews |-> Handled(<<"get_pr_reviews">>, "ends"),
   get_pr_comments |-> Handled(<<"get_pr_comments">>, "ends"),
   get_authenticated_user |-> Handled(<<"get_authenticated_user">>, "ends"), list_runs |-> Locally,
   inspect_run |-> Locally, get_run_evidence |-> Locally,
   inspect_consent |-> Handled(<<"get_file_content">>, "goes on"),
   estimate_review_surface |-> Locally]

Calls == Joined({RepositoryCalls, PolicyCalls, PullRequestCalls, ReviewAndRunCalls})

(***************************************************************************)
(* The server                                                              *)
(***************************************************************************)
\* An answer: of which request, and what it says: done, failed, or refused because the
\* tool is not to be had.
Answer(id, says) == [id |-> id, says |-> says]

\* handle_tool_call: the answers there can be, with what changed at the host.  An
\* operation that fails may have changed something too, and local ones fail for want
\* of a run.
HandleToolCall(tool) ==
  IF tool \in NonDelegableTools \/ (IsMutatingTool(tool) /\ ~session.grant) \/ tool \notin DOMAIN Calls
  THEN {[says |-> "refused", changes |-> {}]}
  ELSE LET handled == Calls[tool]
           all == UNION {Effects(handled.operations[i]) : i \in DOMAIN handled.operations}
       IN {[says |-> "done", changes |-> c] : c \in IF handled.error = "goes on" THEN SUBSET all ELSE {all}}
          \cup {[says |-> "failed", changes |-> c] : c \in SUBSET all}

\* Seeded fault: every line is answered, notifications too.
IsAnsweredAlways(method) == TRUE

IsAnswered(method) == method \notin {"notifications/initialized", "ping"}

\* One line of run_stdio_server_with_capabilities.
Serve ==
  /\ session.toServer # <<>>
  /\ LET line == Head(session.toServer)
     IN IF ~IsAnswered(line.method) THEN session' = [session EXCEPT !.toServer = Tail(@)]
        ELSE \E outcome \in IF line.method = "tools/call" THEN HandleToolCall(line.tool)
                            ELSE {[says |-> IF line.method \in {"initialize", "tools/list"} THEN "done" ELSE "refused",
                                   changes |-> {}]} :
               session' = [session EXCEPT !.toServer = Tail(@),
                                          !.toClient = Append(@, Answer(line.id, outcome.says)),
                                          !.changed = @ \cup outcome.changes]

(***************************************************************************)
(* The client                                                              *)
(***************************************************************************)
Line(id, method, tool) == [id |-> id, method |-> method, tool |-> tool]

Nobody == Line(0, "none", "none")

SessionAt(grant, phase) ==
  session = [grant |-> grant, phase |-> phase, toServer |-> <<>>, toClient |-> <<>>, sent |-> 0,
             waiting |-> Nobody, asked |-> Nobody, answer |-> Answer(0, "none"), changed |-> {}, late |-> FALSE]

ToolsInit == \E grant \in BOOLEAN : SessionAt(grant, "new")

\* The first half of send_request.
Send(phase, method, tool) ==
  LET line == Line(session.sent + 1, method, tool)
  IN /\ session.waiting = Nobody /\ session.sent < MaxQuestions
     /\ session' = [session EXCEPT !.phase = phase, !.sent = @ + 1, !.waiting = line, !.toServer = Append(@, line)]

Connect == session.phase = "new" /\ Send("connecting", "initialize", "none")

ListTools == session.phase = "ready" /\ Send("ready", "tools/list", "none")

CallTool(tool) == session.phase = "ready" /\ Send("ready", "tools/call", tool)

\* The second half: the first line that is there, whatever it answers; the lines
\* behind it are lost with the reader's buffer.  connect goes on with a
\* notification.
Receive ==
  /\ session.waiting # Nobody /\ session.toClient # <<>>
  /\ session' = [session EXCEPT
       !.phase = "ready", !.toClient = <<>>, !.waiting = Nobody,
       !.asked = session.waiting, !.answer = Head(session.toClient),
       !.toServer = IF session.phase = "connecting"
                    THEN Append(@, Line(0, "notifications/initialized", "none")) ELSE @]

\* The timeout: the request stays where it is.  A connection that failed is given up.
GiveUp ==
  /\ session.waiting # Nobody /\ session.toClient = <<>>
  /\ session' = [session EXCEPT !.waiting = Nobody, !.late = TRUE,
                                !.phase = IF @ = "connecting" THEN "failed" ELSE @]

ToolsNext ==
  \/ Serve \/ Connect \/ ListTools \/ Receive \/ GiveUp
  \/ \E tool \in Wanted : CallTool(tool)

ToolsSpec == ToolsInit /\ [][ToolsNext]_toolsVars

(***************************************************************************)
(* Properties                                                              *)
(***************************************************************************)
\* A client that never gave up is answered what it asked for, and what it is told was
\* done was done at the host; except that a cleanup tells what it meant to delete.
\* It is refused a tool if and only if the list it is shown lacks it, and without a
\* grant nothing changes at the host.
\* (A client that gave up once takes the late answer for the next one.)
AnswersAreToTheirRequests ==
  ~session.late =>
    /\ session.answer.id = session.asked.id
    /\ session.changed # {} => session.grant
    /\ session.asked.method = "tools/call" =>
         (session.answer.says = "refused" <=> session.asked.tool \notin ToolDefinitions(session.grant))
    /\ session.asked.method = "tools/call" /\ session.answer.says = "done" /\ session.asked.tool # "cleanup_forks" =>
         \A i \in DOMAIN Calls[session.asked.tool].operations :
           Effects(Calls[session.asked.tool].operations[i]) \subseteq session.changed
=============================================================================
