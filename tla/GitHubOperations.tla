-------------------------- MODULE GitHubOperations --------------------------
(***************************************************************************)
(* The operations of the GitHub client (github/client.rs), as sequences of  *)
(* requests.  What is read is abstracted to whether there was something.    *)
(***************************************************************************)

\* A request: its method, what it changes at the host, whether the operation needs
\* what it reads, and what an error means: the end of the operation, or an absence
\* after which the operation goes on, or which is its answer.
Request(method, effect) == [method |-> method, effect |-> effect, needed |-> FALSE, error |-> "ends"]
Get == Request("GET", "none")
Needed(request) == [request EXCEPT !.needed = TRUE]
IsAbsence(request) == [request EXCEPT !.error = "absence"]

RateLimitOperations ==
  [check_rate_limit |-> <<Get>>, ensure_rate_limit |-> <<Needed(Get)>>]

\* Without a branch the default branch is looked up first.
SearchOperations ==
  [search_repositories |-> <<Get>>, get_repo_details |-> <<Get>>,
   get_file_tree_verbose |-> <<Get, Get>>]
FileOperations ==
  [get_file_content |-> <<Get>>, get_file_content_with_sha |-> <<Get>>, get_open_issues |-> <<Get>>]

\* An issue that is a pull request is an error.  Any error means that the repository
\* has no guide at that path.
GuideOperations ==
  [get_issue |-> <<Needed(Get)>>,
   get_contributing_guide |-> <<IsAbsence(Get), IsAbsence(Get), IsAbsence(Get)>>]

\* The revision of a branch must be known.
ForkAndBranchOperations ==
  [fork_repository |-> <<Request("POST", "fork")>>,
   create_branch |-> <<Get, Needed(Get), Request("POST", "branch")>>,
   create_branch_at_sha |-> <<Request("POST", "branch")>>]

\* An update names the revision of the file that it replaces.  Nobody closes a pull
\* request with a comment.
CommitAndPullOperations ==
  [create_or_update_file |-> <<Request("PUT", "file")>>,
   create_pull_request |-> <<Get, Request("POST", "pull")>>,
   close_pull_request |-> <<Request("PATCH", "close")>>,
   update_pull_request |-> <<Request("PATCH", "edit")>>]

CommentOperations ==
  [get_pr_comments |-> <<Get>>, create_pr_comment |-> <<Request("POST", "comment")>>,
   get_pr_reviews |-> <<Get>>, get_pr_review_comments |-> <<Get>>,
   create_pr_review_comment_reply |-> <<Request("POST", "comment")>>]

\* The head of the pull request must be known.
ReviewOperations ==
  [dismiss_review |-> <<Request("PUT", "dismissal")>>, check_cla_signed |-> <<Needed(Get), Get>>,
   get_branch_info |-> <<Get>>, get_pr_diff |-> <<Get>>, get_authenticated_user |-> <<Get>>]

\* Checks that cannot be read are pending.
ListOperations ==
  [list_pull_requests |-> <<Get>>, get_combined_status |-> <<IsAbsence(Get)>>]

ForkOperations ==
  [list_user_forks |-> <<Get>>, delete_repository |-> <<Request("DELETE", "delete")>>,
   search_issues |-> <<Get>>]

\* Errors within an answer are errors of the operation.
GraphQlOperations ==
  [search_issues_graphql |-> <<Needed(Request("POST", "none"))>>]

IssueOperations ==
  [get_file_sha |-> <<Get>>, get_pr_details |-> <<Get>>, get_assigned_issues |-> <<Get>>,
   create_issue |-> <<Request("POST", "issue")>>,
   create_issue_with_labels |-> <<Request("POST", "issue")>>,
   close_issue |-> <<Request("POST", "comment"), Request("PATCH", "close")>>,
   get_issue_comments |-> <<Get>>, get_issue_timeline |-> <<Get>>, list_issues |-> <<Get>>]

\* Several tables as one.
Joined(tables) == [key \in UNION {DOMAIN t : t \in tables} |-> (CHOOSE t \in tables : key \in DOMAIN t)[key]]

Operations ==
  Joined({RateLimitOperations, SearchOperations, FileOperations, GuideOperations, ForkAndBranchOperations,
          CommitAndPullOperations, CommentOperations, ReviewOperations, ListOperations, ForkOperations,
          GraphQlOperations, IssueOperations})

\* What an operation changes.
Effects(operation) ==
  {Operations[operation][i].effect : i \in DOMAIN Operations[operation]} \ {"none"}
=============================================================================
