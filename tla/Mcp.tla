-------------------------------- MODULE Mcp --------------------------------
(***************************************************************************)
(* The forks of the account and what deletes them: the MCP server           *)
(* (mcp/server.rs), whose tools read the memory and act on GitHub, and the  *)
(* `cleanup' command.  Both decide by the recorded status of the pull       *)
(* requests, which the pipeline, the patrol and the maintainers move on     *)
(* meanwhile.                                                              *)
(***************************************************************************)
EXTENDS Naturals, FiniteSets

CONSTANTS
  Drafts,       \* pull requests
  ForkOf,       \* the fork each of them comes from
  MaxCleanups   \* bound: cleanups of each kind

VARIABLES
  forks,        \* the forks that exist
  drafts,       \* state of every pull request on GitHub
  rows,         \* submitted_prs: recorded status
  publishing,   \* pull requests that are open and not yet recorded
  patrolling,   \* the visit of the patrol
  cleaning,     \* what the two cleanups hold
  granted,      \* the server was started with a write grant
  cleanups,     \* history: cleanups that are left
  unseen        \* history: pull requests that a cleanup did not find recorded,
                \* or that the patrol took for missing

mcpVars == <<forks, drafts, rows, publishing, patrolling, cleaning, granted, cleanups, unseen>>

Cleaners == {"cli", "mcp"}
Idle == [at |-> "idle"]

McpAt(grant) ==
  /\ forks = {} /\ publishing = {} /\ unseen = {}
  /\ drafts = [d \in Drafts |-> "none"]
  /\ rows = [d \in Drafts |-> "none"]
  /\ patrolling = Idle
  /\ cleaning = [c \in Cleaners |-> Idle]
  /\ granted = grant
  /\ cleanups = [c \in Cleaners |-> MaxCleanups]

McpInit == \E grant \in BOOLEAN : McpAt(grant)

\* The pipeline: fork_if_needed and the draft, then record_pr, unless it dies
\* in between.
OpenDraft(d) ==
  /\ drafts[d] = "none"
  /\ forks' = forks \cup {ForkOf[d]}
  /\ drafts' = [drafts EXCEPT ![d] = "open"]
  /\ publishing' = publishing \cup {d}
  /\ UNCHANGED <<rows, patrolling, cleaning, granted, cleanups, unseen>>

RecordPr(d) ==
  /\ d \in publishing
  /\ publishing' = publishing \ {d}
  /\ rows' = [rows EXCEPT ![d] = "open"]
  /\ UNCHANGED <<forks, drafts, patrolling, cleaning, granted, cleanups, unseen>>

PublisherDies(d) ==
  /\ d \in publishing
  /\ publishing' = publishing \ {d}
  /\ UNCHANGED <<forks, drafts, rows, patrolling, cleaning, granted, cleanups, unseen>>

\* Maintainers close, merge and open again; a repository is hidden for a while.
MaintainerActs(d, state) ==
  /\ drafts[d] \notin {"none", "merged", state}
  /\ state = "open" => ForkOf[d] \in forks
  /\ drafts' = [drafts EXCEPT ![d] = state]
  /\ UNCHANGED <<forks, rows, publishing, patrolling, cleaning, granted, cleanups, unseen>>

\* patrol: the rows that are recorded as open, one request for each.
StartPatrol ==
  /\ patrolling = Idle
  /\ patrolling' = [at |-> "checks", todo |-> {d \in Drafts : rows[d] = "open"}, missing |-> {}]
  /\ UNCHANGED <<forks, drafts, rows, publishing, cleaning, granted, cleanups, unseen>>

\* What GitHub says of a pull request; any request may fail, and the text of an
\* error may quote a 404 of another kind.
Says(d) == {IF drafts[d] = "hidden" THEN "not found" ELSE drafts[d], "error", "error quoting 404"}

\* Seeded fault: whatever fails is missing.
IsMissingOnError(said) == said \in {"not found", "error quoting 404", "error"}

IsMissing(said) == said \in {"not found", "error quoting 404"}

CheckSinglePr(d, said) ==
  /\ patrolling # Idle /\ d \in patrolling.todo /\ said \in Says(d)
  /\ patrolling' = [patrolling EXCEPT !.todo = @ \ {d},
                      !.missing = IF IsMissing(said) THEN @ \cup {d} ELSE @]
  /\ unseen' = IF said \in {"not found", "error quoting 404"} THEN unseen \cup {d} ELSE unseen
  /\ UNCHANGED <<forks, drafts, rows, publishing, cleaning, granted, cleanups>>

\* run_patrol: what is missing is recorded as closed, and no patrol looks at it
\* again.
EndPatrol ==
  /\ patrolling # Idle /\ patrolling.todo = {}
  /\ rows' = [d \in Drafts |-> IF d \in patrolling.missing THEN "closed" ELSE rows[d]]
  /\ patrolling' = Idle
  /\ UNCHANGED <<forks, drafts, publishing, cleaning, granted, cleanups, unseen>>

Recorded(f) == {d \in Drafts : ForkOf[d] = f /\ rows[d] # "none"}

\* cleanup: every fork of the database whose pull requests are all merged or
\* closed.  cleanup_forks: every fork of the account with a recorded pull request
\* and none recorded as open.
Doomed(c, listed) ==
  IF c = "cli" THEN {f \in {ForkOf[d] : d \in Drafts} :
                       Recorded(f) # {} /\ \A d \in Recorded(f) : rows[d] \in {"merged", "closed"}}
  ELSE {f \in listed : Recorded(f) # {} /\ \A d \in Recorded(f) : rows[d] # "open"}

\* The tool is refused without the grant; it lists the forks before it reads the
\* rows.
ListForks ==
  /\ cleaning["mcp"] = Idle /\ granted /\ cleanups["mcp"] > 0
  /\ cleaning' = [cleaning EXCEPT !["mcp"] = [at |-> "listed", forks |-> forks]]
  /\ cleanups' = [cleanups EXCEPT !["mcp"] = @ - 1]
  /\ UNCHANGED <<forks, drafts, rows, publishing, patrolling, granted, unseen>>

ReadRows(c) ==
  /\ \/ c = "mcp" /\ cleaning[c].at = "listed" /\ UNCHANGED cleanups
     \/ /\ c = "cli" /\ cleaning[c] = Idle /\ cleanups[c] > 0
        /\ cleanups' = [cleanups EXCEPT ![c] = @ - 1]
  /\ LET listed == IF c = "mcp" THEN cleaning[c].forks ELSE {}
     IN cleaning' = [cleaning EXCEPT ![c] =
                       IF Doomed(c, listed) = {} THEN Idle
                       ELSE [at |-> IF c = "cli" THEN "asks" ELSE "deletes", doomed |-> Doomed(c, listed)]]
  /\ unseen' = unseen \cup {d \in Drafts : rows[d] = "none"}
  /\ UNCHANGED <<forks, drafts, rows, publishing, patrolling, granted>>

\* The prompt of the command, or dry_run of the tool.
Answered(c, yes) ==
  /\ cleaning[c].at = "asks"
  /\ cleaning' = [cleaning EXCEPT ![c] = IF yes THEN [@ EXCEPT !.at = "deletes"] ELSE Idle]
  /\ UNCHANGED <<forks, drafts, rows, publishing, patrolling, granted, cleanups, unseen>>

DryRun ==
  /\ cleaning["mcp"].at = "deletes"
  /\ cleaning' = [cleaning EXCEPT !["mcp"] = Idle]
  /\ UNCHANGED <<forks, drafts, rows, publishing, patrolling, granted, cleanups, unseen>>

\* One fork after the other; a failure is reported and the next one is tried.
DeleteFork(c, f, deleted) ==
  /\ cleaning[c].at = "deletes" /\ f \in cleaning[c].doomed
  /\ forks' = IF deleted THEN forks \ {f} ELSE forks
  /\ LET left == cleaning[c].doomed \ {f}
     IN cleaning' = [cleaning EXCEPT ![c] = IF left = {} THEN Idle ELSE [@ EXCEPT !.doomed = left]]
  /\ UNCHANGED <<drafts, rows, publishing, patrolling, granted, cleanups, unseen>>

\* The other tools that write: no draft is opened, and no row is written.
CallTool(tool, d) ==
  /\ cleaning["mcp"] = Idle /\ granted
  /\ \/ tool = "fork_repo" /\ forks' = forks \cup {ForkOf[d]} /\ UNCHANGED drafts
     \/ /\ tool = "close_pr" /\ drafts[d] = "open"
        /\ drafts' = [drafts EXCEPT ![d] = "closed"]
        /\ UNCHANGED forks
  /\ UNCHANGED <<rows, publishing, patrolling, cleaning, granted, cleanups, unseen>>

McpNext ==
  \/ \E d \in Drafts :
       \/ OpenDraft(d) \/ RecordPr(d) \/ PublisherDies(d)
       \/ \E state \in {"open", "closed", "merged", "hidden"} : MaintainerActs(d, state)
       \/ \E said \in Says(d) : CheckSinglePr(d, said)
       \/ \E tool \in {"fork_repo", "close_pr"} : CallTool(tool, d)
  \/ StartPatrol \/ EndPatrol
  \/ ListForks \/ DryRun
  \/ \E c \in Cleaners : ReadRows(c)
  \/ \E yes \in BOOLEAN : Answered("cli", yes)
  \/ \E c \in Cleaners, d \in Drafts, deleted \in BOOLEAN : DeleteFork(c, ForkOf[d], deleted)

McpSpec == McpInit /\ [][McpNext]_mcpVars

\* No open pull request loses its fork that every cleanup has found recorded and
\* no patrol has taken for missing, whatever other pull requests of the fork came
\* to and however the two cleanups, the patrol, the pipeline and the maintainers
\* overlap (cleanup_forks, run_cleanup, run_patrol).
SeenForksAreKept ==
  \A d \in Drafts : drafts[d] = "open" /\ d \notin unseen => ForkOf[d] \in forks
=============================================================================
