------------------------------ MODULE Pipeline ------------------------------
(***************************************************************************)
(* The discovery pipeline (orchestrator/pipeline.rs) with external writes  *)
(* enabled, in build mode: the commands run, target, solve and hunt, each  *)
(* a process of its own over one shared memory database and one GitHub     *)
(* account.                                                                *)
(*                                                                         *)
(* A command is cut where it awaits (GitHub, the model, the human) and     *)
(* where it writes to the database.  Between two steps the process may die *)
(* and other processes take theirs.  The circuit breaker and all counters  *)
(* of a command live in its process; every command makes a new pipeline.   *)
(***************************************************************************)
EXTENDS CircuitBreaker, Sequences, FiniteSets

CONSTANTS
  Processes,        \* processes that run commands
  Repos,            \* repositories discovery and issue search can return
  Commands,         \* the commands each of them runs
  DailyLimit,       \* config.github.max_prs_per_day
  MaxReposPerRun,   \* config.pipeline.max_repos_per_run
  HuntRounds,       \* rounds of a hunt
  MaxGlobalIssues,  \* max_issues of hunt_issues_globally
  MaxSearched,      \* bound: issues one global search returns
  MaxCommands,      \* bound: commands started in a behaviour
  MaxReceipts,      \* bound: approvals in a behaviour
  MayCrash,         \* whether processes may die between two steps
  None              \* no repository

CommandNames == {"run", "target", "solve", "hunt"}

ASSUME PipelineAssumption ==
  /\ Commands \in [Processes -> SUBSET CommandNames]
  /\ DailyLimit \in Nat
  /\ MaxReposPerRun \in Nat
  /\ HuntRounds \in Nat
  /\ MaxGlobalIssues \in Nat
  /\ MaxSearched \in Nat
  /\ MaxCommands \in Nat
  /\ MaxReceipts \in Nat
  /\ MayCrash \in BOOLEAN
  /\ None \notin Repos

VARIABLES
  analyzed,  \* analyzed_repos: how long ago each repository was analyzed
  pulls,     \* pull requests on GitHub, each with its row of submitted_prs
  receipts,  \* repositories of the approved decisions in the audit ledger
  breaker,   \* the circuit breaker of every process
  pc,        \* next step of every process
  local,     \* what every process holds in memory
  started    \* history: number of commands started

memory == <<analyzed, pulls, receipts>>
vars == <<memory, breaker, pc, local, started>>

\* How long ago a row was written, for the two questions the code asks: today
\* (the daily count) and within seven days (has_analyzed_since).
Ages == {"today", "week", "older"}

PullRecord ==
  [repo: Repos, phase: {"repo", "issues"}, receipt: Nat \ {0},
   row: Ages \cup {"none"}]

\* `phase': whether the pull requests come from analysis (process_repo) or
\* from issues (process_repo_issues); `made' counts those of the current call,
\* `before' those of the call before it on the same repository; `found' counts
\* those of a global issue search; `streak' counts the failures in a row of a run.
LocalRecord ==
  [command: CommandNames \cup {"none"}, todo: SUBSET Repos, repo: Repos \cup {None},
   phase: {"repo", "issues"}, globally: BOOLEAN, remaining: Nat,
   made: Nat, before: Nat, found: Nat, issues: Nat, searched: Nat,
   failed: BOOLEAN, receipt: Nat, round: Nat, streak: Nat]

NoLocal ==
  [command |-> "none", todo |-> {}, repo |-> None, phase |-> "repo",
   globally |-> FALSE, remaining |-> 0, made |-> 0, before |-> 0, found |-> 0,
   issues |-> 0, searched |-> 0, failed |-> FALSE, receipt |-> 0, round |-> 0,
   streak |-> 0]

AwaitingSteps ==
  {"analyze", "generate", "admit", "create", "issues", "issue", "discover", "search", "sleep"}

Steps == AwaitingSteps \cup {"idle", "next", "record", "round", "select"}

TypeOK ==
  /\ analyzed \in [Repos -> Ages]
  /\ pulls \in Seq(PullRecord)
  /\ receipts \in Seq(Repos)
  /\ breaker \in [Processes -> BreakerRecord]
  /\ pc \in [Processes -> Steps]
  /\ local \in [Processes -> LocalRecord]
  /\ started \in Nat

Init ==
  /\ analyzed = [r \in Repos |-> "older"]
  /\ pulls = <<>>
  /\ receipts = <<>>
  /\ breaker = [p \in Processes |-> NewBreaker]
  /\ pc = [p \in Processes |-> "idle"]
  /\ local = [p \in Processes |-> NoLocal]
  /\ started = 0

-----------------------------------------------------------------------------
(* Questions to the database *)

\* has_analyzed_since(repo, 7)
AnalyzedRecently(r) == analyzed[r] # "older"

\* get_today_pr_count: rows created today.
TodayCount == Cardinality({i \in DOMAIN pulls : pulls[i].row = "today"})

\* get_prs(Some("open")) filtered by repository.
HasOpenRow(r) == \E i \in DOMAIN pulls : pulls[i].repo = r /\ pulls[i].row # "none"

Minus(a, b) == IF a > b THEN a - b ELSE 0

-----------------------------------------------------------------------------
(* Steps of a process *)

At(p, step) == pc[p] = step

Goto(p, step, held) ==
  /\ pc' = [pc EXCEPT ![p] = step]
  /\ local' = [local EXCEPT ![p] = held]

\* The command returns, with its result or with an error, and its pipeline is
\* dropped.
Finish(p) ==
  /\ Goto(p, "idle", NoLocal)
  /\ breaker' = [breaker EXCEPT ![p] = NewBreaker]

StartCommand(p, command) ==
  /\ At(p, "idle")
  /\ command \in Commands[p]
  /\ started < MaxCommands
  /\ started' = started + 1
  /\ UNCHANGED <<memory, breaker>>

\* run: the daily count is read once; discovery found some repositories.
StartRun(p, repos) ==
  /\ StartCommand(p, "run")
  /\ DailyLimit > TodayCount
  /\ repos # {} /\ Cardinality(repos) <= MaxReposPerRun
  /\ Goto(p, "next", [NoLocal EXCEPT !.command = "run", !.todo = repos,
                                     !.remaining = DailyLimit - TodayCount])

\* run_targeted: neither the daily count nor the earlier analysis is asked.
StartTarget(p, r) ==
  /\ StartCommand(p, "target")
  /\ Goto(p, "analyze", [NoLocal EXCEPT !.command = "target", !.repo = r])

\* solve_targeted: the daily limit bounds the issues of this call.
StartSolve(p, r) ==
  /\ StartCommand(p, "solve")
  /\ Goto(p, "issues", [NoLocal EXCEPT !.command = "solve", !.repo = r,
                                       !.phase = "issues", !.remaining = DailyLimit])

StartHunt(p) ==
  /\ StartCommand(p, "hunt")
  /\ HuntRounds > 0
  /\ Goto(p, "round", [NoLocal EXCEPT !.command = "hunt", !.round = 1])

\* The loop of run: ask the breaker, then skip or process the next repository.
NextRepo(p) ==
  /\ At(p, "next")
  /\ IF local[p].todo = {} \/ ~AllowsRequest(breaker[p])
       THEN Finish(p)
       ELSE /\ breaker' = [breaker EXCEPT ![p] = AfterAllow(@)]
            /\ \E r \in local[p].todo :
                 LET rest == [local[p] EXCEPT !.todo = @ \ {r}] IN
                   IF AnalyzedRecently(r)
                     THEN Goto(p, "next", rest)
                     ELSE Goto(p, "analyze", [rest EXCEPT !.repo = r])
  /\ UNCHANGED <<memory, started>>

-----------------------------------------------------------------------------
(* How process_repo and process_repo_issues return *)

\* process_repo returns: in a run and a hunt the breaker hears whether there
\* were errors, and a hunt goes on with the issues of the repository.
RepoReturns(p, held, ok) ==
  LET told == IF ok THEN RecordSuccess(breaker[p]) ELSE RecordFailure(breaker[p])
  IN CASE held.command = "target" -> Finish(p)
       [] held.command = "run" ->
            /\ Goto(p, "next", [held EXCEPT !.repo = None, !.made = 0, !.failed = FALSE,
                                            !.streak = IF ok THEN 0 ELSE @ + 1])
            /\ breaker' = [breaker EXCEPT ![p] = told]
       [] OTHER ->
            /\ Goto(p, "issues", [held EXCEPT !.phase = "issues", !.failed = FALSE,
                                              !.before = held.made, !.made = 0])
            /\ breaker' = [breaker EXCEPT ![p] = told]

\* process_repo_issues returns: a hunt subtracts what the repository got, or
\* ends its global search when it opened enough.
IssuesReturn(p, held) ==
  LET got == held.before + held.made
      l == [held EXCEPT !.repo = None, !.phase = "repo", !.before = 0, !.made = 0,
                        !.issues = 0, !.failed = FALSE, !.receipt = 0]
  IN IF l.command = "solve" THEN Finish(p)
     ELSE /\ UNCHANGED breaker
          /\ IF ~l.globally
               THEN Goto(p, "select", [l EXCEPT !.remaining = Minus(@, got)])
               ELSE IF l.found + got >= MaxGlobalIssues
                 THEN Goto(p, "sleep", [l EXCEPT !.globally = FALSE, !.found = 0, !.searched = 0])
                 ELSE Goto(p, "search", [l EXCEPT !.found = @ + got])

\* One attempt is over: process_repo makes one, process_repo_issues one per issue.
AttemptOver(p, held) ==
  LET l == [held EXCEPT !.receipt = 0] IN
    IF l.phase = "repo" THEN RepoReturns(p, l, ~l.failed)
    ELSE IF l.issues <= 1 THEN IssuesReturn(p, l)
    ELSE Goto(p, "issue", [l EXCEPT !.issues = @ - 1]) /\ UNCHANGED breaker

\* The call returns an error, and what it had opened is not counted.
CallFails(p) ==
  LET l == [local[p] EXCEPT !.made = 0, !.receipt = 0] IN
    IF l.phase = "repo" THEN RepoReturns(p, l, FALSE) ELSE IssuesReturn(p, l)

-----------------------------------------------------------------------------
(* process_repo *)

\* The repository opted out, or its guidelines ban AI contributions.
RepoOptsOut(p) ==
  /\ At(p, "analyze")
  /\ RepoReturns(p, local[p], TRUE)
  /\ UNCHANGED <<memory, started>>

AnalysisFails(p) ==
  /\ At(p, "analyze")
  /\ CallFails(p)
  /\ UNCHANGED <<memory, started>>

\* The analysis is recorded before anything is generated; without a finding
\* that is new, allowed and not of a rejected type the call returns.
Analyze(p, findings) ==
  /\ At(p, "analyze")
  /\ analyzed' = [analyzed EXCEPT ![local[p].repo] = "today"]
  /\ IF findings
       THEN Goto(p, "generate", local[p]) /\ UNCHANGED breaker
       ELSE RepoReturns(p, local[p], TRUE)
  /\ UNCHANGED <<pulls, receipts, started>>

\* Seeded fault: the check for an open pull request is missing.
GenerateUnchecked(p, failed, valid) ==
  /\ At(p, "generate")
  /\ LET l == [local[p] EXCEPT !.failed = failed] IN
       IF valid
         THEN Goto(p, "admit", l) /\ UNCHANGED breaker
         ELSE RepoReturns(p, l, ~failed)
  /\ UNCHANGED <<memory, started>>

\* Generation of up to two findings: some may fail, some may be valid; then
\* skip_repos_with_open_pr is looked at, once.
Generate(p, failed, valid) ==
  /\ At(p, "generate")
  /\ LET l == [local[p] EXCEPT !.failed = failed] IN
       IF valid /\ ~HasOpenRow(l.repo)
         THEN Goto(p, "admit", l) /\ UNCHANGED breaker
         ELSE RepoReturns(p, l, ~failed)
  /\ UNCHANGED <<memory, started>>

-----------------------------------------------------------------------------
(* process_repo_issues *)

\* The repository is blocked, or up to `max_prs' solvable issues are fetched.
FetchIssues(p, n) ==
  /\ At(p, "issues")
  /\ n <= Minus(local[p].remaining, local[p].before)
  /\ LET l == [local[p] EXCEPT !.issues = n] IN
       IF n = 0 THEN IssuesReturn(p, l) ELSE Goto(p, "issue", l) /\ UNCHANGED breaker
  /\ UNCHANGED <<memory, started>>

\* No finding or no contribution for this issue, or one to be admitted.
SolveIssue(p, valid) ==
  /\ At(p, "issue")
  /\ IF valid
       THEN Goto(p, "admit", local[p]) /\ UNCHANGED breaker
       ELSE AttemptOver(p, local[p])
  /\ UNCHANGED <<memory, started>>

-----------------------------------------------------------------------------
(* admit_contribution and create_pr_with_evidence *)

\* A capability, permission, consent, base, evidence or admission check
\* blocks, the human declines, or the approval cannot be persisted.
AdmissionBlocked(p) ==
  /\ At(p, "admit")
  /\ AttemptOver(p, local[p])
  /\ UNCHANGED <<memory, started>>

\* Seeded fault: the approval counts although its audit record was not written.
AdmissionApprovedUnaudited(p) ==
  /\ At(p, "admit")
  /\ Len(receipts) < MaxReceipts
  /\ receipts' \in {receipts, Append(receipts, local[p].repo)}
  /\ Goto(p, "create", [local[p] EXCEPT !.receipt = Len(receipts')])
  /\ UNCHANGED <<analyzed, pulls, breaker, started>>

\* The human approves and the approved decision is appended to the ledger.
AdmissionApproved(p) ==
  /\ At(p, "admit")
  /\ Len(receipts) < MaxReceipts
  /\ receipts' = Append(receipts, local[p].repo)
  /\ Goto(p, "create", [local[p] EXCEPT !.receipt = Len(receipts')])
  /\ UNCHANGED <<analyzed, pulls, breaker, started>>

Opened(p) ==
  Append(pulls, [repo |-> local[p].repo, phase |-> local[p].phase,
                 receipt |-> local[p].receipt, row |-> "none"])

CreatePull(p) ==
  /\ At(p, "create")
  /\ pulls' = Opened(p)
  /\ Goto(p, "record", local[p])
  /\ UNCHANGED <<analyzed, receipts, breaker, started>>

\* Consent was revoked, a GitHub call failed, or the answer to the last one
\* was lost after the pull request had been opened.
CreateFails(p) ==
  /\ At(p, "create")
  /\ pulls' \in {pulls, Opened(p)}
  /\ AttemptOver(p, [local[p] EXCEPT !.failed = TRUE])
  /\ UNCHANGED <<analyzed, receipts, started>>

\* record_pr; the outcome row that process_repo adds may fail without effect.
\* The pull request of this step is the newest of its receipt.
RecordPull(p) ==
  /\ At(p, "record")
  /\ pulls' = [i \in DOMAIN pulls |->
                 IF pulls[i].receipt = local[p].receipt
                   THEN [pulls[i] EXCEPT !.row = "today"] ELSE pulls[i]]
  /\ AttemptOver(p, [local[p] EXCEPT !.made = @ + 1])
  /\ UNCHANGED <<analyzed, receipts, started>>

RecordFails(p) ==
  /\ At(p, "record")
  /\ CallFails(p)
  /\ UNCHANGED <<memory, started>>

-----------------------------------------------------------------------------
(* hunt *)

\* A round asks the breaker and the daily count, and then discovers.
BeginRound(p) ==
  /\ At(p, "round")
  /\ IF ~AllowsRequest(breaker[p]) \/ DailyLimit <= TodayCount
       THEN Finish(p)
       ELSE /\ breaker' = [breaker EXCEPT ![p] = AfterAllow(@)]
            /\ Goto(p, "discover", [local[p] EXCEPT !.remaining = DailyLimit - TodayCount])
  /\ UNCHANGED <<memory, started>>

\* Seeded fault: a round that found nothing does not count.
DiscoverRetries(p, targets) ==
  /\ At(p, "discover")
  /\ \A r \in targets : ~AnalyzedRecently(r)
  /\ Cardinality(targets) <= MaxReposPerRun
  /\ IF targets = {}
       THEN Goto(p, "round", local[p])
       ELSE Goto(p, "select", [local[p] EXCEPT !.todo = targets])
  /\ UNCHANGED <<memory, breaker, started>>

\* The merge-friendly repositories that were not analyzed recently; without
\* any the rest of the round is skipped.
Discover(p, targets) ==
  /\ At(p, "discover")
  /\ \A r \in targets : ~AnalyzedRecently(r)
  /\ Cardinality(targets) <= MaxReposPerRun
  /\ IF targets = {}
       THEN Goto(p, "sleep", local[p])
       ELSE Goto(p, "select", [local[p] EXCEPT !.todo = targets])
  /\ UNCHANGED <<memory, breaker, started>>

\* The next target of the round; after the last one, or with the limit
\* reached, odd rounds search for issues globally.
SelectTarget(p) ==
  /\ At(p, "select")
  /\ LET l == local[p] IN
       IF l.todo = {} \/ l.remaining = 0
         THEN IF l.round % 2 = 1
                THEN Goto(p, "search", [l EXCEPT !.todo = {}, !.globally = TRUE])
                ELSE Goto(p, "sleep", [l EXCEPT !.todo = {}])
         ELSE \E r \in l.todo :
                Goto(p, "analyze", [l EXCEPT !.todo = @ \ {r}, !.repo = r])
  /\ UNCHANGED <<memory, breaker, started>>

\* hunt_issues_globally: an issue of a repository that was not analyzed
\* recently and has no open row; its own limit takes the place of the daily one.
SearchFinds(p, r) ==
  /\ At(p, "search")
  /\ local[p].searched < MaxSearched
  /\ ~AnalyzedRecently(r) /\ ~HasOpenRow(r)
  /\ Goto(p, "issues", [local[p] EXCEPT !.repo = r, !.phase = "issues",
                                        !.searched = @ + 1, !.remaining = MaxGlobalIssues])
  /\ UNCHANGED <<memory, breaker, started>>

SearchEnds(p) ==
  /\ At(p, "search")
  /\ Goto(p, "sleep", [local[p] EXCEPT !.globally = FALSE, !.found = 0, !.searched = 0])
  /\ UNCHANGED <<memory, breaker, started>>

EndRound(p) ==
  /\ At(p, "sleep")
  /\ IF local[p].round = HuntRounds
       THEN Finish(p)
       ELSE Goto(p, "round", [local[p] EXCEPT !.round = @ + 1]) /\ UNCHANGED breaker
  /\ UNCHANGED <<memory, started>>

-----------------------------------------------------------------------------
(* Failures and time *)

\* The process dies, or a read of the database errs, between two steps.
Crash(p) ==
  /\ MayCrash
  /\ ~At(p, "idle")
  /\ Finish(p)
  /\ UNCHANGED <<memory, started>>

\* The cooldown of a process's breaker elapses while the process waits.
Cool(p) ==
  /\ pc[p] \in AwaitingSteps
  /\ breaker[p].mode = "open" /\ ~breaker[p].cooled
  /\ breaker' = [breaker EXCEPT ![p] = CoolDown(@)]
  /\ UNCHANGED <<memory, pc, local, started>>

Older(age) == IF age = "today" THEN "week" ELSE age

\* Midnight passes.
NewDay ==
  /\ \/ \E r \in Repos : analyzed[r] = "today"
     \/ \E i \in DOMAIN pulls : pulls[i].row = "today"
  /\ analyzed' = [r \in Repos |-> Older(analyzed[r])]
  /\ pulls' = [i \in DOMAIN pulls |-> [pulls[i] EXCEPT !.row = Older(@)]]
  /\ UNCHANGED <<receipts, breaker, pc, local, started>>

\* Seven days passed since the repository was analyzed.
WeekPasses(r) ==
  /\ analyzed[r] = "week"
  /\ analyzed' = [analyzed EXCEPT ![r] = "older"]
  /\ UNCHANGED <<pulls, receipts, breaker, pc, local, started>>

Start(p) ==
  \/ \E repos \in SUBSET Repos : StartRun(p, repos)
  \/ \E r \in Repos : StartTarget(p, r) \/ StartSolve(p, r)
  \/ StartHunt(p)

Attempt(p) ==
  \/ AdmissionBlocked(p) \/ AdmissionApproved(p)
  \/ CreatePull(p) \/ CreateFails(p) \/ RecordPull(p) \/ RecordFails(p)

ProcessRepo(p) ==
  \/ RepoOptsOut(p) \/ AnalysisFails(p)
  \/ \E findings \in BOOLEAN : Analyze(p, findings)
  \/ \E failed, valid \in BOOLEAN : Generate(p, failed, valid)

ProcessIssues(p) ==
  \/ \E n \in 0..(DailyLimit + MaxGlobalIssues) : FetchIssues(p, n)
  \/ \E valid \in BOOLEAN : SolveIssue(p, valid)

Hunt(p) ==
  \/ BeginRound(p) \/ SelectTarget(p) \/ SearchEnds(p) \/ EndRound(p)
  \/ \E targets \in SUBSET Repos : Discover(p, targets)
  \/ \E r \in Repos : SearchFinds(p, r)

Work(p) == NextRepo(p) \/ ProcessRepo(p) \/ ProcessIssues(p) \/ Attempt(p) \/ Hunt(p)

Next ==
  \/ \E p \in Processes : Start(p) \/ Work(p) \/ Crash(p) \/ Cool(p)
  \/ \E r \in Repos : WeekPasses(r)
  \/ NewDay

Spec == Init /\ [][Next]_vars

\* Every call the pipeline awaits returns, the prompt to the human included.
FairSpec == Spec /\ \A p \in Processes : WF_vars(Work(p))

-----------------------------------------------------------------------------
(* What the pipeline promises. *)

\* Every pull request, whichever command opened it and wherever processes
\* died, has an approved decision of its own in the ledger: no approval is
\* used for two pull requests, and none is opened before its approval was
\* persisted (admit_contribution returns the evidence only then).
PullsHaveReceipts ==
  /\ \A i \in DOMAIN pulls :
       pulls[i].receipt \in DOMAIN receipts /\ receipts[pulls[i].receipt] = pulls[i].repo
  /\ \A i, j \in DOMAIN pulls : pulls[i].receipt = pulls[j].receipt => i = j

\* skip_repos_with_open_pr under concurrency: the check is made long before
\* the row is written, so several processes can pass it together, but each of
\* them at most once; after the first row nobody passes it any more.
AnalysisPulls(r) ==
  {i \in DOMAIN pulls : pulls[i].repo = r /\ pulls[i].phase = "repo" /\ pulls[i].row # "none"}

OnePullPerProcess ==
  \A r \in Repos : Cardinality(AnalysisPulls(r)) <= Cardinality(Processes)

\* In a run the breaker ends the loop at the threshold: the model is never
\* asked about another repository after FailureThreshold failures in a row
\* (one failure, if the configuration sets the threshold to zero).
RunStopsAtThreshold ==
  \A p \in Processes :
    local[p].command = "run" => local[p].streak \in 0..FailureThreshold \cup {0, 1}

\* Every command comes to its end once its calls are answered: the loops over
\* repositories, issues, searches and rounds all make progress.
CommandsEnd ==
  \A p \in Processes : ~At(p, "idle") ~> At(p, "idle")

=============================================================================
