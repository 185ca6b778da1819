---------------------------- MODULE Publication ----------------------------
(***************************************************************************)
(* How a generated contribution of the discovery pipeline becomes a draft  *)
(* pull request: consent is discovered, a permit issued, the contribution  *)
(* admitted, reviewed by a human and recorded (orchestrator/pipeline.rs),  *)
(* then the evidence is validated, consent read again and the draft        *)
(* written to a fork (pr/manager.rs, github/client.rs).                    *)
(*                                                                         *)
(* Several processes publish to one repository.  Meanwhile maintainers     *)
(* edit the manifests and the issue and push to the default branch, time   *)
(* passes, requests fail or lose their answer, and somebody may edit the   *)
(* database file.                                                          *)
(***************************************************************************)
EXTENDS AdmissionPolicy, AuditLedger

CONSTANTS
  Processes,    \* processes that publish
  Candidates,   \* contributions the generator can produce
  Manifests,    \* what a consent path can be changed to
  Issues,       \* states the issue can be in
  InitialFiles, \* the consent paths at the start
  InitialIssue, \* the issue at the start
  MaxAttempts,  \* MAX_REQUEST_ATTEMPTS
  MaxSessions,  \* bound: sessions started in a behaviour
  MaxEvents     \* bound: edits by maintainers, ticks of the clock and edits of
                \* the database file in a behaviour

Repository == "repository"

IsSequence(s) == s \in Seq(Elements(s))

\* A contribution changes at least one file; the contents of a file are lines.
WellFormed(c) ==
  /\ IsSequence(c.changes) /\ IsSequence(c.tests) /\ c.changes # <<>>
  /\ \A change \in Elements(Changes(c)) :
       /\ IsSequence(change.new)
       /\ change.old = None \/ IsSequence(change.old)

\* The budgets of a manifest are natural numbers, where it has them.
Budgeted(m) == m = None \/ {m.maxFiles, m.maxLines} \subseteq Nat \cup {None}

ASSUME PublicationAssumption ==
  /\ None \notin Candidates
  /\ \A c \in Candidates : WellFormed(c)
  /\ DOMAIN InitialFiles = DOMAIN ConsentPaths
  /\ \A m \in Manifests \cup Elements(InitialFiles) : Budgeted(m)
  /\ MaxAttempts \in Nat \ {0}
  /\ MaxSessions \in Nat /\ MaxEvents \in Nat

VARIABLES
  files,     \* what the repository has at each consent path
  issue,     \* the issue that may carry an approval label
  head,      \* the commit of the default branch
  fork,      \* whether the fork exists
  branches,  \* branches of the fork: their base and the files written to them
  drafts,    \* draft pull requests
  ledger,    \* the table admission_audit
  issued,    \* history: the receipts that were ever issued
  now,       \* the clock
  pc,        \* next step of every process
  local,     \* what every process holds in memory
  budget     \* history: sessions and events that are left

repository == <<files, issue, head>>
github == <<fork, branches, drafts>>
database == <<ledger, issued>>
vars == <<repository, github, database, now, pc, local, budget>>

NoLocal ==
  [consent |-> None, candidate |-> None, issue |-> None, capsule |-> None, at |-> 0, live |-> None, next |-> 0, blob |-> "none",
   attempt |-> 1]

Init ==
  /\ files = InitialFiles /\ issue = InitialIssue
  /\ head = CHOOSE s \in Shas : TRUE
  /\ fork = FALSE /\ branches = <<>> /\ drafts = {}
  /\ ledger = <<>> /\ issued = {}
  /\ now = 0
  /\ pc = [p \in Processes |-> "idle"]
  /\ local = [p \in Processes |-> NoLocal]
  /\ budget = [sessions |-> MaxSessions, events |-> MaxEvents]

Goto(p, step) == pc' = [pc EXCEPT ![p] = step]

\* The session returns, with or without an error; nothing is undone.
Return(p) == Goto(p, "idle") /\ local' = [local EXCEPT ![p] = NoLocal]

(***************************************************************************)
(* Admission                                                               *)
(***************************************************************************)
\* process_repo and process_repo_issues look for consent before anything is
\* generated.  A consent path whose request fails is passed over.
Discover(p) ==
  /\ pc[p] = "idle" /\ budget.sessions > 0
  /\ \E readable \in {DOMAIN ConsentPaths, {}} :
       local' = [local EXCEPT ![p].consent = DiscoverRepositoryConsent(files, readable)]
  /\ budget' = [budget EXCEPT !.sessions = @ - 1]
  /\ Goto(p, "generate")
  /\ UNCHANGED <<repository, github, database, now>>

\* A contribution for the repository, or one for the issue, whose label then
\* comes before the manifest.
Generate(p) ==
  /\ pc[p] = "generate"
  /\ \E c \in Candidates :
       \/ local' = [local EXCEPT ![p].candidate = c]
       \/ local' = [local EXCEPT ![p].candidate = c, ![p].issue = issue.number,
                      ![p].consent = Default(FromIssue(issue), local[p].consent)]
  /\ Goto(p, "admit")
  /\ UNCHANGED <<repository, github, database, now, budget>>

\* The record of a decision: which gate blocked a contribution and how the
\* human declined it is left out.
Decision(p, decision) ==
  [schema |-> 2, run |-> "none",
   content |-> [decision |-> decision, candidate |-> local[p].candidate]]

Record(body) ==
  /\ ledger' = Recorded(ledger, body)
  /\ issued' = IF ChainIsValid(ledger) THEN issued \cup {LastReceipt(ledger')} ELSE issued

\* The checks the pipeline hands to admission; a risk above the tolerance
\* fails the risk gate.
PipelineChecks(p, riskPasses) ==
  IF local[p].issue = None
  THEN <<Check("quality_gate", TRUE), Check("risk_gate", riskPasses),
         Check("finding_verification", TRUE)>>
  ELSE <<Check("issue_linkage", TRUE), Check("generation_validation", TRUE)>>

\* admit_contribution up to the human.  The gates in their order: the write
\* capability, the pr_create permission, consent, the base revision (asked of
\* GitHub), the checks, the policy.  The first that fails is recorded.
\* `failing' is the first gate that says no before the policy is asked.
Admit(p, failing) ==
  LET permit == IssuePermit(Repository, head, local[p].consent, local[p].issue, now)
      report == Evaluate(Repository, local[p].candidate, permit, now)
      checks == PipelineChecks(p, failing # "risk")
      admitted == /\ failing \notin {"capability", "permission", "base_revision"}
                  /\ local[p].consent # None
                  /\ \A i \in DOMAIN checks : checks[i].passed
                  /\ Allowed(report)
  IN /\ pc[p] = "admit"
     /\ IF admitted
        THEN /\ local' = [local EXCEPT ![p].capsule =
                  BuildCapsule(local[p].candidate, permit, report, checks, now)]
             /\ Goto(p, "review")
             /\ UNCHANGED database
        ELSE Record(Decision(p, "blocked")) /\ Return(p)
     /\ UNCHANGED <<repository, github, now, budget>>

\* review_with_evidence: only an approval whose record is persisted goes on.
Approve(p) ==
  /\ pc[p] = "review"
  /\ Record(Decision(p, "approved"))
  /\ IF ChainIsValid(ledger) THEN Goto(p, "validate") /\ UNCHANGED local ELSE Return(p)
  /\ UNCHANGED <<repository, github, now, budget>>

\* Seeded fault: the answer is recorded and then not looked at.
DeclinePassed(p) ==
  /\ pc[p] = "review"
  /\ Record(Decision(p, "declined"))
  /\ Goto(p, "validate")
  /\ UNCHANGED <<repository, github, now, local, budget>>

\* Rejected, skipped, or the prompt failed.
Decline(p) ==
  /\ pc[p] = "review"
  /\ Record(Decision(p, "declined"))
  /\ Return(p)
  /\ UNCHANGED <<repository, github, now, budget>>

(***************************************************************************)
(* The write boundary                                                      *)
(***************************************************************************)
\* create_pr_with_evidence checks the capsule before it asks GitHub anything.
Validate(p) ==
  /\ pc[p] = "validate"
  /\ IF ValidForSubmission(local[p].capsule, local[p].candidate, Repository, now)
     THEN Goto(p, "revalidate") /\ local' = [local EXCEPT ![p].at = now]
     ELSE Return(p)
  /\ UNCHANGED <<repository, github, database, now, budget>>

\* fetch_live_consent: the source the capsule names, as it is now.
LiveConsent(source) ==
  IF source.kind = "manifest"
  THEN LET i == CHOOSE i \in DOMAIN ConsentPaths : ConsentPaths[i] = source.path
       IN Parse(source.path, files[i])
  ELSE IF issue.number = source.issue /\ source.label \in issue.labels
       THEN FromIssue(issue) ELSE None

\* Seeded fault: the consent that was discovered stands for the one in force.
RevalidateStale(p) ==
  LET permit == IssuePermit(Repository, local[p].capsule.base, local[p].consent,
                            local[p].capsule.issue, now)
  IN /\ pc[p] = "revalidate"
     /\ IF Allowed(Evaluate(Repository, local[p].candidate, permit, now))
        THEN Goto(p, "fork") /\ local' = [local EXCEPT ![p].live =
                                           LiveConsent(local[p].capsule.source)]
        ELSE Return(p)
     /\ UNCHANGED <<repository, github, database, now, budget>>

\* revalidate_consent: the reviewed contribution against a permit of the
\* consent in force.
Revalidate(p) ==
  LET live == LiveConsent(local[p].capsule.source)
      permit == IssuePermit(Repository, local[p].capsule.base, live,
                            local[p].capsule.issue, now)
  IN /\ pc[p] = "revalidate"
     /\ IF live = None THEN Return(p)
        ELSE IF Allowed(Evaluate(Repository, local[p].candidate, permit, now))
        THEN Goto(p, "fork") /\ local' = [local EXCEPT ![p].live = live]
        ELSE Return(p)
     /\ UNCHANGED <<repository, github, database, now, budget>>

\* fork_if_needed: a fork that is there is used.  Otherwise it is requested,
\* and after three polls the command goes on with it, ready or not: if it is
\* not, the next request fails.
Fork(p) ==
  /\ pc[p] = "fork"
  /\ fork' = TRUE
  /\ Goto(p, "branch")
  /\ UNCHANGED <<repository, branches, drafts, database, now, local, budget>>

\* create_branch_at_sha, a POST and so never sent twice: GitHub refuses a
\* branch that exists.  `answered' says whether its answer arrives.
CreateBranch(p, answered) ==
  LET name == local[p].candidate.branch
  IN /\ pc[p] = "branch"
     /\ name \notin DOMAIN branches
     /\ branches' = [b \in DOMAIN branches \cup {name} |->
                       IF b = name THEN [base |-> local[p].capsule.base, files |-> [q \in {} |-> None]]
                       ELSE branches[b]]
     /\ IF answered
        THEN Goto(p, "sha") /\ local' = [local EXCEPT ![p].next = 1]
        ELSE Return(p)
     /\ UNCHANGED <<repository, fork, drafts, database, now, budget>>

\* The next change of the contribution: get_file_sha for a file that is not
\* new; a failed request counts as no sha.
AskSha(p, answers) ==
  LET change == Changes(local[p].candidate)[local[p].next]
  IN /\ pc[p] = "sha"
     /\ local' = [local EXCEPT ![p].blob = IF ~change.isNew /\ answers THEN "known" ELSE "none",
                               ![p].attempt = 1]
     /\ Goto(p, "put")
     /\ UNCHANGED <<repository, github, database, now, budget>>

\* Whether GitHub takes a write: a file of the base needs the sha of its blob,
\* a file that is not there must come without one, and what this branch wrote
\* already has neither.
Accepts(p) ==
  LET l == local[p]
      change == Changes(l.candidate)[l.next]
      written == branches[l.candidate.branch].files
  IN /\ change.path \notin DOMAIN written
     /\ change.old # None <=> l.blob = "known"

Written(p) ==
  LET l == local[p]
      change == Changes(l.candidate)[l.next]
      written == branches[l.candidate.branch].files
  IN branches' = [branches EXCEPT ![l.candidate.branch].files =
       [q \in DOMAIN written \cup {change.path} |->
          IF q = change.path THEN change.new ELSE written[q]]]

\* create_or_update_file, a PUT: written and answered; the next change, or
\* the pull request.
PutAnswered(p) ==
  /\ pc[p] = "put" /\ Accepts(p)
  /\ Written(p)
  /\ IF local[p].next < Len(Changes(local[p].candidate))
     THEN local' = [local EXCEPT ![p].next = @ + 1] /\ Goto(p, "sha")
     ELSE UNCHANGED local /\ Goto(p, "pull")
  /\ UNCHANGED <<repository, fork, drafts, database, now, budget>>

\* A transport error or a 5xx, before or after the file was written: `request'
\* sends a PUT again as long as it has attempts left.
PutFails(p, written) ==
  /\ pc[p] = "put"
  /\ IF written THEN Accepts(p) /\ Written(p) ELSE UNCHANGED branches
  /\ IF local[p].attempt < MaxAttempts
     THEN local' = [local EXCEPT ![p].attempt = @ + 1] /\ UNCHANGED pc
     ELSE Return(p)
  /\ UNCHANGED <<repository, fork, drafts, database, now, budget>>

\* Seeded fault: a file that GitHub refuses is passed over.
PutRefusedPassedOver(p) ==
  /\ pc[p] = "put" /\ ~Accepts(p)
  /\ IF local[p].next < Len(Changes(local[p].candidate))
     THEN local' = [local EXCEPT ![p].next = @ + 1] /\ Goto(p, "sha")
     ELSE UNCHANGED local /\ Goto(p, "pull")
  /\ UNCHANGED <<repository, github, database, now, budget>>

\* An error of the client is not retried.
PutRefused(p) ==
  /\ pc[p] = "put" /\ ~Accepts(p)
  /\ Return(p)
  /\ UNCHANGED <<repository, github, database, now, budget>>

\* create_pull_request, always a draft; the session ends, with or without
\* the answer.
OpenDraft(p) ==
  LET l == local[p]
  IN /\ pc[p] = "pull"
     /\ ~\E d \in drafts : d.branch = l.candidate.branch
     /\ drafts' = drafts \cup {[branch |-> l.candidate.branch, candidate |-> l.candidate,
                                capsule |-> l.capsule, at |-> l.at, live |-> l.live]}
     /\ Return(p)
     /\ UNCHANGED <<repository, fork, branches, database, now, budget>>

\* A request of the write boundary fails: the error ends the session where
\* it is.
RequestFails(p) ==
  /\ pc[p] \in {"revalidate", "fork", "branch", "pull"}
  /\ Return(p)
  /\ UNCHANGED <<repository, github, database, now, budget>>

(***************************************************************************)
(* Everybody else                                                          *)
(***************************************************************************)
MaintainersAct ==
  /\ budget.events > 0
  /\ \/ \E i \in DOMAIN ConsentPaths, m \in Manifests :
          files' = [files EXCEPT ![i] = m] /\ UNCHANGED <<issue, head>>
     \/ issue' \in Issues /\ UNCHANGED <<files, head>>
     \/ head' \in Shas \ {head} /\ UNCHANGED <<files, issue>>
  /\ budget' = [budget EXCEPT !.events = @ - 1]
  /\ UNCHANGED <<github, database, now, pc, local>>

Tick ==
  /\ budget.events > 0 /\ now' = now + 1
  /\ budget' = [budget EXCEPT !.events = @ - 1]
  /\ UNCHANGED <<repository, github, database, pc, local>>

\* The database file is edited by other means.
Tamper ==
  /\ budget.events > 0
  /\ \E i \in DOMAIN ledger :
       \/ ledger' = WithoutRow(ledger, i)
       \/ i < Len(ledger) /\ ledger' = Exchanged(ledger, i)
       \/ \E d \in {"approved", "blocked"} :
            \/ ledger' = EditedRecord(ledger, i, [ledger[i].body EXCEPT !.content.decision = d])
            \/ ledger' = EditedColumn(ledger, i, [ledger[i].columns EXCEPT !.decision = d])
       \/ \E body \in {[ledger[i].body EXCEPT !.schema = 1], [ledger[i].body EXCEPT !.run = "run"]} :
            ledger' = EditedRecord(ledger, i, body)
  /\ budget' = [budget EXCEPT !.events = @ - 1]
  /\ UNCHANGED <<repository, github, issued, now, pc, local>>

Admission(p) ==
  \/ Discover(p) \/ Generate(p)
  \/ \E failing \in {"none", "capability", "permission", "base_revision", "risk"} :
       Admit(p, failing)

Human(p) == Approve(p) \/ Decline(p)

Write(p) ==
  \/ Validate(p) \/ Revalidate(p)
  \/ Fork(p)
  \/ \E answered \in BOOLEAN : CreateBranch(p, answered)
  \/ \E answers \in BOOLEAN : AskSha(p, answers)
  \/ PutAnswered(p) \/ PutRefused(p)
  \/ \E written \in BOOLEAN : PutFails(p, written)
  \/ OpenDraft(p) \/ RequestFails(p)

Next ==
  \/ \E p \in Processes : Admission(p) \/ Human(p) \/ Write(p)
  \/ MaintainersAct \/ Tick \/ Tamper

Spec == Init /\ [][Next]_vars

(***************************************************************************)
(* Properties                                                              *)
(***************************************************************************)
Steps == {"idle", "generate", "admit", "review", "validate", "revalidate", "fork",
          "branch", "sha", "put", "pull"}

Writing == {"fork", "branch", "sha", "put", "pull"}

\* Every variable has its type: the processes are at a known step and hold a
\* candidate and a capsule where the step needs them.
TypeOK ==
  /\ issue \in Issues /\ head \in Shas
  /\ fork \in BOOLEAN
  /\ now \in Nat
  /\ pc \in [Processes -> Steps]
  /\ \A p \in Processes :
       /\ local[p].attempt \in 1..MaxAttempts
       /\ pc[p] \notin {"idle", "generate"} => local[p].candidate \in Candidates
       /\ pc[p] \in Writing \cup {"review", "validate", "revalidate"} => local[p].capsule # None
  /\ budget.sessions \in 0..MaxSessions
  /\ budget.events \in 0..MaxEvents

\* The lines that two contents have in common, in order: a longest common
\* subsequence.  The reference for the line budget.
CommonLines(old, new) ==
  LET best[at \in (0..Len(old)) \X (0..Len(new))] ==
        LET i == at[1]
            j == at[2]
        IN IF i = 0 \/ j = 0 THEN 0
           ELSE IF old[i] = new[j] THEN best[<<i - 1, j - 1>>] + 1
           ELSE IF best[<<i - 1, j>>] > best[<<i, j - 1>>]
             THEN best[<<i - 1, j>>] ELSE best[<<i, j - 1>>]
  IN best[<<Len(old), Len(new)>>]

DiffLines(change) ==
  IF change.old = None THEN Len(change.new)
  ELSE Len(change.old) + Len(change.new) - 2 * CommonLines(change.old, change.new)

\* What the maintainers' consent means for the change that a contribution makes,
\* without reference to the way the policy computes it.  Not in it is what a
\* manifest asks of the evidence: docs/CONSENT_PROTOCOL.md:135 denies a proposal
\* whose required_checks "did not run and pass", or without the reproduction that
\* is required, and admit_contribution (pipeline.rs:400) asks for neither.
ConsentCovers(consent, contribution) ==
  LET changes == Elements(Changes(contribution))
      diff == [n \in 1..Len(Changes(contribution)) |-> DiffLines(Changes(contribution)[n])]
      sum[n \in 0..Len(diff)] == IF n = 0 THEN 0 ELSE sum[n - 1] + diff[n]
  IN /\ Len(Changes(contribution)) <= consent.maxFiles
     /\ sum[Len(diff)] <= consent.maxLines
     /\ \A c \in changes :
          /\ ~c.deleted /\ ~IsProtectedPath(c.path)
          /\ consent.allowed = {} \/ \E g \in consent.allowed : PathMatches(g, c.path)
          /\ ~\E g \in consent.denied : PathMatches(g, c.path)
          /\ IsDependencyPath(c.path) => consent.deps
          /\ c.isNew => consent.newFiles
          /\ IsTestPath(c.path) => consent.tests

\* The change that a draft pull request makes lies within the consent that was
\* in force when its write began, whatever the maintainers changed while it was
\* generated and reviewed; its diff has no more lines than they allow
\* (revalidate_consent).  It may have been opened although checks
\* or the reproduction that this consent requires never ran: see ConsentCovers.
DraftWithinConsent ==
  \A d \in drafts : d.live # None /\ ConsentCovers(d.live, d.candidate)

\* However long the human took, the evidence of a draft had not expired when its
\* write began, a day after the permit was issued (validate_for_submission).
DraftWithinPermit ==
  \A d \in drafts : d.at <= d.capsule.generatedAt + PermitTtl

\* The branch of a draft holds the reviewed contribution, complete and nothing
\* else, on the attested commit: whatever failed before it, and whatever other
\* sessions do to branches of that name (execute_draft_write).
DraftIsTheCandidate ==
  \A d \in drafts :
    LET changes == Elements(Changes(d.candidate))
    IN /\ branches[d.branch].base = d.capsule.base
       /\ DOMAIN branches[d.branch].files = {c.path : c \in changes}
       /\ \A c \in changes : branches[d.branch].files[c.path] = c.new

\* A human approved the very contribution of a draft, and a receipt was issued
\* for that approval before the write began (admit_contribution).
DraftHasApproval ==
  \A d \in drafts : \E r \in issued :
    r # NoReceipt /\ r[Len(r)].content =
      [decision |-> "approved", candidate |-> d.candidate]

\* A ledger that verifies stood like this before: whatever somebody did to the
\* database file, either the chain is broken or the records are those of a
\* receipt that was issued (verify_admission_audit_chain_in).
ValidLedgerWasIssued ==
  ChainIsValid(ledger) =>
    [i \in DOMAIN ledger |-> Material(ledger[i].body)] \in issued \cup {NoReceipt}
=============================================================================
