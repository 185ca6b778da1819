-------------------------- MODULE RunExecutorProps --------------------------
(***************************************************************************)
(* What driving a run promises: over the record alone, between the record, *)
(* the artifacts and the workspace, and towards GitHub and the ledger.     *)
(***************************************************************************)
EXTENDS RunExecutor

Drafts == {fork.drafts[i] : i \in DOMAIN fork.drafts}

Quiet == \A e \in Executors : Resting(e)

Ended == run.state \in TerminalStates

\* The newest event of run_events names the state of the row: whatever moved
\* the row left its event ("the only way state may change", memory.rs).
EventsExplainState == lastEvent = run.state

\* The record of the run, written by transitions and by update_run, moves
\* only as the lifecycle of RunLifecycle allows, crashes included: no binding
\* written from a stage's copy disturbs the state, and the events explain it.
RecordFollowsLifecycle == Lifecycle!Spec /\ []EventsExplainState

\* At most one draft pull request comes out of a run, however often it is
\* driven again after a crash between the GitHub calls and the record of them
\* (CONTRIBUTION_RUNS.md "at most one reviewed draft proposal").
AtMostOneDraft == Len(fork.drafts) <= 1

\* Every byte of a draft was in a contribution a human approved, even when
\* the process died anywhere between the approval and the draft.
DraftWasApproved == \A d \in Drafts : d.contribution \in approved

\* A draft leaves with the evidence of its own candidate: a passing scoped
\* graph with a completed, clean challenge, under one fingerprint shared by
\* the capsule, the review and the contribution.
DraftCarriesEvidence ==
  \A d \in Drafts :
    /\ d.capsule.candidate = d.contribution
    /\ d.capsule.review = d.contribution
    /\ d.capsule.graph.verdict = "pass" /\ d.capsule.graph.scoped
    /\ d.capsule.report.completed /\ ~d.capsule.report.blocking

\* A draft that claims to resolve a reproduced bug was shown to: the commands
\* that passed ran on the candidate, base plus contribution and nothing else
\* (evidence_v3.rs:58 "True when every recorded command exited zero on the
\* candidate"; the leg is a required check of the graph).
ResolvedOnCandidate ==
  \A d \in Drafts :
    d.capsule.reproduction = "reproduced" => d.capsule.graph.on = TreeOf(d.contribution)

\* The weaker promise for the files of the draft alone: after any number of
\* repairs, every check ran on them as the draft publishes them.  The exception
\* are files that somebody else was the last to write, the commands of the
\* graph among them: a check that formats a file of the candidate is folded
\* into the checkpoint (validate), and the draft publishes the file as proposed.
DraftFilesWereValidated ==
  \A d \in Drafts : \A p \in Touched(d.contribution) \ d.capsule.graph.theirs :
    d.capsule.graph.on[p] = PostImage(d.contribution, p)

\* A submitted run has its draft and its receipt, and the draft is the
\* candidate of the row.
SubmittedIsBacked ==
  run.state = "submitted" =>
    /\ receipts >= 1 /\ run.draft
    /\ \E d \in Drafts : d.contribution = run.cand

\* The candidate files the human's review surface describes are the ones the
\* challenger read: an edit in between stops the run.
ReviewedIsChallenged ==
  art.capsule # None /\ art.capsule.report # None =>
    art.capsule.surface = art.capsule.report.diff

\* An approved run carries the approved fingerprint as its candidate
\* (CONTRIBUTION_RUNS.md "`Approved` requires the reviewed fingerprint to
\* equal the candidate fingerprint").
ApprovedIsCandidate ==
  run.state \in {"approved", "submitted"} => run.review = run.cand

\* A terminal row is never written into a nonterminal one again
\* (CONTRIBUTION_RUNS.md "Terminal states cannot transition").
TerminalIsFinal == [][Ended => run'.state = run.state]_run

\* A drive comes back: the repair loop and every stage end when the calls
\* they wait for are answered.
DriveReturnsEventually ==
  \A e \in Executors : ~Resting(e) ~> Resting(e)

=============================================================================
