---------------------------- MODULE RunEvidence ----------------------------
(***************************************************************************)
(* The evidence a run collects for its candidate: the validation graph     *)
(* (core/validation_graph.rs), the challenge report (core/challenge.rs)    *)
(* and the capsule of core/evidence_v3.rs with the check that the write    *)
(* boundary makes on it.  A fingerprint is represented by what it is a     *)
(* fingerprint of.                                                         *)
(***************************************************************************)
EXTENDS RunWorkspace

CONSTANT None

\* What the maintainer's consent asks of the run.
PermitRecord == [reproduction: BOOLEAN]

ReproductionStatus == {"absent", "no_surface", "not_reproduced", "reproduced"}

\* ValidationGraph::verdict: a required check that failed, a required check
\* that was skipped, no check at all.  Optional checks do not count.
Verdicts == {"pass", "fail", "incomplete", "empty"}

\* A validation graph.  `clean' says that the optional checks passed too,
\* `scoped' that the admission_scope check is one of its nodes.  `on' is the
\* tree with which its last check ended, and `theirs' the paths of it that the
\* run was not the last to write: every check ran on the rest of `on'.
GraphRecord ==
  [verdict: Verdicts, clean: BOOLEAN, scoped: BOOLEAN,
   on: [Paths -> Contents], theirs: SUBSET Paths]

\* What running a graph with at least one check can give.
CheckResults ==
  {[verdict |-> "pass", clean |-> TRUE], [verdict |-> "pass", clean |-> FALSE],
   [verdict |-> "fail", clean |-> FALSE], [verdict |-> "incomplete", clean |-> FALSE]}

GraphPasses(g) == g.verdict = "pass"

\* The candidate as somebody read it back from the workspace.
DiffRecord == UNION {[S -> Contents] : S \in SUBSET Paths}

\* candidate_diff: the touched files as they are on disk.
CandidateDiff(w, c) == [p \in Touched(c) |-> w.files[p]]

\* A challenge report; `diff' is what the challenger reviewed.
ReportRecord == [completed: BOOLEAN, blocking: BOOLEAN, diff: DiffRecord]

\* ChallengeReport::not_run and ChallengeReport::completed.
NotRun == [completed |-> FALSE, blocking |-> FALSE, diff |-> EmptyPatch]
Completed(blocking, diff) == [completed |-> TRUE, blocking |-> blocking, diff |-> diff]

\* ChallengeReport::unresolved_concerns.
UnresolvedConcerns(r) == r.blocking

\* ChallengeEvidence::has_blocking_concerns.
HasBlockingConcerns(r) == ~r.completed \/ r.blocking

\* EvidenceCapsuleV3::build; `surface' is the candidate that the review surface
\* was computed from.
Capsule(contribution, surface, graph, report, reproduction, review) ==
  [candidate |-> contribution,
   surface |-> surface,
   graph |-> graph,
   report |-> report,
   reproduction |-> reproduction,
   review |-> review]

\* EvidenceCapsuleV3::bind_review.
BindReviewTo(capsule, fingerprint) == [capsule EXCEPT !.review = fingerprint]

\* evaluate_run_requirements: maintainer-required reproduction.
MeetsRunRequirements(permit, reproduction) ==
  permit.reproduction => reproduction = "reproduced"

\* The bindings validate_for_submission checks between the capsule, the
\* contribution to be written and the run record it is given.
BindingsHold(capsule, contribution, row) ==
  /\ capsule.candidate = contribution
  /\ row.state \in {"approved", "submitted"}
  /\ row.task
  /\ row.cand = capsule.candidate
  /\ capsule.review = row.review
  /\ row.review = capsule.candidate

\* The evidence it asks for: a passing verdict, every check passing, a
\* completed challenge without blocking concerns, required reproduction.
EvidenceHolds(capsule, permit) ==
  /\ GraphPasses(capsule.graph)
  /\ capsule.graph.clean
  /\ capsule.report # None
  /\ ~HasBlockingConcerns(capsule.report)
  /\ MeetsRunRequirements(permit, capsule.reproduction)

ValidForSubmission(capsule, contribution, row, permit, lapsed) ==
  /\ ~lapsed
  /\ BindingsHold(capsule, contribution, row)
  /\ EvidenceHolds(capsule, permit)

=============================================================================
