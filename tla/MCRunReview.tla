---------------------------- MODULE MCRunReview ----------------------------
(***************************************************************************)
(* Two processes resume a run that waits for its review: the human gate and *)
(* the write boundary under interleaving, from the state the drive leaves   *)
(* behind when it stops before the review.                                  *)
(***************************************************************************)
EXTENDS MCRunExecutor

\* A candidate of one file and one test, in a repository of two paths.
MCReviewPaths == {src, test}

Queued == [changes |-> src :> 1, tests |-> test :> 1]

MCReviewSolver == {Queued}

MCReviewRepairs == {src :> 2}

\* The processes are interchangeable.
MCReviewSymmetry == Permutations(Executors)

QueuedRow ==
  [NewRow EXCEPT !.state = "ready_for_review", !.permit = TRUE, !.task = TRUE,
                 !.cand = Queued]

QueuedWorkspace ==
  Checkpoint([Materialized EXCEPT !.files = TreeOf(Queued), !.written = Touched(Queued)])

QueuedArtifacts ==
  [NoArtifacts EXCEPT
     !.permit = [reproduction |-> FALSE], !.complete = TRUE, !.spec = TRUE,
     !.reproduction = "no_surface", !.contribution = Queued,
     !.validation = [verdict |-> "pass", clean |-> TRUE, scoped |-> TRUE,
                     on |-> TreeOf(Queued), theirs |-> {}],
     !.challenge = Completed(FALSE, CandidateDiff(QueuedWorkspace, Queued))]

QueuedInit ==
  /\ run = QueuedRow
  /\ lastEvent = "ready_for_review"
  /\ gates = {"validating", "challenging", "ready_for_review"}
  /\ art = QueuedArtifacts
  /\ ws = QueuedWorkspace
  /\ fork = [branch |-> FALSE, drafts |-> <<>>]
  /\ receipts = 0
  /\ approved = {}
  /\ lapsed = FALSE
  /\ pc = [e \in Executors |-> "returned"]
  /\ local = [e \in Executors |-> NoLocal]

QueuedSpec == QueuedInit /\ [][Next]_vars

=============================================================================
