---------------------------- MODULE RunLifecycle ----------------------------
(***************************************************************************)
(* What the persisted record of a Contribution Run promises, whoever       *)
(* drives it.  The record changes in two ways only: a validated lifecycle  *)
(* transition (Memory::transition_run calling ContributionRun::transition) *)
(* and the binding of a fact to the record while its state stays the same  *)
(* (the permit, the candidate and the review that the executor writes      *)
(* between transitions with Memory::update_run).                           *)
(*                                                                         *)
(* `gates' is a history variable: the states entered since the candidate   *)
(* was last bound to the record.                                           *)
(***************************************************************************)
EXTENDS RunStates

CONSTANTS Candidates,  \* candidate fingerprints
          None         \* the absent fingerprint

ASSUME NoneIsNotACandidate == None \notin Candidates

VARIABLES run,    \* the row: state, permit bound?, candidate and review fingerprint
          gates   \* states entered since the candidate was last bound

vars == <<run, gates>>

Row == [state: RunState,
        permit: BOOLEAN,
        cand: Candidates \cup {None},
        review: Candidates \cup {None}]

TypeOK ==
  /\ run \in Row
  /\ gates \in SUBSET RunState

NewRow == [state |-> "discovered", permit |-> FALSE, cand |-> None, review |-> None]

Init ==
  /\ run = NewRow
  /\ gates = {}

\* The binding guards of ContributionRun::transition.
BindingGuard(row, to) ==
  /\ to = "authorized" => row.permit
  /\ to \in {"ready_for_review", "approved"} => row.cand # None
  /\ to = "submitted" => row.cand # None /\ row.cand = row.review

TransitionAllowed(row, to) ==
  /\ CanTransition(row.state, to)
  /\ BindingGuard(row, to)

Transition(to) ==
  /\ TransitionAllowed(run, to)
  /\ run' = [run EXCEPT !.state = to]
  /\ gates' = gates \cup {to}

\* authorize: the permit is bound before the run becomes `authorized'.
BindPermit ==
  /\ run.state = "discovered"
  /\ run' = [run EXCEPT !.permit = TRUE]
  /\ UNCHANGED gates

\* solve and repair_once: a new candidate is bound and any review of the old
\* one is dropped.
BindCandidate(c) ==
  /\ run.state \in {"executing", "repairing"}
  /\ run' = [run EXCEPT !.cand = c, !.review = None]
  /\ gates' = {}

\* review: the fingerprint the human approved is bound before `approved'.
BindReview(c) ==
  /\ run.state = "ready_for_review"
  /\ run' = [run EXCEPT !.review = c]
  /\ UNCHANGED gates

Next ==
  \/ \E to \in RunState : Transition(to)
  \/ BindPermit
  \/ \E c \in Candidates : BindCandidate(c) \/ BindReview(c)

Spec == Init /\ [][Next]_vars

-----------------------------------------------------------------------------
(* What the record promises. *)

\* A submitted run carries the fingerprint of the candidate the human
\* approved: nothing between the approval and the submission replaces either
\* of the two fingerprints (CONTRIBUTION_RUNS.md "The reviewed candidate is
\* the submitted candidate").
SubmittedIsReviewed ==
  run.state = "submitted" => run.cand # None /\ run.cand = run.review

\* Whatever candidate a submitted run carries went through validation,
\* challenge, the review queue and the approval AFTER it was last bound: no
\* path through the lifecycle lets a repaired candidate keep the gates of the
\* candidate it replaced.
SubmittedPassedEveryGate ==
  run.state = "submitted" => Gates \subseteq gates

\* No state past authorization is reachable without a permit.
NothingWithoutPermit ==
  run.state \notin {"discovered"} \cup FailClosedStates => run.permit

\* A terminal record is frozen: neither a transition nor a late binding
\* touches it again (CONTRIBUTION_RUNS.md "Terminal states cannot transition").
TerminalIsFrozen ==
  [][run.state \notin TerminalStates]_run

\* From the moment the candidate is queued for review it can only be
\* approved, submitted or dropped, never exchanged.
QueuedCandidateIsFixed ==
  [][run.state \in {"ready_for_review", "approved"} => run'.cand = run.cand]_run

=============================================================================
