---------------------------- MODULE RunExecutor ----------------------------
(***************************************************************************)
(* RunExecutor (orchestrator/run_executor.rs) driving one Contribution Run *)
(* from `discovered' to a draft pull request.                              *)
(*                                                                         *)
(* A stage is cut into steps where it waits for the environment (GitHub, a *)
(* model, a command, the human) and after each durable effect: the row in  *)
(* the run database, the artifacts file, the workspace, the audit ledger,  *)
(* the fork.  Between two steps the process may die, and other processes   *)
(* driving the same run take their own steps.  What the stage holds in     *)
(* memory (`local') is lost with the process; what it read from the row    *)
(* and the artifacts at the stage's start it keeps using.                  *)
(***************************************************************************)
EXTENDS RunStates, RunEvidence, Sequences

CONSTANTS
  Executors,       \* processes that drive the run
  SolverOutputs,   \* contributions the solver model may produce
  RepairOutputs,   \* patches the repair model may produce
  MaxRepairs,      \* config.max_repair_iterations
  SubmitCapable,   \* config.submit_capable: the --submit grant
  MayResume,       \* whether a run is driven again after a drive came back
  MayCrash,        \* whether processes may die between two steps
  MayEdit,         \* whether somebody else may edit the workspace
  CommandFiles     \* paths, each with a content that a command may give it

ASSUME ExecutorAssumption ==
  /\ SolverOutputs \subseteq ContributionRecord
  /\ RepairOutputs \subseteq Patches
  /\ MaxRepairs \in Nat
  /\ SubmitCapable \in BOOLEAN
  /\ MayResume \in BOOLEAN
  /\ MayCrash \in BOOLEAN
  /\ MayEdit \in BOOLEAN
  /\ CommandFiles \subseteq Paths \X Contents

VARIABLES
  run,        \* the row of contribution_runs
  lastEvent,  \* state_to of the newest row of run_events
  gates,      \* history: states entered since the candidate was last bound
  art,        \* <run_id>.artifacts.json
  ws,         \* <runs_root>/<run_id> and its checkpoint
  fork,       \* the contribution branch on the fork and the drafts opened
  receipts,   \* approved decisions of this run in the audit ledger
  approved,   \* history: contributions a human approved
  lapsed,     \* expires_at has passed
  pc,         \* next step of every process
  local       \* what every process holds in memory

record == <<run, lastEvent, gates>>
files  == <<art, ws>>
world  == <<fork, receipts, approved, lapsed>>
vars   == <<record, files, world, pc, local>>

\* Everything solve and repair_once can bind as the candidate.
Contributions ==
  SolverOutputs \cup
  {[changes |-> r, tests |-> s.tests] : r \in RepairOutputs, s \in SolverOutputs}

OrNone(S) == S \cup {None}

RowRecord ==
  [state: RunState, permit: BOOLEAN, task: BOOLEAN,
   cand: OrNone(Contributions), review: OrNone(Contributions),
   repairs: Nat, draft: BOOLEAN]

NewRow ==
  [state |-> "discovered", permit |-> FALSE, task |-> FALSE,
   cand |-> None, review |-> None, repairs |-> 0, draft |-> FALSE]

CapsuleRecord ==
  [candidate: Contributions, surface: DiffRecord,
   graph: GraphRecord, report: OrNone(ReportRecord),
   reproduction: ReproductionStatus, review: OrNone(Contributions)]

ArtifactsRecord ==
  [permit: OrNone(PermitRecord), complete: BOOLEAN, spec: BOOLEAN,
   reproduction: ReproductionStatus, contribution: OrNone(Contributions),
   validation: OrNone(GraphRecord), challenge: OrNone(ReportRecord),
   capsule: OrNone(CapsuleRecord)]

\* The absent value of an Option is none of the values.
ASSUME NoneAssumption ==
  /\ None \notin Contributions
  /\ None \notin GraphRecord /\ None \notin ReportRecord /\ None \notin CapsuleRecord

NoArtifacts ==
  [permit |-> None, complete |-> FALSE, spec |-> FALSE,
   reproduction |-> "absent", contribution |-> None,
   validation |-> None, challenge |-> None, capsule |-> None]

\* What a stage holds: the row and the artifacts it works on, the output of
\* the model call, the paths still to write; and what the drive holds: how
\* far down its chain of stages it is and whether it goes on to the review.
LocalRecord ==
  [row: RowRecord, art: ArtifactsRecord, out: OrNone(Contributions),
   todo: SUBSET Paths, pos: 0..9, review: BOOLEAN]

NoLocal ==
  [row |-> NewRow, art |-> NoArtifacts, out |-> None, todo |-> {},
   pos |-> 0, review |-> FALSE]

\* Steps at which the stage waits for something outside the process.
AwaitingSteps ==
  {"authorize.consent", "prepare.materialize", "understand.inputs",
   "plan.commands", "solve.model", "validate.run", "repair.model",
   "package.check", "review.prompt", "submit.branch", "submit.draft"}

Steps ==
  AwaitingSteps \cup
  {"idle", "returned", "drive", "reload", "authorize.bind", "authorize.done",
   "prepare.save", "prepare.done", "understand.bind", "plan", "plan.run",
   "plan.save", "plan.bind", "plan.done", "solve.start", "solve.write",
   "solve.checkpoint", "solve.save", "solve.bind", "validate.start",
   "validate.checkpoint", "validate.save", "challenge.gate",
   "challenge.review", "challenge.not_run", "challenge.bind",
   "challenge.decide", "repair.write", "repair.checkpoint", "repair.save",
   "repair.bind", "review.bind", "review.save", "review.done",
   "submit.boundary", "submit.audit", "submit.bind", "submit.done"}

ForkRecord ==
  [branch: BOOLEAN,
   drafts: Seq([contribution: Contributions, capsule: CapsuleRecord])]

TypeOK ==
  /\ run \in RowRecord
  /\ lastEvent \in RunState
  /\ gates \in SUBSET RunState
  /\ art \in ArtifactsRecord
  /\ ws \in WorkspaceRecord
  /\ fork \in ForkRecord
  /\ receipts \in Nat
  /\ approved \in SUBSET Contributions
  /\ lapsed \in BOOLEAN
  /\ pc \in [Executors -> Steps]
  /\ local \in [Executors -> LocalRecord]

Init ==
  /\ run = NewRow
  /\ lastEvent = "discovered"
  /\ gates = {}
  /\ art = NoArtifacts
  /\ ws = NoWorkspace
  /\ fork = [branch |-> FALSE, drafts |-> <<>>]
  /\ receipts = 0
  /\ approved = {}
  /\ lapsed = FALSE
  /\ pc = [e \in Executors |-> "idle"]
  /\ local = [e \in Executors |-> NoLocal]

\* The run record as a lifecycle: the abstract specification.
Lifecycle == INSTANCE RunLifecycle WITH
  Candidates <- Contributions,
  run <- [state |-> run.state, permit |-> run.permit,
          cand |-> run.cand, review |-> run.review]

-----------------------------------------------------------------------------
(* Steps of a process *)

At(e, step) == pc[e] = step

Goto(e, step) == pc' = [pc EXCEPT ![e] = step]

\* The process goes on at `step' holding `held'.
Continue(e, step, held) ==
  /\ Goto(e, step)
  /\ local' = [local EXCEPT ![e] = held]

\* The drive returns: with an error, or with a run in a terminal state, for
\* which no later stage applies.
Leave(e) == Continue(e, "returned", NoLocal)

Resting(e) == pc[e] \in {"idle", "returned"}

\* Memory::transition_run: one immediate transaction that re-reads the row,
\* validates the transition, and writes the row and its event.
Commit(to) ==
  /\ run' = [run EXCEPT !.state = to]
  /\ lastEvent' = to
  /\ gates' = gates \cup {to}

\* Seeded fault: the transition checks the state and not the bindings.
AllowedUnbound(to) == CanTransition(run.state, to)

Allowed(to) == Lifecycle!TransitionAllowed(run, to)

\* A transition after which the stage goes on with the row it returned; a
\* denied transition is an error.
Advance(e, to, step) ==
  IF Allowed(to)
    THEN /\ Commit(to)
         /\ Continue(e, step, [local[e] EXCEPT !.row = run'])
    ELSE Leave(e) /\ UNCHANGED record

\* A fail-closed exit, after which the drive returns.
Close(e, to) ==
  /\ IF Allowed(to) THEN Commit(to) ELSE UNCHANGED record
  /\ Leave(e)

\* Memory::update_run: every column of the row, the state included, is
\* written from the copy the stage holds.
UpdateRun(e, step) ==
  /\ run' = local[e].row
  /\ UNCHANGED lastEvent
  /\ Goto(e, step)
  /\ UNCHANGED local

\* enforce_live on an expired row; on a terminal row there is nothing to do.
Expire == IF Allowed("expired") THEN Commit("expired") ELSE UNCHANGED record

\* The opening of a stage: load the row, enforce_live, the state check, load
\* the artifacts.
Open(e, expected, pos, ready, step) ==
  /\ IF run.state \in TerminalStates \/ lapsed
       THEN Expire /\ Leave(e)
       ELSE /\ UNCHANGED record
            /\ IF run.state \in expected /\ ready
                 THEN Continue(e, step, [local[e] EXCEPT !.row = run, !.art = art,
                                         !.out = None, !.todo = {}, !.pos = pos])
                 ELSE Leave(e)
  /\ UNCHANGED <<files, world>>

-----------------------------------------------------------------------------
(* drive_inner *)

\* The stages in the order drive_inner tests for them; the repair loop (6)
\* can be taken again, every other stage is behind the drive once it ran.
DriveOrder ==
  [discovered |-> 1, authorized |-> 2, prepared |-> 3, planned |-> 4,
   executing |-> 5, validating |-> 6, repairing |-> 6]

NextStage(l) ==
  LET s == l.row.state IN
  IF s \in DOMAIN DriveOrder
    THEN IF l.pos <= DriveOrder[s] THEN DriveOrder[s] ELSE 0
  ELSE IF s = "ready_for_review"
    THEN IF l.pos <= 7 THEN 7 ELSE IF l.review THEN 8 ELSE 0
  ELSE IF s = "approved" /\ l.review /\ SubmitCapable THEN 9 ELSE 0

Calls(e, stage) == At(e, "drive") /\ NextStage(local[e]) = stage

\* drive (review) or drive_to_evidence (no review) is called.  The contribute
\* command drives the run it just created, once; with MayResume, whoever holds
\* the run's id drives it again from the state it is in.
StartDrive(e, review) ==
  /\ At(e, "idle") \/ (MayResume /\ At(e, "returned"))
  /\ Continue(e, "drive", [NoLocal EXCEPT !.row = run, !.review = review])
  /\ UNCHANGED <<record, files, world>>

\* The row is loaded again after a stage that does not return it.
Reload(e) ==
  /\ At(e, "reload")
  /\ Continue(e, "drive", [local[e] EXCEPT !.row = run])
  /\ UNCHANGED <<record, files, world>>

DriveReturns(e) ==
  /\ Calls(e, 0)
  /\ Leave(e)
  /\ UNCHANGED <<record, files, world>>

-----------------------------------------------------------------------------
(* authorize *)

\* A row that is no longer `discovered' is returned as it is.
AuthorizeOpen(e) ==
  /\ Calls(e, 1)
  /\ IF run.state \in TerminalStates \/ lapsed \/ run.state = "discovered"
       THEN Open(e, {"discovered"}, 2, TRUE, "authorize.consent")
       ELSE /\ Continue(e, "drive", [local[e] EXCEPT !.row = run, !.pos = 2])
            /\ UNCHANGED <<record, files, world>>

AuthorizeDenied(e) ==
  /\ At(e, "authorize.consent")
  /\ \/ Close(e, "needs_authorization")   \* no manifest, no approval label
     \/ Close(e, "blocked")               \* base revision not attested
  /\ UNCHANGED <<files, world>>

AuthorizeIssue(e, permit) ==
  /\ At(e, "authorize.consent")
  /\ art' = [art EXCEPT !.permit = permit]
  /\ Continue(e, "authorize.bind", [local[e] EXCEPT !.row.permit = TRUE])
  /\ UNCHANGED <<record, ws, world>>

AuthorizeBind(e) ==
  /\ At(e, "authorize.bind")
  /\ UpdateRun(e, "authorize.done")
  /\ UNCHANGED <<gates, files, world>>

AuthorizeDone(e) ==
  /\ At(e, "authorize.done")
  /\ Advance(e, "authorized", "drive")
  /\ UNCHANGED <<files, world>>

-----------------------------------------------------------------------------
(* prepare *)

PrepareOpen(e) ==
  /\ Calls(e, 2)
  /\ Open(e, {"authorized"}, 3, art.permit # None, "prepare.materialize")

\* An existing workspace directory is an error, never reused.  The directory
\* is there as soon as materialization starts, whether or not it succeeds.
PrepareMaterialize(e) ==
  /\ At(e, "prepare.materialize")
  /\ IF ws.made
       THEN Leave(e) /\ UNCHANGED ws
       ELSE /\ ws' = Materialized
            /\ \/ Goto(e, "prepare.save") /\ UNCHANGED local
               \/ Leave(e)
  /\ UNCHANGED <<record, art, world>>

PrepareSave(e, complete) ==
  /\ At(e, "prepare.save")
  /\ art' = [local[e].art EXCEPT !.complete = complete]
  /\ Continue(e, "prepare.done", [local[e] EXCEPT !.art = art'])
  /\ UNCHANGED <<record, ws, world>>

PrepareDone(e) ==
  /\ At(e, "prepare.done")
  /\ IF local[e].art.complete
       THEN Advance(e, "prepared", "reload")
       ELSE Close(e, "blocked")
  /\ UNCHANGED <<files, world>>

-----------------------------------------------------------------------------
(* understand, reproduce_and_plan: the drive calls one after the other *)

UnderstandOpen(e) ==
  /\ Calls(e, 3)
  /\ Open(e, {"prepared", "reproducing"}, 4, TRUE, "understand.inputs")

UnderstandSave(e) ==
  /\ At(e, "understand.inputs")
  /\ art' = [art EXCEPT !.spec = TRUE]
  /\ Continue(e, "understand.bind", [local[e] EXCEPT !.row.task = TRUE])
  /\ UNCHANGED <<record, ws, world>>

UnderstandBind(e) ==
  /\ At(e, "understand.bind")
  /\ UpdateRun(e, "plan")
  /\ UNCHANGED <<gates, files, world>>

PlanOpen(e) ==
  /\ At(e, "plan")
  /\ Open(e, {"prepared"}, 4, art.spec /\ art.permit # None /\ ws.made, "plan.commands")

\* No reproduction surface: the `reproducing' state is skipped.
PlanNoSurface(e) ==
  /\ At(e, "plan.commands")
  /\ Continue(e, "plan.save", [local[e] EXCEPT !.art.reproduction = "no_surface"])
  /\ UNCHANGED <<record, files, world>>

PlanReproduce(e) ==
  /\ At(e, "plan.commands")
  /\ Advance(e, "reproducing", "plan.run")
  /\ UNCHANGED <<files, world>>

\* The commands ran (CommandWrites); what they wrote is folded into the
\* checkpoint.
PlanRun(e, status) ==
  /\ At(e, "plan.run")
  /\ ws' = Checkpoint(ws)
  /\ Continue(e, "plan.save", [local[e] EXCEPT !.art.reproduction = status])
  /\ UNCHANGED <<record, art, world>>

PlanSave(e) ==
  /\ At(e, "plan.save")
  /\ art' = local[e].art
  /\ Goto(e, "plan.bind")
  /\ UNCHANGED <<record, ws, world, local>>

PlanBind(e) ==
  /\ At(e, "plan.bind")
  /\ UpdateRun(e, "plan.done")
  /\ UNCHANGED <<gates, files, world>>

PlanDone(e) ==
  /\ At(e, "plan.done")
  /\ IF MeetsRunRequirements(local[e].art.permit, local[e].art.reproduction)
       THEN Advance(e, "planned", "drive")
       ELSE Close(e, "blocked")
  /\ UNCHANGED <<files, world>>

-----------------------------------------------------------------------------
(* solve *)

SolveOpen(e) ==
  /\ Calls(e, 4)
  /\ Open(e, {"planned"}, 5, art.spec /\ art.permit # None /\ ws.made, "solve.start")

SolveStart(e) ==
  /\ At(e, "solve.start")
  /\ IF HasUnexpectedChanges(ws)
       THEN Close(e, "failed")
       ELSE Advance(e, "executing", "solve.model")
  /\ UNCHANGED <<files, world>>

\* The model call failed; or its output is empty, claims a base content the
\* workspace does not have, or is not admissible under the permit.
SolveRejected(e) ==
  /\ At(e, "solve.model")
  /\ Close(e, "failed") \/ Close(e, "blocked")
  /\ UNCHANGED <<files, world>>

\* Seeded fault: the added tests are not written to the workspace.
SolveCandidateUntested(e, c) ==
  /\ At(e, "solve.model")
  /\ ~HasDuplicatePath(c)
  /\ Continue(e, "solve.write", [local[e] EXCEPT !.out = c, !.todo = DOMAIN c.changes])
  /\ UNCHANGED <<record, files, world>>

SolveCandidate(e, c) ==
  /\ At(e, "solve.model")
  /\ ~HasDuplicatePath(c)
  /\ Continue(e, "solve.write", [local[e] EXCEPT !.out = c, !.todo = Touched(c)])
  /\ UNCHANGED <<record, files, world>>

\* Files are written one by one (solve and repair_once).
WriteOne(e, p) ==
  /\ At(e, "solve.write") \/ At(e, "repair.write")
  /\ p \in local[e].todo
  /\ ws' = WriteFile(ws, p, PostImage(local[e].out, p))
  /\ Continue(e, IF local[e].todo # {p} THEN pc[e]
                 ELSE IF At(e, "solve.write") THEN "solve.checkpoint" ELSE "repair.checkpoint",
              [local[e] EXCEPT !.todo = @ \ {p}])
  /\ UNCHANGED <<record, art, world>>

\* The checkpoint that makes the written files, or what commands left behind,
\* the expected state of the workspace.
TakeCheckpoint(e, step, next) ==
  /\ At(e, step)
  /\ ws' = Checkpoint(ws)
  /\ Goto(e, next)
  /\ UNCHANGED <<record, art, world, local>>

SolveCheckpoint(e) == TakeCheckpoint(e, "solve.checkpoint", "solve.save")

SolveSave(e) ==
  /\ At(e, "solve.save")
  /\ art' = [local[e].art EXCEPT !.contribution = local[e].out]
  /\ Continue(e, "solve.bind", [local[e] EXCEPT !.row.cand = local[e].out])
  /\ UNCHANGED <<record, ws, world>>

SolveBind(e) ==
  /\ At(e, "solve.bind")
  /\ UpdateRun(e, "drive")
  /\ gates' = {}
  /\ UNCHANGED <<files, world>>

-----------------------------------------------------------------------------
(* validate *)

ValidateOpen(e) ==
  /\ \/ Calls(e, 5)
     \/ Calls(e, 6) /\ local[e].row.state = "repairing"
  /\ Open(e, {"executing", "repairing"}, 6, art.permit # None /\ ws.made, "validate.start")

ValidateStart(e) ==
  /\ At(e, "validate.start")
  /\ IF HasUnexpectedChanges(ws)
       THEN Close(e, "failed")
       ELSE Advance(e, "validating", "validate.run")
  /\ UNCHANGED <<files, world>>

\* Seeded fault: the scope check looks for the candidate in the memory of the
\* stage that produced it.
ValidateRunUnscoped(e, result) ==
  /\ At(e, "validate.run")
  /\ Continue(e, "validate.checkpoint",
        [local[e] EXCEPT !.art.validation =
           [verdict |-> result.verdict, clean |-> result.clean,
            scoped |-> local[e].out # None, on |-> ws.files, theirs |-> ws.theirs]])
  /\ UNCHANGED <<record, files, world>>

\* The checks ran in the workspace (CommandWrites), and the reproduction
\* commands once more.  The admission_scope node is there only when the
\* artifacts hold a contribution.
ValidateRun(e, result) ==
  /\ At(e, "validate.run")
  /\ Continue(e, "validate.checkpoint",
        [local[e] EXCEPT !.art.validation =
           [verdict |-> result.verdict, clean |-> result.clean,
            scoped |-> local[e].art.contribution # None, on |-> ws.files, theirs |-> ws.theirs]])
  /\ UNCHANGED <<record, files, world>>

ValidateCheckpoint(e) == TakeCheckpoint(e, "validate.checkpoint", "validate.save")

ValidateSave(e) ==
  /\ At(e, "validate.save")
  /\ art' = local[e].art
  /\ Goto(e, "reload")
  /\ UNCHANGED <<record, ws, world, local>>

-----------------------------------------------------------------------------
(* challenge_and_maybe_repair, repair_once *)

ChallengeOpen(e) ==
  /\ Calls(e, 6)
  /\ local[e].row.state = "validating"
  /\ Open(e, {"validating"}, 6, art.spec /\ art.validation # None, "challenge.gate")

RepairBudgetLeft(e) == local[e].row.repairs < MaxRepairs

\* repair_once opens with its transition; without budget the run is blocked.
RepairOrBlock(e) ==
  IF RepairBudgetLeft(e)
    THEN Advance(e, "repairing", "repair.model")
    ELSE Close(e, "blocked")

ChallengeGate(e) ==
  /\ At(e, "challenge.gate")
  /\ IF GraphPasses(local[e].art.validation)
       THEN Advance(e, "challenging", "challenge.review")
       ELSE RepairOrBlock(e)
  /\ UNCHANGED <<files, world>>

\* Without a contribution in the artifacts the stage errs and leaves the run
\* in `challenging'.
ChallengeUnfit(e) ==
  /\ At(e, "challenge.review")
  /\ IF HasUnexpectedChanges(ws)
       THEN Close(e, "failed")
       ELSE local[e].art.contribution = None /\ Leave(e) /\ UNCHANGED record
  /\ UNCHANGED <<files, world>>

FitForChallenge(e) ==
  /\ At(e, "challenge.review")
  /\ ~HasUnexpectedChanges(ws)
  /\ local[e].art.contribution # None

\* The challenger cannot run: its report says so, and the run is blocked.
ChallengeNotRun(e) ==
  /\ FitForChallenge(e)
  /\ art' = [local[e].art EXCEPT !.challenge = NotRun]
  /\ Goto(e, "challenge.not_run")
  /\ UNCHANGED <<record, ws, world, local>>

ChallengeBlocked(e) ==
  /\ At(e, "challenge.not_run")
  /\ Close(e, "blocked")
  /\ UNCHANGED <<files, world>>

ChallengeReported(e, blocking) ==
  /\ FitForChallenge(e)
  /\ LET diff == CandidateDiff(ws, local[e].art.contribution) IN
       art' = [local[e].art EXCEPT !.challenge = Completed(blocking, diff)]
  /\ Continue(e, "challenge.bind", [local[e] EXCEPT !.art = art'])
  /\ UNCHANGED <<record, ws, world>>

ChallengeBind(e) ==
  /\ At(e, "challenge.bind")
  /\ UpdateRun(e, "challenge.decide")
  /\ UNCHANGED <<gates, files, world>>

ChallengeDecide(e) ==
  /\ At(e, "challenge.decide")
  /\ IF UnresolvedConcerns(local[e].art.challenge)
       THEN RepairOrBlock(e)
       ELSE Advance(e, "ready_for_review", "drive")
  /\ UNCHANGED <<files, world>>

\* Without a contribution to repair the stage errs, with the run left in
\* `repairing'; otherwise the model call fails, or its output is rejected.
RepairRejected(e) ==
  /\ At(e, "repair.model")
  /\ IF local[e].art.contribution = None
       THEN Leave(e) /\ UNCHANGED record
       ELSE Close(e, "failed") \/ Close(e, "blocked")
  /\ UNCHANGED <<files, world>>

\* The revised changes replace the changes of the contribution; its tests
\* stay.  A revision that writes one of the tests again is a duplicate path.
Revised(prior, patch) == [prior EXCEPT !.changes = patch]

RepairCandidate(e, patch) ==
  /\ At(e, "repair.model")
  /\ local[e].art.contribution # None
  /\ LET c == Revised(local[e].art.contribution, patch) IN
       /\ ~HasDuplicatePath(c)
       /\ Continue(e, "repair.write",
                   [local[e] EXCEPT !.out = c, !.todo = DOMAIN patch])
  /\ UNCHANGED <<record, files, world>>

RepairCheckpoint(e) == TakeCheckpoint(e, "repair.checkpoint", "repair.save")

\* Seeded fault: the iteration is not counted.
RepairSaveUncounted(e) ==
  /\ At(e, "repair.save")
  /\ art' = [local[e].art EXCEPT !.contribution = local[e].out,
                                 !.validation = None,
                                 !.challenge = None,
                                 !.capsule = None]
  /\ Continue(e, "repair.bind", [local[e] EXCEPT !.row.cand = local[e].out, !.row.review = None])
  /\ UNCHANGED <<record, ws, world>>

\* Seeded fault: the row keeps the old fingerprint.
RepairSaveUnbound(e) ==
  /\ At(e, "repair.save")
  /\ art' = [local[e].art EXCEPT !.contribution = local[e].out,
                                 !.validation = None,
                                 !.challenge = None,
                                 !.capsule = None]
  /\ Continue(e, "repair.bind", [local[e] EXCEPT !.row.review = None, !.row.repairs = @ + 1])
  /\ UNCHANGED <<record, ws, world>>

\* Everything derived from the old candidate is dropped with it.
RepairSave(e) ==
  /\ At(e, "repair.save")
  /\ art' = [local[e].art EXCEPT !.contribution = local[e].out,
                                 !.validation = None,
                                 !.challenge = None,
                                 !.capsule = None]
  /\ Continue(e, "repair.bind",
              LET l == local[e] IN
              [l EXCEPT !.row = [l.row EXCEPT !.cand = l.out,
                                              !.review = None,
                                              !.repairs = l.row.repairs + 1]])
  /\ UNCHANGED <<record, ws, world>>

RepairBind(e) ==
  /\ At(e, "repair.bind")
  /\ UpdateRun(e, "drive")
  /\ gates' = {}
  /\ UNCHANGED <<files, world>>

-----------------------------------------------------------------------------
(* package_evidence, review *)

PackageOpen(e) ==
  /\ Calls(e, 7)
  /\ Open(e, {"ready_for_review"}, 8,
          art.permit # None /\ art.spec /\ art.contribution # None /\ ws.made,
          "package.check")

\* The candidate is no longer admissible, the run requirements are not met,
\* or the workspace has drifted: the run is closed, and the process with it.
PackageRejected(e) ==
  /\ At(e, "package.check")
  /\ \/ Close(e, "blocked")
     \/ /\ MeetsRunRequirements(local[e].art.permit, local[e].art.reproduction)
        /\ HasUnexpectedChanges(ws)
        /\ Close(e, "failed")
  /\ UNCHANGED <<files, world>>

EmptyGraph ==
  [verdict |-> "empty", clean |-> FALSE, scoped |-> FALSE,
   on |-> NoWorkspace.files, theirs |-> {}]

\* Seeded fault: packaging does not look for edits of the workspace.
PackageCapsuleUnchecked(e) ==
  /\ At(e, "package.check")
  /\ MeetsRunRequirements(local[e].art.permit, local[e].art.reproduction)
  /\ LET a == local[e].art IN
       art' = [a EXCEPT !.capsule =
                 Capsule(a.contribution, CandidateDiff(ws, a.contribution),
                         IF a.validation = None THEN EmptyGraph ELSE a.validation,
                         a.challenge, a.reproduction, local[e].row.review)]
  /\ Goto(e, "reload")
  /\ UNCHANGED <<record, ws, world, local>>

PackageCapsule(e) ==
  /\ At(e, "package.check")
  /\ MeetsRunRequirements(local[e].art.permit, local[e].art.reproduction)
  /\ ~HasUnexpectedChanges(ws)
  /\ LET a == local[e].art IN
       art' = [a EXCEPT !.capsule =
                 Capsule(a.contribution, CandidateDiff(ws, a.contribution),
                         IF a.validation = None THEN EmptyGraph ELSE a.validation,
                         a.challenge, a.reproduction, local[e].row.review)]
  /\ Goto(e, "reload")
  /\ UNCHANGED <<record, ws, world, local>>

ReviewOpen(e) ==
  /\ Calls(e, 8)
  /\ Open(e, {"ready_for_review"}, 9,
          art.capsule # None /\ art.contribution # None, "review.prompt")

\* Seeded fault: a skipped candidate is taken for an approved one.
ReviewRejectedApproves(e) ==
  /\ At(e, "review.prompt")
  /\ Continue(e, "review.bind",
              [local[e] EXCEPT !.row.review = local[e].art.capsule.candidate])
  /\ UNCHANGED <<record, files, world>>

\* The human rejects or skips the candidate.
ReviewRejected(e) ==
  /\ At(e, "review.prompt")
  /\ Close(e, "cancelled")
  /\ UNCHANGED <<files, world>>

\* The human approves the contribution shown; the approval carries the
\* fingerprint of the capsule shown with it.
ReviewApproved(e) ==
  /\ At(e, "review.prompt")
  /\ approved' = approved \cup {local[e].art.contribution}
  /\ Continue(e, "review.bind",
              [local[e] EXCEPT !.row.review = local[e].art.capsule.candidate])
  /\ UNCHANGED <<record, files, fork, receipts, lapsed>>

ReviewBind(e) ==
  /\ At(e, "review.bind")
  /\ UpdateRun(e, "review.save")
  /\ UNCHANGED <<gates, files, world>>

ReviewSave(e) ==
  /\ At(e, "review.save")
  /\ art' = [local[e].art EXCEPT !.capsule = BindReviewTo(@, local[e].row.review)]
  /\ Goto(e, "review.done")
  /\ UNCHANGED <<record, ws, world, local>>

ReviewDone(e) ==
  /\ At(e, "review.done")
  /\ Advance(e, "approved", "drive")
  /\ UNCHANGED <<files, world>>

-----------------------------------------------------------------------------
(* submit: env.submit is PrManager::create_pr_with_evidence_v3 *)

SubmitOpen(e) ==
  /\ Calls(e, 9)
  /\ Open(e, {"approved"}, 9,
          art.capsule # None /\ art.contribution # None /\ art.permit # None,
          "submit.boundary")

SubmitBoundary(e) ==
  /\ At(e, "submit.boundary")
  /\ IF ValidForSubmission(local[e].art.capsule, local[e].art.contribution,
                           local[e].row, local[e].art.permit, lapsed)
       THEN Goto(e, "submit.branch") /\ UNCHANGED local
       ELSE Leave(e)
  /\ UNCHANGED <<record, files, world>>

\* Seeded fault: a branch that exists is used again.
SubmitBranchReused(e) ==
  /\ At(e, "submit.branch")
  /\ fork' = [fork EXCEPT !.branch = TRUE]
  /\ Goto(e, "submit.draft")
  /\ UNCHANGED <<record, files, receipts, approved, lapsed, local>>

\* GitHub refuses to create a branch that exists; the branch name is derived
\* from the finding, the same for every attempt of the run.
SubmitBranch(e) ==
  /\ At(e, "submit.branch")
  /\ IF fork.branch
       THEN Leave(e) /\ UNCHANGED fork
       ELSE fork' = [fork EXCEPT !.branch = TRUE] /\ Goto(e, "submit.draft") /\ UNCHANGED local
  /\ UNCHANGED <<record, files, receipts, approved, lapsed>>

\* The files are committed and the draft pull request is opened.
SubmitDraft(e) ==
  /\ At(e, "submit.draft")
  /\ fork' = [fork EXCEPT !.drafts = Append(@, [contribution |-> local[e].art.contribution,
                                               capsule |-> local[e].art.capsule])]
  /\ Goto(e, "submit.audit")
  /\ UNCHANGED <<record, files, receipts, approved, lapsed, local>>

\* Seeded fault: a failed append is logged and nothing more.
SubmitAuditBestEffort(e) ==
  /\ At(e, "submit.audit")
  /\ receipts' \in {receipts, receipts + 1}
  /\ Continue(e, "submit.bind", [local[e] EXCEPT !.row.draft = TRUE])
  /\ UNCHANGED <<record, files, fork, approved, lapsed>>

\* The decision is appended to the audit ledger, or the append fails and the
\* stage errs with the draft already open.
SubmitAudit(e) ==
  /\ At(e, "submit.audit")
  /\ \/ /\ receipts' = receipts + 1
        /\ Continue(e, "submit.bind", [local[e] EXCEPT !.row.draft = TRUE])
     \/ Leave(e) /\ UNCHANGED receipts
  /\ UNCHANGED <<record, files, fork, approved, lapsed>>

SubmitBind(e) ==
  /\ At(e, "submit.bind")
  /\ UpdateRun(e, "submit.done")
  /\ UNCHANGED <<gates, files, world>>

SubmitDone(e) ==
  /\ At(e, "submit.done")
  /\ Advance(e, "submitted", "drive")
  /\ UNCHANGED <<files, world>>

-----------------------------------------------------------------------------
(* Failures and time *)

\* A call to the environment fails and the stage returns its error.
EnvironmentFails(e) ==
  /\ pc[e] \in AwaitingSteps
  /\ Leave(e)
  /\ UNCHANGED <<record, files, world>>

\* The process dies, or a database or file operation errs, between two steps.
Crash(e) ==
  /\ MayCrash
  /\ ~Resting(e)
  /\ Leave(e)
  /\ UNCHANGED <<record, files, world>>

\* The process dies after it wrote a file and before it recorded the change.
CrashInWrite(e, p) ==
  /\ MayCrash
  /\ At(e, "solve.write") \/ At(e, "repair.write")
  /\ p \in local[e].todo
  /\ ws' = PutFile(ws, p, PostImage(local[e].out, p))
  /\ Leave(e)
  /\ UNCHANGED <<record, art, world>>

\* An editor, a tool or a person changes a workspace file.
ForeignEdit(p) ==
  /\ MayEdit
  /\ ws.made
  /\ ws' = ForeignWrite(ws, p, Foreign)
  /\ UNCHANGED <<record, art, world, pc, local>>

\* Steps at which commands of the project run in the workspace.
CommandSteps == {"plan.run", "validate.run"}

\* One of them writes a file: a build product, a cache, a snapshot of a test,
\* or a file of the candidate that it formats.
CommandWrites(e, file) ==
  /\ pc[e] \in CommandSteps
  /\ ws' = ForeignWrite(ws, file[1], file[2])
  /\ UNCHANGED <<record, art, world, pc, local>>

\* The run's expires_at passes.
Lapse ==
  /\ ~lapsed
  /\ lapsed' = TRUE
  /\ UNCHANGED <<record, files, fork, receipts, approved, pc, local>>

Authorize(e) ==
  \/ AuthorizeOpen(e) \/ AuthorizeDenied(e)
  \/ \E permit \in PermitRecord : AuthorizeIssue(e, permit)
  \/ AuthorizeBind(e) \/ AuthorizeDone(e)

Prepare(e) ==
  \/ PrepareOpen(e) \/ PrepareMaterialize(e)
  \/ \E complete \in BOOLEAN : PrepareSave(e, complete)
  \/ PrepareDone(e)

UnderstandAndPlan(e) ==
  \/ UnderstandOpen(e) \/ UnderstandSave(e) \/ UnderstandBind(e)
  \/ PlanOpen(e) \/ PlanNoSurface(e) \/ PlanReproduce(e)
  \/ \E status \in {"reproduced", "not_reproduced"} : PlanRun(e, status)
  \/ PlanSave(e) \/ PlanBind(e) \/ PlanDone(e)

Solve(e) ==
  \/ SolveOpen(e) \/ SolveStart(e) \/ SolveRejected(e)
  \/ \E c \in SolverOutputs : SolveCandidate(e, c)
  \/ SolveCheckpoint(e) \/ SolveSave(e) \/ SolveBind(e)

Validate(e) ==
  \/ ValidateOpen(e) \/ ValidateStart(e)
  \/ \E result \in CheckResults : ValidateRun(e, result)
  \/ ValidateCheckpoint(e) \/ ValidateSave(e)

Challenge(e) ==
  \/ ChallengeOpen(e) \/ ChallengeGate(e) \/ ChallengeUnfit(e)
  \/ ChallengeNotRun(e) \/ ChallengeBlocked(e)
  \/ \E blocking \in BOOLEAN : ChallengeReported(e, blocking)
  \/ ChallengeBind(e) \/ ChallengeDecide(e)

Repair(e) ==
  \/ RepairRejected(e)
  \/ \E patch \in RepairOutputs : RepairCandidate(e, patch)
  \/ RepairCheckpoint(e) \/ RepairSave(e) \/ RepairBind(e)

PackageAndReview(e) ==
  \/ PackageOpen(e) \/ PackageRejected(e) \/ PackageCapsule(e)
  \/ ReviewOpen(e) \/ ReviewRejected(e) \/ ReviewApproved(e)
  \/ ReviewBind(e) \/ ReviewSave(e) \/ ReviewDone(e)

Submit(e) ==
  \/ SubmitOpen(e) \/ SubmitBoundary(e) \/ SubmitBranch(e) \/ SubmitDraft(e)
  \/ SubmitAudit(e) \/ SubmitBind(e) \/ SubmitDone(e)

\* Everything a running drive does, the answers of its environment included.
Work(e) ==
  \/ Reload(e) \/ DriveReturns(e)
  \/ Authorize(e) \/ Prepare(e) \/ UnderstandAndPlan(e) \/ Solve(e)
  \/ \E p \in Paths : WriteOne(e, p)
  \/ Validate(e) \/ Challenge(e) \/ Repair(e)
  \/ PackageAndReview(e) \/ Submit(e)
  \/ EnvironmentFails(e)

Next ==
  \/ \E e \in Executors :
       \/ \E review \in BOOLEAN : StartDrive(e, review)
       \/ Work(e)
       \/ Crash(e)
       \/ \E p \in Paths : CrashInWrite(e, p)
       \/ \E file \in CommandFiles : CommandWrites(e, file)
  \/ \E p \in Paths : ForeignEdit(p)
  \/ Lapse

Spec == Init /\ [][Next]_vars

\* A drive that started takes its next step: the environment answers or fails
\* every call, the human included.
FairWork == \A e \in Executors : WF_vars(Work(e))

FairSpec == Spec /\ FairWork

=============================================================================
