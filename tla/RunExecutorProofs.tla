-------------------------- MODULE RunExecutorProofs --------------------------
(***************************************************************************)
(* Proofs about RunExecutor, in six layers that build on each other:       *)
(*                                                                         *)
(*  1. TypeInv: the variables, and what a process holds at each step, have *)
(*     their types, for any number of processes.                           *)
(*  2. RecordInv: the row that a process holds is the row of the database  *)
(*     but for what it binds next, so that no write of a held copy         *)
(*     (update_run) undoes a transition; the record follows RunLifecycle.  *)
(*  3. Shape: a step leaves the candidate and its evidence alone (Plain,   *)
(*     Opens, Keeps), or it is one of the telling steps, each described    *)
(*     by a lemma.  The later invariants are proved over the shapes.       *)
(*  4. ArtsAreSound, WorldInv: the evidence is that of the candidate, and  *)
(*     what is on GitHub and in the ledger went through the approval and   *)
(*     the boundary check.                                                 *)
(*  5. DiffInv: what the human reviews is what the challenger read; and,   *)
(*     without crashes, CandidateIsBound: row and artifacts agree, and     *)
(*     without edits, DiskInv: the workspace holds the candidate.          *)
(*  6. OneWriter: at most one draft, however many processes drive.         *)
(*                                                                         *)
(* Layers 2 to 5 are about a run that one process drives (OneProcess), as  *)
(* the contribute command does; it may die at every step and be started    *)
(* again.  With several processes a stale copy can undo a transition: the  *)
(* run that refutes TerminalIsFinal shows it.                              *)
(***************************************************************************)
EXTENDS RunExecutorProps, TLAPS

-----------------------------------------------------------------------------
(* 1. Types *)

\* Steps at which a stage writes the files of its output.
WritingSteps == {"solve.write", "repair.write"}

\* Steps at which the files are written and the output is not bound yet.
WrittenSteps ==
  {"solve.checkpoint", "solve.save", "solve.bind",
   "repair.checkpoint", "repair.save", "repair.bind"}

\* Steps at which a stage holds a capsule.
CapsuleSteps ==
  {"review.prompt", "review.bind", "review.save",
   "submit.boundary", "submit.branch", "submit.draft", "submit.audit", "submit.bind"}

\* What a process holds at a step.
Held(step, l) ==
  /\ step \in WritingSteps \cup WrittenSteps => l.out \in Contributions
  /\ step \in WritingSteps => l.todo \subseteq Touched(l.out)
  /\ step \in CapsuleSteps \cup {"package.check"} => l.art.contribution \in Contributions
  /\ step \in CapsuleSteps => l.art.capsule \in CapsuleRecord

\* The types of what the processes are at and hold.
HeldOK ==
  /\ pc \in [Executors -> Steps]
  /\ local \in [Executors -> LocalRecord]
  /\ \A e \in Executors : Held(pc[e], local[e])

\* The types of the record of the run.
RecordOK ==
  /\ run \in RowRecord
  /\ lastEvent \in RunState
  /\ gates \in SUBSET RunState

\* The types of the artifacts and the workspace.
FilesOK ==
  /\ art \in ArtifactsRecord
  /\ ws \in WorkspaceRecord

\* The types of what is outside the run: GitHub, the ledger, the human, time.
WorldOK ==
  /\ fork \in ForkRecord
  /\ receipts \in Nat
  /\ approved \in SUBSET Contributions
  /\ lapsed \in BOOLEAN

\* The inductive type invariant.
TypeInv == RecordOK /\ FilesOK /\ WorldOK /\ HeldOK

\* The type invariant of the runs follows from it.
LEMMA TypeInvImpliesTypeOK == TypeInv => TypeOK
BY DEF TypeInv, TypeOK, RecordOK, FilesOK, WorldOK, HeldOK

-----------------------------------------------------------------------------
\* Everything solve and repair_once can bind is a contribution.
LEMMA ContributionsAreRecords == Contributions \subseteq ContributionRecord
<1>1. SolverOutputs \subseteq ContributionRecord /\ RepairOutputs \subseteq Patches
  BY ExecutorAssumption
<1> QED
  BY <1>1 DEF Contributions, ContributionRecord

\* The row of a new run.
LEMMA NewRowType == NewRow \in RowRecord
BY DEF NewRow, RowRecord, OrNone, RunState, ForwardStates

\* What a process holds before it starts.
LEMMA NoLocalType == NoLocal \in LocalRecord
<1>1. NoArtifacts \in ArtifactsRecord
  BY DEF NoArtifacts, ArtifactsRecord, OrNone, ReproductionStatus
<1> QED
  BY <1>1, NewRowType DEF NoLocal, LocalRecord, OrNone

\* The fields of what a process holds.
LEMMA HoldFields ==
  ASSUME NEW l \in LocalRecord
  PROVE  /\ l.row \in RowRecord /\ l.art \in ArtifactsRecord
         /\ l.out \in OrNone(Contributions) /\ l.todo \in SUBSET Paths
         /\ l.pos \in 0..9 /\ l.review \in BOOLEAN
BY DEF LocalRecord

\* A process takes a row.
LEMMA HoldRow ==
  ASSUME NEW l \in LocalRecord, NEW r \in RowRecord
  PROVE  [l EXCEPT !.row = r] \in LocalRecord
BY DEF LocalRecord

\* The permit bit set in the row a process holds.
LEMMA HoldRowPermit ==
  ASSUME NEW l \in LocalRecord
  PROVE  [l EXCEPT !.row.permit = TRUE] \in LocalRecord
BY DEF LocalRecord, RowRecord

\* A graph added to the artifacts a process holds.
LEMMA HoldArtValidation ==
  ASSUME NEW l \in LocalRecord, NEW g \in OrNone(GraphRecord)
  PROVE  [l EXCEPT !.art.validation = g] \in LocalRecord
BY DEF LocalRecord, ArtifactsRecord

\* The fields of the row.
LEMMA RowFields ==
  ASSUME NEW r \in RowRecord
  PROVE  /\ r.state \in RunState /\ r.permit \in BOOLEAN /\ r.task \in BOOLEAN
         /\ r.cand \in OrNone(Contributions) /\ r.review \in OrNone(Contributions)
         /\ r.repairs \in Nat /\ r.draft \in BOOLEAN
BY DEF RowRecord

\* The row that repair_once binds.
LEMMA RepairRow ==
  ASSUME NEW r \in RowRecord, NEW c \in OrNone(Contributions)
  PROVE  [r EXCEPT !.cand = c, !.review = None, !.repairs = r.repairs + 1] \in RowRecord
<1>1. r.repairs + 1 \in Nat
  BY RowFields
<1>2. \A n \in Nat : [r EXCEPT !.cand = c, !.review = None, !.repairs = n] \in RowRecord
  BY DEF RowRecord, OrNone
<1> QED
  BY <1>1, <1>2

\* What the drive holds after a stage that returns at once.
LEMMA DriveHold ==
  ASSUME NEW l \in LocalRecord, NEW r \in RowRecord, NEW pos \in 0..9
  PROVE  [l EXCEPT !.row = r, !.pos = pos] \in LocalRecord
BY DEF LocalRecord

\* The workspace before and after materialization.
LEMMA MaterializedType == NoWorkspace \in WorkspaceRecord /\ Materialized \in WorkspaceRecord
<1>1. EmptyPatch \in [{} -> Contents] /\ {} \in SUBSET Paths
  BY DEF EmptyPatch
<1>2. EmptyPatch \in UNION {[S -> Contents] : S \in SUBSET Paths}
  BY <1>1
<1>3. [p \in Paths |-> Base] \in [Paths -> Contents]
  BY DEF Contents
<1> QED
  BY <1>2, <1>3 DEF Materialized, NoWorkspace, WorkspaceRecord

\* The artifacts that repair_once saves.
LEMMA RepairArt ==
  ASSUME NEW l \in LocalRecord
  PROVE  [l.art EXCEPT !.contribution = l.out, !.validation = None,
                                 !.challenge = None,
                                 !.capsule = None] \in ArtifactsRecord
BY DEF LocalRecord, ArtifactsRecord, OrNone

\* What a stage holds once it opened.
LEMMA OpenHold ==
  ASSUME NEW l \in LocalRecord, NEW r \in RowRecord, NEW a \in ArtifactsRecord, NEW pos \in 0..9
  PROVE  [l EXCEPT !.row = r, !.art = a, !.out = None, !.todo = {}, !.pos = pos] \in LocalRecord
BY DEF LocalRecord, OrNone

\* What a stage holds once it has an output to write.
LEMMA OutHold ==
  ASSUME NEW l \in LocalRecord, NEW c \in Contributions, NEW t \in SUBSET Paths
  PROVE  [l EXCEPT !.out = c, !.todo = t] \in LocalRecord
BY DEF LocalRecord, OrNone

-----------------------------------------------------------------------------
\* Going on at a step keeps the types when the step gets what it needs.
LEMMA ContinueType ==
  ASSUME HeldOK, NEW e \in Executors, NEW step \in Steps, NEW held \in LocalRecord,
         Held(step, held), Continue(e, step, held)
  PROVE  HeldOK'
BY DEF HeldOK, Continue, Goto

\* So does going on with what is held.
LEMMA GotoType ==
  ASSUME HeldOK, NEW e \in Executors, NEW step \in Steps,
         Held(step, local[e]), Goto(e, step), UNCHANGED local
  PROVE  HeldOK'
BY DEF HeldOK, Goto

\* So does leaving.
LEMMA LeaveType ==
  ASSUME HeldOK, NEW e \in Executors, Leave(e)
  PROVE  HeldOK'
<1>1. Held("returned", NoLocal) /\ "returned" \in Steps
  BY DEF Held, Steps, WritingSteps, WrittenSteps, CapsuleSteps
<1> QED
  BY <1>1, ContinueType, NoLocalType DEF Leave

\* A transition keeps the types of the record.
LEMMA CommitType ==
  ASSUME RecordOK, NEW to \in RunState, Commit(to)
  PROVE  RecordOK'
BY DEF RecordOK, Commit, RowRecord

\* So does a transition after which the stage goes on.
LEMMA AdvanceType ==
  ASSUME RecordOK, HeldOK, NEW e \in Executors, NEW to \in RunState, NEW step \in Steps,
         \A r \in RowRecord : Held(step, [local[e] EXCEPT !.row = r]),
         Advance(e, to, step)
  PROVE  RecordOK' /\ HeldOK'
<1>1. CASE Leave(e) /\ UNCHANGED record
  BY <1>1, LeaveType DEF record, RecordOK
<1>2. CASE Commit(to) /\ Continue(e, step, [local[e] EXCEPT !.row = run'])
  <2>1. RecordOK'
    BY <1>2, CommitType
  <2>2. run' \in RowRecord /\ local[e] \in LocalRecord
    BY <2>1 DEF RecordOK, HeldOK
  <2> QED
    BY <1>2, <2>1, <2>2, HoldRow, ContinueType
<1> QED
  BY <1>1, <1>2 DEF Advance

\* So does a fail-closed exit.
LEMMA CloseType ==
  ASSUME RecordOK, HeldOK, NEW e \in Executors, NEW to \in RunState, Close(e, to)
  PROVE  RecordOK' /\ HeldOK'
<1>1. HeldOK'
  BY LeaveType DEF Close
<1>2. RecordOK'
  BY CommitType DEF Close, record, RecordOK
<1> QED
  BY <1>1, <1>2

\* So does writing back the row a stage holds.
LEMMA UpdateRunType ==
  ASSUME RecordOK, HeldOK, NEW e \in Executors, NEW step \in Steps, Held(step, local[e]),
         UpdateRun(e, step), gates' \in SUBSET RunState
  PROVE  RecordOK' /\ HeldOK'
<1>1. HeldOK'
  BY GotoType DEF UpdateRun
<1>2. local[e].row \in RowRecord
  BY HoldFields DEF HeldOK
<1> QED
  BY <1>1, <1>2 DEF UpdateRun, RecordOK

\* Steps that ask nothing of what a process holds.
FreeSteps == Steps \ (WritingSteps \cup WrittenSteps \cup CapsuleSteps \cup {"package.check"})

\* A free step is content with anything.
LEMMA HeldAtFreeSteps == \A step \in FreeSteps, l \in LocalRecord : Held(step, l)
BY DEF FreeSteps, Held

\* Going on at a free step.
LEMMA ContinueFreeType ==
  ASSUME HeldOK, NEW e \in Executors, NEW step \in FreeSteps, NEW held \in LocalRecord,
         Continue(e, step, held)
  PROVE  HeldOK'
BY ContinueType, HeldAtFreeSteps DEF FreeSteps

\* Going on at a free step with what is held.
LEMMA GotoFreeType ==
  ASSUME HeldOK, NEW e \in Executors, NEW step \in FreeSteps, Goto(e, step), UNCHANGED local
  PROVE  HeldOK'
BY GotoType, HeldAtFreeSteps DEF FreeSteps, HeldOK

\* A transition before a free step.
LEMMA AdvanceFreeType ==
  ASSUME RecordOK, HeldOK, NEW e \in Executors, NEW to \in RunState, NEW step \in FreeSteps,
         Advance(e, to, step)
  PROVE  RecordOK' /\ HeldOK'
BY AdvanceType, HeldAtFreeSteps, HoldRow DEF FreeSteps, HeldOK

\* Writing back the row before a free step.
LEMMA UpdateRunFreeType ==
  ASSUME RecordOK, HeldOK, NEW e \in Executors, NEW step \in FreeSteps,
         UpdateRun(e, step), gates' \in SUBSET RunState
  PROVE  RecordOK' /\ HeldOK'
BY UpdateRunType, HeldAtFreeSteps DEF FreeSteps, HeldOK

\* The first step of every stage that opens with Open.
Opened ==
  {"authorize.consent", "prepare.materialize", "understand.inputs", "plan.commands",
   "solve.start", "validate.start", "challenge.gate", "package.check", "review.prompt",
   "submit.boundary"}

\* What the artifacts must hold for the stage that opens with `step'.
Supplies(step) ==
  /\ step \in CapsuleSteps \cup {"package.check"} => art.contribution # None
  /\ step \in CapsuleSteps => art.capsule # None

\* Opening a stage keeps the types when the artifacts supply what it needs.
LEMMA OpenType ==
  ASSUME TypeInv, NEW e \in Executors, NEW expected, NEW pos \in 0..9, NEW step \in Opened
  PROVE  \A ready \in BOOLEAN :
           /\ Open(e, expected, pos, ready, step)
           /\ ready => Supplies(step)
           => TypeInv'
<1> SUFFICES ASSUME NEW ready \in BOOLEAN, Open(e, expected, pos, ready, step),
                    ready => Supplies(step)
             PROVE  TypeInv'
  OBVIOUS
<1>0. RecordOK /\ HeldOK /\ art \in ArtifactsRecord
  BY DEF TypeInv, FilesOK
<1>1. RecordOK'
  BY <1>0, CommitType
  DEF Open, Expire, RecordOK, record, RunState, TerminalStates, FailClosedStates
<1> DEFINE h == [local[e] EXCEPT !.row = run, !.art = art, !.out = None, !.todo = {}, !.pos = pos]
<1>2. HeldOK'
  <2>1. CASE Leave(e)
    BY <1>0, <2>1, LeaveType
  <2>2. CASE ready /\ Continue(e, step, h)
    <3>1. local[e] \in LocalRecord /\ run \in RowRecord
      BY <1>0 DEF HeldOK, RecordOK
    <3>2. h \in LocalRecord
      BY <1>0, <3>1, OpenHold
    <3>3. h.art = art
      BY <3>1 DEF LocalRecord
    <3> HIDE DEF h
    <3>4. step \in Steps
      BY DEF Opened, Steps, AwaitingSteps
    <3>5. art.contribution \in OrNone(Contributions) /\ art.capsule \in OrNone(CapsuleRecord)
      BY <1>0 DEF ArtifactsRecord
    <3>6. step \notin WritingSteps \cup WrittenSteps
      BY DEF Opened, WritingSteps, WrittenSteps
    <3>7. step \in CapsuleSteps \cup {"package.check"} => art.contribution \in Contributions
      BY <2>2, <3>5 DEF OrNone, Supplies
    <3>8. step \in CapsuleSteps => art.capsule \in CapsuleRecord
      BY <2>2, <3>5 DEF OrNone, Supplies
    <3>9. Held(step, h)
      BY <3>3, <3>6, <3>7, <3>8 DEF Held, WritingSteps
    <3> QED
      BY <1>0, <2>2, <3>2, <3>4, <3>9, ContinueType
  <2> QED
    BY <2>1, <2>2 DEF Open
<1>3. UNCHANGED <<art, ws, world>>
  BY DEF Open, files
<1> QED
  BY <1>0, <1>1, <1>2, <1>3 DEF TypeInv, FilesOK, WorldOK, world

\* The positions of the stages in the drive.
LEMMA Positions ==
  2 \in 0..9 /\ 3 \in 0..9 /\ 4 \in 0..9 /\ 5 \in 0..9 /\ 6 \in 0..9 /\ 8 \in 0..9 /\ 9 \in 0..9
OBVIOUS

\* Stages that need neither candidate nor capsule open with anything.
LEMMA OpenBeforeCandidateType ==
  ASSUME TypeInv, NEW e \in Executors, NEW expected, NEW pos \in 0..9,
         NEW step \in Opened \ (CapsuleSteps \cup {"package.check"})
  PROVE  \A ready \in BOOLEAN : Open(e, expected, pos, ready, step) => TypeInv'
BY OpenType DEF Supplies

-----------------------------------------------------------------------------
\* The types, over the steps of authorize.
LEMMA AuthorizeType ==
  ASSUME TypeInv, NEW e \in Executors, Authorize(e)
  PROVE  TypeInv'
<1> USE DEF FreeSteps, Steps, AwaitingSteps, CapsuleSteps, WritingSteps, WrittenSteps, FilesOK,
            WorldOK, files, world
<1> USE DEF TypeInv
<1>0. /\ e \in Executors /\ local[e] \in LocalRecord /\ run \in RowRecord
  BY DEF HeldOK, RecordOK
<1>1. CASE AuthorizeOpen(e)
  <2>1. CASE Open(e, {"discovered"}, 2, TRUE, "authorize.consent")
    <3>1. 2 \in 0..9 /\ "authorize.consent" \in Opened
      BY DEF Opened
    <3>2. Supplies("authorize.consent")
      BY DEF Supplies
    <3> QED
      BY <2>1, <3>1, <3>2, OpenType
  <2>2. CASE /\ Continue(e, "drive", [local[e] EXCEPT !.row = run, !.pos = 2])
             /\ UNCHANGED <<record, files, world>>
    <3>1. [local[e] EXCEPT !.row = run, !.pos = 2] \in LocalRecord
      <4>1. 2 \in 0..9
        OBVIOUS
      <4> QED
        BY <1>0, <4>1, DriveHold
    <3>2. HeldOK'
      BY <2>2, <3>1, ContinueFreeType
    <3> QED
      BY <2>2, <3>2 DEF RecordOK, record
  <2> QED
    BY <1>1, <2>1, <2>2 DEF AuthorizeOpen
<1>2. CASE AuthorizeDenied(e)
  BY <1>2, CloseType DEF AuthorizeDenied, RunState, TerminalStates, FailClosedStates
<1>3. ASSUME NEW permit \in PermitRecord, AuthorizeIssue(e, permit) PROVE TypeInv'
  <2>1. HeldOK'
    BY <1>0, <1>3, HoldRowPermit, ContinueFreeType DEF AuthorizeIssue
  <2>2. art' \in ArtifactsRecord
    BY <1>3 DEF AuthorizeIssue, ArtifactsRecord, OrNone
  <2> QED
    BY <1>3, <2>1, <2>2 DEF AuthorizeIssue, RecordOK, record
<1>4. CASE AuthorizeBind(e)
  BY <1>4, UpdateRunFreeType DEF AuthorizeBind, RecordOK
<1>5. CASE AuthorizeDone(e)
  BY <1>5, AdvanceFreeType DEF AuthorizeDone, RunState, ForwardStates
<1> QED
  BY <1>1, <1>2, <1>3, <1>4, <1>5 DEF Authorize

\* The types, over the steps of prepare.
LEMMA PrepareType ==
  ASSUME TypeInv, NEW e \in Executors, Prepare(e)
  PROVE  TypeInv'
<1> USE DEF FreeSteps, Steps, AwaitingSteps, CapsuleSteps, WritingSteps, WrittenSteps, FilesOK,
            WorldOK, files, world
<1> USE DEF TypeInv
<1>0. /\ e \in Executors /\ local[e] \in LocalRecord /\ run \in RowRecord /\ ws \in WorkspaceRecord
  BY DEF HeldOK, RecordOK
<1>1. CASE PrepareOpen(e)
  BY <1>1, OpenBeforeCandidateType, Positions DEF PrepareOpen, Opened
<1>2. CASE PrepareMaterialize(e)
  <2>2. HeldOK'
    BY <1>2, LeaveType, GotoFreeType DEF PrepareMaterialize
  <2> QED
    BY <1>2, MaterializedType, <2>2 DEF PrepareMaterialize, RecordOK, record
<1>3. ASSUME NEW complete \in BOOLEAN, PrepareSave(e, complete) PROVE TypeInv'
  <2>1. art' \in ArtifactsRecord /\ [local[e] EXCEPT !.art = art'] \in LocalRecord
    BY <1>0, <1>3 DEF PrepareSave, LocalRecord, ArtifactsRecord
  <2>2. HeldOK'
    BY <1>3, <2>1, ContinueFreeType DEF PrepareSave
  <2> QED
    BY <1>3, <2>1, <2>2 DEF PrepareSave, RecordOK, record
<1>4. CASE PrepareDone(e)
  BY <1>4, AdvanceFreeType, CloseType
  DEF PrepareDone, RunState, ForwardStates, TerminalStates, FailClosedStates
<1> QED
  BY <1>1, <1>2, <1>3, <1>4 DEF Prepare

-----------------------------------------------------------------------------
\* A patch gives paths their contents.
LEMMA PatchesAreFunctions ==
  ASSUME NEW patch \in Patches
  PROVE  DOMAIN patch \subseteq Paths /\ \A p \in DOMAIN patch : patch[p] \in Contents
BY DEF Patches, Contents

\* A contribution touches paths and gives them contents.
LEMMA TouchedPaths ==
  ASSUME NEW c \in Contributions
  PROVE  /\ c.changes \in Patches /\ c.tests \in Patches
         /\ Touched(c) \subseteq Paths
         /\ \A p \in Touched(c) : PostImage(c, p) \in Contents
<1>1. c.changes \in Patches /\ c.tests \in Patches
  BY ContributionsAreRecords DEF ContributionRecord
<1> QED
  BY <1>1, PatchesAreFunctions DEF Touched, PostImage

\* A repaired contribution is one that can be bound.
LEMMA RevisedType ==
  ASSUME NEW prior \in Contributions, NEW patch \in RepairOutputs
  PROVE  /\ Revised(prior, patch) \in Contributions
         /\ Revised(prior, patch).changes = patch
         /\ Revised(prior, patch).tests = prior.tests
<1>1. prior \in ContributionRecord
  BY ContributionsAreRecords
<1>2. Revised(prior, patch) = [changes |-> patch, tests |-> prior.tests]
  BY <1>1 DEF Revised, ContributionRecord
<1>3. \E s \in SolverOutputs : prior.tests = s.tests
  BY DEF Contributions
<1>4. Revised(prior, patch) \in Contributions
  BY <1>2, <1>3 DEF Contributions
<1> QED
  BY <1>2, <1>4

\* A file put into the workspace leaves a workspace.
LEMMA PutFileType ==
  ASSUME NEW w \in WorkspaceRecord, NEW p \in Paths, NEW content \in Contents
  PROVE  PutFile(w, p, content) \in WorkspaceRecord
BY DEF PutFile, WorkspaceRecord

\* So does a file that somebody else writes.
LEMMA ForeignWriteType ==
  ASSUME NEW w \in WorkspaceRecord, NEW p \in Paths, NEW content \in Contents
  PROVE  ForeignWrite(w, p, content) \in WorkspaceRecord
BY DEF ForeignWrite, WorkspaceRecord

\* Somebody else, a person or a command, writes a file of the workspace.
SomebodyWrites(p, content) ==
  /\ ws' = ForeignWrite(ws, p, content)
  /\ UNCHANGED <<record, art, world, pc, local>>

\* An edit is one of those, and so is what a command writes.
LEMMA EditsAreWrites ==
  /\ \A p \in Paths :
       ForeignEdit(p) => \E content \in Contents : SomebodyWrites(p, content)
  /\ \A e \in Executors, file \in CommandFiles :
       CommandWrites(e, file) =>
         \E p \in Paths, content \in Contents : SomebodyWrites(p, content)
<1>1. ASSUME NEW e \in Executors, NEW file \in CommandFiles, CommandWrites(e, file)
      PROVE  \E p \in Paths, content \in Contents : SomebodyWrites(p, content)
  <2>1. file[1] \in Paths /\ file[2] \in Contents
    BY ExecutorAssumption
  <2>2. SomebodyWrites(file[1], file[2])
    BY <1>1 DEF CommandWrites, SomebodyWrites
  <2> QED
    BY <2>1, <2>2
<1>2. ASSUME NEW p \in Paths, ForeignEdit(p)
      PROVE  SomebodyWrites(p, Foreign)
  BY <1>2 DEF ForeignEdit, SomebodyWrites
<1> QED
  BY <1>1, <1>2 DEF Contents

\* A step is one of a process, a file written by somebody else, or the passage
\* of time.
LEMMA StepCases ==
  ASSUME [Next]_vars
  PROVE  \/ \E f \in Executors :
              \/ \E review \in BOOLEAN : StartDrive(f, review)
              \/ Work(f)
              \/ Crash(f)
              \/ \E p \in Paths : CrashInWrite(f, p)
         \/ \E p \in Paths, content \in Contents : SomebodyWrites(p, content)
         \/ Lapse
         \/ UNCHANGED vars
BY EditsAreWrites DEF Next

\* So does a file written and recorded.
LEMMA WriteFileType ==
  ASSUME NEW w \in WorkspaceRecord, NEW p \in Paths, NEW content \in Contents
  PROVE  WriteFile(w, p, content) \in WorkspaceRecord
<1>1. PutFile(w, p, content) \in WorkspaceRecord
  BY PutFileType
<1>2. \A v \in WorkspaceRecord : RecordChange(v, p) \in WorkspaceRecord
  BY DEF RecordChange, WorkspaceRecord
<1> QED
  BY <1>1, <1>2 DEF WriteFile

\* So does a checkpoint.
LEMMA CheckpointType ==
  ASSUME NEW w \in WorkspaceRecord
  PROVE  Checkpoint(w) \in WorkspaceRecord
<1>1. w.written \in SUBSET Paths /\ w.files \in [Paths -> Contents]
  BY DEF WorkspaceRecord
<1>2. TreeFingerprint(w) \in [w.written -> Contents]
  BY <1>1 DEF TreeFingerprint
<1>3. TreeFingerprint(w) \in UNION {[S -> Contents] : S \in SUBSET Paths}
  BY <1>1, <1>2
<1> HIDE DEF TreeFingerprint
<1> QED
  BY <1>3 DEF Checkpoint, WorkspaceRecord

\* The diff of a contribution is a diff.
LEMMA DiffType ==
  ASSUME NEW w \in WorkspaceRecord, NEW c \in Contributions
  PROVE  CandidateDiff(w, c) \in DiffRecord
<1>1. w.files \in [Paths -> Contents] /\ Touched(c) \in SUBSET Paths
  BY TouchedPaths DEF WorkspaceRecord
<1>2. CandidateDiff(w, c) \in [Touched(c) -> Contents]
  BY <1>1 DEF CandidateDiff
<1> QED
  BY <1>1, <1>2 DEF DiffRecord

\* The reports of the challenger are reports.
LEMMA ReportType ==
  /\ NotRun \in ReportRecord
  /\ \A blocking \in BOOLEAN, diff \in DiffRecord : Completed(blocking, diff) \in ReportRecord
<1>1. EmptyPatch \in [{} -> Contents] /\ {} \in SUBSET Paths
  BY DEF EmptyPatch
<1>2. EmptyPatch \in DiffRecord
  BY <1>1 DEF DiffRecord
<1> QED
  BY <1>2 DEF NotRun, Completed, ReportRecord

\* The graph of a package without checks is a graph.
LEMMA EmptyGraphType == EmptyGraph \in GraphRecord
BY MaterializedType DEF EmptyGraph, GraphRecord, WorkspaceRecord, Verdicts

\* What package_evidence builds is a capsule.
LEMMA CapsuleType ==
  ASSUME NEW c \in Contributions, NEW surface \in DiffRecord, NEW graph \in GraphRecord,
         NEW report \in OrNone(ReportRecord), NEW reproduction \in ReproductionStatus,
         NEW review \in OrNone(Contributions)
  PROVE  Capsule(c, surface, graph, report, reproduction, review) \in CapsuleRecord
BY DEF Capsule, CapsuleRecord

\* A capsule with its review bound is a capsule.
LEMMA BindReviewType ==
  ASSUME NEW k \in CapsuleRecord, NEW review \in OrNone(Contributions)
  PROVE  BindReviewTo(k, review) \in CapsuleRecord
BY DEF BindReviewTo, CapsuleRecord

\* The types, over the steps of understand and reproduce_and_plan.
LEMMA UnderstandAndPlanType ==
  ASSUME TypeInv, NEW e \in Executors, UnderstandAndPlan(e)
  PROVE  TypeInv'
<1> USE DEF FreeSteps, Steps, AwaitingSteps, CapsuleSteps, WritingSteps, WrittenSteps, RunState,
            ForwardStates, TerminalStates, FailClosedStates, FilesOK, WorldOK, files, world
<1> USE DEF TypeInv
<1>0. /\ local[e] \in LocalRecord /\ local[e].row \in RowRecord
      /\ local[e].art \in ArtifactsRecord /\ run \in RowRecord
      /\ art \in ArtifactsRecord /\ ws \in WorkspaceRecord /\ Held(pc[e], local[e])
  BY HoldFields DEF HeldOK, RecordOK
<1>1. CASE UnderstandOpen(e)
  BY <1>1, OpenBeforeCandidateType, Positions DEF UnderstandOpen, Opened
<1>2. CASE UnderstandSave(e)
  <2>1. art' \in ArtifactsRecord
    BY <1>0, <1>2 DEF UnderstandSave, ArtifactsRecord
  <2>2. [local[e] EXCEPT !.row.task = TRUE] \in LocalRecord
    BY <1>0 DEF LocalRecord, RowRecord
  <2>3. HeldOK'
    BY <1>2, <2>2, ContinueFreeType DEF UnderstandSave
  <2> QED
    BY <1>2, <2>1, <2>3 DEF UnderstandSave, RecordOK, record
<1>3. CASE UnderstandBind(e)
  BY <1>3, UpdateRunFreeType DEF UnderstandBind, RecordOK
<1>4. CASE PlanOpen(e)
  BY <1>4, OpenBeforeCandidateType, Positions DEF PlanOpen, Opened
<1>5. CASE PlanNoSurface(e)
  <2>1. [local[e] EXCEPT !.art.reproduction = "no_surface"] \in LocalRecord
    BY <1>0 DEF LocalRecord, ArtifactsRecord, ReproductionStatus
  <2>2. HeldOK'
    BY <1>5, <2>1, ContinueFreeType DEF PlanNoSurface
  <2> QED
    BY <1>5, <2>2 DEF PlanNoSurface, RecordOK, record
<1>6. CASE PlanReproduce(e)
  BY <1>6, AdvanceFreeType, CloseType, LeaveType DEF PlanReproduce
<1>7. CASE \E status \in {"reproduced", "not_reproduced"} : PlanRun(e, status)
  <2> PICK status \in {"reproduced", "not_reproduced"} : PlanRun(e, status)
    BY <1>7
  <2>1. [local[e] EXCEPT !.art.reproduction = status] \in LocalRecord
    BY <1>0 DEF LocalRecord, ArtifactsRecord, ReproductionStatus
  <2>2. HeldOK'
    BY <2>1, ContinueFreeType DEF PlanRun
  <2> QED
    BY <1>0, <2>2, CheckpointType DEF PlanRun, RecordOK, record
<1>8. CASE PlanSave(e)
  <2>1. HeldOK'
    BY <1>8, GotoFreeType DEF PlanSave
  <2> QED
    BY <1>0, <1>8, <2>1 DEF PlanSave, RecordOK, record
<1>9. CASE PlanBind(e)
  BY <1>9, UpdateRunFreeType DEF PlanBind, RecordOK
<1>10. CASE PlanDone(e)
  BY <1>10, AdvanceFreeType, CloseType, LeaveType DEF PlanDone
<1> QED
  BY <1>1, <1>2, <1>3, <1>4, <1>5, <1>6, <1>7, <1>8, <1>9, <1>10 DEF UnderstandAndPlan

\* The types, over the steps of solve.
LEMMA SolveType ==
  ASSUME TypeInv, NEW e \in Executors, Solve(e)
  PROVE  TypeInv'
<1> USE DEF FreeSteps, Steps, AwaitingSteps, CapsuleSteps, WritingSteps, WrittenSteps, RunState,
            ForwardStates, TerminalStates, FailClosedStates, FilesOK, WorldOK, files, world
<1> USE DEF TypeInv
<1>0. /\ local[e] \in LocalRecord /\ local[e].row \in RowRecord
      /\ local[e].art \in ArtifactsRecord /\ run \in RowRecord
      /\ art \in ArtifactsRecord /\ ws \in WorkspaceRecord /\ Held(pc[e], local[e])
  BY HoldFields DEF HeldOK, RecordOK
<1>1. CASE SolveOpen(e)
  BY <1>1, OpenBeforeCandidateType, Positions DEF SolveOpen, Opened
<1>2. CASE SolveStart(e)
  BY <1>2, AdvanceFreeType, CloseType, LeaveType DEF SolveStart
<1>3. CASE SolveRejected(e)
  BY <1>3, AdvanceFreeType, CloseType, LeaveType DEF SolveRejected
<1>4. CASE \E c \in SolverOutputs : SolveCandidate(e, c)
  <2> PICK c \in SolverOutputs : SolveCandidate(e, c)
    BY <1>4
  <2> DEFINE h == [local[e] EXCEPT !.out = c, !.todo = Touched(c)]
  <2>1. c \in Contributions
    BY DEF Contributions
  <2>2. h \in LocalRecord /\ h.out = c /\ h.todo = Touched(c)
    BY <1>0, <2>1, TouchedPaths, OutHold DEF LocalRecord
  <2>3. Continue(e, "solve.write", h)
    BY DEF SolveCandidate
  <2> HIDE DEF h
  <2>4. Held("solve.write", h) /\ "solve.write" \in Steps
    BY <2>1, <2>2 DEF Held
  <2>5. HeldOK'
    BY <2>2, <2>3, <2>4, ContinueType
  <2> QED
    BY <2>5 DEF SolveCandidate, RecordOK, record
<1>5. CASE SolveCheckpoint(e)
  <2>1. Held("solve.save", local[e]) /\ "solve.save" \in Steps
    BY <1>0, <1>5 DEF SolveCheckpoint, TakeCheckpoint, At, Held
  <2>2. HeldOK'
    BY <1>5, <2>1, GotoType DEF SolveCheckpoint, TakeCheckpoint
  <2> QED
    BY <1>0, <1>5, <2>2, CheckpointType DEF SolveCheckpoint, TakeCheckpoint, RecordOK, record
<1>6. CASE SolveSave(e)
  <2>1. local[e].out \in Contributions
    BY <1>0, <1>6 DEF SolveSave, At, Held
  <2>2. art' \in ArtifactsRecord
    BY <1>0, <1>6, <2>1 DEF SolveSave, ArtifactsRecord, OrNone
  <2> DEFINE h == [local[e] EXCEPT !.row.cand = local[e].out]
  <2>3. h \in LocalRecord /\ h.out = local[e].out
    BY <1>0, <2>1 DEF LocalRecord, RowRecord, OrNone
  <2>4. Continue(e, "solve.bind", h)
    BY <1>6 DEF SolveSave
  <2> HIDE DEF h
  <2>5. Held("solve.bind", h) /\ "solve.bind" \in Steps
    BY <2>1, <2>3 DEF Held
  <2>6. HeldOK'
    BY <2>3, <2>4, <2>5, ContinueType
  <2> QED
    BY <1>6, <2>2, <2>6 DEF SolveSave, RecordOK, record
<1>7. CASE SolveBind(e)
  BY <1>7, UpdateRunFreeType DEF SolveBind, RecordOK
<1> QED
  BY <1>1, <1>2, <1>3, <1>4, <1>5, <1>6, <1>7 DEF Solve

\* The types, when a file is written.
LEMMA WriteOneType ==
  ASSUME TypeInv, NEW e \in Executors, NEW p \in Paths, WriteOne(e, p)
  PROVE  TypeInv'
<1> USE DEF TypeInv
<1>1. /\ local[e] \in LocalRecord /\ ws \in WorkspaceRecord /\ Held(pc[e], local[e])
      /\ pc[e] \in WritingSteps /\ p \in local[e].todo
  BY DEF HeldOK, FilesOK, WriteOne, At, WritingSteps
<1>2. local[e].out \in Contributions /\ local[e].todo \subseteq Touched(local[e].out)
  BY <1>1 DEF Held
<1>3. ws' \in WorkspaceRecord
  BY <1>1, <1>2, TouchedPaths, WriteFileType DEF WriteOne
<1> DEFINE h == [local[e] EXCEPT !.todo = @ \ {p}]
<1>4. h \in LocalRecord /\ h.out = local[e].out /\ h.todo = local[e].todo \ {p}
  BY <1>1 DEF LocalRecord
<1>5. PICK step \in WritingSteps \cup {"solve.checkpoint", "repair.checkpoint"} :
        Continue(e, step, h)
  BY <1>1 DEF WriteOne, WritingSteps
<1> HIDE DEF h
<1>6. Held(step, h) /\ step \in Steps
  BY <1>2, <1>4, <1>5 DEF Held, Steps, CapsuleSteps, WritingSteps, WrittenSteps
<1>7. HeldOK'
  BY <1>4, <1>5, <1>6, ContinueType
<1> QED
  BY <1>3, <1>7 DEF WriteOne, RecordOK, FilesOK, WorldOK, record, world

\* The types, over the steps of validate.
LEMMA ValidateType ==
  ASSUME TypeInv, NEW e \in Executors, Validate(e)
  PROVE  TypeInv'
<1> USE DEF FreeSteps, Steps, AwaitingSteps, CapsuleSteps, WritingSteps, WrittenSteps, FilesOK,
            WorldOK, files, world
<1> USE DEF TypeInv
<1>0. /\ local[e] \in LocalRecord /\ local[e].row \in RowRecord
      /\ local[e].art \in ArtifactsRecord /\ run \in RowRecord
      /\ art \in ArtifactsRecord /\ ws \in WorkspaceRecord /\ Held(pc[e], local[e])
  BY HoldFields DEF HeldOK, RecordOK
<1>1. CASE ValidateOpen(e)
  BY <1>1, OpenBeforeCandidateType, Positions DEF ValidateOpen, Opened
<1>2. CASE ValidateStart(e)
  BY <1>2, AdvanceFreeType, CloseType, LeaveType
  DEF ValidateStart, RunState, ForwardStates, TerminalStates, FailClosedStates
<1>3. CASE \E result \in CheckResults : ValidateRun(e, result)
  <2> PICK result \in CheckResults : ValidateRun(e, result)
    BY <1>3
  <2> DEFINE graph == [verdict |-> result.verdict, clean |-> result.clean,
                       scoped |-> local[e].art.contribution # None, on |-> ws.files,
                       theirs |-> ws.theirs]
  <2>1. graph \in GraphRecord
    <3>1. result.verdict \in Verdicts /\ result.clean \in BOOLEAN
      <4>1. CheckResults \subseteq [verdict: {"pass", "fail", "incomplete"}, clean: BOOLEAN]
        BY DEF CheckResults
      <4> QED
        BY <4>1 DEF Verdicts
    <3>2. ws.files \in [Paths -> Contents] /\ ws.theirs \in SUBSET Paths
      BY <1>0 DEF WorkspaceRecord
    <3>3. (local[e].art.contribution # None) \in BOOLEAN
      OBVIOUS
    <3> QED
      BY <3>1, <3>2, <3>3 DEF GraphRecord
  <2>2. Continue(e, "validate.checkpoint", [local[e] EXCEPT !.art.validation = graph])
    BY DEF ValidateRun
  <2> HIDE DEF graph
  <2>3. [local[e] EXCEPT !.art.validation = graph] \in LocalRecord
    BY <1>0, <2>1, HoldArtValidation DEF OrNone
  <2>4. HeldOK'
    BY <2>2, <2>3, ContinueFreeType
  <2> QED
    BY <2>4 DEF ValidateRun, RecordOK, record
<1>4. CASE ValidateCheckpoint(e)
  <2>1. HeldOK'
    BY <1>4, GotoFreeType DEF ValidateCheckpoint, TakeCheckpoint
  <2> QED
    BY <1>0, <1>4, <2>1, CheckpointType DEF ValidateCheckpoint, TakeCheckpoint, RecordOK, record
<1>5. CASE ValidateSave(e)
  <2>1. HeldOK'
    BY <1>5, GotoFreeType DEF ValidateSave
  <2> QED
    BY <1>0, <1>5, <2>1 DEF ValidateSave, RecordOK, record
<1> QED
  BY <1>1, <1>2, <1>3, <1>4, <1>5 DEF Validate

\* The types, over the steps of challenge_and_maybe_repair.
LEMMA ChallengeType ==
  ASSUME TypeInv, NEW e \in Executors, Challenge(e)
  PROVE  TypeInv'
<1> USE DEF FreeSteps, Steps, AwaitingSteps, CapsuleSteps, WritingSteps, WrittenSteps, RunState,
            ForwardStates, TerminalStates, FailClosedStates, FilesOK, WorldOK, files, world
<1> USE DEF TypeInv
<1>0. /\ local[e] \in LocalRecord /\ local[e].row \in RowRecord
      /\ local[e].art \in ArtifactsRecord /\ run \in RowRecord
      /\ art \in ArtifactsRecord /\ ws \in WorkspaceRecord /\ Held(pc[e], local[e])
  BY HoldFields DEF HeldOK, RecordOK
<1>1. CASE ChallengeOpen(e)
  BY <1>1, OpenBeforeCandidateType, Positions DEF ChallengeOpen, Opened
<1>2. CASE ChallengeGate(e)
  BY <1>2, AdvanceFreeType, CloseType, LeaveType DEF ChallengeGate, RepairOrBlock
<1>3. CASE ChallengeUnfit(e)
  BY <1>3, CloseType, LeaveType DEF ChallengeUnfit, RecordOK, record
<1>4. CASE ChallengeNotRun(e)
  <2>1. HeldOK'
    BY <1>4, GotoFreeType DEF ChallengeNotRun
  <2>2. art' \in ArtifactsRecord
    BY <1>0, <1>4, ReportType DEF ChallengeNotRun, ArtifactsRecord, OrNone
  <2> QED
    BY <1>4, <2>1, <2>2 DEF ChallengeNotRun, RecordOK, record
<1>5. CASE ChallengeBlocked(e)
  BY <1>5, AdvanceFreeType, CloseType, LeaveType DEF ChallengeBlocked
<1>6. CASE \E blocking \in BOOLEAN : ChallengeReported(e, blocking)
  <2> PICK blocking \in BOOLEAN : ChallengeReported(e, blocking)
    BY <1>6
  <2>1. local[e].art.contribution \in Contributions
    BY <1>0 DEF ChallengeReported, FitForChallenge, ArtifactsRecord, OrNone
  <2>2. Completed(blocking, CandidateDiff(ws, local[e].art.contribution)) \in ReportRecord
    BY <1>0, <2>1, DiffType, ReportType
  <2>3. art' \in ArtifactsRecord
    BY <1>0, <2>2 DEF ChallengeReported, ArtifactsRecord, OrNone
  <2>4. [local[e] EXCEPT !.art = art'] \in LocalRecord
    BY <1>0, <2>3 DEF LocalRecord
  <2>5. HeldOK'
    BY <2>4, ContinueFreeType DEF ChallengeReported
  <2> QED
    BY <2>3, <2>5 DEF ChallengeReported, RecordOK, record
<1>7. CASE ChallengeBind(e)
  BY <1>7, UpdateRunFreeType DEF ChallengeBind, RecordOK
<1>8. CASE ChallengeDecide(e)
  BY <1>8, AdvanceFreeType, CloseType, LeaveType DEF ChallengeDecide, RepairOrBlock
<1> QED
  BY <1>1, <1>2, <1>3, <1>4, <1>5, <1>6, <1>7, <1>8 DEF Challenge

\* The types, over the steps of repair_once.
LEMMA RepairType ==
  ASSUME TypeInv, NEW e \in Executors, Repair(e)
  PROVE  TypeInv'
<1> USE DEF FilesOK, WorldOK, files, world
<1> USE DEF TypeInv
<1>0. /\ local[e] \in LocalRecord /\ local[e].row \in RowRecord
      /\ local[e].art \in ArtifactsRecord /\ run \in RowRecord
      /\ art \in ArtifactsRecord /\ ws \in WorkspaceRecord /\ Held(pc[e], local[e])
  BY HoldFields DEF HeldOK, RecordOK
<1>1. CASE RepairRejected(e)
  BY <1>1, CloseType, LeaveType
  DEF RepairRejected, RecordOK, record, RunState, ForwardStates, TerminalStates, FailClosedStates
<1>2. CASE \E patch \in RepairOutputs : RepairCandidate(e, patch)
  <2> PICK patch \in RepairOutputs : RepairCandidate(e, patch)
    BY <1>2
  <2> DEFINE c == Revised(local[e].art.contribution, patch)
             h == [local[e] EXCEPT !.out = c, !.todo = DOMAIN patch]
  <2>1. local[e].art.contribution \in Contributions
    BY <1>0 DEF RepairCandidate, ArtifactsRecord, OrNone
  <2>2. c \in Contributions /\ c.changes = patch
    BY <2>1, RevisedType
  <2>3. DOMAIN patch \subseteq Touched(c) /\ Touched(c) \subseteq Paths
    BY <2>2, TouchedPaths DEF Touched
  <2>4. Continue(e, "repair.write", h)
    BY DEF RepairCandidate
  <2> HIDE DEF c
  <2>5. h \in LocalRecord /\ h.out = c /\ h.todo = DOMAIN patch
    BY <1>0, <2>2, <2>3, OutHold DEF LocalRecord
  <2> HIDE DEF h
  <2>6. Held("repair.write", h) /\ "repair.write" \in Steps
    BY <2>2, <2>3, <2>5 DEF Held, Steps, CapsuleSteps, WritingSteps, WrittenSteps
  <2>7. HeldOK'
    BY <2>4, <2>5, <2>6, ContinueType
  <2> QED
    BY <2>7 DEF RepairCandidate, RecordOK, record
<1>3. CASE RepairCheckpoint(e)
  <2>1. Held("repair.save", local[e]) /\ "repair.save" \in Steps
    BY <1>0, <1>3
    DEF RepairCheckpoint, TakeCheckpoint, At, Held, Steps, CapsuleSteps, WritingSteps,
        WrittenSteps
  <2>2. HeldOK'
    BY <1>3, <2>1, GotoType DEF RepairCheckpoint, TakeCheckpoint
  <2> QED
    BY <1>0, <1>3, <2>2, CheckpointType DEF RepairCheckpoint, TakeCheckpoint, RecordOK, record
<1>4. CASE RepairSave(e)
  <2> DEFINE r == [local[e].row EXCEPT !.cand = local[e].out, !.review = None,
                                       !.repairs = local[e].row.repairs + 1]
             h == [local[e] EXCEPT !.row = r]
  <2>1. local[e].out \in Contributions
    BY <1>0, <1>4 DEF RepairSave, At, Held, WritingSteps, WrittenSteps
  <2>2. art' \in ArtifactsRecord
    BY <1>0, <1>4, RepairArt DEF RepairSave
  <2>3. r \in RowRecord
    BY <1>0, <2>1, RepairRow DEF OrNone
  <2>4. Continue(e, "repair.bind", h)
    BY <1>4 DEF RepairSave
  <2> HIDE DEF r
  <2>5. h \in LocalRecord /\ h.out = local[e].out
    BY <1>0, <2>3, HoldRow DEF LocalRecord
  <2> HIDE DEF h
  <2>6. Held("repair.bind", h) /\ "repair.bind" \in Steps
    BY <2>1, <2>5 DEF Held, Steps, CapsuleSteps, WritingSteps, WrittenSteps
  <2>7. HeldOK'
    BY <2>4, <2>5, <2>6, ContinueType
  <2> QED
    BY <1>4, <2>2, <2>7 DEF RepairSave, RecordOK, record
<1>5. CASE RepairBind(e)
  BY <1>5, UpdateRunFreeType
  DEF RepairBind, FreeSteps, Steps, AwaitingSteps, CapsuleSteps, WritingSteps, WrittenSteps,
      RecordOK
<1> QED
  BY <1>1, <1>2, <1>3, <1>4, <1>5 DEF Repair

\* The types, over the steps of package_evidence and review.
LEMMA PackageAndReviewType ==
  ASSUME TypeInv, NEW e \in Executors, PackageAndReview(e)
  PROVE  TypeInv'
<1> USE DEF FreeSteps, Steps, AwaitingSteps, CapsuleSteps, WritingSteps, WrittenSteps, RunState,
            ForwardStates, TerminalStates, FailClosedStates, FilesOK, WorldOK, files, world
<1> USE DEF TypeInv
<1>0. /\ local[e] \in LocalRecord /\ local[e].row \in RowRecord
      /\ local[e].art \in ArtifactsRecord /\ run \in RowRecord
      /\ art \in ArtifactsRecord /\ ws \in WorkspaceRecord /\ Held(pc[e], local[e])
  BY HoldFields DEF HeldOK, RecordOK
<1>1. CASE PackageOpen(e)
  <2> DEFINE ready == art.permit # None /\ art.spec /\ art.contribution # None /\ ws.made
  <2>1. Open(e, {"ready_for_review"}, 8, ready, "package.check") /\ ready \in BOOLEAN
    BY <1>1 DEF PackageOpen
  <2>2. ready => Supplies("package.check")
    BY DEF Supplies
  <2>3. "package.check" \in Opened
    BY DEF Opened
  <2> HIDE DEF ready
  <2> QED
    BY <2>1, <2>2, <2>3, OpenType, Positions
<1>2. CASE PackageRejected(e)
  BY <1>2, CloseType DEF PackageRejected
<1>3. CASE PackageCapsule(e)
  <2> DEFINE a == local[e].art
             graph == IF a.validation = None THEN EmptyGraph ELSE a.validation
             capsule == Capsule(a.contribution, CandidateDiff(ws, a.contribution), graph,
                                a.challenge, a.reproduction, local[e].row.review)
  <2>1. a.contribution \in Contributions
    BY <1>0, <1>3 DEF PackageCapsule, At, Held
  <2>2. graph \in GraphRecord
    BY <1>0, EmptyGraphType DEF ArtifactsRecord, OrNone
  <2>3. /\ a.challenge \in OrNone(ReportRecord) /\ a.reproduction \in ReproductionStatus
        /\ local[e].row.review \in OrNone(Contributions)
    BY <1>0 DEF ArtifactsRecord, RowRecord
  <2>4. CandidateDiff(ws, a.contribution) \in DiffRecord
    BY <1>0, <2>1, DiffType
  <2> HIDE DEF graph
  <2>5. capsule \in CapsuleRecord
    BY <2>1, <2>2, <2>3, <2>4, CapsuleType
  <2>6. art' = [a EXCEPT !.capsule = capsule]
    BY <1>3 DEF PackageCapsule, graph
  <2> HIDE DEF capsule
  <2>7. art' \in ArtifactsRecord
    BY <1>0, <2>5, <2>6 DEF ArtifactsRecord, OrNone
  <2>8. HeldOK'
    BY <1>3, GotoFreeType DEF PackageCapsule
  <2> QED
    BY <1>3, <2>7, <2>8 DEF PackageCapsule, RecordOK, record
<1>4. CASE ReviewOpen(e)
  <2> DEFINE ready == art.capsule # None /\ art.contribution # None
  <2>1. Open(e, {"ready_for_review"}, 9, ready, "review.prompt") /\ ready \in BOOLEAN
    BY <1>4 DEF ReviewOpen
  <2>2. ready => Supplies("review.prompt")
    BY DEF Supplies
  <2>3. "review.prompt" \in Opened
    BY DEF Opened
  <2> HIDE DEF ready
  <2> QED
    BY <2>1, <2>2, <2>3, OpenType, Positions
<1>5. CASE ReviewRejected(e)
  BY <1>5, CloseType DEF ReviewRejected
<1>6. CASE ReviewApproved(e)
  <2>1. local[e].art.contribution \in Contributions /\ local[e].art.capsule \in CapsuleRecord
    BY <1>0, <1>6 DEF ReviewApproved, At, Held
  <2> DEFINE h == [local[e] EXCEPT !.row.review = local[e].art.capsule.candidate]
  <2>2. h \in LocalRecord /\ h.art = local[e].art
    BY <1>0, <2>1 DEF LocalRecord, RowRecord, CapsuleRecord, OrNone
  <2>3. Continue(e, "review.bind", h)
    BY <1>6 DEF ReviewApproved
  <2> HIDE DEF h
  <2>4. Held("review.bind", h) /\ "review.bind" \in Steps
    BY <2>1, <2>2 DEF Held
  <2>5. HeldOK'
    BY <2>2, <2>3, <2>4, ContinueType
  <2> QED
    BY <1>6, <2>1, <2>5 DEF ReviewApproved, RecordOK, record
<1>7. CASE ReviewBind(e)
  <2>1. Held("review.save", local[e]) /\ "review.save" \in Steps
    BY <1>0, <1>7 DEF ReviewBind, At, Held
  <2> QED
    BY <1>7, <2>1, UpdateRunType DEF ReviewBind, RecordOK
<1>8. CASE ReviewSave(e)
  <2>1. local[e].art.capsule \in CapsuleRecord
    BY <1>0, <1>8 DEF ReviewSave, At, Held
  <2>2. BindReviewTo(local[e].art.capsule, local[e].row.review) \in CapsuleRecord
    BY <1>0, <2>1, BindReviewType, RowFields
  <2>3. art' \in ArtifactsRecord
    BY <1>0, <1>8, <2>2 DEF ReviewSave, ArtifactsRecord, OrNone
  <2>4. HeldOK'
    BY <1>8, GotoFreeType DEF ReviewSave
  <2> QED
    BY <1>8, <2>3, <2>4 DEF ReviewSave, RecordOK, record
<1>9. CASE ReviewDone(e)
  BY <1>9, AdvanceFreeType, CloseType, LeaveType DEF ReviewDone
<1> QED
  BY <1>1, <1>2, <1>3, <1>4, <1>5, <1>6, <1>7, <1>8, <1>9 DEF PackageAndReview

\* The types, over the steps of submit.
LEMMA SubmitType ==
  ASSUME TypeInv, NEW e \in Executors, Submit(e)
  PROVE  TypeInv'
<1> USE DEF FreeSteps, Steps, AwaitingSteps, CapsuleSteps, WritingSteps, WrittenSteps, FilesOK,
            WorldOK, files, world
<1> USE DEF TypeInv
<1>0. /\ local[e] \in LocalRecord /\ local[e].row \in RowRecord
      /\ local[e].art \in ArtifactsRecord /\ run \in RowRecord
      /\ art \in ArtifactsRecord /\ ws \in WorkspaceRecord /\ Held(pc[e], local[e])
  BY HoldFields DEF HeldOK, RecordOK
<1>1. CASE SubmitOpen(e)
  <2> DEFINE ready == art.capsule # None /\ art.contribution # None /\ art.permit # None
  <2>1. Open(e, {"approved"}, 9, ready, "submit.boundary") /\ ready \in BOOLEAN
    BY <1>1 DEF SubmitOpen
  <2>2. ready => Supplies("submit.boundary")
    BY DEF Supplies
  <2>3. "submit.boundary" \in Opened
    BY DEF Opened
  <2> HIDE DEF ready
  <2> QED
    BY <2>1, <2>2, <2>3, OpenType, Positions
<1>2. CASE SubmitBoundary(e)
  <2>1. Held("submit.branch", local[e]) /\ "submit.branch" \in Steps
    BY <1>0, <1>2 DEF SubmitBoundary, At, Held
  <2>2. HeldOK'
    BY <1>2, <2>1, GotoType, LeaveType DEF SubmitBoundary
  <2> QED
    BY <1>2, <2>2 DEF SubmitBoundary, RecordOK, record
<1>3. CASE SubmitBranch(e)
  <2>1. Held("submit.draft", local[e]) /\ "submit.draft" \in Steps
    BY <1>0, <1>3 DEF SubmitBranch, At, Held
  <2>2. HeldOK'
    BY <1>3, <2>1, GotoType, LeaveType DEF SubmitBranch
  <2>3. fork' \in ForkRecord
    BY <1>3 DEF SubmitBranch, ForkRecord
  <2> QED
    BY <1>3, <2>2, <2>3 DEF SubmitBranch, RecordOK, record
<1>4. CASE SubmitDraft(e)
  <2> DEFINE draft == [contribution |-> local[e].art.contribution, capsule |-> local[e].art.capsule]
             Draft == [contribution: Contributions, capsule: CapsuleRecord]
  <2>1. Held("submit.audit", local[e]) /\ "submit.audit" \in Steps
    BY <1>0, <1>4 DEF SubmitDraft, At, Held
  <2>2. HeldOK'
    BY <1>4, <2>1, GotoType DEF SubmitDraft
  <2>3. draft \in Draft
    BY <2>1 DEF Held
  <2>4. fork.branch \in BOOLEAN /\ fork.drafts \in Seq(Draft)
    BY DEF ForkRecord
  <2>5. fork' = [fork EXCEPT !.drafts = Append(@, draft)]
    BY <1>4 DEF SubmitDraft
  <2> HIDE DEF draft, Draft
  <2>6. Append(fork.drafts, draft) \in Seq(Draft)
    BY <2>3, <2>4
  <2>7. fork' \in [branch: BOOLEAN, drafts: Seq(Draft)]
    BY <2>4, <2>5, <2>6 DEF ForkRecord
  <2>8. fork' \in ForkRecord
    BY <2>7 DEF ForkRecord, Draft
  <2> QED
    BY <1>4, <2>2, <2>8 DEF SubmitDraft, RecordOK, record
<1>5. CASE SubmitAudit(e)
  <2>1. [local[e] EXCEPT !.row.draft = TRUE] \in LocalRecord
    BY <1>0 DEF LocalRecord, RowRecord
  <2> DEFINE h == [local[e] EXCEPT !.row.draft = TRUE]
  <2>2. h.art = local[e].art
    BY <1>0 DEF LocalRecord
  <2> HIDE DEF h
  <2>3. Held("submit.bind", h) /\ "submit.bind" \in Steps
    BY <1>0, <1>5, <2>2 DEF SubmitAudit, At, Held
  <2>4. HeldOK'
    BY <1>5, <2>1, <2>3, ContinueType, LeaveType DEF SubmitAudit, h
  <2>5. receipts' \in Nat
    BY <1>5 DEF SubmitAudit
  <2> QED
    BY <1>5, <2>4, <2>5 DEF SubmitAudit, RecordOK, record
<1>6. CASE SubmitBind(e)
  BY <1>6, UpdateRunFreeType DEF SubmitBind, RecordOK
<1>7. CASE SubmitDone(e)
  BY <1>7, AdvanceFreeType, CloseType, LeaveType
  DEF SubmitDone, RunState, ForwardStates, TerminalStates, FailClosedStates
<1> QED
  BY <1>1, <1>2, <1>3, <1>4, <1>5, <1>6, <1>7 DEF Submit

\* A step of a drive keeps the types.
LEMMA WorkType ==
  ASSUME TypeInv, NEW e \in Executors, Work(e)
  PROVE  TypeInv'
<1> USE DEF FilesOK, WorldOK, files, world
<1>0. local[e] \in LocalRecord /\ run \in RowRecord /\ HeldOK
  BY DEF TypeInv, HeldOK, RecordOK
<1>1. CASE Reload(e)
  <2>1. HeldOK'
    BY <1>0, <1>1, HoldRow, ContinueFreeType
    DEF Reload, FreeSteps, Steps, AwaitingSteps, CapsuleSteps, WritingSteps, WrittenSteps
  <2> QED
    BY <1>1, <2>1 DEF Reload, TypeInv, RecordOK, record
<1>2. CASE DriveReturns(e) \/ EnvironmentFails(e)
  BY <1>0, <1>2, LeaveType DEF DriveReturns, EnvironmentFails, TypeInv, RecordOK, record
<1>3. CASE \E p \in Paths : WriteOne(e, p)
  BY <1>3, WriteOneType
<1> QED
  BY <1>1, <1>2, <1>3, AuthorizeType, PrepareType, UnderstandAndPlanType, SolveType,
     ValidateType, ChallengeType, RepairType, PackageAndReviewType, SubmitType
  DEF Work

\* Every step keeps the types.
LEMMA NextKeepsType == TypeInv /\ [Next]_vars => TypeInv'
<1> USE DEF FilesOK, WorldOK, files, world
<1> SUFFICES ASSUME TypeInv, [Next]_vars PROVE TypeInv'
  OBVIOUS
<1>0. HeldOK /\ ws \in WorkspaceRecord /\ run \in RowRecord
  BY DEF TypeInv, RecordOK
<1>1. ASSUME NEW e \in Executors, NEW review \in BOOLEAN, StartDrive(e, review)
      PROVE  TypeInv'
  <2>1. [NoLocal EXCEPT !.row = run, !.review = review] \in LocalRecord
    BY <1>0, NoLocalType DEF LocalRecord
  <2>2. HeldOK'
    BY <1>0, <1>1, <2>1, ContinueFreeType
    DEF StartDrive, FreeSteps, Steps, AwaitingSteps, CapsuleSteps, WritingSteps, WrittenSteps
  <2> QED
    BY <1>1, <2>2 DEF StartDrive, TypeInv, RecordOK, record
<1>2. ASSUME NEW e \in Executors, Work(e)
      PROVE  TypeInv'
  BY <1>2, WorkType
<1>3. ASSUME NEW e \in Executors, Crash(e)
      PROVE  TypeInv'
  BY <1>0, <1>3, LeaveType DEF Crash, TypeInv, RecordOK, record
<1>4. ASSUME NEW e \in Executors, NEW p \in Paths, CrashInWrite(e, p)
      PROVE  TypeInv'
  <2>1. local[e].out \in Contributions /\ p \in Touched(local[e].out)
    BY <1>0, <1>4 DEF HeldOK, Held, CrashInWrite, At, WritingSteps
  <2>2. ws' \in WorkspaceRecord
    BY <1>0, <1>4, <2>1, TouchedPaths, PutFileType DEF CrashInWrite
  <2> QED
    BY <1>0, <1>4, <2>2, LeaveType DEF CrashInWrite, TypeInv, RecordOK, record
<1>5. ASSUME NEW p \in Paths, NEW content \in Contents, SomebodyWrites(p, content)
      PROVE  TypeInv'
  <2>1. ws' \in WorkspaceRecord
    BY <1>0, <1>5, ForeignWriteType DEF SomebodyWrites
  <2> QED
    BY <1>5, <2>1 DEF SomebodyWrites, TypeInv, HeldOK, RecordOK, record
<1>6. CASE Lapse
  BY <1>6 DEF Lapse, TypeInv, HeldOK, RecordOK, record
<1>7. CASE UNCHANGED vars
  BY <1>7 DEF vars, TypeInv, HeldOK, RecordOK, record
<1> QED
  BY <1>1, <1>2, <1>3, <1>4, <1>5, <1>6, <1>7, StepCases

\* The types hold at the start.
LEMMA InitEstablishesType == Init => TypeInv
<1> SUFFICES ASSUME Init PROVE TypeInv
  OBVIOUS
<1>1. HeldOK
  <2>1. "idle" \in FreeSteps
    BY DEF FreeSteps, Steps, AwaitingSteps, CapsuleSteps, WritingSteps, WrittenSteps
  <2> QED
    BY <2>1, NoLocalType, HeldAtFreeSteps DEF Init, HeldOK, FreeSteps
<1>2. RecordOK
  BY NewRowType DEF Init, RecordOK, RunState, ForwardStates
<1>3. FilesOK
  BY MaterializedType, NoLocalType DEF Init, FilesOK, NoLocal, LocalRecord
<1>4. WorldOK
  <2>1. \A S : <<>> \in Seq(S)
    OBVIOUS
  <2> QED
    BY <2>1 DEF Init, WorldOK, ForkRecord
<1> QED
  BY <1>1, <1>2, <1>3, <1>4 DEF TypeInv

\* The types always hold, for any number of processes.
THEOREM TypeInvariance == Spec => []TypeInv
BY InitEstablishesType, NextKeepsType, PTL DEF Spec

\* The row, the events, the artifacts, the workspace, the fork and what every
\* process holds keep their types; a stage never goes on without the
\* contribution or the capsule it works on, crashes and edits included.
THEOREM RunExecutorTypeCorrect == Spec => []TypeOK
BY TypeInvariance, TypeInvImpliesTypeOK, PTL

-----------------------------------------------------------------------------
(* 2. The record, for one process *)

\* One process drives the run.
OneProcess == \A e, f \in Executors : e = f

\* Steps at which a stage is about to write its row back.
BindSteps ==
  {"authorize.bind", "understand.bind", "solve.bind", "repair.bind", "review.bind", "submit.bind"}

\* The row that a stage holds is the row of the database, but for what the
\* stage is about to bind.
Copies(step, l, row) ==
  /\ step \notin BindSteps \cup {"idle", "returned"} => l.row = row
  /\ step = "authorize.bind" => l.row = [row EXCEPT !.permit = TRUE]
  /\ step = "understand.bind" => l.row = [row EXCEPT !.task = TRUE]
  /\ step = "solve.bind" => l.row = [row EXCEPT !.cand = l.out]
  /\ step = "repair.bind" =>
       l.row = [row EXCEPT !.cand = l.out, !.review = None, !.repairs = row.repairs + 1]
  /\ step = "review.bind" => l.row = [row EXCEPT !.review = l.art.capsule.candidate]
  /\ step = "submit.bind" => l.row = [row EXCEPT !.draft = TRUE]

\* The state of the run while a stage is at a step.
InState(step, state) ==
  /\ step \in {"authorize.consent", "authorize.bind", "authorize.done"} => state = "discovered"
  /\ step \in {"prepare.materialize", "prepare.save", "prepare.done"} => state = "authorized"
  /\ step \in {"understand.inputs", "understand.bind", "plan",
               "plan.save", "plan.bind", "plan.done"} => state \in {"prepared", "reproducing"}
  /\ step = "plan.commands" => state = "prepared"
  /\ step = "plan.run" => state = "reproducing"
  /\ step = "solve.start" => state = "planned"
  /\ step \in {"solve.model", "solve.write", "solve.checkpoint", "solve.save", "solve.bind"} =>
       state = "executing"
  /\ step = "validate.start" => state \in {"executing", "repairing"}
  /\ step \in {"validate.run", "validate.checkpoint", "validate.save", "challenge.gate"} =>
       state = "validating"
  /\ step \in {"challenge.review", "challenge.not_run", "challenge.bind", "challenge.decide"} =>
       state = "challenging"
  /\ step \in {"repair.model", "repair.write", "repair.checkpoint", "repair.save", "repair.bind"} =>
       state = "repairing"
  /\ step \in {"package.check", "review.prompt", "review.bind", "review.save", "review.done"} =>
       state = "ready_for_review"
  /\ step \in {"submit.boundary", "submit.branch", "submit.draft", "submit.audit",
               "submit.bind", "submit.done"} => state = "approved"

\* A process agrees with the row.
Agrees(step, l, row) == Copies(step, l, row) /\ InState(step, row.state)

\* Every process agrees with the row.
RowsAgree == \A e \in Executors : Agrees(pc[e], local[e], run)

\* States in which the candidate has not been queued for review.
Unreviewed ==
  {"discovered", "authorized", "prepared", "reproducing", "planned", "executing",
   "validating", "challenging", "repairing"}

\* Nothing was reviewed of a candidate that is still being worked on.
ReviewIsLate == run.state \in Unreviewed => run.review = None

\* The inductive invariant of the record.
RecordInv == TypeInv /\ RowsAgree /\ ReviewIsLate /\ EventsExplainState

\* The step is a step of the lifecycle, or leaves the record alone.
FollowsLifecycle == [Lifecycle!Next]_Lifecycle!vars

\* What every step does to the record.
RecordStep == RowsAgree' /\ ReviewIsLate' /\ EventsExplainState' /\ FollowsLifecycle

\* The part of it that does not depend on the processes.
RecordMoves == ReviewIsLate' /\ EventsExplainState' /\ FollowsLifecycle
-----------------------------------------------------------------------------
\* A process that leaves agrees with any row.
LEMMA LeaveAgrees ==
  ASSUME OneProcess, TypeInv, NEW e \in Executors, Leave(e)
  PROVE  RowsAgree'
<1>1. \A f \in Executors : pc'[f] = "returned"
  BY DEF OneProcess, TypeInv, HeldOK, Leave, Continue, Goto
<1> QED
  BY <1>1 DEF RowsAgree, Agrees, Copies, InState, BindSteps

\* A process that goes on with the row agrees with it.
LEMMA ContinueAgrees ==
  ASSUME OneProcess, TypeInv, NEW e \in Executors, NEW step, NEW held, Continue(e, step, held),
         Agrees(step, held, run')
  PROVE  RowsAgree'
<1>1. \A f \in Executors : pc'[f] = step /\ local'[f] = held
  BY DEF OneProcess, TypeInv, HeldOK, Continue, Goto
<1> QED
  BY <1>1 DEF RowsAgree

\* So does one that goes on with what it holds.
LEMMA GotoAgrees ==
  ASSUME OneProcess, TypeInv, NEW e \in Executors, NEW step, Goto(e, step), UNCHANGED local,
         Agrees(step, local[e], run')
  PROVE  RowsAgree'
<1>1. \A f \in Executors : pc'[f] = step /\ local'[f] = local[e]
  BY DEF OneProcess, TypeInv, HeldOK, Goto
<1> QED
  BY <1>1 DEF RowsAgree

\* The lifecycle has the states and the edges of the executor.
LEMMA LifecycleStates ==
  /\ Lifecycle!RunState = RunState
  /\ \A from, to : Lifecycle!CanTransition(from, to) = CanTransition(from, to)
BY DEF RunState, ForwardStates, TerminalStates, FailClosedStates, CanTransition, ForwardEdges,
       Lifecycle!RunState, Lifecycle!ForwardStates, Lifecycle!TerminalStates,
       Lifecycle!FailClosedStates, Lifecycle!CanTransition, Lifecycle!ForwardEdges

\* A record that stays follows the lifecycle.
LEMMA UnchangedRecord ==
  ASSUME RecordInv, UNCHANGED record
  PROVE  RecordMoves
BY DEF RecordInv, record, RecordMoves, ReviewIsLate, EventsExplainState, FollowsLifecycle,
       Lifecycle!vars

\* A transition that is allowed follows the lifecycle.
LEMMA CommitRecord ==
  ASSUME RecordInv, NEW to \in RunState, Allowed(to), Commit(to)
  PROVE  RecordMoves /\ run' = [run EXCEPT !.state = to] /\ run'.state = to
<1>1. /\ run \in RowRecord /\ run' = [run EXCEPT !.state = to]
      /\ lastEvent' = to /\ gates' = gates \cup {to}
      /\ Lifecycle!TransitionAllowed(run, to)
  BY DEF RecordInv, TypeInv, RecordOK, Commit, Allowed
<1>2. /\ run'.state = to /\ run'.permit = run.permit
      /\ run'.cand = run.cand /\ run'.review = run.review
  BY <1>1 DEF RowRecord
<1>3. Lifecycle!Transition(to)
  BY <1>1, <1>2 DEF Lifecycle!Transition, Lifecycle!TransitionAllowed, Lifecycle!BindingGuard
<1>4. FollowsLifecycle
  BY <1>3, LifecycleStates DEF FollowsLifecycle, Lifecycle!Next
<1>5. ReviewIsLate'
  <2>1. CanTransition(run.state, to)
    BY <1>1, LifecycleStates DEF Lifecycle!TransitionAllowed
  <2>2. to \in Unreviewed => run.state \in Unreviewed
    BY <2>1 DEF Unreviewed, CanTransition, ForwardEdges, FailClosedStates
  <2> QED
    BY <1>2, <2>2 DEF RecordInv, ReviewIsLate
<1>6. EventsExplainState'
  BY <1>1, <1>2 DEF EventsExplainState
<1> QED
  BY <1>1, <1>2, <1>4, <1>5, <1>6 DEF RecordMoves

\* So does a transition after which the stage goes on.
LEMMA AdvanceRecord ==
  ASSUME OneProcess, RecordInv, NEW e \in Executors, NEW to \in RunState,
         NEW step, step \notin BindSteps, InState(step, to), Advance(e, to, step)
  PROVE  RecordStep
<1>1. CASE Leave(e) /\ UNCHANGED record
  BY <1>1, LeaveAgrees, UnchangedRecord DEF RecordInv, RecordStep, RecordMoves
<1>2. CASE Allowed(to) /\ Commit(to) /\ Continue(e, step, [local[e] EXCEPT !.row = run'])
  <2>1. RecordMoves /\ run'.state = to
    BY <1>2, CommitRecord
  <2> DEFINE h == [local[e] EXCEPT !.row = run']
  <2>2. h.row = run'
    BY DEF RecordInv, TypeInv, HeldOK, LocalRecord
  <2> HIDE DEF h
  <2>3. Agrees(step, h, run')
    BY <2>1, <2>2 DEF Agrees, Copies, BindSteps
  <2>4. RowsAgree'
    BY <1>2, <2>3, ContinueAgrees DEF RecordInv, h
  <2> QED
    BY <2>1, <2>4 DEF RecordStep, RecordMoves
<1> QED
  BY <1>1, <1>2 DEF Advance

\* So does a fail-closed exit.
LEMMA CloseRecord ==
  ASSUME OneProcess, RecordInv, NEW e \in Executors, NEW to \in RunState, Close(e, to)
  PROVE  RecordStep
<1>1. RowsAgree'
  BY LeaveAgrees DEF Close, RecordInv
<1>2. RecordMoves
  BY CommitRecord, UnchangedRecord DEF Close
<1> QED
  BY <1>1, <1>2 DEF RecordStep, RecordMoves

\* So does the opening of a stage, which may expire the run.
LEMMA OpenRecord ==
  ASSUME OneProcess, RecordInv, NEW e \in Executors, NEW expected, NEW pos, NEW step \in Opened,
         \A s \in expected : InState(step, s)
  PROVE  \A ready \in BOOLEAN : Open(e, expected, pos, ready, step) => RecordStep
<1> SUFFICES ASSUME NEW ready \in BOOLEAN, Open(e, expected, pos, ready, step)
             PROVE  RecordStep
  OBVIOUS
<1>1. CASE Expire /\ Leave(e)
  <2>1. RecordMoves
    BY <1>1, CommitRecord, UnchangedRecord DEF Expire, RunState, TerminalStates, FailClosedStates
  <2> QED
    BY <1>1, <2>1, LeaveAgrees DEF RecordStep, RecordMoves, RecordInv
<1>2. CASE UNCHANGED record /\ Leave(e)
  BY <1>2, LeaveAgrees, UnchangedRecord DEF RecordInv, RecordStep, RecordMoves
<1> DEFINE h == [local[e] EXCEPT !.row = run, !.art = art, !.out = None, !.todo = {}, !.pos = pos]
<1>3. CASE UNCHANGED record /\ run.state \in expected /\ Continue(e, step, h)
  <2>1. h.row = run
    BY DEF RecordInv, TypeInv, HeldOK, LocalRecord
  <2>2. step \notin BindSteps /\ run' = run
    BY <1>3 DEF Opened, BindSteps, record
  <2> HIDE DEF h
  <2>3. Agrees(step, h, run')
    BY <1>3, <2>1, <2>2 DEF Agrees, Copies, BindSteps
  <2>4. RowsAgree'
    BY <1>3, <2>3, ContinueAgrees DEF RecordInv
  <2> QED
    BY <1>3, <2>4, UnchangedRecord DEF RecordStep, RecordMoves
<1> QED
  BY <1>1, <1>2, <1>3 DEF Open

\* The fields of the row that the lifecycle knows.
LifecycleRow(r) ==
  [state |-> r.state, permit |-> r.permit, cand |-> r.cand, review |-> r.review]

\* The rows of the lifecycle.
LifecycleRows ==
  [state: RunState, permit: BOOLEAN, cand: OrNone(Contributions), review: OrNone(Contributions)]

\* A row that differs in the permit is the row with its permit changed.
LEMMA PermitField ==
  ASSUME NEW S, NEW C, NEW p \in [state: S, permit: BOOLEAN, cand: C, review: C],
         NEW q \in [state: S, permit: BOOLEAN, cand: C, review: C],
         q.state = p.state, q.permit = TRUE, q.cand = p.cand, q.review = p.review
  PROVE  q = [p EXCEPT !.permit = TRUE]
OBVIOUS

\* A stage works on the row of the database.
LEMMA WorkingRow ==
  ASSUME RecordInv, NEW e \in Executors, pc[e] \notin BindSteps \cup {"idle", "returned"}
  PROVE  local[e].row = run
BY DEF RecordInv, RowsAgree, Agrees, Copies

\* A step that leaves the record alone and goes on with the row it holds.
LEMMA ContinueRecord ==
  ASSUME OneProcess, RecordInv, NEW e \in Executors,
         pc[e] \notin BindSteps \cup {"idle", "returned"},
         UNCHANGED record, NEW step, step \notin BindSteps, InState(step, run.state),
         NEW held, held.row = local[e].row, Continue(e, step, held)
  PROVE  RecordStep
<1>1. Agrees(step, held, run')
  BY WorkingRow DEF Agrees, Copies, BindSteps, record
<1>2. RowsAgree'
  BY <1>1, ContinueAgrees DEF RecordInv
<1> QED
  BY <1>2, UnchangedRecord DEF RecordStep, RecordMoves

\* A step that leaves the record alone and what is held with it.
LEMMA GotoRecord ==
  ASSUME OneProcess, RecordInv, NEW e \in Executors,
         pc[e] \notin BindSteps \cup {"idle", "returned"},
         UNCHANGED record, NEW step, step \notin BindSteps, InState(step, run.state),
         Goto(e, step), UNCHANGED local
  PROVE  RecordStep
<1>1. Agrees(step, local[e], run')
  BY WorkingRow DEF Agrees, Copies, BindSteps, record
<1>2. RowsAgree'
  BY <1>1, GotoAgrees DEF RecordInv
<1> QED
  BY <1>2, UnchangedRecord DEF RecordStep, RecordMoves

\* A step that adds to the row it holds what it binds next.
LEMMA BindingRecord ==
  ASSUME OneProcess, RecordInv, NEW e \in Executors,
         UNCHANGED record, NEW step \in BindSteps, InState(step, run.state),
         NEW held, Copies(step, held, run), Continue(e, step, held)
  PROVE  RecordStep
<1>1. Agrees(step, held, run')
  BY DEF Agrees, record
<1>2. RowsAgree'
  BY <1>1, ContinueAgrees DEF RecordInv
<1> QED
  BY <1>2, UnchangedRecord DEF RecordStep, RecordMoves

\* A step that leaves the record alone and the drive with it.
LEMMA LeaveRecord ==
  ASSUME OneProcess, RecordInv, NEW e \in Executors, UNCHANGED record, Leave(e)
  PROVE  RecordStep
BY LeaveAgrees, UnchangedRecord DEF RecordInv, RecordStep, RecordMoves

\* A row is written back whose lifecycle fields did not change.
LEMMA SameRowRecord ==
  ASSUME OneProcess, RecordInv, NEW e \in Executors, NEW step, step \notin BindSteps,
         UpdateRun(e, step), UNCHANGED gates, InState(step, run.state),
         local[e].row.state = run.state, local[e].row.permit = run.permit,
         local[e].row.cand = run.cand, local[e].row.review = run.review
  PROVE  RecordStep
<1>1. run' = local[e].row /\ lastEvent' = lastEvent /\ Goto(e, step) /\ local' = local
  BY DEF UpdateRun
<1>2. Agrees(step, local[e], run')
  BY <1>1 DEF Agrees, Copies, BindSteps
<1>3. RowsAgree'
  BY <1>1, <1>2, GotoAgrees DEF RecordInv
<1>4. FollowsLifecycle
  BY <1>1 DEF FollowsLifecycle, Lifecycle!vars
<1>5. ReviewIsLate' /\ EventsExplainState'
  BY <1>1 DEF RecordInv, ReviewIsLate, EventsExplainState
<1> QED
  BY <1>3, <1>4, <1>5 DEF RecordStep

-----------------------------------------------------------------------------
\* The record, over the steps of authorize.
LEMMA AuthorizeRecord ==
  ASSUME OneProcess, RecordInv, NEW e \in Executors, Authorize(e)
  PROVE  RecordStep
<1> USE DEF RunState, ForwardStates, TerminalStates, FailClosedStates
<1>0. /\ local[e] \in LocalRecord /\ local[e].row \in RowRecord /\ local[e].art \in ArtifactsRecord
      /\ run \in RowRecord /\ InState(pc[e], run.state) /\ Copies(pc[e], local[e], run)
  BY HoldFields DEF RecordInv, TypeInv, HeldOK, RecordOK, RowsAgree, Agrees
<1>1. CASE AuthorizeOpen(e)
  <2>1. CASE Open(e, {"discovered"}, 2, TRUE, "authorize.consent")
    BY <2>1, OpenRecord DEF Opened, InState
  <2> DEFINE h == [local[e] EXCEPT !.row = run, !.pos = 2]
  <2>2. CASE Continue(e, "drive", h) /\ UNCHANGED record
    <3>1. h.row = run
      BY <1>0 DEF LocalRecord
    <3> HIDE DEF h
    <3>2. Agrees("drive", h, run')
      BY <2>2, <3>1 DEF Agrees, Copies, InState, BindSteps, record
    <3> QED
      BY <2>2, <3>2, ContinueAgrees, UnchangedRecord DEF RecordInv, RecordStep, RecordMoves
  <2> QED
    BY <1>1, <2>1, <2>2 DEF AuthorizeOpen
<1>2. CASE AuthorizeDenied(e)
  BY <1>0, <1>2, AdvanceRecord, CloseRecord, LeaveRecord
  DEF AuthorizeDenied, At, InState, BindSteps
<1>3. CASE \E permit \in PermitRecord : AuthorizeIssue(e, permit)
  <2> DEFINE h == [local[e] EXCEPT !.row.permit = TRUE]
  <2>1. /\ Continue(e, "authorize.bind", h) /\ UNCHANGED record
        /\ pc[e] = "authorize.consent"
    BY <1>3 DEF AuthorizeIssue, At
  <2>2. h.row = [local[e].row EXCEPT !.permit = TRUE]
    BY <1>0 DEF LocalRecord
  <2>3. local[e].row = run /\ InState("authorize.bind", run.state)
    BY <1>0, <2>1 DEF Copies, InState, BindSteps
  <2> HIDE DEF h
  <2>4. Copies("authorize.bind", h, run)
    BY <2>2, <2>3 DEF Copies, BindSteps
  <2> QED
    BY <2>1, <2>3, <2>4, BindingRecord DEF BindSteps
<1>4. CASE AuthorizeBind(e)
  <2>1. /\ pc[e] = "authorize.bind" /\ run.state = "discovered"
        /\ local[e].row = [run EXCEPT !.permit = TRUE]
        /\ run' = local[e].row /\ lastEvent' = lastEvent /\ gates' = gates
        /\ Goto(e, "authorize.done") /\ local' = local
    BY <1>0, <1>4 DEF AuthorizeBind, UpdateRun, At, Copies, InState
  <2>2. /\ run'.state = run.state /\ run'.permit = TRUE
        /\ run'.cand = run.cand /\ run'.review = run.review
    BY <1>0, <2>1 DEF RowRecord
  <2>3. Agrees("authorize.done", local[e], run')
    BY <2>1, <2>2 DEF Agrees, Copies, InState, BindSteps
  <2>4. RowsAgree'
    BY <2>1, <2>3, GotoAgrees DEF RecordInv
  <2>a. run.state = "discovered" /\ gates' = gates
    BY <2>1
  <2> DEFINE before == LifecycleRow(run)
             after == LifecycleRow(run')
  <2>c. /\ before \in LifecycleRows /\ after \in LifecycleRows
        /\ after.state = before.state /\ after.permit = TRUE
        /\ after.cand = before.cand /\ after.review = before.review
    BY <1>0, <2>1, <2>2 DEF LifecycleRow, LifecycleRows, RowRecord
  <2>d. after = [before EXCEPT !.permit = TRUE]
    BY <2>c, PermitField DEF LifecycleRows
  <2>b. Lifecycle!BindPermit
    BY <2>a, <2>d, Zenon DEF Lifecycle!BindPermit, LifecycleRow
  <2>5. FollowsLifecycle
    BY <2>b DEF FollowsLifecycle, Lifecycle!Next
  <2>6. ReviewIsLate' /\ EventsExplainState'
    BY <2>1, <2>2 DEF RecordInv, ReviewIsLate, EventsExplainState
  <2> QED
    BY <2>4, <2>5, <2>6 DEF RecordStep
<1>5. CASE AuthorizeDone(e)
  BY <1>0, <1>5, AdvanceRecord, CloseRecord, LeaveRecord DEF AuthorizeDone, At, InState, BindSteps
<1> QED
  BY <1>1, <1>2, <1>3, <1>4, <1>5 DEF Authorize

\* The record, over the steps of prepare.
LEMMA PrepareRecord ==
  ASSUME OneProcess, RecordInv, NEW e \in Executors, Prepare(e)
  PROVE  RecordStep
<1>0. /\ local[e] \in LocalRecord /\ local[e].row \in RowRecord /\ local[e].art \in ArtifactsRecord
      /\ run \in RowRecord /\ InState(pc[e], run.state) /\ Copies(pc[e], local[e], run)
  BY HoldFields DEF RecordInv, TypeInv, HeldOK, RecordOK, RowsAgree, Agrees
<1>1. CASE PrepareOpen(e)
  BY <1>1, OpenRecord DEF PrepareOpen, Opened, InState
<1>2. CASE PrepareMaterialize(e)
  BY <1>0, <1>2, GotoRecord, LeaveRecord DEF PrepareMaterialize, At, InState, BindSteps, record
<1>3. CASE \E complete \in BOOLEAN : PrepareSave(e, complete)
  <2> DEFINE h == [local[e] EXCEPT !.art = art']
  <2>1. /\ Continue(e, "prepare.done", h) /\ UNCHANGED record /\ pc[e] = "prepare.save"
    BY <1>3 DEF PrepareSave, At
  <2>2. h.row = local[e].row
    BY <1>0 DEF LocalRecord
  <2> HIDE DEF h
  <2> QED
    BY <1>0, <2>1, <2>2, ContinueRecord DEF InState, BindSteps
<1>4. CASE PrepareDone(e)
  BY <1>0, <1>4, AdvanceRecord, CloseRecord, LeaveRecord
  DEF PrepareDone, At, InState, BindSteps, RunState, ForwardStates, TerminalStates,
      FailClosedStates
<1> QED
  BY <1>1, <1>2, <1>3, <1>4 DEF Prepare

\* The record, over the steps of understand and reproduce_and_plan.
LEMMA UnderstandAndPlanRecord ==
  ASSUME OneProcess, RecordInv, NEW e \in Executors, UnderstandAndPlan(e)
  PROVE  RecordStep
<1> USE DEF RunState, ForwardStates, TerminalStates, FailClosedStates
<1>0. /\ local[e] \in LocalRecord /\ local[e].row \in RowRecord /\ local[e].art \in ArtifactsRecord
      /\ run \in RowRecord /\ InState(pc[e], run.state) /\ Copies(pc[e], local[e], run)
  BY HoldFields DEF RecordInv, TypeInv, HeldOK, RecordOK, RowsAgree, Agrees
<1>1. CASE UnderstandOpen(e)
  BY <1>1, OpenRecord DEF UnderstandOpen, Opened, InState
<1>2. CASE UnderstandSave(e)
  <2> DEFINE h == [local[e] EXCEPT !.row.task = TRUE]
  <2>1. Continue(e, "understand.bind", h) /\ UNCHANGED record /\ pc[e] = "understand.inputs"
    BY <1>2 DEF UnderstandSave, At
  <2>2. h.row = [local[e].row EXCEPT !.task = TRUE] /\ h.out = local[e].out /\ h.art = local[e].art
    BY <1>0 DEF LocalRecord
  <2>3. local[e].row = run /\ InState("understand.bind", run.state)
    BY <1>0, <2>1 DEF Copies, InState, BindSteps
  <2> HIDE DEF h
  <2>4. Copies("understand.bind", h, run)
    BY <2>2, <2>3 DEF Copies, BindSteps
  <2> QED
    BY <2>1, <2>3, <2>4, BindingRecord DEF BindSteps
<1>3. CASE UnderstandBind(e)
  BY <1>0, <1>3, SameRowRecord DEF UnderstandBind, At, Copies, InState, BindSteps, RowRecord
<1>4. CASE PlanOpen(e)
  BY <1>4, OpenRecord DEF PlanOpen, Opened, InState
<1>5. CASE PlanNoSurface(e)
  <2> DEFINE h == [local[e] EXCEPT !.art.reproduction = "no_surface"]
  <2>1. Continue(e, "plan.save", h) /\ UNCHANGED record /\ pc[e] = "plan.commands"
    BY <1>5 DEF PlanNoSurface, At
  <2>2. h.row = local[e].row
    BY <1>0 DEF LocalRecord
  <2> HIDE DEF h
  <2> QED
    BY <1>0, <2>1, <2>2, ContinueRecord DEF InState, BindSteps
<1>6. CASE PlanReproduce(e)
  BY <1>0, <1>6, AdvanceRecord, CloseRecord, LeaveRecord DEF PlanReproduce, At, InState, BindSteps
<1>7. CASE \E status \in {"reproduced", "not_reproduced"} : PlanRun(e, status)
  <2> PICK status \in {"reproduced", "not_reproduced"} : PlanRun(e, status)
    BY <1>7
  <2> DEFINE h == [local[e] EXCEPT !.art.reproduction = status]
  <2>1. Continue(e, "plan.save", h) /\ UNCHANGED record /\ pc[e] = "plan.run"
    BY <1>7 DEF PlanRun, At
  <2>2. h.row = local[e].row
    BY <1>0 DEF LocalRecord
  <2> HIDE DEF h
  <2> QED
    BY <1>0, <2>1, <2>2, ContinueRecord DEF InState, BindSteps
<1>8. CASE PlanSave(e)
  BY <1>0, <1>8, GotoRecord DEF PlanSave, TakeCheckpoint, At, InState, BindSteps, record
<1>9. CASE PlanBind(e)
  BY <1>0, <1>9, SameRowRecord DEF PlanBind, At, Copies, InState, BindSteps, RowRecord
<1>10. CASE PlanDone(e)
  BY <1>0, <1>10, AdvanceRecord, CloseRecord, LeaveRecord DEF PlanDone, At, InState, BindSteps
<1> QED
  BY <1>1, <1>2, <1>3, <1>4, <1>5, <1>6, <1>7, <1>8, <1>9, <1>10 DEF UnderstandAndPlan

\* The record, over the steps of solve.
LEMMA SolveRecord ==
  ASSUME OneProcess, RecordInv, NEW e \in Executors, Solve(e)
  PROVE  RecordStep
<1> USE DEF RunState, ForwardStates, TerminalStates, FailClosedStates
<1>0. /\ local[e] \in LocalRecord /\ local[e].row \in RowRecord /\ local[e].art \in ArtifactsRecord
      /\ run \in RowRecord /\ InState(pc[e], run.state) /\ Copies(pc[e], local[e], run)
  BY HoldFields DEF RecordInv, TypeInv, HeldOK, RecordOK, RowsAgree, Agrees
<1>1. CASE SolveOpen(e)
  BY <1>1, OpenRecord DEF SolveOpen, Opened, InState
<1>2. CASE SolveStart(e)
  BY <1>0, <1>2, AdvanceRecord, CloseRecord, LeaveRecord DEF SolveStart, At, InState, BindSteps
<1>3. CASE SolveRejected(e)
  BY <1>0, <1>3, AdvanceRecord, CloseRecord, LeaveRecord DEF SolveRejected, At, InState, BindSteps
<1>4. CASE \E c \in SolverOutputs : SolveCandidate(e, c)
  <2> PICK c \in SolverOutputs : SolveCandidate(e, c)
    BY <1>4
  <2> DEFINE h == [local[e] EXCEPT !.out = c, !.todo = Touched(c)]
  <2>1. Continue(e, "solve.write", h) /\ UNCHANGED record /\ pc[e] = "solve.model"
    BY <1>4 DEF SolveCandidate, At
  <2>2. h.row = local[e].row
    BY <1>0 DEF LocalRecord
  <2> HIDE DEF h
  <2> QED
    BY <1>0, <2>1, <2>2, ContinueRecord DEF InState, BindSteps
<1>5. CASE SolveCheckpoint(e)
  BY <1>0, <1>5, GotoRecord DEF SolveCheckpoint, TakeCheckpoint, At, InState, BindSteps, record
<1>6. CASE SolveSave(e)
  <2> DEFINE h == [local[e] EXCEPT !.row.cand = local[e].out]
  <2>1. Continue(e, "solve.bind", h) /\ UNCHANGED record /\ pc[e] = "solve.save"
    BY <1>6 DEF SolveSave, At
  <2>2. /\ h.row = [local[e].row EXCEPT !.cand = local[e].out]
        /\ h.out = local[e].out
        /\ h.art = local[e].art
    BY <1>0 DEF LocalRecord
  <2>3. local[e].row = run /\ InState("solve.bind", run.state)
    BY <1>0, <2>1 DEF Copies, InState, BindSteps
  <2> HIDE DEF h
  <2>4. Copies("solve.bind", h, run)
    BY <2>2, <2>3 DEF Copies, BindSteps
  <2> QED
    BY <2>1, <2>3, <2>4, BindingRecord DEF BindSteps
<1>7. CASE SolveBind(e)
  <2>1. /\ pc[e] = "solve.bind" /\ run.state = "executing"
        /\ local[e].row = [run EXCEPT !.cand = local[e].out]
        /\ run' = local[e].row /\ lastEvent' = lastEvent /\ gates' = {}
        /\ Goto(e, "drive") /\ local' = local
    BY <1>0, <1>7 DEF SolveBind, UpdateRun, At, Copies, InState
  <2>2. local[e].out \in Contributions /\ run.review = None
    BY <2>1 DEF RecordInv, TypeInv, HeldOK, Held, WrittenSteps, ReviewIsLate, Unreviewed
  <2>3. /\ run'.state = run.state /\ run'.permit = run.permit
        /\ run'.cand = local[e].out /\ run'.review = None
    BY <1>0, <2>1, <2>2 DEF RowRecord
  <2>4. Agrees("drive", local[e], run')
    BY <2>1 DEF Agrees, Copies, InState, BindSteps
  <2>5. RowsAgree'
    BY <2>1, <2>4, GotoAgrees DEF RecordInv
  <2> DEFINE c == local[e].out
  <2>a. run.state \in {"executing", "repairing"} /\ gates' = {} /\ run'.cand = c
    BY <2>1, <2>3
  <2>b. /\ run \in RowRecord /\ run' \in RowRecord /\ None \in OrNone(Contributions)
        /\ c \in OrNone(Contributions)
    BY <1>0, <2>1, <2>2 DEF OrNone
  <2> HIDE DEF c
  <2> DEFINE before == LifecycleRow(run)
             after == LifecycleRow(run')
  <2>c. /\ before \in LifecycleRows /\ after \in LifecycleRows
        /\ after.state = before.state /\ after.permit = before.permit
        /\ after.cand = c /\ after.review = None
    BY <2>b, <2>3, <2>a DEF LifecycleRow, LifecycleRows, RowRecord
  <2>d. after = [before EXCEPT !.cand = c, !.review = None]
    <3>1. /\ before \in [state: RunState, permit: BOOLEAN, cand: OrNone(Contributions),
                          review: OrNone(Contributions)]
          /\ after \in [state: RunState, permit: BOOLEAN, cand: OrNone(Contributions),
                         review: OrNone(Contributions)]
      BY <2>c DEF LifecycleRows
    <3> HIDE DEF before, after
    <3> QED
      BY <2>b, <2>c, <3>1
  <2>6. Lifecycle!BindCandidate(c)
    BY <2>a, <2>d, Zenon DEF Lifecycle!BindCandidate, LifecycleRow
  <2>7. FollowsLifecycle
    BY <2>2, <2>6 DEF c, FollowsLifecycle, Lifecycle!Next
  <2>8. ReviewIsLate' /\ EventsExplainState'
    BY <2>1, <2>3 DEF RecordInv, ReviewIsLate, EventsExplainState
  <2> QED
    BY <2>5, <2>7, <2>8 DEF RecordStep
<1> QED
  BY <1>1, <1>2, <1>3, <1>4, <1>5, <1>6, <1>7 DEF Solve

\* The record, when a file is written.
LEMMA WriteOneRecord ==
  ASSUME OneProcess, RecordInv, NEW e \in Executors, NEW p \in Paths, WriteOne(e, p)
  PROVE  RecordStep
<1>0. /\ local[e] \in LocalRecord /\ local[e].row \in RowRecord /\ local[e].art \in ArtifactsRecord
      /\ run \in RowRecord /\ InState(pc[e], run.state) /\ Copies(pc[e], local[e], run)
  BY HoldFields DEF RecordInv, TypeInv, HeldOK, RecordOK, RowsAgree, Agrees
<1> DEFINE h == [local[e] EXCEPT !.todo = @ \ {p}]
<1>2. PICK step \in {"solve.write", "repair.write", "solve.checkpoint", "repair.checkpoint"} :
        /\ Continue(e, step, h) /\ UNCHANGED record
        /\ \/ pc[e] = "solve.write" /\ step \in {"solve.write", "solve.checkpoint"}
           \/ pc[e] = "repair.write" /\ step \in {"repair.write", "repair.checkpoint"}
  BY DEF WriteOne, At
<1>3. h.row = local[e].row
  BY <1>0 DEF LocalRecord
<1> HIDE DEF h
<1>4. pc[e] \notin BindSteps \cup {"idle", "returned"} /\ step \notin BindSteps
  BY <1>2 DEF BindSteps
<1>5. InState(step, run.state)
  BY <1>0, <1>2 DEF InState
<1> QED
  BY <1>2, <1>3, <1>4, <1>5, ContinueRecord

\* The record, over the steps of validate.
LEMMA ValidateRecord ==
  ASSUME OneProcess, RecordInv, NEW e \in Executors, Validate(e)
  PROVE  RecordStep
<1>0. /\ local[e] \in LocalRecord /\ local[e].row \in RowRecord /\ local[e].art \in ArtifactsRecord
      /\ run \in RowRecord /\ InState(pc[e], run.state) /\ Copies(pc[e], local[e], run)
  BY HoldFields DEF RecordInv, TypeInv, HeldOK, RecordOK, RowsAgree, Agrees
<1>1. CASE ValidateOpen(e)
  BY <1>1, OpenRecord DEF ValidateOpen, Opened, InState
<1>2. CASE ValidateStart(e)
  BY <1>0, <1>2, AdvanceRecord, CloseRecord, LeaveRecord
  DEF ValidateStart, At, InState, BindSteps, RunState, ForwardStates, TerminalStates,
      FailClosedStates
<1>3. CASE \E result \in CheckResults : ValidateRun(e, result)
  <2> PICK result \in CheckResults : ValidateRun(e, result)
    BY <1>3
  <2> DEFINE h == [local[e] EXCEPT !.art.validation =
                     [verdict |-> result.verdict, clean |-> result.clean,
                      scoped |-> local[e].art.contribution # None, on |-> ws.files,
                      theirs |-> ws.theirs]]
  <2>1. Continue(e, "validate.checkpoint", h) /\ UNCHANGED record /\ pc[e] = "validate.run"
    BY <1>3 DEF ValidateRun, At
  <2>2. h.row = local[e].row
    BY <1>0 DEF LocalRecord
  <2> HIDE DEF h
  <2> QED
    BY <1>0, <2>1, <2>2, ContinueRecord DEF InState, BindSteps
<1>4. CASE ValidateCheckpoint(e)
  BY <1>0, <1>4, GotoRecord DEF ValidateCheckpoint, TakeCheckpoint, At, InState, BindSteps, record
<1>5. CASE ValidateSave(e)
  BY <1>0, <1>5, GotoRecord DEF ValidateSave, TakeCheckpoint, At, InState, BindSteps, record
<1> QED
  BY <1>1, <1>2, <1>3, <1>4, <1>5 DEF Validate

\* The record, over the steps of challenge_and_maybe_repair.
LEMMA ChallengeRecord ==
  ASSUME OneProcess, RecordInv, NEW e \in Executors, Challenge(e)
  PROVE  RecordStep
<1> USE DEF RunState, ForwardStates, TerminalStates, FailClosedStates
<1>0. /\ local[e] \in LocalRecord /\ local[e].row \in RowRecord /\ local[e].art \in ArtifactsRecord
      /\ run \in RowRecord /\ InState(pc[e], run.state) /\ Copies(pc[e], local[e], run)
  BY HoldFields DEF RecordInv, TypeInv, HeldOK, RecordOK, RowsAgree, Agrees
<1>1. CASE ChallengeOpen(e)
  BY <1>1, OpenRecord DEF ChallengeOpen, Opened, InState
<1>2. CASE ChallengeGate(e)
  BY <1>0, <1>2, AdvanceRecord, CloseRecord, LeaveRecord
  DEF ChallengeGate, RepairOrBlock, At, InState, BindSteps
<1>3. CASE ChallengeUnfit(e)
  BY <1>0, <1>3, AdvanceRecord, CloseRecord, LeaveRecord
  DEF ChallengeUnfit, At, InState, BindSteps
<1>4. CASE ChallengeNotRun(e)
  BY <1>0, <1>4, GotoRecord DEF ChallengeNotRun, FitForChallenge, At, InState, BindSteps, record
<1>5. CASE ChallengeBlocked(e)
  BY <1>0, <1>5, AdvanceRecord, CloseRecord, LeaveRecord
  DEF ChallengeBlocked, At, InState, BindSteps
<1>6. CASE \E blocking \in BOOLEAN : ChallengeReported(e, blocking)
  <2> DEFINE h == [local[e] EXCEPT !.art = art']
  <2>1. Continue(e, "challenge.bind", h) /\ UNCHANGED record /\ pc[e] = "challenge.review"
    BY <1>6 DEF ChallengeReported, FitForChallenge, At
  <2>2. h.row = local[e].row
    BY <1>0 DEF LocalRecord
  <2> HIDE DEF h
  <2> QED
    BY <1>0, <2>1, <2>2, ContinueRecord DEF InState, BindSteps
<1>7. CASE ChallengeBind(e)
  BY <1>0, <1>7, SameRowRecord DEF ChallengeBind, At, Copies, InState, BindSteps, RowRecord
<1>8. CASE ChallengeDecide(e)
  BY <1>0, <1>8, AdvanceRecord, CloseRecord, LeaveRecord
  DEF ChallengeDecide, RepairOrBlock, At, InState, BindSteps
<1> QED
  BY <1>1, <1>2, <1>3, <1>4, <1>5, <1>6, <1>7, <1>8 DEF Challenge

\* The record, over the steps of repair_once.
LEMMA RepairRecord ==
  ASSUME OneProcess, RecordInv, NEW e \in Executors, Repair(e)
  PROVE  RecordStep
<1>0. /\ local[e] \in LocalRecord /\ local[e].row \in RowRecord /\ local[e].art \in ArtifactsRecord
      /\ run \in RowRecord /\ InState(pc[e], run.state) /\ Copies(pc[e], local[e], run)
  BY HoldFields DEF RecordInv, TypeInv, HeldOK, RecordOK, RowsAgree, Agrees
<1>1. CASE RepairRejected(e)
  BY <1>0, <1>1, AdvanceRecord, CloseRecord, LeaveRecord
  DEF RepairRejected, At, InState, BindSteps, RunState, ForwardStates, TerminalStates,
      FailClosedStates
<1>2. CASE \E patch \in RepairOutputs : RepairCandidate(e, patch)
  <2> PICK patch \in RepairOutputs : RepairCandidate(e, patch)
    BY <1>2
  <2> DEFINE h == [local[e] EXCEPT !.out = Revised(local[e].art.contribution, patch),
                                   !.todo = DOMAIN patch]
  <2>1. Continue(e, "repair.write", h) /\ UNCHANGED record /\ pc[e] = "repair.model"
    BY <1>2 DEF RepairCandidate, At
  <2>2. h.row = local[e].row
    BY <1>0 DEF LocalRecord
  <2> HIDE DEF h
  <2> QED
    BY <1>0, <2>1, <2>2, ContinueRecord DEF InState, BindSteps
<1>3. CASE RepairCheckpoint(e)
  BY <1>0, <1>3, GotoRecord DEF RepairCheckpoint, TakeCheckpoint, At, InState, BindSteps, record
<1>4. CASE RepairSave(e)
  <2> DEFINE r == [local[e].row EXCEPT !.cand = local[e].out, !.review = None,
                                       !.repairs = local[e].row.repairs + 1]
             h == [local[e] EXCEPT !.row = r]
  <2>1. Continue(e, "repair.bind", h) /\ UNCHANGED record /\ pc[e] = "repair.save"
    BY <1>4 DEF RepairSave, At
  <2> HIDE DEF r
  <2>2. h.row = r /\ h.out = local[e].out
    BY <1>0 DEF LocalRecord
  <2>3. local[e].row = run /\ InState("repair.bind", run.state)
    BY <1>0, <2>1 DEF Copies, InState, BindSteps
  <2> HIDE DEF h
  <2>4. Copies("repair.bind", h, run)
    BY <2>2, <2>3 DEF Copies, BindSteps, r
  <2> QED
    BY <2>1, <2>3, <2>4, BindingRecord DEF BindSteps
<1>5. CASE RepairBind(e)
  <2>1. /\ pc[e] = "repair.bind" /\ run.state = "repairing"
        /\ local[e].row = [run EXCEPT !.cand = local[e].out, !.review = None,
                                      !.repairs = run.repairs + 1]
        /\ run' = local[e].row /\ lastEvent' = lastEvent /\ gates' = {}
        /\ Goto(e, "drive") /\ local' = local
    BY <1>0, <1>5 DEF RepairBind, UpdateRun, At, Copies, InState
  <2>2. local[e].out \in Contributions /\ run.review = None
    BY <2>1 DEF RecordInv, TypeInv, HeldOK, Held, WrittenSteps, ReviewIsLate, Unreviewed
  <2>3. /\ run'.state = run.state /\ run'.permit = run.permit
        /\ run'.cand = local[e].out /\ run'.review = None
    BY <1>0, <2>1, <2>2 DEF RowRecord
  <2>4. Agrees("drive", local[e], run')
    BY <2>1 DEF Agrees, Copies, InState, BindSteps
  <2>5. RowsAgree'
    BY <2>1, <2>4, GotoAgrees DEF RecordInv
  <2> DEFINE c == local[e].out
  <2>a. run.state \in {"executing", "repairing"} /\ gates' = {} /\ run'.cand = c
    BY <2>1, <2>3
  <2>b. /\ run \in RowRecord /\ run' \in RowRecord /\ None \in OrNone(Contributions)
        /\ c \in OrNone(Contributions)
    BY <1>0, <2>1, <2>2 DEF OrNone
  <2> HIDE DEF c
  <2> DEFINE before == LifecycleRow(run)
             after == LifecycleRow(run')
  <2>c. /\ before \in LifecycleRows /\ after \in LifecycleRows
        /\ after.state = before.state /\ after.permit = before.permit
        /\ after.cand = c /\ after.review = None
    BY <2>b, <2>3, <2>a DEF LifecycleRow, LifecycleRows, RowRecord
  <2>d. after = [before EXCEPT !.cand = c, !.review = None]
    <3>1. /\ before \in [state: RunState, permit: BOOLEAN, cand: OrNone(Contributions),
                          review: OrNone(Contributions)]
          /\ after \in [state: RunState, permit: BOOLEAN, cand: OrNone(Contributions),
                         review: OrNone(Contributions)]
      BY <2>c DEF LifecycleRows
    <3> HIDE DEF before, after
    <3> QED
      BY <2>b, <2>c, <3>1
  <2>6. Lifecycle!BindCandidate(c)
    BY <2>a, <2>d, Zenon DEF Lifecycle!BindCandidate, LifecycleRow
  <2>7. FollowsLifecycle
    BY <2>2, <2>6 DEF c, FollowsLifecycle, Lifecycle!Next
  <2>8. ReviewIsLate' /\ EventsExplainState'
    BY <2>1, <2>3 DEF RecordInv, ReviewIsLate, EventsExplainState
  <2> QED
    BY <2>5, <2>7, <2>8 DEF RecordStep
<1> QED
  BY <1>1, <1>2, <1>3, <1>4, <1>5 DEF Repair

\* The record, over the steps of package_evidence and review.
LEMMA PackageAndReviewRecord ==
  ASSUME OneProcess, RecordInv, NEW e \in Executors, PackageAndReview(e)
  PROVE  RecordStep
<1> USE DEF RunState, ForwardStates, TerminalStates, FailClosedStates
<1>0. /\ local[e] \in LocalRecord /\ local[e].row \in RowRecord /\ local[e].art \in ArtifactsRecord
      /\ run \in RowRecord /\ InState(pc[e], run.state) /\ Copies(pc[e], local[e], run)
  BY HoldFields DEF RecordInv, TypeInv, HeldOK, RecordOK, RowsAgree, Agrees
<1>1. CASE PackageOpen(e)
  BY <1>1, OpenRecord DEF PackageOpen, Opened, InState
<1>2. CASE PackageRejected(e)
  BY <1>0, <1>2, AdvanceRecord, CloseRecord, LeaveRecord
  DEF PackageRejected, At, InState, BindSteps
<1>3. CASE PackageCapsule(e)
  BY <1>0, <1>3, GotoRecord DEF PackageCapsule, TakeCheckpoint, At, InState, BindSteps, record
<1>4. CASE ReviewOpen(e)
  BY <1>4, OpenRecord DEF ReviewOpen, Opened, InState
<1>5. CASE ReviewRejected(e)
  BY <1>0, <1>5, AdvanceRecord, CloseRecord, LeaveRecord
  DEF ReviewRejected, At, InState, BindSteps
<1>6. CASE ReviewApproved(e)
  <2> DEFINE h == [local[e] EXCEPT !.row.review = local[e].art.capsule.candidate]
  <2>1. Continue(e, "review.bind", h) /\ UNCHANGED record /\ pc[e] = "review.prompt"
    BY <1>6 DEF ReviewApproved, At
  <2>2. /\ h.row = [local[e].row EXCEPT !.review = local[e].art.capsule.candidate]
        /\ h.out = local[e].out
        /\ h.art = local[e].art
    BY <1>0 DEF LocalRecord
  <2>3. local[e].row = run /\ InState("review.bind", run.state)
    BY <1>0, <2>1 DEF Copies, InState, BindSteps
  <2> HIDE DEF h
  <2>4. Copies("review.bind", h, run)
    BY <2>2, <2>3 DEF Copies, BindSteps
  <2> QED
    BY <2>1, <2>3, <2>4, BindingRecord DEF BindSteps
<1>7. CASE ReviewBind(e)
  <2>1. /\ pc[e] = "review.bind" /\ run.state = "ready_for_review"
        /\ local[e].row = [run EXCEPT !.review = local[e].art.capsule.candidate]
        /\ run' = local[e].row /\ lastEvent' = lastEvent /\ gates' = gates
        /\ Goto(e, "review.save") /\ local' = local
    BY <1>0, <1>7 DEF ReviewBind, UpdateRun, At, Copies, InState
  <2> DEFINE c == local[e].art.capsule.candidate
  <2>2. c \in Contributions
    BY <2>1 DEF RecordInv, TypeInv, HeldOK, Held, CapsuleSteps, CapsuleRecord
  <2> HIDE DEF c
  <2>3. /\ run'.state = run.state /\ run'.permit = run.permit
        /\ run'.cand = run.cand /\ run'.review = c
    BY <1>0, <2>1 DEF RowRecord, c
  <2>4. Agrees("review.save", local[e], run')
    BY <2>1, <2>3 DEF Agrees, Copies, InState, BindSteps
  <2>5. RowsAgree'
    BY <2>1, <2>4, GotoAgrees DEF RecordInv
  <2>6. Lifecycle!BindReview(c)
    BY <2>1, <2>3 DEF Lifecycle!BindReview
  <2>7. FollowsLifecycle
    BY <2>2, <2>6 DEF FollowsLifecycle, Lifecycle!Next
  <2>8. ReviewIsLate' /\ EventsExplainState'
    BY <2>1, <2>3 DEF RecordInv, ReviewIsLate, Unreviewed, EventsExplainState
  <2> QED
    BY <2>5, <2>7, <2>8 DEF RecordStep
<1>8. CASE ReviewSave(e)
  BY <1>0, <1>8, GotoRecord DEF ReviewSave, TakeCheckpoint, At, InState, BindSteps, record
<1>9. CASE ReviewDone(e)
  BY <1>0, <1>9, AdvanceRecord, CloseRecord, LeaveRecord DEF ReviewDone, At, InState, BindSteps
<1> QED
  BY <1>1, <1>2, <1>3, <1>4, <1>5, <1>6, <1>7, <1>8, <1>9 DEF PackageAndReview

\* The record, over the steps of submit.
LEMMA SubmitRecord ==
  ASSUME OneProcess, RecordInv, NEW e \in Executors, Submit(e)
  PROVE  RecordStep
<1>0. /\ local[e] \in LocalRecord /\ local[e].row \in RowRecord /\ local[e].art \in ArtifactsRecord
      /\ run \in RowRecord /\ InState(pc[e], run.state) /\ Copies(pc[e], local[e], run)
  BY HoldFields DEF RecordInv, TypeInv, HeldOK, RecordOK, RowsAgree, Agrees
<1>1. CASE SubmitOpen(e)
  BY <1>1, OpenRecord DEF SubmitOpen, Opened, InState
<1>2. CASE SubmitBoundary(e)
  BY <1>0, <1>2, GotoRecord, LeaveRecord DEF SubmitBoundary, At, InState, BindSteps, record
<1>3. CASE SubmitBranch(e)
  BY <1>0, <1>3, GotoRecord, LeaveRecord DEF SubmitBranch, At, InState, BindSteps, record
<1>4. CASE SubmitDraft(e)
  BY <1>0, <1>4, GotoRecord DEF SubmitDraft, TakeCheckpoint, At, InState, BindSteps, record
<1>5. CASE SubmitAudit(e)
  <2> DEFINE h == [local[e] EXCEPT !.row.draft = TRUE]
  <2>1. CASE Leave(e)
    BY <1>5, <2>1, LeaveRecord DEF SubmitAudit
  <2>2. CASE Continue(e, "submit.bind", h)
    <3>1. UNCHANGED record /\ pc[e] = "submit.audit"
      BY <1>5 DEF SubmitAudit, At
    <3>2. h.row = [local[e].row EXCEPT !.draft = TRUE]
      BY <1>0 DEF LocalRecord
    <3>3. local[e].row = run /\ InState("submit.bind", run.state)
      BY <1>0, <3>1 DEF Copies, InState, BindSteps
    <3> HIDE DEF h
    <3>4. Copies("submit.bind", h, run)
      BY <3>2, <3>3 DEF Copies, BindSteps
    <3> QED
      BY <2>2, <3>1, <3>3, <3>4, BindingRecord DEF BindSteps
  <2> QED
    BY <1>5, <2>1, <2>2 DEF SubmitAudit
<1>6. CASE SubmitBind(e)
  BY <1>0, <1>6, SameRowRecord DEF SubmitBind, At, Copies, InState, BindSteps, RowRecord
<1>7. CASE SubmitDone(e)
  BY <1>0, <1>7, AdvanceRecord, CloseRecord, LeaveRecord
  DEF SubmitDone, At, InState, BindSteps, RunState, ForwardStates, TerminalStates,
      FailClosedStates
<1> QED
  BY <1>1, <1>2, <1>3, <1>4, <1>5, <1>6, <1>7 DEF Submit

\* Every step of the only process moves the record as the lifecycle allows.
LEMMA NextRecord ==
  ASSUME OneProcess, RecordInv, [Next]_vars
  PROVE  RecordStep
<1>1. ASSUME NEW e \in Executors, NEW review \in BOOLEAN, StartDrive(e, review)
      PROVE  RecordStep
  <2> DEFINE h == [NoLocal EXCEPT !.row = run, !.review = review]
  <2>1. h.row = run
    BY DEF NoLocal
  <2>2. Continue(e, "drive", h) /\ UNCHANGED record
    BY <1>1 DEF StartDrive
  <2> HIDE DEF h
  <2>3. Agrees("drive", h, run')
    BY <2>1, <2>2 DEF Agrees, Copies, InState, BindSteps, record
  <2> QED
    BY <2>2, <2>3, ContinueAgrees, UnchangedRecord DEF RecordInv, RecordStep, RecordMoves
<1>2. ASSUME NEW e \in Executors, Reload(e)
      PROVE  RecordStep
  <2> DEFINE h == [local[e] EXCEPT !.row = run]
  <2>1. h.row = run
    BY DEF RecordInv, TypeInv, HeldOK, LocalRecord
  <2>2. Continue(e, "drive", h) /\ UNCHANGED record
    BY <1>2 DEF Reload
  <2> HIDE DEF h
  <2>3. Agrees("drive", h, run')
    BY <2>1, <2>2 DEF Agrees, Copies, InState, BindSteps, record
  <2> QED
    BY <2>2, <2>3, ContinueAgrees, UnchangedRecord DEF RecordInv, RecordStep, RecordMoves
<1>3. ASSUME NEW e \in Executors, DriveReturns(e) \/ EnvironmentFails(e) \/ Crash(e)
      PROVE  RecordStep
  BY <1>3, LeaveRecord DEF DriveReturns, EnvironmentFails, Crash
<1>4. ASSUME NEW e \in Executors, NEW p \in Paths, WriteOne(e, p) \/ CrashInWrite(e, p)
      PROVE  RecordStep
  BY <1>4, WriteOneRecord, LeaveRecord DEF CrashInWrite
<1>5. ASSUME NEW e \in Executors, Work(e)
      PROVE  RecordStep
  BY <1>2, <1>3, <1>4, <1>5, AuthorizeRecord, PrepareRecord, UnderstandAndPlanRecord,
     SolveRecord, ValidateRecord, ChallengeRecord, RepairRecord, PackageAndReviewRecord,
     SubmitRecord
  DEF Work
<1>6. CASE \/ \E p \in Paths, content \in Contents : SomebodyWrites(p, content)
           \/ Lapse \/ UNCHANGED vars
  <2>1. UNCHANGED <<record, pc, local>>
    BY <1>6 DEF SomebodyWrites, Lapse, vars
  <2>2. RowsAgree'
    BY <2>1 DEF RecordInv, RowsAgree, record
  <2> QED
    BY <2>1, <2>2, UnchangedRecord DEF RecordStep, RecordMoves
<1> QED
  BY <1>1, <1>3, <1>4, <1>5, <1>6, StepCases

\* The record invariant always holds.
LEMMA RecordInvariance ==
  ASSUME OneProcess
  PROVE  Spec => []RecordInv
<1>1. Init => RecordInv
  BY InitEstablishesType
  DEF Init, RecordInv, RowsAgree, Agrees, Copies, InState, BindSteps, ReviewIsLate,
      EventsExplainState, NewRow
<1>2. RecordInv /\ [Next]_vars => RecordInv'
  BY NextKeepsType, NextRecord DEF RecordInv, RecordStep
<1> QED
  BY <1>1, <1>2, PTL DEF Spec

\* The record of a run refines RunLifecycle: transition_run and update_run move
\* state, permit, candidate and review of the row as the lifecycle allows, and
\* the newest event names the state, although update_run writes whole rows
\* from a copy and the process may die between any two writes.
THEOREM RunsFollowTheLifecycle ==
  ASSUME OneProcess
  PROVE  Spec => RecordFollowsLifecycle
<1>1. Init => Lifecycle!Init
  BY DEF Init, Lifecycle!Init, Lifecycle!NewRow, NewRow
<1>2. RecordInv /\ [Next]_vars => [Lifecycle!Next]_Lifecycle!vars
  BY NextRecord DEF RecordStep, FollowsLifecycle
<1>3. RecordInv => EventsExplainState
  BY DEF RecordInv
<1> QED
  BY <1>1, <1>2, <1>3, RecordInvariance, PTL DEF Spec, RecordFollowsLifecycle, Lifecycle!Spec

-----------------------------------------------------------------------------
(* 3. The shape of a step, for one process *)

\* States in which the run has no candidate yet.
BeforeCandidate == {"discovered", "authorized", "prepared", "reproducing", "planned"}

\* States of a candidate that is queued for review or beyond.
LateStates == {"ready_for_review", "approved", "submitted"}

\* Steps at which a process is of no consequence to the candidate.
PlainSteps ==
  {"returned", "drive", "reload", "authorize.bind", "authorize.done", "prepare.save",
   "prepare.done", "understand.bind", "plan", "plan.run", "plan.save", "plan.bind",
   "plan.done", "solve.model", "challenge.not_run"}

\* Two artifacts with the same candidate and evidence.
SameEvidence(a, b) ==
  /\ a.contribution = b.contribution
  /\ a.validation = b.validation
  /\ a.challenge = b.challenge
  /\ a.capsule = b.capsule

\* The row keeps its bindings, and the candidate comes no closer to a draft.
RowKept ==
  /\ run'.cand = run.cand /\ run'.review = run.review /\ run'.draft = run.draft
  /\ run'.state = run.state \/ run'.state \notin LateStates

\* A step that leaves the candidate and its evidence as they are.
Plain(e) ==
  /\ pc'[e] \in PlainSteps
  /\ \/ SameEvidence(art', art)
     \/ run.state \in BeforeCandidate /\ SameEvidence(art', local[e].art)
  /\ \E a \in {art, local[e].art, NoArtifacts} : SameEvidence(local'[e].art, a)
  /\ ws' = ws \/ run.state \in BeforeCandidate
  /\ UNCHANGED world
  /\ RowKept

\* A stage opens and loads the artifacts.
Opens(e) ==
  /\ pc'[e] \in Opened
  /\ local'[e].art = art
  /\ UNCHANGED <<run, files, world>>

\* A stage goes on with the artifacts and the output it holds.
KeptEdges ==
  {<<"validate.start", "validate.run">>,
   <<"challenge.gate", "challenge.review">>, <<"challenge.gate", "repair.model">>,
   <<"challenge.bind", "challenge.decide">>, <<"challenge.decide", "repair.model">>}

\* The stage keeps what it holds.
Keeps(e) ==
  /\ <<pc[e], pc'[e]>> \in KeptEdges
  /\ local'[e].art = local[e].art
  /\ UNCHANGED <<files, world>>
  /\ RowKept

\* The steps that are neither.
Telling(e) ==
  \/ \E c \in SolverOutputs : SolveCandidate(e, c)
  \/ \E p \in Paths : WriteOne(e, p)
  \/ SolveCheckpoint(e) \/ SolveSave(e) \/ SolveBind(e)
  \/ \E result \in CheckResults : ValidateRun(e, result)
  \/ ValidateCheckpoint(e) \/ ValidateSave(e)
  \/ ChallengeNotRun(e)
  \/ \E blocking \in BOOLEAN : ChallengeReported(e, blocking)
  \/ ChallengeDecide(e)
  \/ \E patch \in RepairOutputs : RepairCandidate(e, patch)
  \/ RepairCheckpoint(e) \/ RepairSave(e) \/ RepairBind(e)
  \/ PackageCapsule(e)
  \/ ReviewApproved(e) \/ ReviewBind(e) \/ ReviewSave(e) \/ ReviewDone(e)
  \/ SubmitBoundary(e) \/ SubmitBranch(e) \/ SubmitDraft(e) \/ SubmitAudit(e)
  \/ SubmitBind(e) \/ SubmitDone(e)

\* Every step is one of these.
Shape(e) == Plain(e) \/ Opens(e) \/ Keeps(e) \/ Telling(e)

\* A process that holds nothing holds no evidence.
LEMMA EvidenceOfNoLocal == SameEvidence(NoLocal.art, NoArtifacts)
BY DEF SameEvidence, NoLocal

\* Leaving is plain.
LEMMA LeavePlain ==
  ASSUME TypeInv, NEW e \in Executors, Leave(e), UNCHANGED <<files, world>>, RowKept
  PROVE  Plain(e)
<1>1. pc'[e] = "returned" /\ local'[e] = NoLocal
  BY DEF Leave, Continue, Goto, TypeInv, HeldOK
<1> QED
  BY <1>1, EvidenceOfNoLocal DEF Plain, PlainSteps, SameEvidence, files

\* A record that stays keeps the bindings.
LEMMA UnchangedRow ==
  ASSUME UNCHANGED record
  PROVE  RowKept
BY DEF record, RowKept

\* So does a transition to a state before the review.
LEMMA CommitRow ==
  ASSUME TypeInv, NEW to \in RunState, to \notin LateStates, Commit(to)
  PROVE  RowKept
BY DEF TypeInv, RecordOK, RowRecord, Commit, RowKept

\* A fail-closed exit is plain.
LEMMA ClosePlain ==
  ASSUME TypeInv, NEW e \in Executors, NEW to \in FailClosedStates, Close(e, to),
         UNCHANGED <<files, world>>
  PROVE  Plain(e)
<1>1. to \in RunState /\ to \notin LateStates
  BY DEF FailClosedStates, RunState, TerminalStates, LateStates
<1> QED
  BY <1>1, LeavePlain, UnchangedRow, CommitRow DEF Close

\* Where a process goes on and with what.
LEMMA ContinueEvidence ==
  ASSUME TypeInv, NEW e \in Executors, NEW step, NEW held, Continue(e, step, held)
  PROVE  pc'[e] = step /\ local'[e] = held
BY DEF TypeInv, HeldOK, Continue, Goto

\* A transition before the review is plain, or keeps what is held.
LEMMA AdvanceHolds ==
  ASSUME TypeInv, NEW e \in Executors, NEW to \in RunState, to \notin LateStates, NEW step,
         Advance(e, to, step), UNCHANGED <<files, world>>
  PROVE  \/ Plain(e)
         \/ pc'[e] = step /\ local'[e].art = local[e].art /\ RowKept
<1>1. CASE Leave(e) /\ UNCHANGED record
  BY <1>1, LeavePlain, UnchangedRow
<1>2. CASE Commit(to) /\ Continue(e, step, [local[e] EXCEPT !.row = run'])
  <2>1. [local[e] EXCEPT !.row = run'].art = local[e].art
    BY DEF TypeInv, HeldOK, LocalRecord
  <2> QED
    BY <1>2, <2>1, ContinueEvidence, CommitRow
<1> QED
  BY <1>1, <1>2 DEF Advance

\* It is plain when the stage goes on at a plain step.
LEMMA AdvancePlain ==
  ASSUME TypeInv, NEW e \in Executors, NEW to \in RunState, to \notin LateStates,
         NEW step \in PlainSteps, Advance(e, to, step), UNCHANGED <<files, world>>
  PROVE  Plain(e)
BY AdvanceHolds DEF Plain, SameEvidence, files

\* The opening of a stage opens it, or is plain.
LEMMA OpenShape ==
  ASSUME TypeInv, NEW e \in Executors, NEW expected, NEW pos, NEW step \in Opened
  PROVE  \A ready \in BOOLEAN : Open(e, expected, pos, ready, step) => Plain(e) \/ Opens(e)
<1> SUFFICES ASSUME NEW ready \in BOOLEAN, Open(e, expected, pos, ready, step)
             PROVE  Plain(e) \/ Opens(e)
  OBVIOUS
<1>0. UNCHANGED <<files, world>>
  BY DEF Open
<1>1. CASE Expire /\ Leave(e)
  <2>1. "expired" \in RunState /\ "expired" \notin LateStates
    BY DEF FailClosedStates, RunState, TerminalStates, LateStates
  <2> QED
    BY <1>0, <1>1, <2>1, LeavePlain, UnchangedRow, CommitRow DEF Expire
<1>2. CASE UNCHANGED record /\ Leave(e)
  BY <1>0, <1>2, LeavePlain, UnchangedRow
<1> DEFINE h == [local[e] EXCEPT !.row = run, !.art = art, !.out = None, !.todo = {}, !.pos = pos]
<1>3. CASE UNCHANGED record /\ Continue(e, step, h)
  <2>1. h.art = art
    BY DEF TypeInv, HeldOK, LocalRecord
  <2> HIDE DEF h
  <2> QED
    BY <1>0, <1>3, <2>1, ContinueEvidence DEF Opens, record
<1> QED
  BY <1>1, <1>2, <1>3 DEF Open

\* A row is written back whose bindings did not change.
LEMMA UpdatePlain ==
  ASSUME TypeInv, NEW e \in Executors, NEW step, UpdateRun(e, step), UNCHANGED <<files, world>>,
         local[e].row.state = run.state, local[e].row.cand = run.cand,
         local[e].row.review = run.review, local[e].row.draft = run.draft
  PROVE  pc'[e] = step /\ local'[e].art = local[e].art /\ RowKept
BY DEF TypeInv, HeldOK, UpdateRun, Goto, RowKept

\* The shapes of the steps of authorize.
LEMMA AuthorizeShape ==
  ASSUME RecordInv, NEW e \in Executors, Authorize(e)
  PROVE  Shape(e)
<1> USE DEF RunState, ForwardStates, TerminalStates, FailClosedStates
<1>0. /\ TypeInv /\ local[e] \in LocalRecord /\ local[e].row \in RowRecord
      /\ run \in RowRecord /\ InState(pc[e], run.state) /\ Copies(pc[e], local[e], run)
  BY HoldFields DEF RecordInv, TypeInv, HeldOK, RecordOK, RowsAgree, Agrees
<1>1. CASE AuthorizeOpen(e)
  <2>1. CASE Open(e, {"discovered"}, 2, TRUE, "authorize.consent")
    BY <1>0, <2>1, OpenShape DEF Opened, Shape
  <2> DEFINE h == [local[e] EXCEPT !.row = run, !.pos = 2]
  <2>2. CASE Continue(e, "drive", h) /\ UNCHANGED <<record, files, world>>
    <3>1. h.art = local[e].art
      BY <1>0 DEF LocalRecord
    <3> HIDE DEF h
    <3>2. pc'[e] = "drive" /\ local'[e].art = local[e].art
      BY <1>0, <2>2, <3>1, ContinueEvidence
    <3> QED
      BY <2>2, <3>2, UnchangedRow DEF Shape, Plain, SameEvidence, PlainSteps, files
  <2> QED
    BY <1>1, <2>1, <2>2 DEF AuthorizeOpen
<1>2. CASE AuthorizeDenied(e)
  BY <1>0, <1>2, AdvancePlain, ClosePlain, LeavePlain, UnchangedRow
  DEF AuthorizeDenied, Shape, LateStates, PlainSteps
<1>3. CASE \E permit \in PermitRecord : AuthorizeIssue(e, permit)
  <2> PICK permit \in PermitRecord : AuthorizeIssue(e, permit)
    BY <1>3
  <2> DEFINE h == [local[e] EXCEPT !.row.permit = TRUE]
  <2>1. /\ Continue(e, "authorize.bind", h) /\ UNCHANGED <<record, ws, world>>
        /\ art' = [art EXCEPT !.permit = permit]
    BY DEF AuthorizeIssue
  <2>2. h.art = local[e].art /\ SameEvidence(art', art)
    BY <1>0, <2>1 DEF TypeInv, FilesOK, LocalRecord, ArtifactsRecord, SameEvidence
  <2> HIDE DEF h
  <2>3. pc'[e] = "authorize.bind" /\ local'[e].art = local[e].art
    BY <1>0, <2>1, <2>2, ContinueEvidence
  <2> QED
    BY <2>1, <2>2, <2>3, UnchangedRow DEF Shape, Plain, SameEvidence, PlainSteps
<1>4. CASE AuthorizeBind(e)
  <2>1. /\ local[e].row.state = run.state /\ local[e].row.cand = run.cand
        /\ local[e].row.review = run.review /\ local[e].row.draft = run.draft
    BY <1>0, <1>4 DEF AuthorizeBind, At, Copies, BindSteps, RowRecord
  <2>2. UNCHANGED <<files, world>>
    BY <1>4 DEF AuthorizeBind
  <2>3. pc'[e] \in PlainSteps /\ local'[e].art = local[e].art /\ RowKept
    BY <1>0, <1>4, <2>1, <2>2, UpdatePlain DEF AuthorizeBind, PlainSteps
  <2> QED
    BY <2>2, <2>3 DEF Shape, Plain, SameEvidence, files
<1>5. CASE AuthorizeDone(e)
  BY <1>0, <1>5, AdvancePlain, ClosePlain, LeavePlain, UnchangedRow
  DEF AuthorizeDone, Shape, LateStates, PlainSteps
<1> QED
  BY <1>1, <1>2, <1>3, <1>4, <1>5 DEF Authorize, Shape, Telling

\* The shapes of the steps of prepare.
LEMMA PrepareShape ==
  ASSUME RecordInv, NEW e \in Executors, Prepare(e)
  PROVE  Shape(e)
<1>0. /\ TypeInv /\ local[e] \in LocalRecord /\ local[e].row \in RowRecord
      /\ run \in RowRecord /\ InState(pc[e], run.state) /\ Copies(pc[e], local[e], run)
  BY HoldFields DEF RecordInv, TypeInv, HeldOK, RecordOK, RowsAgree, Agrees
<1>1. CASE PrepareOpen(e)
  BY <1>0, <1>1, OpenShape DEF PrepareOpen, Opened, Shape
<1>2. CASE PrepareMaterialize(e)
  <2>1. UNCHANGED <<record, art, world>> /\ run.state \in BeforeCandidate
    BY <1>0, <1>2 DEF PrepareMaterialize, At, InState, BeforeCandidate
  <2>2. CASE Leave(e)
    <3>1. pc'[e] = "returned" /\ local'[e] = NoLocal
      BY <1>0, <2>2 DEF Leave, Continue, Goto, TypeInv, HeldOK
    <3> QED
      BY <2>1, <3>1, EvidenceOfNoLocal, UnchangedRow DEF Shape, Plain, PlainSteps, SameEvidence
  <2>3. CASE Goto(e, "prepare.save") /\ UNCHANGED local
    BY <1>0, <2>1, <2>3, UnchangedRow
    DEF Shape, Plain, PlainSteps, SameEvidence, Goto, TypeInv, HeldOK
  <2> QED
    BY <1>2, <2>2, <2>3 DEF PrepareMaterialize
<1>3. CASE \E complete \in BOOLEAN : PrepareSave(e, complete)
  <2> PICK complete \in BOOLEAN : PrepareSave(e, complete)
    BY <1>3
  <2> DEFINE h == [local[e] EXCEPT !.art = art']
  <2>1. /\ Continue(e, "prepare.done", h) /\ UNCHANGED <<record, ws, world>>
        /\ art' = [local[e].art EXCEPT !.complete = complete]
        /\ run.state \in BeforeCandidate
    BY <1>0 DEF PrepareSave, At, InState, BeforeCandidate
  <2>2. h.art = art' /\ SameEvidence(art', local[e].art)
    BY <1>0, <2>1 DEF LocalRecord, ArtifactsRecord, SameEvidence
  <2> HIDE DEF h
  <2>3. pc'[e] = "prepare.done" /\ local'[e].art = art'
    BY <1>0, <2>1, <2>2, ContinueEvidence
  <2> QED
    BY <2>1, <2>2, <2>3, UnchangedRow DEF Shape, Plain, SameEvidence, PlainSteps
<1>4. CASE PrepareDone(e)
  BY <1>0, <1>4, AdvancePlain, ClosePlain, LeavePlain, UnchangedRow
  DEF PrepareDone, Shape, RunState, ForwardStates, TerminalStates, FailClosedStates, LateStates,
      PlainSteps
<1> QED
  BY <1>1, <1>2, <1>3, <1>4 DEF Prepare, Shape, Telling

\* The shapes of the steps of understand and reproduce_and_plan.
LEMMA UnderstandAndPlanShape ==
  ASSUME RecordInv, NEW e \in Executors, UnderstandAndPlan(e)
  PROVE  Shape(e)
<1> USE DEF RunState, ForwardStates, TerminalStates, FailClosedStates
<1>0. /\ TypeInv /\ local[e] \in LocalRecord /\ local[e].row \in RowRecord
      /\ run \in RowRecord /\ InState(pc[e], run.state) /\ Copies(pc[e], local[e], run)
  BY HoldFields DEF RecordInv, TypeInv, HeldOK, RecordOK, RowsAgree, Agrees
<1>1. CASE UnderstandOpen(e)
  BY <1>0, <1>1, OpenShape DEF UnderstandOpen, Opened, Shape
<1>2. CASE UnderstandSave(e)
  <2> DEFINE h == [local[e] EXCEPT !.row.task = TRUE]
  <2>1. /\ Continue(e, "understand.bind", h) /\ UNCHANGED <<record, ws, world>>
        /\ art' = [art EXCEPT !.spec = TRUE]
    BY <1>2 DEF UnderstandSave
  <2>2. h.art = local[e].art /\ SameEvidence(art', art)
    BY <1>0, <2>1 DEF TypeInv, FilesOK, LocalRecord, ArtifactsRecord, SameEvidence
  <2> HIDE DEF h
  <2>3. pc'[e] = "understand.bind" /\ local'[e].art = local[e].art
    BY <1>0, <2>1, <2>2, ContinueEvidence
  <2> QED
    BY <2>1, <2>2, <2>3, UnchangedRow DEF Shape, Plain, SameEvidence, PlainSteps
<1>3. CASE UnderstandBind(e)
  <2>1. /\ local[e].row.state = run.state /\ local[e].row.cand = run.cand
        /\ local[e].row.review = run.review /\ local[e].row.draft = run.draft
    BY <1>0, <1>3 DEF UnderstandBind, At, Copies, BindSteps, RowRecord
  <2>2. UNCHANGED <<files, world>>
    BY <1>3 DEF UnderstandBind
  <2>3. pc'[e] \in PlainSteps /\ local'[e].art = local[e].art /\ RowKept
    BY <1>0, <1>3, <2>1, <2>2, UpdatePlain DEF UnderstandBind, PlainSteps
  <2> QED
    BY <2>2, <2>3 DEF Shape, Plain, SameEvidence, files
<1>4. CASE PlanOpen(e)
  BY <1>0, <1>4, OpenShape DEF PlanOpen, Opened, Shape
<1>5. CASE PlanNoSurface(e)
  <2> DEFINE h == [local[e] EXCEPT !.art.reproduction = "no_surface"]
  <2>1. Continue(e, "plan.save", h) /\ UNCHANGED <<record, files, world>>
    BY <1>5 DEF PlanNoSurface
  <2>2. SameEvidence(h.art, local[e].art)
    BY <1>0 DEF LocalRecord, ArtifactsRecord, SameEvidence
  <2> HIDE DEF h
  <2>3. pc'[e] = "plan.save" /\ local'[e] = h
    BY <1>0, <2>1, ContinueEvidence
  <2> QED
    BY <2>1, <2>2, <2>3, UnchangedRow DEF Shape, Plain, SameEvidence, PlainSteps, files
<1>6. CASE PlanReproduce(e)
  BY <1>0, <1>6, AdvancePlain, ClosePlain, LeavePlain, UnchangedRow
  DEF PlanReproduce, Shape, LateStates, PlainSteps
<1>7. CASE \E status \in {"reproduced", "not_reproduced"} : PlanRun(e, status)
  <2> PICK status \in {"reproduced", "not_reproduced"} : PlanRun(e, status)
    BY <1>7
  <2> DEFINE h == [local[e] EXCEPT !.art.reproduction = status]
  <2>1. /\ Continue(e, "plan.save", h) /\ UNCHANGED <<record, art, world>>
        /\ run.state \in BeforeCandidate
    BY <1>0 DEF PlanRun, At, InState, BeforeCandidate
  <2>2. SameEvidence(h.art, local[e].art)
    BY <1>0 DEF LocalRecord, ArtifactsRecord, SameEvidence
  <2> HIDE DEF h
  <2>3. pc'[e] = "plan.save" /\ local'[e] = h
    BY <1>0, <2>1, ContinueEvidence
  <2> QED
    BY <2>1, <2>2, <2>3, UnchangedRow DEF Shape, Plain, SameEvidence, PlainSteps
<1>8. CASE PlanSave(e)
  <2>1. /\ UNCHANGED <<record, ws, world, local>> /\ art' = local[e].art /\ pc'[e] = "plan.bind"
        /\ run.state \in BeforeCandidate
    BY <1>0, <1>8 DEF PlanSave, At, InState, BeforeCandidate, Goto, TypeInv, HeldOK
  <2> QED
    BY <2>1, UnchangedRow DEF Shape, Plain, SameEvidence, PlainSteps
<1>9. CASE PlanBind(e)
  <2>1. /\ local[e].row.state = run.state /\ local[e].row.cand = run.cand
        /\ local[e].row.review = run.review /\ local[e].row.draft = run.draft
    BY <1>0, <1>9 DEF PlanBind, At, Copies, BindSteps, RowRecord
  <2>2. UNCHANGED <<files, world>>
    BY <1>9 DEF PlanBind
  <2>3. pc'[e] \in PlainSteps /\ local'[e].art = local[e].art /\ RowKept
    BY <1>0, <1>9, <2>1, <2>2, UpdatePlain DEF PlanBind, PlainSteps
  <2> QED
    BY <2>2, <2>3 DEF Shape, Plain, SameEvidence, files
<1>10. CASE PlanDone(e)
  BY <1>0, <1>10, AdvancePlain, ClosePlain, LeavePlain, UnchangedRow
  DEF PlanDone, Shape, LateStates, PlainSteps
<1> QED
  BY <1>1, <1>2, <1>3, <1>4, <1>5, <1>6, <1>7, <1>8, <1>9, <1>10
  DEF UnderstandAndPlan, Shape, Telling

\* The shapes of the steps of solve.
LEMMA SolveShape ==
  ASSUME RecordInv, NEW e \in Executors, Solve(e)
  PROVE  Shape(e)
<1> USE DEF RunState, ForwardStates, TerminalStates, FailClosedStates
<1>0. /\ TypeInv /\ local[e] \in LocalRecord /\ local[e].row \in RowRecord
      /\ run \in RowRecord /\ InState(pc[e], run.state) /\ Copies(pc[e], local[e], run)
  BY HoldFields DEF RecordInv, TypeInv, HeldOK, RecordOK, RowsAgree, Agrees
<1>1. CASE SolveOpen(e)
  BY <1>0, <1>1, OpenShape DEF SolveOpen, Opened, Shape
<1>2. CASE SolveStart(e)
  BY <1>0, <1>2, AdvancePlain, ClosePlain, LeavePlain, UnchangedRow
  DEF SolveStart, Shape, LateStates, PlainSteps
<1>3. CASE SolveRejected(e)
  BY <1>0, <1>3, AdvancePlain, ClosePlain, LeavePlain, UnchangedRow
  DEF SolveRejected, Shape, LateStates, PlainSteps
<1> QED
  BY <1>1, <1>2, <1>3 DEF Solve, Shape, Telling

\* The shapes of the steps of validate.
LEMMA ValidateShape ==
  ASSUME RecordInv, NEW e \in Executors, Validate(e)
  PROVE  Shape(e)
<1>0. /\ TypeInv /\ local[e] \in LocalRecord /\ local[e].row \in RowRecord
      /\ run \in RowRecord /\ InState(pc[e], run.state) /\ Copies(pc[e], local[e], run)
  BY HoldFields DEF RecordInv, TypeInv, HeldOK, RecordOK, RowsAgree, Agrees
<1>1. CASE ValidateOpen(e)
  BY <1>0, <1>1, OpenShape DEF ValidateOpen, Opened, Shape
<1>2. CASE ValidateStart(e)
  <2>1. UNCHANGED <<files, world>> /\ pc[e] = "validate.start"
    BY <1>2 DEF ValidateStart, At
  <2>2. CASE Advance(e, "validating", "validate.run")
    <3>1. \/ Plain(e)
          \/ pc'[e] = "validate.run" /\ local'[e].art = local[e].art /\ RowKept
      BY <1>0, <2>1, <2>2, AdvanceHolds DEF RunState, ForwardStates, LateStates
    <3> QED
      BY <2>1, <3>1 DEF Shape, Keeps, KeptEdges
  <2>3. CASE Close(e, "failed")
    BY <1>0, <2>1, <2>3, ClosePlain DEF Shape, FailClosedStates
  <2> QED
    BY <1>2, <2>2, <2>3 DEF ValidateStart
<1> QED
  BY <1>1, <1>2 DEF Validate, Shape, Telling

\* The shapes of the steps of challenge_and_maybe_repair.
LEMMA ChallengeShape ==
  ASSUME RecordInv, NEW e \in Executors, Challenge(e)
  PROVE  Shape(e)
<1> USE DEF RunState, ForwardStates, TerminalStates, FailClosedStates
<1>0. /\ TypeInv /\ local[e] \in LocalRecord /\ local[e].row \in RowRecord
      /\ run \in RowRecord /\ InState(pc[e], run.state) /\ Copies(pc[e], local[e], run)
  BY HoldFields DEF RecordInv, TypeInv, HeldOK, RecordOK, RowsAgree, Agrees
<1>1. CASE ChallengeOpen(e)
  BY <1>0, <1>1, OpenShape DEF ChallengeOpen, Opened, Shape
<1>2. CASE ChallengeGate(e)
  <2>1. UNCHANGED <<files, world>> /\ pc[e] = "challenge.gate"
    BY <1>2 DEF ChallengeGate, At
  <2>2. CASE \/ Advance(e, "challenging", "challenge.review")
             \/ Advance(e, "repairing", "repair.model")
    <3>1. \/ Plain(e)
          \/ /\ pc'[e] \in {"challenge.review", "repair.model"}
             /\ local'[e].art = local[e].art /\ RowKept
      BY <1>0, <2>1, <2>2, AdvanceHolds DEF LateStates
    <3> QED
      BY <2>1, <3>1 DEF Shape, Keeps, KeptEdges
  <2>3. CASE Close(e, "blocked")
    BY <1>0, <2>1, <2>3, ClosePlain DEF Shape
  <2> QED
    BY <1>2, <2>2, <2>3 DEF ChallengeGate, RepairOrBlock
<1>3. CASE ChallengeUnfit(e)
  BY <1>0, <1>3, AdvancePlain, ClosePlain, LeavePlain, UnchangedRow
  DEF ChallengeUnfit, Shape, LateStates, PlainSteps
<1>4. CASE ChallengeBlocked(e)
  BY <1>0, <1>4, AdvancePlain, ClosePlain, LeavePlain, UnchangedRow
  DEF ChallengeBlocked, Shape, LateStates, PlainSteps
<1>5. CASE ChallengeBind(e)
  <2>1. /\ local[e].row.state = run.state /\ local[e].row.cand = run.cand
        /\ local[e].row.review = run.review /\ local[e].row.draft = run.draft
        /\ pc[e] = "challenge.bind"
    BY <1>0, <1>5 DEF ChallengeBind, At, Copies, BindSteps, RowRecord
  <2>2. UNCHANGED <<files, world>>
    BY <1>5 DEF ChallengeBind
  <2>3. pc'[e] = "challenge.decide" /\ local'[e].art = local[e].art /\ RowKept
    BY <1>0, <1>5, <2>1, <2>2, UpdatePlain DEF ChallengeBind
  <2> QED
    BY <2>1, <2>2, <2>3 DEF Shape, Keeps, KeptEdges
<1> QED
  BY <1>1, <1>2, <1>3, <1>4, <1>5 DEF Challenge, Shape, Telling

\* The shapes of the steps of repair_once.
LEMMA RepairShape ==
  ASSUME RecordInv, NEW e \in Executors, Repair(e)
  PROVE  Shape(e)
<1>0. /\ TypeInv /\ local[e] \in LocalRecord /\ local[e].row \in RowRecord
      /\ run \in RowRecord /\ InState(pc[e], run.state) /\ Copies(pc[e], local[e], run)
  BY HoldFields DEF RecordInv, TypeInv, HeldOK, RecordOK, RowsAgree, Agrees
<1>1. CASE RepairRejected(e)
  BY <1>0, <1>1, AdvancePlain, ClosePlain, LeavePlain, UnchangedRow
  DEF RepairRejected, Shape, RunState, ForwardStates, TerminalStates, FailClosedStates,
      LateStates, PlainSteps
<1> QED
  BY <1>1 DEF Repair, Shape, Telling

\* The shapes of the steps of package_evidence and review.
LEMMA PackageAndReviewShape ==
  ASSUME RecordInv, NEW e \in Executors, PackageAndReview(e)
  PROVE  Shape(e)
<1> USE DEF RunState, ForwardStates, TerminalStates, FailClosedStates
<1>0. /\ TypeInv /\ local[e] \in LocalRecord /\ local[e].row \in RowRecord
      /\ run \in RowRecord /\ InState(pc[e], run.state) /\ Copies(pc[e], local[e], run)
  BY HoldFields DEF RecordInv, TypeInv, HeldOK, RecordOK, RowsAgree, Agrees
<1>1. CASE PackageOpen(e)
  BY <1>0, <1>1, OpenShape DEF PackageOpen, Opened, Shape
<1>2. CASE PackageRejected(e)
  BY <1>0, <1>2, AdvancePlain, ClosePlain, LeavePlain, UnchangedRow
  DEF PackageRejected, Shape, LateStates, PlainSteps
<1>3. CASE ReviewOpen(e)
  BY <1>0, <1>3, OpenShape DEF ReviewOpen, Opened, Shape
<1>4. CASE ReviewRejected(e)
  BY <1>0, <1>4, AdvancePlain, ClosePlain, LeavePlain, UnchangedRow
  DEF ReviewRejected, Shape, LateStates, PlainSteps
<1> QED
  BY <1>1, <1>2, <1>3, <1>4 DEF PackageAndReview, Shape, Telling

\* The shapes of the steps of submit.
LEMMA SubmitShape ==
  ASSUME RecordInv, NEW e \in Executors, Submit(e)
  PROVE  Shape(e)
<1>0. /\ TypeInv /\ local[e] \in LocalRecord /\ local[e].row \in RowRecord
      /\ run \in RowRecord /\ InState(pc[e], run.state) /\ Copies(pc[e], local[e], run)
  BY HoldFields DEF RecordInv, TypeInv, HeldOK, RecordOK, RowsAgree, Agrees
<1>1. CASE SubmitOpen(e)
  BY <1>0, <1>1, OpenShape DEF SubmitOpen, Opened, Shape
<1> QED
  BY <1>1 DEF Submit, Shape, Telling

\* A step of the run is a step of one process, a file that somebody else writes
\* or the passage of time.
LEMMA StepShape ==
  ASSUME RecordInv, [Next]_vars
  PROVE  \/ \E e \in Executors : Shape(e)
         \/ \E e \in Executors, p \in Paths : CrashInWrite(e, p)
         \/ \E p \in Paths, content \in Contents : SomebodyWrites(p, content)
         \/ UNCHANGED <<record, files, fork, receipts, approved, pc, local>>
<1>0. TypeInv
  BY DEF RecordInv
<1>1. ASSUME NEW e \in Executors, NEW review \in BOOLEAN, StartDrive(e, review)
      PROVE  Shape(e)
  <2> DEFINE h == [NoLocal EXCEPT !.row = run, !.review = review]
  <2>1. SameEvidence(h.art, NoArtifacts)
    BY DEF NoLocal, SameEvidence
  <2>2. Continue(e, "drive", h) /\ UNCHANGED <<record, files, world>>
    BY <1>1 DEF StartDrive
  <2> HIDE DEF h
  <2>3. pc'[e] = "drive" /\ local'[e] = h
    BY <1>0, <2>2, ContinueEvidence
  <2> QED
    BY <2>1, <2>2, <2>3, UnchangedRow DEF Shape, Plain, SameEvidence, PlainSteps, files
<1>2. ASSUME NEW e \in Executors, Reload(e)
      PROVE  Shape(e)
  <2> DEFINE h == [local[e] EXCEPT !.row = run]
  <2>1. h.art = local[e].art
    BY <1>0 DEF TypeInv, HeldOK, LocalRecord
  <2>2. Continue(e, "drive", h) /\ UNCHANGED <<record, files, world>>
    BY <1>2 DEF Reload
  <2> HIDE DEF h
  <2>3. pc'[e] = "drive" /\ local'[e] = h
    BY <1>0, <2>2, ContinueEvidence
  <2> QED
    BY <2>1, <2>2, <2>3, UnchangedRow DEF Shape, Plain, SameEvidence, PlainSteps, files
<1>3. ASSUME NEW e \in Executors, DriveReturns(e) \/ EnvironmentFails(e) \/ Crash(e)
      PROVE  Shape(e)
  BY <1>0, <1>3, LeavePlain, UnchangedRow DEF DriveReturns, EnvironmentFails, Crash, Shape
<1>4. ASSUME NEW e \in Executors, Work(e)
      PROVE  Shape(e)
  <2>1. (\E p \in Paths : WriteOne(e, p)) => Shape(e)
    BY DEF Shape, Telling
  <2> QED
    BY <1>2, <1>3, <1>4, <2>1, AuthorizeShape, PrepareShape, UnderstandAndPlanShape,
       SolveShape, ValidateShape, ChallengeShape, RepairShape, PackageAndReviewShape,
       SubmitShape
    DEF Work
<1>5. CASE Lapse \/ UNCHANGED vars
  BY <1>5 DEF Lapse, vars, world, files
<1> QED
  BY <1>1, <1>3, <1>4, <1>5, StepCases

-----------------------------------------------------------------------------
(* What the telling steps do, field by field. *)

\* The output of the solver is taken.
LEMMA SolveCandidateDoes ==
  ASSUME RecordInv, NEW e \in Executors, NEW c, SolveCandidate(e, c)
  PROVE  /\ pc[e] = "solve.model" /\ pc'[e] = "solve.write" /\ UNCHANGED <<record, files, world>>
         /\ local'[e].art = local[e].art /\ local'[e].out = c /\ local'[e].todo = Touched(c)
<1>0. /\ TypeInv /\ local[e] \in LocalRecord /\ local[e].row \in RowRecord /\ run \in RowRecord
      /\ local[e].art \in ArtifactsRecord /\ Copies(pc[e], local[e], run)
  BY HoldFields DEF RecordInv, TypeInv, HeldOK, RecordOK, RowsAgree, Agrees
<1> DEFINE h == [local[e] EXCEPT !.out = c, !.todo = Touched(c)]
<1>1. /\ pc[e] = "solve.model" /\ Continue(e, "solve.write", h)
      /\ UNCHANGED <<record, files, world>>
  BY DEF SolveCandidate, At
<1>2. h.art = local[e].art /\ h.out = c /\ h.todo = Touched(c)
  BY <1>0 DEF LocalRecord, ArtifactsRecord
<1> HIDE DEF h
<1> QED
  BY <1>0, <1>1, <1>2, ContinueEvidence

\* The steps after the last file of a solution and of a repair.
WriteEdges == {<<"solve.write", "solve.checkpoint">>, <<"repair.write", "repair.checkpoint">>}

\* One file of the output is written.
LEMMA WriteOneDoes ==
  ASSUME RecordInv, NEW e \in Executors, NEW p, WriteOne(e, p)
  PROVE  /\ pc[e] \in WritingSteps /\ p \in local[e].todo
         /\ ws' = WriteFile(ws, p, PostImage(local[e].out, p))
         /\ local'[e].art = local[e].art /\ local'[e].out = local[e].out
         /\ local'[e].todo = local[e].todo \ {p}
         /\ \/ pc'[e] = pc[e]
            \/ local'[e].todo = {} /\ <<pc[e], pc'[e]>> \in WriteEdges
         /\ UNCHANGED <<record, art, world>>
<1>0. TypeInv /\ local[e] \in LocalRecord
  BY DEF RecordInv, TypeInv, HeldOK
<1> DEFINE h == [local[e] EXCEPT !.todo = @ \ {p}]
           step == IF local[e].todo # {p} THEN pc[e]
                   ELSE IF At(e, "solve.write") THEN "solve.checkpoint" ELSE "repair.checkpoint"
<1>1. /\ pc[e] \in WritingSteps /\ p \in local[e].todo
      /\ ws' = WriteFile(ws, p, PostImage(local[e].out, p))
      /\ Continue(e, step, h) /\ UNCHANGED <<record, art, world>>
  BY DEF WriteOne, WritingSteps, At
<1>2. /\ h.art = local[e].art /\ h.out = local[e].out /\ h.todo = local[e].todo \ {p}
  BY <1>0 DEF LocalRecord
<1>3. \/ step = pc[e]
      \/ h.todo = {} /\ <<pc[e], step>> \in WriteEdges
  BY <1>1, <1>2 DEF At, WritingSteps, WriteEdges
<1> HIDE DEF h, step
<1> QED
  BY <1>0, <1>1, <1>2, <1>3, ContinueEvidence

\* A process that dies in a write has put the file.
LEMMA CrashInWriteDoes ==
  ASSUME RecordInv, NEW e \in Executors, NEW p, CrashInWrite(e, p)
  PROVE  /\ pc[e] \in WritingSteps /\ p \in local[e].todo
         /\ ws' = PutFile(ws, p, PostImage(local[e].out, p))
         /\ pc'[e] = "returned" /\ local'[e] = NoLocal
         /\ UNCHANGED <<record, art, world>>
BY DEF RecordInv, TypeInv, HeldOK, CrashInWrite, WritingSteps, At, Leave, Continue, Goto

\* The checkpoint of solve.
LEMMA SolveCheckpointDoes ==
  ASSUME RecordInv, NEW e \in Executors, SolveCheckpoint(e)
  PROVE  /\ pc[e] = "solve.checkpoint" /\ pc'[e] = "solve.save" /\ local'[e] = local[e]
         /\ UNCHANGED <<record, art, world>>
         /\ ws' = Checkpoint(ws)
<1>1. pc \in [Executors -> Steps]
  BY DEF RecordInv, TypeInv, HeldOK
<1> QED
  BY <1>1 DEF SolveCheckpoint, At, Goto, TakeCheckpoint

\* The checkpoint of validate.
LEMMA ValidateCheckpointDoes ==
  ASSUME RecordInv, NEW e \in Executors, ValidateCheckpoint(e)
  PROVE  /\ pc[e] = "validate.checkpoint" /\ pc'[e] = "validate.save" /\ local'[e] = local[e]
         /\ UNCHANGED <<record, art, world>>
         /\ ws' = Checkpoint(ws)
<1>1. pc \in [Executors -> Steps]
  BY DEF RecordInv, TypeInv, HeldOK
<1> QED
  BY <1>1 DEF ValidateCheckpoint, At, Goto, TakeCheckpoint

\* The checkpoint of repair_once.
LEMMA RepairCheckpointDoes ==
  ASSUME RecordInv, NEW e \in Executors, RepairCheckpoint(e)
  PROVE  /\ pc[e] = "repair.checkpoint" /\ pc'[e] = "repair.save" /\ local'[e] = local[e]
         /\ UNCHANGED <<record, art, world>>
         /\ ws' = Checkpoint(ws)
<1>1. pc \in [Executors -> Steps]
  BY DEF RecordInv, TypeInv, HeldOK
<1> QED
  BY <1>1 DEF RepairCheckpoint, At, Goto, TakeCheckpoint

\* The candidate is saved.
LEMMA SolveSaveDoes ==
  ASSUME RecordInv, NEW e \in Executors, SolveSave(e)
  PROVE  /\ pc[e] = "solve.save" /\ pc'[e] = "solve.bind" /\ UNCHANGED <<record, ws, world>>
         /\ local'[e].art = local[e].art /\ local'[e].out = local[e].out
         /\ art'.contribution = local[e].out
         /\ art'.validation = local[e].art.validation
         /\ art'.challenge = local[e].art.challenge
         /\ art'.capsule = local[e].art.capsule
<1>0. /\ TypeInv /\ local[e] \in LocalRecord /\ local[e].row \in RowRecord /\ run \in RowRecord
      /\ local[e].art \in ArtifactsRecord /\ Copies(pc[e], local[e], run)
  BY HoldFields DEF RecordInv, TypeInv, HeldOK, RecordOK, RowsAgree, Agrees
<1> DEFINE h == [local[e] EXCEPT !.row.cand = local[e].out]
<1>1. /\ pc[e] = "solve.save" /\ Continue(e, "solve.bind", h) /\ UNCHANGED <<record, ws, world>>
  BY DEF SolveSave, At
<1>2. h.art = local[e].art /\ h.out = local[e].out
  BY <1>0 DEF LocalRecord
<1> HIDE DEF h
<1>3. pc'[e] = "solve.bind" /\ local'[e].art = local[e].art /\ local'[e].out = local[e].out
  BY <1>0, <1>1, <1>2, ContinueEvidence
<1>4. /\ art'.contribution = local[e].out
      /\ art'.validation = local[e].art.validation
      /\ art'.challenge = local[e].art.challenge
      /\ art'.capsule = local[e].art.capsule
  BY <1>0, <1>1 DEF SolveSave, ArtifactsRecord
<1> QED
  BY <1>1, <1>3, <1>4

\* The graph is saved.
LEMMA ValidateSaveDoes ==
  ASSUME RecordInv, NEW e \in Executors, ValidateSave(e)
  PROVE  /\ pc[e] = "validate.save" /\ pc'[e] = "reload" /\ UNCHANGED <<record, ws, world>>
         /\ local'[e].art = local[e].art /\ local'[e].out = local[e].out
         /\ art'.contribution = local[e].art.contribution
         /\ art'.validation = local[e].art.validation
         /\ art'.challenge = local[e].art.challenge
         /\ art'.capsule = local[e].art.capsule
<1>0. /\ TypeInv /\ local[e] \in LocalRecord /\ local[e].row \in RowRecord /\ run \in RowRecord
      /\ local[e].art \in ArtifactsRecord /\ Copies(pc[e], local[e], run)
  BY HoldFields DEF RecordInv, TypeInv, HeldOK, RecordOK, RowsAgree, Agrees
<1>1. /\ pc[e] = "validate.save" /\ UNCHANGED <<record, ws, world>>
  BY DEF ValidateSave, At
<1>3. pc'[e] = "reload" /\ local'[e].art = local[e].art /\ local'[e].out = local[e].out
  BY <1>0 DEF ValidateSave, Goto, TypeInv, HeldOK
<1>4. /\ art'.contribution = local[e].art.contribution
      /\ art'.validation = local[e].art.validation
      /\ art'.challenge = local[e].art.challenge
      /\ art'.capsule = local[e].art.capsule
  BY <1>0, <1>1 DEF ValidateSave, ArtifactsRecord
<1> QED
  BY <1>1, <1>3, <1>4

\* The report of a challenger that could not run.
LEMMA ChallengeNotRunDoes ==
  ASSUME RecordInv, NEW e \in Executors, ChallengeNotRun(e)
  PROVE  /\ pc[e] = "challenge.review" /\ pc'[e] = "challenge.not_run"
         /\ UNCHANGED <<record, ws, world>>
         /\ local'[e].art = local[e].art /\ local'[e].out = local[e].out
         /\ art'.contribution = local[e].art.contribution
         /\ art'.validation = local[e].art.validation
         /\ art'.challenge = NotRun
         /\ art'.capsule = local[e].art.capsule
<1>0. /\ TypeInv /\ local[e] \in LocalRecord /\ local[e].row \in RowRecord /\ run \in RowRecord
      /\ local[e].art \in ArtifactsRecord /\ Copies(pc[e], local[e], run)
  BY HoldFields DEF RecordInv, TypeInv, HeldOK, RecordOK, RowsAgree, Agrees
<1>1. /\ pc[e] = "challenge.review" /\ UNCHANGED <<record, ws, world>>
  BY DEF ChallengeNotRun, At, FitForChallenge
<1>3. pc'[e] = "challenge.not_run" /\ local'[e].art = local[e].art /\ local'[e].out = local[e].out
  BY <1>0 DEF ChallengeNotRun, Goto, TypeInv, HeldOK
<1>4. /\ art'.contribution = local[e].art.contribution
      /\ art'.validation = local[e].art.validation
      /\ art'.challenge = NotRun
      /\ art'.capsule = local[e].art.capsule
  BY <1>0, <1>1 DEF ChallengeNotRun, ArtifactsRecord, FitForChallenge
<1> QED
  BY <1>1, <1>3, <1>4

\* The report of the challenger.
LEMMA ChallengeReportedDoes ==
  ASSUME RecordInv, NEW e \in Executors, NEW blocking, ChallengeReported(e, blocking)
  PROVE  /\ pc[e] = "challenge.review" /\ pc'[e] = "challenge.bind"
         /\ UNCHANGED <<record, ws, world>>
         /\ local'[e].art = art' /\ local'[e].out = local[e].out
         /\ ~HasUnexpectedChanges(ws)
         /\ art'.contribution = local[e].art.contribution
         /\ art'.validation = local[e].art.validation
         /\ art'.challenge = Completed(blocking, CandidateDiff(ws, local[e].art.contribution))
         /\ art'.capsule = local[e].art.capsule
<1>0. /\ TypeInv /\ local[e] \in LocalRecord /\ local[e].row \in RowRecord /\ run \in RowRecord
      /\ local[e].art \in ArtifactsRecord /\ Copies(pc[e], local[e], run)
  BY HoldFields DEF RecordInv, TypeInv, HeldOK, RecordOK, RowsAgree, Agrees
<1> DEFINE h == [local[e] EXCEPT !.art = art']
<1>1. /\ pc[e] = "challenge.review" /\ Continue(e, "challenge.bind", h)
      /\ UNCHANGED <<record, ws, world>>
         /\ ~HasUnexpectedChanges(ws)
  BY DEF ChallengeReported, At, FitForChallenge
<1>2. h.art = art' /\ h.out = local[e].out
  BY <1>0 DEF LocalRecord
<1> HIDE DEF h
<1>3. pc'[e] = "challenge.bind" /\ local'[e].art = art' /\ local'[e].out = local[e].out
  BY <1>0, <1>1, <1>2, ContinueEvidence
<1>4. /\ art'.contribution = local[e].art.contribution
      /\ art'.validation = local[e].art.validation
      /\ art'.challenge = Completed(blocking, CandidateDiff(ws, local[e].art.contribution))
      /\ art'.capsule = local[e].art.capsule
  BY <1>0, <1>1 DEF ChallengeReported, ArtifactsRecord, FitForChallenge
<1> QED
  BY <1>1, <1>3, <1>4

\* The repaired candidate is saved, and the evidence of the old one dropped.
LEMMA RepairSaveDoes ==
  ASSUME RecordInv, NEW e \in Executors, RepairSave(e)
  PROVE  /\ pc[e] = "repair.save" /\ pc'[e] = "repair.bind" /\ UNCHANGED <<record, ws, world>>
         /\ local'[e].art = local[e].art /\ local'[e].out = local[e].out
         /\ art'.contribution = local[e].out
         /\ art'.validation = None
         /\ art'.challenge = None
         /\ art'.capsule = None
<1>0. /\ TypeInv /\ local[e] \in LocalRecord /\ local[e].row \in RowRecord /\ run \in RowRecord
      /\ local[e].art \in ArtifactsRecord /\ Copies(pc[e], local[e], run)
  BY HoldFields DEF RecordInv, TypeInv, HeldOK, RecordOK, RowsAgree, Agrees
<1> DEFINE h == [local[e] EXCEPT !.row = [local[e].row EXCEPT !.cand = local[e].out, !.review = None,
                                               !.repairs = local[e].row.repairs + 1]]
<1>1. /\ pc[e] = "repair.save" /\ Continue(e, "repair.bind", h) /\ UNCHANGED <<record, ws, world>>
  BY DEF RepairSave, At
<1>2. h.art = local[e].art /\ h.out = local[e].out
  BY <1>0 DEF LocalRecord
<1> HIDE DEF h
<1>3. pc'[e] = "repair.bind" /\ local'[e].art = local[e].art /\ local'[e].out = local[e].out
  BY <1>0, <1>1, <1>2, ContinueEvidence
<1>4. /\ art'.contribution = local[e].out
      /\ art'.validation = None
      /\ art'.challenge = None
      /\ art'.capsule = None
  BY <1>0, <1>1 DEF RepairSave, ArtifactsRecord
<1> QED
  BY <1>1, <1>3, <1>4

\* The capsule is built from what the stage holds.
LEMMA PackageCapsuleDoes ==
  ASSUME RecordInv, NEW e \in Executors, PackageCapsule(e)
  PROVE  /\ pc[e] = "package.check" /\ pc'[e] = "reload" /\ UNCHANGED <<record, ws, world>>
         /\ local'[e].art = local[e].art /\ local'[e].out = local[e].out
         /\ ~HasUnexpectedChanges(ws)
         /\ art'.contribution = local[e].art.contribution
         /\ art'.validation = local[e].art.validation
         /\ art'.challenge = local[e].art.challenge
         /\ art'.capsule =
              Capsule(local[e].art.contribution, CandidateDiff(ws, local[e].art.contribution),
                      IF local[e].art.validation = None
                        THEN EmptyGraph ELSE local[e].art.validation,
                      local[e].art.challenge, local[e].art.reproduction, local[e].row.review)
<1>0. /\ TypeInv /\ local[e] \in LocalRecord /\ local[e].row \in RowRecord /\ run \in RowRecord
      /\ local[e].art \in ArtifactsRecord /\ Copies(pc[e], local[e], run)
  BY HoldFields DEF RecordInv, TypeInv, HeldOK, RecordOK, RowsAgree, Agrees
<1>1. /\ pc[e] = "package.check" /\ UNCHANGED <<record, ws, world>>
         /\ ~HasUnexpectedChanges(ws)
  BY DEF PackageCapsule, At
<1>3. pc'[e] = "reload" /\ local'[e].art = local[e].art /\ local'[e].out = local[e].out
  BY <1>0 DEF PackageCapsule, Goto, TypeInv, HeldOK
<1>4. /\ art'.contribution = local[e].art.contribution
      /\ art'.validation = local[e].art.validation
      /\ art'.challenge = local[e].art.challenge
      /\ art'.capsule =
           Capsule(local[e].art.contribution, CandidateDiff(ws, local[e].art.contribution),
                   IF local[e].art.validation = None THEN EmptyGraph ELSE local[e].art.validation,
                   local[e].art.challenge, local[e].art.reproduction, local[e].row.review)
  BY <1>0, <1>1 DEF PackageCapsule, ArtifactsRecord
<1> QED
  BY <1>1, <1>3, <1>4

\* The review is bound in the capsule.
LEMMA ReviewSaveDoes ==
  ASSUME RecordInv, NEW e \in Executors, ReviewSave(e)
  PROVE  /\ pc[e] = "review.save" /\ pc'[e] = "review.done" /\ UNCHANGED <<record, ws, world>>
         /\ local'[e].art = local[e].art /\ local'[e].out = local[e].out
         /\ art'.contribution = local[e].art.contribution
         /\ art'.validation = local[e].art.validation
         /\ art'.challenge = local[e].art.challenge
         /\ art'.capsule = BindReviewTo(local[e].art.capsule, local[e].row.review)
<1>0. /\ TypeInv /\ local[e] \in LocalRecord /\ local[e].row \in RowRecord /\ run \in RowRecord
      /\ local[e].art \in ArtifactsRecord /\ Copies(pc[e], local[e], run)
  BY HoldFields DEF RecordInv, TypeInv, HeldOK, RecordOK, RowsAgree, Agrees
<1>1. /\ pc[e] = "review.save" /\ UNCHANGED <<record, ws, world>>
  BY DEF ReviewSave, At
<1>3. pc'[e] = "review.done" /\ local'[e].art = local[e].art /\ local'[e].out = local[e].out
  BY <1>0 DEF ReviewSave, Goto, TypeInv, HeldOK
<1>4. /\ art'.contribution = local[e].art.contribution
      /\ art'.validation = local[e].art.validation
      /\ art'.challenge = local[e].art.challenge
      /\ art'.capsule = BindReviewTo(local[e].art.capsule, local[e].row.review)
  BY <1>0, <1>1 DEF ReviewSave, ArtifactsRecord
<1> QED
  BY <1>1, <1>3, <1>4

\* The checks run on the files as they are.
LEMMA ValidateRunDoes ==
  ASSUME RecordInv, NEW e \in Executors, NEW result, ValidateRun(e, result)
  PROVE  /\ pc[e] = "validate.run" /\ pc'[e] = "validate.checkpoint"
         /\ UNCHANGED <<record, files, world>>
         /\ local'[e].art.contribution = local[e].art.contribution
         /\ local'[e].art.challenge = local[e].art.challenge
         /\ local'[e].art.capsule = local[e].art.capsule
         /\ local'[e].art.validation =
              [verdict |-> result.verdict, clean |-> result.clean,
               scoped |-> local[e].art.contribution # None, on |-> ws.files,
               theirs |-> ws.theirs]
<1>0. /\ TypeInv /\ local[e] \in LocalRecord /\ local[e].row \in RowRecord /\ run \in RowRecord
      /\ local[e].art \in ArtifactsRecord /\ Copies(pc[e], local[e], run)
  BY HoldFields DEF RecordInv, TypeInv, HeldOK, RecordOK, RowsAgree, Agrees
<1> DEFINE h == [local[e] EXCEPT !.art.validation =
                     [verdict |-> result.verdict, clean |-> result.clean,
                      scoped |-> local[e].art.contribution # None, on |-> ws.files,
                      theirs |-> ws.theirs]]
<1>1. /\ pc[e] = "validate.run" /\ Continue(e, "validate.checkpoint", h)
      /\ UNCHANGED <<record, files, world>>
  BY DEF ValidateRun, At
<1>2. h.art.contribution = local[e].art.contribution
         /\ h.art.challenge = local[e].art.challenge
         /\ h.art.capsule = local[e].art.capsule
         /\ h.art.validation =
              [verdict |-> result.verdict, clean |-> result.clean,
               scoped |-> local[e].art.contribution # None, on |-> ws.files,
               theirs |-> ws.theirs]
  BY <1>0 DEF LocalRecord, ArtifactsRecord
<1> HIDE DEF h
<1> QED
  BY <1>0, <1>1, <1>2, ContinueEvidence

\* The patch of the repair model is taken.
LEMMA RepairCandidateDoes ==
  ASSUME RecordInv, NEW e \in Executors, NEW patch, RepairCandidate(e, patch)
  PROVE  /\ pc[e] = "repair.model" /\ pc'[e] = "repair.write" /\ UNCHANGED <<record, files, world>>
         /\ local'[e].art = local[e].art
         /\ local'[e].out = Revised(local[e].art.contribution, patch)
         /\ local'[e].todo = DOMAIN patch
         /\ local[e].art.contribution # None
         /\ ~HasDuplicatePath(Revised(local[e].art.contribution, patch))
<1>0. /\ TypeInv /\ local[e] \in LocalRecord /\ local[e].row \in RowRecord /\ run \in RowRecord
      /\ local[e].art \in ArtifactsRecord /\ Copies(pc[e], local[e], run)
  BY HoldFields DEF RecordInv, TypeInv, HeldOK, RecordOK, RowsAgree, Agrees
<1> DEFINE h == [local[e] EXCEPT !.out = Revised(local[e].art.contribution, patch),
                                 !.todo = DOMAIN patch]
<1>1. /\ pc[e] = "repair.model" /\ Continue(e, "repair.write", h)
      /\ UNCHANGED <<record, files, world>>
         /\ local[e].art.contribution # None
         /\ ~HasDuplicatePath(Revised(local[e].art.contribution, patch))
  BY DEF RepairCandidate, At
<1>2. h.art = local[e].art
         /\ h.out = Revised(local[e].art.contribution, patch) /\ h.todo = DOMAIN patch
  BY <1>0 DEF LocalRecord, ArtifactsRecord
<1> HIDE DEF h
<1> QED
  BY <1>0, <1>1, <1>2, ContinueEvidence

\* The human approves.
LEMMA ReviewApprovedDoes ==
  ASSUME RecordInv, NEW e \in Executors, ReviewApproved(e)
  PROVE  /\ pc[e] = "review.prompt" /\ pc'[e] = "review.bind"
         /\ UNCHANGED <<record, files, fork, receipts>>
         /\ local'[e].art = local[e].art /\ local'[e].out = local[e].out
         /\ approved' = approved \cup {local[e].art.contribution}
<1>0. /\ TypeInv /\ local[e] \in LocalRecord /\ local[e].row \in RowRecord /\ run \in RowRecord
      /\ local[e].art \in ArtifactsRecord /\ Copies(pc[e], local[e], run)
  BY HoldFields DEF RecordInv, TypeInv, HeldOK, RecordOK, RowsAgree, Agrees
<1> DEFINE h == [local[e] EXCEPT !.row.review = local[e].art.capsule.candidate]
<1>1. /\ pc[e] = "review.prompt" /\ Continue(e, "review.bind", h)
      /\ UNCHANGED <<record, files, fork, receipts>>
         /\ approved' = approved \cup {local[e].art.contribution}
  BY DEF ReviewApproved, At
<1>2. h.art = local[e].art /\ h.out = local[e].out
  BY <1>0 DEF LocalRecord, ArtifactsRecord
<1> HIDE DEF h
<1> QED
  BY <1>0, <1>1, <1>2, ContinueEvidence

\* The row names the candidate.
LEMMA SolveBindDoes ==
  ASSUME RecordInv, NEW e \in Executors, SolveBind(e)
  PROVE  /\ pc[e] = "solve.bind" /\ pc'[e] = "drive" /\ local'[e] = local[e]
         /\ UNCHANGED <<files, world>>
         /\ run'.state = run.state
         /\ run'.cand = local[e].out /\ run'.review = run.review /\ run'.draft = run.draft
<1>0. /\ TypeInv /\ local[e] \in LocalRecord /\ local[e].row \in RowRecord /\ run \in RowRecord
      /\ local[e].art \in ArtifactsRecord /\ Copies(pc[e], local[e], run)
  BY HoldFields DEF RecordInv, TypeInv, HeldOK, RecordOK, RowsAgree, Agrees
<1>1. /\ pc[e] = "solve.bind" /\ pc'[e] = "drive" /\ local'[e] = local[e]
      /\ UNCHANGED <<files, world>>
      /\ run' = local[e].row
  BY <1>0 DEF SolveBind, UpdateRun, At, Goto, TypeInv, HeldOK
<1>2. run' = [run EXCEPT !.cand = local[e].out]
  BY <1>0, <1>1 DEF Copies
<1>3. /\ run'.state = run.state
      /\ run'.cand = local[e].out /\ run'.review = run.review /\ run'.draft = run.draft
  BY <1>0, <1>2 DEF RowRecord
<1> QED
  BY <1>1, <1>3

\* The row names the repaired candidate and forgets the review.
LEMMA RepairBindDoes ==
  ASSUME RecordInv, NEW e \in Executors, RepairBind(e)
  PROVE  /\ pc[e] = "repair.bind" /\ pc'[e] = "drive" /\ local'[e] = local[e]
         /\ UNCHANGED <<files, world>>
         /\ run'.state = run.state
         /\ run'.cand = local[e].out /\ run'.review = None /\ run'.draft = run.draft
<1>0. /\ TypeInv /\ local[e] \in LocalRecord /\ local[e].row \in RowRecord /\ run \in RowRecord
      /\ local[e].art \in ArtifactsRecord /\ Copies(pc[e], local[e], run)
  BY HoldFields DEF RecordInv, TypeInv, HeldOK, RecordOK, RowsAgree, Agrees
<1>1. /\ pc[e] = "repair.bind" /\ pc'[e] = "drive" /\ local'[e] = local[e]
      /\ UNCHANGED <<files, world>>
      /\ run' = local[e].row
  BY <1>0 DEF RepairBind, UpdateRun, At, Goto, TypeInv, HeldOK
<1>2. run' = [run EXCEPT !.cand = local[e].out, !.review = None, !.repairs = run.repairs + 1]
  BY <1>0, <1>1 DEF Copies
<1>3. /\ run'.state = run.state
      /\ run'.cand = local[e].out /\ run'.review = None /\ run'.draft = run.draft
  BY <1>0, <1>2 DEF RowRecord
<1> QED
  BY <1>1, <1>3

\* The row names the reviewed fingerprint.
LEMMA ReviewBindDoes ==
  ASSUME RecordInv, NEW e \in Executors, ReviewBind(e)
  PROVE  /\ pc[e] = "review.bind" /\ pc'[e] = "review.save" /\ local'[e] = local[e]
         /\ UNCHANGED <<files, world>>
         /\ run'.state = run.state
         /\ run'.cand = run.cand /\ run'.review = local[e].art.capsule.candidate
         /\ run'.draft = run.draft
<1>0. /\ TypeInv /\ local[e] \in LocalRecord /\ local[e].row \in RowRecord /\ run \in RowRecord
      /\ local[e].art \in ArtifactsRecord /\ Copies(pc[e], local[e], run)
  BY HoldFields DEF RecordInv, TypeInv, HeldOK, RecordOK, RowsAgree, Agrees
<1>1. /\ pc[e] = "review.bind" /\ pc'[e] = "review.save" /\ local'[e] = local[e]
      /\ UNCHANGED <<files, world>>
      /\ run' = local[e].row
  BY <1>0 DEF ReviewBind, UpdateRun, At, Goto, TypeInv, HeldOK
<1>2. run' = [run EXCEPT !.review = local[e].art.capsule.candidate]
  BY <1>0, <1>1 DEF Copies
<1>3. /\ run'.state = run.state
      /\ run'.cand = run.cand /\ run'.review = local[e].art.capsule.candidate
      /\ run'.draft = run.draft
  BY <1>0, <1>2 DEF RowRecord
<1> QED
  BY <1>1, <1>3

\* The row has its draft.
LEMMA SubmitBindDoes ==
  ASSUME RecordInv, NEW e \in Executors, SubmitBind(e)
  PROVE  /\ pc[e] = "submit.bind" /\ pc'[e] = "submit.done" /\ local'[e] = local[e]
         /\ UNCHANGED <<files, world>>
         /\ run'.state = run.state
         /\ run'.cand = run.cand /\ run'.review = run.review /\ run'.draft = TRUE
<1>0. /\ TypeInv /\ local[e] \in LocalRecord /\ local[e].row \in RowRecord /\ run \in RowRecord
      /\ local[e].art \in ArtifactsRecord /\ Copies(pc[e], local[e], run)
  BY HoldFields DEF RecordInv, TypeInv, HeldOK, RecordOK, RowsAgree, Agrees
<1>1. /\ pc[e] = "submit.bind" /\ pc'[e] = "submit.done" /\ local'[e] = local[e]
      /\ UNCHANGED <<files, world>>
      /\ run' = local[e].row
  BY <1>0 DEF SubmitBind, UpdateRun, At, Goto, TypeInv, HeldOK
<1>2. run' = [run EXCEPT !.draft = TRUE]
  BY <1>0, <1>1 DEF Copies
<1>3. /\ run'.state = run.state
      /\ run'.cand = run.cand /\ run'.review = run.review /\ run'.draft = TRUE
  BY <1>0, <1>2 DEF RowRecord
<1> QED
  BY <1>1, <1>3

\* The elements of a sequence with one more.
LEMMA AppendedElements ==
  ASSUME NEW S, NEW s \in Seq(S), NEW x \in S
  PROVE  {Append(s, x)[i] : i \in DOMAIN Append(s, x)} = {s[i] : i \in DOMAIN s} \cup {x}
<1>1. /\ Len(s) \in Nat /\ DOMAIN s = 1..Len(s) /\ DOMAIN Append(s, x) = 1..(Len(s) + 1)
      /\ \A i \in 1..Len(s) : Append(s, x)[i] = s[i]
      /\ Append(s, x)[Len(s) + 1] = x
  OBVIOUS
<1> QED
  BY <1>1

\* A transition into the review or beyond.
LEMMA AdvanceLate ==
  ASSUME RecordInv, NEW e \in Executors, NEW to \in RunState, NEW step, Advance(e, to, step),
         UNCHANGED <<files, world>>
  PROVE  \/ Plain(e)
         \/ /\ pc'[e] = step /\ local'[e].art = local[e].art
            /\ run'.state = to /\ run'.cand = run.cand
            /\ run'.review = run.review /\ run'.draft = run.draft
<1>0. TypeInv /\ run \in RowRecord /\ local[e] \in LocalRecord
  BY DEF RecordInv, TypeInv, RecordOK, HeldOK
<1>1. CASE Leave(e) /\ UNCHANGED record
  BY <1>0, <1>1, LeavePlain, UnchangedRow
<1>2. CASE Commit(to) /\ Continue(e, step, [local[e] EXCEPT !.row = run'])
  <2>1. [local[e] EXCEPT !.row = run'].art = local[e].art
    BY <1>0 DEF LocalRecord
  <2>2. /\ run'.state = to /\ run'.cand = run.cand
        /\ run'.review = run.review /\ run'.draft = run.draft
    BY <1>0, <1>2 DEF Commit, RowRecord
  <2> QED
    BY <1>0, <1>2, <2>1, <2>2, ContinueEvidence
<1> QED
  BY <1>1, <1>2 DEF Advance

\* The run is approved, or the transition denied.
LEMMA ReviewDoneDoes ==
  ASSUME RecordInv, NEW e \in Executors, ReviewDone(e)
  PROVE  \/ Plain(e)
         \/ /\ pc[e] = "review.done" /\ pc'[e] = "drive" /\ local'[e].art = local[e].art
            /\ UNCHANGED <<files, world>>
            /\ run'.state = "approved" /\ run'.cand = run.cand
            /\ run'.review = run.review /\ run'.draft = run.draft
BY AdvanceLate DEF ReviewDone, At, RunState, ForwardStates, TerminalStates

\* The run is submitted, or the transition denied.
LEMMA SubmitDoneDoes ==
  ASSUME RecordInv, NEW e \in Executors, SubmitDone(e)
  PROVE  \/ Plain(e)
         \/ /\ pc[e] = "submit.done" /\ pc'[e] = "drive" /\ local'[e].art = local[e].art
            /\ UNCHANGED <<files, world>>
            /\ run'.state = "submitted" /\ run'.cand = run.cand
            /\ run'.review = run.review /\ run'.draft = run.draft
BY AdvanceLate DEF SubmitDone, At, RunState, ForwardStates, TerminalStates

\* The run is queued for review, repaired or closed.
LEMMA ChallengeDecideDoes ==
  ASSUME RecordInv, NEW e \in Executors, ChallengeDecide(e)
  PROVE  \/ Plain(e) \/ Keeps(e)
         \/ /\ pc[e] = "challenge.decide" /\ pc'[e] = "drive" /\ local'[e].art = local[e].art
            /\ UNCHANGED <<files, world>>
            /\ run'.state = "ready_for_review" /\ run'.cand = run.cand
            /\ run'.review = run.review /\ run'.draft = run.draft
<1>0. TypeInv /\ pc[e] = "challenge.decide" /\ UNCHANGED <<files, world>>
  BY DEF RecordInv, ChallengeDecide, At
<1>1. CASE Advance(e, "ready_for_review", "drive")
  BY <1>0, <1>1, AdvanceLate DEF RunState, ForwardStates
<1>2. CASE Advance(e, "repairing", "repair.model")
  <2>1. \/ Plain(e)
        \/ pc'[e] = "repair.model" /\ local'[e].art = local[e].art /\ RowKept
    BY <1>0, <1>2, AdvanceHolds DEF RunState, ForwardStates, LateStates
  <2> QED
    BY <1>0, <2>1 DEF Keeps, KeptEdges
<1>3. CASE Close(e, "blocked")
  BY <1>0, <1>3, ClosePlain DEF FailClosedStates
<1> QED
  BY <1>1, <1>2, <1>3 DEF ChallengeDecide, RepairOrBlock

\* The boundary check passes, or the stage errs.
LEMMA SubmitBoundaryDoes ==
  ASSUME RecordInv, NEW e \in Executors, SubmitBoundary(e)
  PROVE  \/ Plain(e)
         \/ /\ pc[e] = "submit.boundary" /\ pc'[e] = "submit.branch" /\ local'[e] = local[e]
            /\ UNCHANGED <<record, files, world>>
            /\ BindingsHold(local[e].art.capsule, local[e].art.contribution, run)
            /\ EvidenceHolds(local[e].art.capsule, local[e].art.permit)
<1>0. TypeInv /\ Copies(pc[e], local[e], run)
  BY DEF RecordInv, RowsAgree, Agrees
<1>1. pc[e] = "submit.boundary" /\ UNCHANGED <<record, files, world>> /\ local[e].row = run
  BY <1>0 DEF SubmitBoundary, At, Copies, BindSteps
<1>2. CASE Leave(e)
  BY <1>0, <1>1, <1>2, LeavePlain, UnchangedRow
<1>3. CASE /\ ValidForSubmission(local[e].art.capsule, local[e].art.contribution,
                                 local[e].row, local[e].art.permit, lapsed)
           /\ Goto(e, "submit.branch") /\ UNCHANGED local
  BY <1>0, <1>1, <1>3 DEF ValidForSubmission, Goto, TypeInv, HeldOK
<1> QED
  BY <1>2, <1>3 DEF SubmitBoundary

\* The branch is created, or GitHub refuses.
LEMMA SubmitBranchDoes ==
  ASSUME RecordInv, NEW e \in Executors, SubmitBranch(e)
  PROVE  \/ Plain(e)
         \/ /\ pc[e] = "submit.branch" /\ pc'[e] = "submit.draft" /\ local'[e] = local[e]
            /\ UNCHANGED <<record, files, receipts, approved>> /\ fork'.drafts = fork.drafts
<1>0. TypeInv /\ pc[e] = "submit.branch" /\ UNCHANGED <<record, files, receipts, approved, lapsed>>
  BY DEF RecordInv, SubmitBranch, At
<1>1. CASE Leave(e) /\ UNCHANGED fork
  BY <1>0, <1>1, LeavePlain, UnchangedRow DEF world
<1>2. CASE fork' = [fork EXCEPT !.branch = TRUE] /\ Goto(e, "submit.draft") /\ UNCHANGED local
  BY <1>0, <1>2 DEF Goto, TypeInv, HeldOK, WorldOK, ForkRecord
<1> QED
  BY <1>1, <1>2 DEF SubmitBranch

\* The draft is opened.
LEMMA SubmitDraftDoes ==
  ASSUME RecordInv, NEW e \in Executors, SubmitDraft(e)
  PROVE  /\ pc[e] = "submit.draft" /\ pc'[e] = "submit.audit" /\ local'[e] = local[e]
         /\ UNCHANGED <<record, files, receipts, approved>>
         /\ Drafts' = Drafts \cup {[contribution |-> local[e].art.contribution,
                                    capsule |-> local[e].art.capsule]}
<1> DEFINE d == [contribution |-> local[e].art.contribution, capsule |-> local[e].art.capsule]
           S == [contribution: Contributions, capsule: CapsuleRecord]
<1>1. /\ pc[e] = "submit.draft" /\ pc'[e] = "submit.audit" /\ local'[e] = local[e]
      /\ UNCHANGED <<record, files, receipts, approved>>
      /\ fork' = [fork EXCEPT !.drafts = Append(@, d)]
  BY DEF RecordInv, TypeInv, HeldOK, SubmitDraft, At, Goto
<1>2. fork.drafts \in Seq(S) /\ fork'.drafts = Append(fork.drafts, d)
  BY <1>1 DEF RecordInv, TypeInv, WorldOK, ForkRecord
<1>3. d \in S
  BY <1>1 DEF RecordInv, TypeInv, HeldOK, Held, CapsuleSteps
<1> HIDE DEF d, S
<1>4. Drafts' = Drafts \cup {d}
  BY <1>2, <1>3, AppendedElements DEF Drafts
<1> QED
  BY <1>1, <1>4 DEF d

\* The decision is in the ledger, or the append fails.
LEMMA SubmitAuditDoes ==
  ASSUME RecordInv, NEW e \in Executors, SubmitAudit(e)
  PROVE  \/ Plain(e)
         \/ /\ pc[e] = "submit.audit" /\ pc'[e] = "submit.bind" /\ local'[e].art = local[e].art
            /\ UNCHANGED <<record, files, fork, approved>> /\ receipts' = receipts + 1
<1>0. /\ TypeInv /\ pc[e] = "submit.audit" /\ UNCHANGED <<record, files, fork, approved, lapsed>>
      /\ local[e] \in LocalRecord
  BY DEF RecordInv, TypeInv, HeldOK, SubmitAudit, At
<1>1. CASE Leave(e) /\ UNCHANGED receipts
  BY <1>0, <1>1, LeavePlain, UnchangedRow DEF world
<1> DEFINE h == [local[e] EXCEPT !.row.draft = TRUE]
<1>2. CASE receipts' = receipts + 1 /\ Continue(e, "submit.bind", h)
  <2>1. h.art = local[e].art
    BY <1>0 DEF LocalRecord
  <2> HIDE DEF h
  <2> QED
    BY <1>0, <1>2, <2>1, ContinueEvidence
<1> QED
  BY <1>1, <1>2 DEF SubmitAudit

-----------------------------------------------------------------------------
(* 4. What the artifacts hold together *)

\* What the artifacts cannot hold yet in a state of the run.
ArtOfPhase(state, a) ==
  /\ state \in BeforeCandidate => a.contribution = None
  /\ state \in BeforeCandidate \cup {"executing"} => a.validation = None
  /\ state \in Unreviewed => a.capsule = None

\* The graph has its scope node when there is a candidate, and a capsule is
\* the capsule of the contribution beside it.
GoodArt(a) ==
  /\ a.validation # None => (a.validation.scoped <=> a.contribution # None)
  /\ a.capsule # None =>
       /\ a.capsule.candidate = a.contribution
       /\ GraphPasses(a.capsule.graph) => a.capsule.graph.scoped

\* Artifacts are sound when they suit the state and each other.
Sound(state, a) == ArtOfPhase(state, a) /\ GoodArt(a)

\* The artifacts on disk are sound, and so are those the processes hold.
ArtsAreSound ==
  /\ Sound(run.state, art)
  /\ \A e \in Executors : Sound(run.state, local[e].art)

\* Soundness is about the candidate and its evidence alone.
LEMMA SoundEvidence ==
  ASSUME NEW state, NEW a, NEW b, Sound(state, b), SameEvidence(a, b)
  PROVE  Sound(state, a)
BY DEF Sound, ArtOfPhase, GoodArt, SameEvidence

\* No artifacts are sound.
LEMMA NoArtifactsSound == \A state : Sound(state, NoArtifacts)
BY DEF Sound, ArtOfPhase, GoodArt, NoArtifacts

\* A step of the lifecycle leaves the state or takes one of its edges.
LEMMA StateMoves ==
  ASSUME FollowsLifecycle
  PROVE  run'.state = run.state \/ CanTransition(run.state, run'.state)
BY LifecycleStates
DEF FollowsLifecycle, Lifecycle!Next, Lifecycle!vars, Lifecycle!Transition,
    Lifecycle!TransitionAllowed, Lifecycle!BindPermit, Lifecycle!BindCandidate,
    Lifecycle!BindReview

\* What suits a state suits the states that follow.
LEMMA SoundLater ==
  ASSUME NEW state, NEW later, later = state \/ CanTransition(state, later),
         NEW a, Sound(state, a)
  PROVE  Sound(later, a)
BY DEF Sound, ArtOfPhase, CanTransition, ForwardEdges, FailClosedStates, BeforeCandidate,
       Unreviewed

\* The telling steps keep the artifacts sound.
LEMMA TellingIsSound ==
  ASSUME RecordInv, ArtsAreSound, NEW e \in Executors, Telling(e), ~Plain(e), ~Keeps(e)
  PROVE  Sound(run.state, art') /\ Sound(run.state, local'[e].art)
<1>0. /\ Sound(run.state, art) /\ Sound(run.state, local[e].art)
      /\ InState(pc[e], run.state) /\ Held(pc[e], local[e])
  BY DEF RecordInv, TypeInv, HeldOK, ArtsAreSound, RowsAgree, Agrees
<1>1. ASSUME NEW c \in SolverOutputs, SolveCandidate(e, c)
      PROVE  Sound(run.state, art') /\ Sound(run.state, local'[e].art)
  BY <1>0, <1>1, SolveCandidateDoes DEF files
<1>2. ASSUME NEW p \in Paths, WriteOne(e, p)
      PROVE  Sound(run.state, art') /\ Sound(run.state, local'[e].art)
  BY <1>0, <1>2, WriteOneDoes
<1>3. CASE SolveCheckpoint(e) \/ ValidateCheckpoint(e) \/ RepairCheckpoint(e)
  BY <1>0, <1>3, SolveCheckpointDoes, ValidateCheckpointDoes, RepairCheckpointDoes
<1>4. CASE SolveSave(e)
  <2>1. run.state = "executing"
    BY <1>0, <1>4, SolveSaveDoes DEF InState
  <2> QED
    BY <1>0, <1>4, <2>1, SolveSaveDoes DEF Sound, ArtOfPhase, GoodArt, BeforeCandidate, Unreviewed
<1>5. CASE SolveBind(e) \/ RepairBind(e) \/ ReviewBind(e) \/ SubmitBind(e)
  BY <1>0, <1>5, SolveBindDoes, RepairBindDoes, ReviewBindDoes, SubmitBindDoes DEF files
<1>6. ASSUME NEW result \in CheckResults, ValidateRun(e, result)
      PROVE  Sound(run.state, art') /\ Sound(run.state, local'[e].art)
  <2>1. run.state = "validating"
    BY <1>0, <1>6, ValidateRunDoes DEF InState
  <2> DEFINE a == local[e].art
             b == local'[e].art
             g == [verdict |-> result.verdict, clean |-> result.clean,
                   scoped |-> a.contribution # None, on |-> ws.files,
                   theirs |-> ws.theirs]
  <2>2. /\ b.contribution = a.contribution /\ b.capsule = a.capsule
        /\ b.validation = g
    BY <1>6, ValidateRunDoes
  <2>3. g.scoped <=> b.contribution # None
    BY <2>2
  <2> HIDE DEF a, b, g
  <2>4. Sound(run.state, b)
    BY <1>0, <2>1, <2>2, <2>3 DEF Sound, ArtOfPhase, GoodArt, BeforeCandidate, Unreviewed, a
  <2> QED
    BY <1>0, <1>6, <2>4, ValidateRunDoes DEF b, files
<1>7. CASE ValidateSave(e) \/ ChallengeNotRun(e)
  BY <1>0, <1>7, ValidateSaveDoes, ChallengeNotRunDoes DEF Sound, ArtOfPhase, GoodArt
<1>8. ASSUME NEW blocking \in BOOLEAN, ChallengeReported(e, blocking)
      PROVE  Sound(run.state, art') /\ Sound(run.state, local'[e].art)
  BY <1>0, <1>8, ChallengeReportedDoes DEF Sound, ArtOfPhase, GoodArt
<1>9. CASE ChallengeDecide(e)
  BY <1>0, <1>9, ChallengeDecideDoes DEF files
<1>10. ASSUME NEW patch \in RepairOutputs, RepairCandidate(e, patch)
       PROVE  Sound(run.state, art') /\ Sound(run.state, local'[e].art)
  BY <1>0, <1>10, RepairCandidateDoes DEF files
<1>11. CASE RepairSave(e)
  <2>1. run.state = "repairing"
    BY <1>0, <1>11, RepairSaveDoes DEF InState
  <2> QED
    BY <1>0, <1>11, <2>1, RepairSaveDoes DEF Sound, ArtOfPhase, GoodArt, BeforeCandidate
<1>12. CASE PackageCapsule(e)
  <2> DEFINE a == local[e].art
             g == IF a.validation = None THEN EmptyGraph ELSE a.validation
             k == Capsule(a.contribution, CandidateDiff(ws, a.contribution), g,
                          a.challenge, a.reproduction, local[e].row.review)
  <2>1. /\ run.state = "ready_for_review" /\ a.contribution \in Contributions
        /\ art'.contribution = a.contribution /\ art'.validation = a.validation
        /\ art'.capsule = k /\ local'[e].art = a
    BY <1>0, <1>12, PackageCapsuleDoes DEF InState, Held
  <2>2. GraphPasses(g) => g.scoped
    BY <1>0, <2>1, NoneAssumption DEF Sound, GoodArt, GraphPasses, EmptyGraph
  <2>3. k.candidate = a.contribution /\ k.graph = g
    BY DEF Capsule
  <2> HIDE DEF a, g, k
  <2> QED
    BY <1>0, <2>1, <2>2, <2>3 DEF Sound, ArtOfPhase, GoodArt, BeforeCandidate, Unreviewed, a
<1>13. CASE ReviewApproved(e)
  BY <1>0, <1>13, ReviewApprovedDoes DEF files
<1>14. CASE ReviewSave(e)
  <2> DEFINE a == local[e].art
             k == BindReviewTo(a.capsule, local[e].row.review)
  <2>1. /\ run.state = "ready_for_review" /\ a.capsule \in CapsuleRecord
        /\ art'.contribution = a.contribution /\ art'.validation = a.validation
        /\ art'.capsule = k /\ local'[e].art = a
    BY <1>0, <1>14, ReviewSaveDoes DEF InState, Held, CapsuleSteps
  <2>2. k.candidate = a.capsule.candidate /\ k.graph = a.capsule.graph
    BY <2>1 DEF BindReviewTo, CapsuleRecord
  <2> HIDE DEF a, k
  <2> QED
    BY <1>0, <2>1, <2>2, NoneAssumption
    DEF Sound, ArtOfPhase, GoodArt, BeforeCandidate, Unreviewed, a
<1>15. CASE ReviewDone(e) \/ SubmitBoundary(e) \/ SubmitDone(e)
  BY <1>0, <1>15, ReviewDoneDoes, SubmitBoundaryDoes, SubmitDoneDoes DEF files
<1>16. CASE SubmitBranch(e) \/ SubmitDraft(e) \/ SubmitAudit(e)
  BY <1>0, <1>16, SubmitBranchDoes, SubmitDraftDoes, SubmitAuditDoes DEF files
<1> QED
  BY <1>1, <1>2, <1>3, <1>4, <1>5, <1>6, <1>7, <1>8, <1>9, <1>10, <1>11, <1>12, <1>13,
     <1>14, <1>15, <1>16
  DEF Telling

\* Every step keeps the artifacts sound.
LEMMA NextIsSound ==
  ASSUME OneProcess, RecordInv, ArtsAreSound, [Next]_vars
  PROVE  ArtsAreSound'
<1>0. run'.state = run.state \/ CanTransition(run.state, run'.state)
  BY NextRecord, StateMoves DEF RecordStep
<1>1. Sound(run.state, art') /\ \A e \in Executors : Sound(run.state, local'[e].art)
  <2>0. /\ Sound(run.state, art) /\ \A e \in Executors : Sound(run.state, local[e].art)
        /\ Sound(run.state, NoArtifacts)
    BY NoArtifactsSound DEF ArtsAreSound
  <2>1. ASSUME NEW e \in Executors, Shape(e)
        PROVE  Sound(run.state, art') /\ Sound(run.state, local'[e].art)
    <3>1. CASE Plain(e)
      BY <2>0, <3>1, SoundEvidence DEF Plain
    <3>2. CASE Opens(e) \/ Keeps(e)
      BY <2>0, <3>2 DEF Opens, Keeps, files
    <3>3. CASE Telling(e) /\ ~Plain(e) /\ ~Keeps(e)
      BY <3>3, TellingIsSound
    <3> QED
      BY <2>1, <3>1, <3>2, <3>3 DEF Shape
  <2>2. ASSUME NEW e \in Executors, NEW p \in Paths, CrashInWrite(e, p)
        PROVE  Sound(run.state, art') /\ Sound(run.state, local'[e].art)
    BY <2>0, <2>2, CrashInWriteDoes, SoundEvidence, EvidenceOfNoLocal
  <2>3. ASSUME NEW p \in Paths, NEW content \in Contents, SomebodyWrites(p, content)
        PROVE  UNCHANGED <<art, local>>
    BY <2>3 DEF SomebodyWrites
  <2> QED
    BY <2>0, <2>1, <2>2, <2>3, StepShape DEF OneProcess, files
<1> QED
  BY <1>0, <1>1, SoundLater DEF ArtsAreSound

-----------------------------------------------------------------------------
(* The approval, the boundary and the draft. *)

\* The row names a contribution that a human approved, or none.
ReviewsAreApproved ==
  /\ run.review \in approved \cup {None}
  /\ \A e \in Executors : pc[e] = "review.bind" => local[e].art.capsule.candidate \in approved

\* Between the boundary and the draft nothing the boundary checked moves.
PassedBoundary ==
  \A e \in Executors : pc[e] \in {"submit.branch", "submit.draft"} =>
    /\ BindingsHold(local[e].art.capsule, local[e].art.contribution, run)
    /\ EvidenceHolds(local[e].art.capsule, local[e].art.permit)

\* What is on GitHub and in the ledger when a submission goes on.
Backed ==
  /\ SubmittedIsBacked
  /\ \A e \in Executors :
       /\ pc[e] \in {"submit.audit", "submit.bind", "submit.done"} =>
            \E d \in Drafts : d.contribution = run.cand
       /\ pc[e] \in {"submit.bind", "submit.done"} => receipts >= 1
       /\ pc[e] = "submit.done" => run.draft

\* Steps after the approval or after the boundary check.
DecisiveSteps ==
  {"review.bind", "submit.branch", "submit.draft", "submit.audit", "submit.bind", "submit.done"}

\* A step that neither approves nor submits.
Calm(e) ==
  /\ pc'[e] \notin DecisiveSteps
  /\ UNCHANGED world
  /\ run'.review \in {run.review, None}
  /\ run'.state = "submitted" =>
       run.state = "submitted" /\ run'.cand = run.cand /\ run'.draft = run.draft

\* The steps that approve or submit.
Decisive(e) ==
  \/ ReviewApproved(e) \/ ReviewBind(e) \/ SubmitBoundary(e) \/ SubmitBranch(e)
  \/ SubmitDraft(e) \/ SubmitAudit(e) \/ SubmitBind(e) \/ SubmitDone(e)

\* Steps without consequence for the candidate are calm.
LEMMA PlainIsCalm ==
  ASSUME NEW e \in Executors, Plain(e) \/ Opens(e) \/ Keeps(e)
  PROVE  Calm(e)
BY DEF Plain, Opens, Keeps, KeptEdges, RowKept, Calm, DecisiveSteps, PlainSteps, Opened,
       LateStates

\* A step of a process is calm or decisive.
LEMMA ShapeIsCalm ==
  ASSUME RecordInv, NEW e \in Executors, Shape(e), ~Decisive(e)
  PROVE  Calm(e)
<1>0. InState(pc[e], run.state)
  BY DEF RecordInv, RowsAgree, Agrees
<1>1. CASE Plain(e) \/ Opens(e) \/ Keeps(e)
  BY <1>1, PlainIsCalm
<1>2. ASSUME NEW c \in SolverOutputs, SolveCandidate(e, c)
      PROVE  Calm(e)
  BY <1>2, SolveCandidateDoes DEF Calm, DecisiveSteps, record
<1>3. ASSUME NEW p \in Paths, WriteOne(e, p)
      PROVE  Calm(e)
  BY <1>3, WriteOneDoes DEF Calm, DecisiveSteps, WritingSteps, WriteEdges, record
<1>4. CASE SolveCheckpoint(e) \/ ValidateCheckpoint(e) \/ RepairCheckpoint(e)
  BY <1>4, SolveCheckpointDoes, ValidateCheckpointDoes, RepairCheckpointDoes
  DEF Calm, DecisiveSteps, record
<1>5. CASE SolveSave(e) \/ ValidateSave(e) \/ RepairSave(e) \/ ReviewSave(e)
  BY <1>5, SolveSaveDoes, ValidateSaveDoes, RepairSaveDoes, ReviewSaveDoes
  DEF Calm, DecisiveSteps, record
<1>6. CASE SolveBind(e) \/ RepairBind(e)
  BY <1>0, <1>6, SolveBindDoes, RepairBindDoes DEF Calm, DecisiveSteps, InState
<1>7. ASSUME NEW result \in CheckResults, ValidateRun(e, result)
      PROVE  Calm(e)
  BY <1>7, ValidateRunDoes DEF Calm, DecisiveSteps, record
<1>8. CASE ChallengeNotRun(e) \/ PackageCapsule(e)
  BY <1>8, ChallengeNotRunDoes, PackageCapsuleDoes DEF Calm, DecisiveSteps, record
<1>9. ASSUME NEW blocking \in BOOLEAN, ChallengeReported(e, blocking)
      PROVE  Calm(e)
  BY <1>9, ChallengeReportedDoes DEF Calm, DecisiveSteps, record
<1>10. CASE ChallengeDecide(e) \/ ReviewDone(e)
  BY <1>10, ChallengeDecideDoes, ReviewDoneDoes, PlainIsCalm DEF Calm, DecisiveSteps
<1>11. ASSUME NEW patch \in RepairOutputs, RepairCandidate(e, patch)
       PROVE  Calm(e)
  BY <1>11, RepairCandidateDoes DEF Calm, DecisiveSteps, record
<1> QED
  BY <1>1, <1>2, <1>3, <1>4, <1>5, <1>6, <1>7, <1>8, <1>9, <1>10, <1>11
  DEF Shape, Telling, Decisive

\* A step is decisive, or calm for the process that takes it.
LEMMA StepIsCalm ==
  ASSUME OneProcess, RecordInv, [Next]_vars
  PROVE  \/ \E e \in Executors : Calm(e) \/ Decisive(e)
         \/ UNCHANGED <<record, fork, receipts, approved, pc, local>>
<1>1. ASSUME NEW e \in Executors, NEW p \in Paths, CrashInWrite(e, p)
      PROVE  Calm(e)
  BY <1>1, CrashInWriteDoes DEF Calm, DecisiveSteps, record
<1>2. ASSUME NEW p \in Paths, NEW content \in Contents, SomebodyWrites(p, content)
      PROVE  UNCHANGED <<record, fork, receipts, approved, pc, local>>
  BY <1>2 DEF SomebodyWrites, world
<1> QED
  BY <1>1, <1>2, StepShape, ShapeIsCalm

\* The inductive invariant of approvals and drafts.
WorldInv ==
  /\ ReviewsAreApproved /\ PassedBoundary
  /\ DraftWasApproved /\ DraftCarriesEvidence /\ Backed

\* A calm step keeps it.
LEMMA CalmWorld ==
  ASSUME OneProcess, WorldInv, NEW e \in Executors, Calm(e)
  PROVE  WorldInv'
<1>1. \A f \in Executors : pc'[f] \notin DecisiveSteps
  BY DEF OneProcess, Calm
<1>2. UNCHANGED <<fork, receipts, approved>> /\ Drafts' = Drafts
  BY DEF Calm, world, Drafts
<1>3. ReviewsAreApproved'
  BY <1>1, <1>2 DEF WorldInv, ReviewsAreApproved, Calm, DecisiveSteps
<1>4. PassedBoundary'
  BY <1>1 DEF PassedBoundary, DecisiveSteps
<1>5. DraftWasApproved' /\ DraftCarriesEvidence'
  BY <1>2 DEF WorldInv, DraftWasApproved, DraftCarriesEvidence
<1>6. Backed'
  BY <1>1, <1>2 DEF WorldInv, Backed, SubmittedIsBacked, Calm, DecisiveSteps
<1> QED
  BY <1>3, <1>4, <1>5, <1>6 DEF WorldInv

\* So does a step that leaves all of it alone.
LEMMA SameWorld ==
  ASSUME WorldInv, UNCHANGED <<record, fork, receipts, approved, pc, local>>
  PROVE  WorldInv'
<1>1. Drafts' = Drafts /\ run' = run
  BY DEF Drafts, record
<1> QED
  BY <1>1 DEF WorldInv, ReviewsAreApproved, PassedBoundary, DraftWasApproved,
     DraftCarriesEvidence, Backed, SubmittedIsBacked

\* So do the decisive steps.
LEMMA DecisiveWorld ==
  ASSUME OneProcess, RecordInv, ArtsAreSound, WorldInv, NEW e \in Executors, Decisive(e)
  PROVE  WorldInv'
<1> USE DEF WorldInv
<1>0. /\ GoodArt(local[e].art) /\ InState(pc[e], run.state) /\ Held(pc[e], local[e])
      /\ \A f \in Executors : f = e
      /\ receipts \in Nat /\ run \in RowRecord
  BY DEF RecordInv, TypeInv, RecordOK, WorldOK, HeldOK, ArtsAreSound, Sound, RowsAgree, Agrees,
         OneProcess
<1>1. CASE Plain(e)
  BY <1>1, PlainIsCalm, CalmWorld
<1>2. CASE ReviewApproved(e)
  <2>1. /\ pc[e] = "review.prompt" /\ pc'[e] = "review.bind" /\ run' = run
        /\ local'[e].art = local[e].art /\ UNCHANGED <<fork, receipts>>
        /\ approved' = approved \cup {local[e].art.contribution}
    BY <1>2, ReviewApprovedDoes DEF record
  <2>2. local[e].art.capsule.candidate = local[e].art.contribution
    BY <1>0, <2>1, NoneAssumption DEF Held, CapsuleSteps, GoodArt
  <2>3. Drafts' = Drafts
    BY <2>1 DEF Drafts
  <2>4. ReviewsAreApproved'
    BY <1>0, <2>1, <2>2 DEF ReviewsAreApproved
  <2>5. PassedBoundary'
    BY <1>0, <2>1 DEF PassedBoundary
  <2>6. DraftWasApproved' /\ DraftCarriesEvidence'
    BY <2>1, <2>3 DEF DraftWasApproved, DraftCarriesEvidence
  <2>7. Backed'
    BY <1>0, <2>1, <2>3 DEF Backed, SubmittedIsBacked
  <2> QED
    BY <2>4, <2>5, <2>6, <2>7
<1>3. CASE ReviewBind(e)
  <2>1. /\ pc[e] = "review.bind" /\ pc'[e] = "review.save" /\ UNCHANGED world
        /\ run'.state = run.state /\ run'.review = local[e].art.capsule.candidate
        /\ run.state = "ready_for_review"
    BY <1>0, <1>3, ReviewBindDoes DEF InState
  <2>2. Drafts' = Drafts /\ UNCHANGED <<fork, receipts, approved>>
    BY <2>1 DEF Drafts, world
  <2>3. ReviewsAreApproved'
    BY <1>0, <2>1, <2>2 DEF ReviewsAreApproved
  <2>4. PassedBoundary'
    BY <1>0, <2>1 DEF PassedBoundary
  <2>5. DraftWasApproved' /\ DraftCarriesEvidence'
    BY <2>2 DEF DraftWasApproved, DraftCarriesEvidence
  <2>6. Backed'
    BY <1>0, <2>1 DEF Backed, SubmittedIsBacked
  <2> QED
    BY <2>3, <2>4, <2>5, <2>6
<1>4. CASE /\ SubmitBoundary(e) \/ SubmitBranch(e) \/ SubmitAudit(e)
           /\ ~Plain(e)
  <2>1. /\ pc[e] \in {"submit.boundary", "submit.branch", "submit.audit"}
        /\ run' = run /\ approved' = approved /\ Drafts' = Drafts /\ local'[e].art = local[e].art
        /\ pc'[e] \in {"submit.branch", "submit.draft", "submit.bind"}
        /\ receipts' \in {receipts, receipts + 1}
        /\ pc'[e] = "submit.bind" => pc[e] = "submit.audit" /\ receipts' = receipts + 1
        /\ pc'[e] = "submit.draft" => pc[e] = "submit.branch"
        /\ pc'[e] = "submit.branch" =>
             /\ BindingsHold(local[e].art.capsule, local[e].art.contribution, run)
             /\ EvidenceHolds(local[e].art.capsule, local[e].art.permit)
    BY <1>4, SubmitBoundaryDoes, SubmitBranchDoes, SubmitAuditDoes DEF record, world, Drafts
  <2>2. ReviewsAreApproved'
    BY <1>0, <2>1 DEF ReviewsAreApproved
  <2>3. PassedBoundary'
    BY <1>0, <2>1 DEF PassedBoundary
  <2>4. DraftWasApproved' /\ DraftCarriesEvidence'
    BY <2>1 DEF DraftWasApproved, DraftCarriesEvidence
  <2>5. Backed'
    BY <1>0, <2>1 DEF Backed, SubmittedIsBacked, InState
  <2> QED
    BY <2>2, <2>3, <2>4, <2>5
<1>5. CASE SubmitDraft(e)
  <2> DEFINE d == [contribution |-> local[e].art.contribution, capsule |-> local[e].art.capsule]
  <2>1. /\ pc[e] = "submit.draft" /\ pc'[e] = "submit.audit"
        /\ run' = run /\ approved' = approved /\ receipts' = receipts
        /\ Drafts' = Drafts \cup {d}
    BY <1>5, SubmitDraftDoes DEF record
  <2>2. /\ d.contribution = local[e].art.contribution /\ d.capsule = local[e].art.capsule
        /\ d.contribution \in Contributions /\ run.state = "approved"
        /\ BindingsHold(d.capsule, d.contribution, run)
        /\ EvidenceHolds(d.capsule, local[e].art.permit)
        /\ d.capsule # None => (GraphPasses(d.capsule.graph) => d.capsule.graph.scoped)
        /\ d.capsule # None
    BY <1>0, <2>1, NoneAssumption DEF PassedBoundary, Held, CapsuleSteps, InState, GoodArt
  <2> HIDE DEF d
  <2>3. d.contribution \in approved
    BY <2>2, NoneAssumption DEF BindingsHold, ReviewsAreApproved
  <2>4. /\ d.capsule.candidate = d.contribution
        /\ d.capsule.review = d.contribution
        /\ d.capsule.graph.verdict = "pass" /\ d.capsule.graph.scoped
        /\ d.capsule.report.completed /\ ~d.capsule.report.blocking
        /\ run.cand = d.contribution
    BY <2>2 DEF BindingsHold, EvidenceHolds, HasBlockingConcerns, GraphPasses
  <2>5. ReviewsAreApproved'
    BY <1>0, <2>1 DEF ReviewsAreApproved
  <2>6. PassedBoundary'
    BY <1>0, <2>1 DEF PassedBoundary
  <2>7. DraftWasApproved' /\ DraftCarriesEvidence'
    BY <2>1, <2>3, <2>4 DEF DraftWasApproved, DraftCarriesEvidence
  <2>8. Backed'
    BY <1>0, <2>1, <2>2, <2>4 DEF Backed, SubmittedIsBacked
  <2> QED
    BY <2>5, <2>6, <2>7, <2>8
<1>6. CASE /\ SubmitBind(e) \/ SubmitDone(e)
           /\ ~Plain(e)
  <2>1. /\ pc[e] \in {"submit.bind", "submit.done"} /\ UNCHANGED world
        /\ pc'[e] \in {"submit.done", "drive"}
        /\ run'.cand = run.cand /\ run'.review = run.review
        /\ pc'[e] = "submit.done" => run'.draft /\ run'.state = run.state
        /\ pc'[e] = "drive" => pc[e] = "submit.done" /\ run'.draft = run.draft
    BY <1>6, SubmitBindDoes, SubmitDoneDoes
  <2>2. Drafts' = Drafts /\ UNCHANGED <<fork, receipts, approved>>
    BY <2>1 DEF Drafts, world
  <2>3. ReviewsAreApproved'
    BY <1>0, <2>1, <2>2 DEF ReviewsAreApproved
  <2>4. PassedBoundary'
    BY <1>0, <2>1 DEF PassedBoundary
  <2>5. DraftWasApproved' /\ DraftCarriesEvidence'
    BY <2>2 DEF DraftWasApproved, DraftCarriesEvidence
  <2>6. Backed'
    BY <1>0, <2>1, <2>2 DEF Backed, SubmittedIsBacked, InState
  <2> QED
    BY <2>3, <2>4, <2>5, <2>6
<1> QED
  BY <1>1, <1>2, <1>3, <1>4, <1>5, <1>6 DEF Decisive

\* Sound artifacts, approvals and drafts, always.
LEMMA EvidenceInvariance ==
  ASSUME OneProcess
  PROVE  Spec => [](ArtsAreSound /\ WorldInv)
<1>1. Init => ArtsAreSound /\ WorldInv
  <2> SUFFICES ASSUME Init PROVE ArtsAreSound /\ WorldInv
    OBVIOUS
  <2>1. Drafts = {} /\ \A e \in Executors : pc[e] = "idle" /\ local[e] = NoLocal
    BY DEF Init, Drafts
  <2>2. ArtsAreSound
    BY <2>1, NoArtifactsSound, EvidenceOfNoLocal, SoundEvidence DEF Init, ArtsAreSound
  <2>3. run.review = None /\ run.state = "discovered"
    BY DEF Init, NewRow
  <2> QED
    BY <2>1, <2>2, <2>3
    DEF WorldInv, ReviewsAreApproved, PassedBoundary, DraftWasApproved, DraftCarriesEvidence,
        Backed, SubmittedIsBacked
<1>2. RecordInv /\ ArtsAreSound /\ WorldInv /\ [Next]_vars => (ArtsAreSound /\ WorldInv)'
  BY NextIsSound, StepIsCalm, CalmWorld, SameWorld, DecisiveWorld
<1> QED
  BY <1>1, <1>2, RecordInvariance, PTL DEF Spec

\* What submit publishes is a contribution that a human approved, although the
\* process may have died and been started again anywhere between the prompt of
\* review and the draft.
THEOREM DraftsWereApproved ==
  ASSUME OneProcess
  PROVE  Spec => []DraftWasApproved
BY EvidenceInvariance, PTL DEF WorldInv

\* The capsule beside a draft is that of its contribution, bound by the review,
\* with a passing scoped graph and a completed challenge without blocking
\* concerns: what validate_for_submission checks on copies still holds when the
\* draft is opened.
THEOREM DraftsCarryEvidence ==
  ASSUME OneProcess
  PROVE  Spec => []DraftCarriesEvidence
BY EvidenceInvariance, PTL DEF WorldInv

\* A run recorded as submitted has its receipt in the ledger, its draft on
\* GitHub, and the candidate of the row is what that draft publishes.
THEOREM SubmissionsAreBacked ==
  ASSUME OneProcess
  PROVE  Spec => []SubmittedIsBacked
BY EvidenceInvariance, PTL DEF WorldInv, Backed

-----------------------------------------------------------------------------
(* 5. What was written, what was challenged, what is reviewed *)

\* What putting a file does to the fields of the workspace.
LEMMA PutFileFields ==
  ASSUME NEW w \in WorkspaceRecord, NEW p \in Paths, NEW c
  PROVE  /\ PutFile(w, p, c).written = w.written
         /\ PutFile(w, p, c).checkpoint = w.checkpoint
         /\ PutFile(w, p, c).files = [w.files EXCEPT ![p] = c]
BY DEF PutFile, WorkspaceRecord

\* What a file that somebody else writes does to them.
LEMMA ForeignWriteFields ==
  ASSUME NEW w \in WorkspaceRecord, NEW p \in Paths, NEW c
  PROVE  /\ ForeignWrite(w, p, c).written = w.written
         /\ ForeignWrite(w, p, c).checkpoint = w.checkpoint
         /\ ForeignWrite(w, p, c).files = [w.files EXCEPT ![p] = c]
         /\ ForeignWrite(w, p, c).theirs = w.theirs \cup {p}
BY DEF ForeignWrite, WorkspaceRecord

\* What writing and recording a file does.
LEMMA WriteFileFields ==
  ASSUME NEW w \in WorkspaceRecord, NEW p \in Paths, NEW c
  PROVE  /\ WriteFile(w, p, c).written = w.written \cup {p}
         /\ WriteFile(w, p, c).checkpoint = w.checkpoint
         /\ WriteFile(w, p, c).files = [w.files EXCEPT ![p] = c]
         /\ WriteFile(w, p, c).theirs = w.theirs \ {p}
<1> DEFINE u == PutFile(w, p, c)
<1>1. u \in [made: {w.made}, files: {[w.files EXCEPT ![p] = c]}, theirs: {w.theirs \ {p}},
             written: {w.written}, checkpoint: {w.checkpoint}]
  BY DEF PutFile, WorkspaceRecord
<1> HIDE DEF u
<1>2. /\ RecordChange(u, p).written = u.written \cup {p}
      /\ RecordChange(u, p).checkpoint = u.checkpoint
      /\ RecordChange(u, p).files = u.files
      /\ RecordChange(u, p).theirs = u.theirs
  BY <1>1 DEF RecordChange
<1>3. /\ u.written = w.written /\ u.checkpoint = w.checkpoint
      /\ u.files = [w.files EXCEPT ![p] = c] /\ u.theirs = w.theirs \ {p}
  BY <1>1
<1> QED
  BY <1>2, <1>3 DEF WriteFile, u

\* What a checkpoint leaves alone.
LEMMA CheckpointFields ==
  ASSUME NEW w \in WorkspaceRecord
  PROVE  /\ Checkpoint(w).written = w.written /\ Checkpoint(w).files = w.files
         /\ Checkpoint(w).theirs = w.theirs
BY DEF Checkpoint, WorkspaceRecord

\* The workspace remembers the paths of the candidate.
IsWritten(a, w) == a.contribution # None => Touched(a.contribution) \subseteq w.written

\* The paths of the candidate are among the paths the workspace remembers; so
\* are those of the output that a stage is writing, but for what is to do.
HeldWritten(step, l, w) ==
  /\ IsWritten(l.art, w)
  /\ step \in WritingSteps => Touched(l.out) \ l.todo \subseteq w.written
  /\ step \in WrittenSteps => Touched(l.out) \subseteq w.written

\* So it does for the artifacts on disk and for every process.
WrittenInv == IsWritten(art, ws) /\ \A e \in Executors : HeldWritten(pc[e], local[e], ws)

\* Steps at which a stage still holds the artifacts as they are on disk.
FreshSteps ==
  {"validate.start", "validate.run",
   "challenge.gate", "challenge.review", "challenge.bind", "challenge.decide",
   "repair.model", "repair.write", "repair.checkpoint", "repair.save",
   "package.check", "review.prompt", "review.bind", "review.save", "submit.boundary"}

\* At those steps nobody else has written the artifacts.
ArtIsFresh == \A e \in Executors : pc[e] \in FreshSteps => local[e].art = art

\* The challenger read the candidate as the last checkpoint has it.
CheckpointOf(c) == [p \in Touched(c) |-> ws.checkpoint[p]]

\* The challenge is about the files of the last checkpoint.
ChallengedAt(a) ==
  a.challenge # None /\ a.contribution # None => a.challenge.diff = CheckpointOf(a.contribution)

\* So it is from the report until the run is packaged.
Challenged ==
  /\ run.state = "ready_for_review" => ChallengedAt(art)
  /\ \A e \in Executors : pc[e] \in {"challenge.bind", "challenge.decide"} => ChallengedAt(art)

\* The review surface of a capsule describes the files of its report.
SurfaceIsDiff(a) ==
  a.capsule # None /\ a.capsule.report # None => a.capsule.surface = a.capsule.report.diff

\* So does every capsule, on disk and in memory.
Surfaces == SurfaceIsDiff(art) /\ \A e \in Executors : SurfaceIsDiff(local[e].art)

\* Without unexpected changes the files are those of the checkpoint.
LEMMA ExpectedFiles ==
  ASSUME NEW c, Touched(c) \subseteq ws.written, ~HasUnexpectedChanges(ws)
  PROVE  CandidateDiff(ws, c) = CheckpointOf(c)
BY DEF CandidateDiff, CheckpointOf, HasUnexpectedChanges, TreeFingerprint

\* A step that touches neither the artifacts nor the workspace.
Standing(e) ==
  /\ UNCHANGED <<art, ws>> /\ local'[e].art = local[e].art
  /\ pc'[e] \notin WritingSteps \cup WrittenSteps \cup {"challenge.bind", "challenge.decide"}
  /\ pc'[e] \in FreshSteps => pc[e] \in FreshSteps
  /\ run'.state = "ready_for_review" =>
       run.state = "ready_for_review" \/ pc[e] = "challenge.decide"
  /\ run'.cand = run.cand \/ SolveBind(e) \/ RepairBind(e)
  /\ run'.review = run.review \/ RepairBind(e) \/ ReviewBind(e)
  /\ run'.state \in {"approved", "submitted"} =>
       run.state \in {"approved", "submitted"} \/ pc[e] = "review.done"
  /\ pc'[e] \notin {"validate.checkpoint", "validate.save"}
  /\ pc'[e] \in {"review.save", "review.done"} => ReviewBind(e)

\* The steps of decision and submission stand, or have a simpler shape.
LEMMA StandingSteps ==
  ASSUME RecordInv, NEW e \in Executors,
         \/ SolveBind(e)
         \/ RepairBind(e)
         \/ ChallengeDecide(e)
         \/ ReviewApproved(e)
         \/ ReviewBind(e)
         \/ ReviewDone(e)
         \/ SubmitBoundary(e)
         \/ SubmitBranch(e)
         \/ SubmitDraft(e)
         \/ SubmitAudit(e)
         \/ SubmitBind(e)
         \/ SubmitDone(e)
  PROVE  Plain(e) \/ Keeps(e) \/ Standing(e)
<1> USE DEF Standing, files, record, WritingSteps, WrittenSteps, FreshSteps
<1>0. InState(pc[e], run.state)
  BY DEF RecordInv, RowsAgree, Agrees
<1>1. CASE SolveBind(e)
  BY <1>0, <1>1, SolveBindDoes
<1>2. CASE RepairBind(e)
  BY <1>0, <1>2, RepairBindDoes
<1>3. CASE ChallengeDecide(e)
  BY <1>0, <1>3, ChallengeDecideDoes
<1>4. CASE ReviewApproved(e)
  BY <1>0, <1>4, ReviewApprovedDoes
<1>5. CASE ReviewBind(e)
  BY <1>0, <1>5, ReviewBindDoes
<1>6. CASE ReviewDone(e)
  BY <1>0, <1>6, ReviewDoneDoes
<1>7. CASE SubmitBoundary(e)
  BY <1>0, <1>7, SubmitBoundaryDoes
<1>8. CASE SubmitBranch(e)
  BY <1>0, <1>8, SubmitBranchDoes
<1>9. CASE SubmitDraft(e)
  BY <1>0, <1>9, SubmitDraftDoes
<1>10. CASE SubmitAudit(e)
  BY <1>0, <1>10, SubmitAuditDoes
<1>11. CASE SubmitBind(e)
  BY <1>0, <1>11, SubmitBindDoes
<1>12. CASE SubmitDone(e)
  BY <1>0, <1>12, SubmitDoneDoes DEF InState
<1> QED
  BY <1>1, <1>2, <1>3, <1>4, <1>5, <1>6, <1>7, <1>8, <1>9, <1>10, <1>11, <1>12

\* What the three checkpoints do.
LEMMA CheckpointsDo ==
  ASSUME RecordInv, NEW e \in Executors,
         SolveCheckpoint(e) \/ ValidateCheckpoint(e) \/ RepairCheckpoint(e)
  PROVE  /\ <<pc[e], pc'[e]>> \in {<<"solve.checkpoint", "solve.save">>,
                                   <<"validate.checkpoint", "validate.save">>,
                                   <<"repair.checkpoint", "repair.save">>}
         /\ local'[e] = local[e] /\ UNCHANGED <<record, art, world>>
         /\ ws' = Checkpoint(ws)
         /\ ws'.written = ws.written /\ ws'.files = ws.files /\ ws'.theirs = ws.theirs
<1>1. ws \in WorkspaceRecord
  BY DEF RecordInv, TypeInv, FilesOK
<1> QED
  BY <1>1, SolveCheckpointDoes, ValidateCheckpointDoes, RepairCheckpointDoes, CheckpointFields

\* Every shape keeps the held artifacts fresh.
LEMMA FreshShape ==
  ASSUME RecordInv, ArtIsFresh, NEW e \in Executors, Shape(e)
  PROVE  pc'[e] \in FreshSteps => local'[e].art = art'
<1>0. pc[e] \in FreshSteps => local[e].art = art
  BY DEF ArtIsFresh
<1>1. CASE Plain(e) \/ Opens(e)
  BY <1>1 DEF Plain, PlainSteps, Opens, FreshSteps, files
<1>2. CASE Keeps(e)
  BY <1>0, <1>2 DEF Keeps, KeptEdges, FreshSteps, files
<1>3. CASE Standing(e)
  BY <1>0, <1>3 DEF Standing
<1>4. ASSUME NEW c \in SolverOutputs, SolveCandidate(e, c)
      PROVE  pc'[e] \in FreshSteps => local'[e].art = art'
  BY <1>4, SolveCandidateDoes DEF FreshSteps
<1>5. ASSUME NEW p \in Paths, WriteOne(e, p)
      PROVE  pc'[e] \in FreshSteps => local'[e].art = art'
  BY <1>0, <1>5, WriteOneDoes DEF FreshSteps, WriteEdges
<1>6. CASE SolveCheckpoint(e) \/ ValidateCheckpoint(e) \/ RepairCheckpoint(e)
  BY <1>0, <1>6, CheckpointsDo DEF FreshSteps
<1>7. CASE SolveSave(e) \/ ValidateSave(e) \/ RepairSave(e) \/ PackageCapsule(e) \/ ReviewSave(e)
  BY <1>7, SolveSaveDoes, ValidateSaveDoes, RepairSaveDoes, PackageCapsuleDoes, ReviewSaveDoes
  DEF FreshSteps
<1>8. ASSUME NEW result \in CheckResults, ValidateRun(e, result)
      PROVE  pc'[e] \in FreshSteps => local'[e].art = art'
  BY <1>8, ValidateRunDoes DEF FreshSteps
<1>9. CASE ChallengeNotRun(e)
  BY <1>9, ChallengeNotRunDoes DEF FreshSteps
<1>10. ASSUME NEW blocking \in BOOLEAN, ChallengeReported(e, blocking)
       PROVE  pc'[e] \in FreshSteps => local'[e].art = art'
  BY <1>10, ChallengeReportedDoes
<1>11. ASSUME NEW patch \in RepairOutputs, RepairCandidate(e, patch)
       PROVE  pc'[e] \in FreshSteps => local'[e].art = art'
  BY <1>0, <1>11, RepairCandidateDoes DEF FreshSteps, files
<1> QED
  BY <1>1, <1>2, <1>3, <1>4, <1>5, <1>6, <1>7, <1>8, <1>9, <1>10, <1>11, StandingSteps
  DEF Shape, Telling

\* Every shape keeps the paths of the candidate written.
LEMMA WrittenShape ==
  ASSUME RecordInv, ArtsAreSound, WrittenInv, NEW e \in Executors, Shape(e)
  PROVE  IsWritten(art', ws') /\ HeldWritten(pc'[e], local'[e], ws')
<1>0. /\ IsWritten(art, ws) /\ HeldWritten(pc[e], local[e], ws)
      /\ ArtOfPhase(run.state, art) /\ ArtOfPhase(run.state, local[e].art)
      /\ ws \in WorkspaceRecord /\ Held(pc[e], local[e])
  BY DEF WrittenInv, ArtsAreSound, Sound, RecordInv, TypeInv, FilesOK, HeldOK
<1>1. CASE Plain(e)
  <2>1. pc'[e] \notin WritingSteps \cup WrittenSteps
    BY <1>1 DEF Plain, PlainSteps, WritingSteps, WrittenSteps
  <2>2. CASE run.state \in BeforeCandidate
    <3>1. /\ art'.contribution = None
          /\ local'[e].art.contribution = None
      BY <1>0, <1>1, <2>2 DEF Plain, ArtOfPhase, SameEvidence, NoArtifacts
    <3> QED
      BY <2>1, <3>1 DEF IsWritten, HeldWritten
  <2>3. CASE ws' = ws /\ SameEvidence(art', art)
    BY <1>0, <1>1, <2>1, <2>3 DEF Plain, SameEvidence, NoArtifacts, IsWritten, HeldWritten
  <2> QED
    BY <1>1, <2>2, <2>3 DEF Plain
<1>2. CASE Opens(e) \/ Keeps(e) \/ Standing(e)
  <2>1. /\ UNCHANGED <<art, ws>> /\ pc'[e] \notin WritingSteps \cup WrittenSteps
        /\ local'[e].art \in {art, local[e].art}
    BY <1>2 DEF Opens, Opened, Keeps, KeptEdges, Standing, files, WritingSteps, WrittenSteps
  <2> QED
    BY <1>0, <2>1 DEF IsWritten, HeldWritten
<1>3. ASSUME NEW c \in SolverOutputs, SolveCandidate(e, c)
      PROVE  IsWritten(art', ws') /\ HeldWritten(pc'[e], local'[e], ws')
  BY <1>0, <1>3, SolveCandidateDoes DEF IsWritten, HeldWritten, WritingSteps, WrittenSteps, files
<1>4. ASSUME NEW p \in Paths, WriteOne(e, p)
      PROVE  IsWritten(art', ws') /\ HeldWritten(pc'[e], local'[e], ws')
  <2>1. ws'.written = ws.written \cup {p}
    <3> DEFINE c == PostImage(local[e].out, p)
    <3> HIDE DEF c
    <3>1. WriteFile(ws, p, c).written = ws.written \cup {p}
      BY <1>0, WriteFileFields, Zenon
    <3> QED
      BY <1>4, <3>1, WriteOneDoes DEF c
  <2>2. /\ pc[e] \in WritingSteps
        /\ art' = art /\ local'[e].art = local[e].art /\ local'[e].out = local[e].out
        /\ local'[e].todo = local[e].todo \ {p}
        /\ \/ pc'[e] = pc[e]
           \/ local'[e].todo = {}
    BY <1>4, WriteOneDoes
  <2>3. Touched(local'[e].out) \ local'[e].todo \subseteq ws'.written
    BY <1>0, <2>1, <2>2 DEF HeldWritten
  <2>4. pc'[e] \in WrittenSteps => local'[e].todo = {}
    BY <2>2 DEF WritingSteps, WrittenSteps
  <2> QED
    BY <1>0, <2>1, <2>2, <2>3, <2>4 DEF IsWritten, HeldWritten
<1>5. CASE SolveCheckpoint(e) \/ ValidateCheckpoint(e) \/ RepairCheckpoint(e)
  BY <1>0, <1>5, CheckpointsDo DEF IsWritten, HeldWritten, WritingSteps, WrittenSteps
<1>6. CASE SolveSave(e) \/ RepairSave(e)
  BY <1>0, <1>6, SolveSaveDoes, RepairSaveDoes
  DEF IsWritten, HeldWritten, WritingSteps, WrittenSteps
<1>7. CASE ValidateSave(e) \/ ChallengeNotRun(e) \/ PackageCapsule(e) \/ ReviewSave(e)
  BY <1>0, <1>7, ValidateSaveDoes, ChallengeNotRunDoes, PackageCapsuleDoes, ReviewSaveDoes
  DEF IsWritten, HeldWritten, WritingSteps, WrittenSteps
<1>8. ASSUME NEW result \in CheckResults, ValidateRun(e, result)
      PROVE  IsWritten(art', ws') /\ HeldWritten(pc'[e], local'[e], ws')
  BY <1>0, <1>8, ValidateRunDoes DEF IsWritten, HeldWritten, WritingSteps, WrittenSteps, files
<1>9. ASSUME NEW blocking \in BOOLEAN, ChallengeReported(e, blocking)
      PROVE  IsWritten(art', ws') /\ HeldWritten(pc'[e], local'[e], ws')
  BY <1>0, <1>9, ChallengeReportedDoes DEF IsWritten, HeldWritten, WritingSteps, WrittenSteps
<1>10. ASSUME NEW patch \in RepairOutputs, RepairCandidate(e, patch)
       PROVE  IsWritten(art', ws') /\ HeldWritten(pc'[e], local'[e], ws')
  <2> DEFINE c == local[e].art.contribution
  <2>1. /\ pc'[e] = "repair.write" /\ UNCHANGED <<art, ws>> /\ local'[e].art = local[e].art
        /\ local'[e].out = Revised(c, patch) /\ local'[e].todo = DOMAIN patch /\ c # None
    BY <1>10, RepairCandidateDoes DEF files
  <2>2. c \in Contributions
    BY <2>1 DEF RecordInv, TypeInv, HeldOK, LocalRecord, ArtifactsRecord, OrNone
  <2>3. Touched(Revised(c, patch)) \ DOMAIN patch \subseteq Touched(c)
    BY <2>2, ContributionsAreRecords DEF Revised, Touched, ContributionRecord
  <2> HIDE DEF c
  <2>4. Touched(c) \subseteq ws.written
    BY <1>0, <2>1 DEF HeldWritten, IsWritten, c
  <2> QED
    BY <1>0, <2>1, <2>3, <2>4 DEF IsWritten, HeldWritten, WritingSteps, WrittenSteps
<1> QED
  BY <1>1, <1>2, <1>3, <1>4, <1>5, <1>6, <1>7, <1>8, <1>9, <1>10, StandingSteps
  DEF Shape, Telling

\* Every shape keeps the challenge about the checkpoint.
LEMMA ChallengedShape ==
  ASSUME RecordInv, ArtsAreSound, WrittenInv, ArtIsFresh, Challenged, FollowsLifecycle,
         NEW e \in Executors, Shape(e)
  PROVE  /\ run'.state = "ready_for_review" => ChallengedAt(art)'
         /\ pc'[e] \in {"challenge.bind", "challenge.decide"} => ChallengedAt(art)'
<1>0. /\ run.state = "ready_for_review" \/ pc[e] \in {"challenge.bind", "challenge.decide"} =>
           ChallengedAt(art)
      /\ pc[e] \in FreshSteps => local[e].art = art
      /\ InState(pc[e], run.state)
      /\ ws \in WorkspaceRecord
      /\ run'.state = run.state \/ CanTransition(run.state, run'.state)
  BY StateMoves DEF Challenged, ArtIsFresh, RecordInv, TypeInv, FilesOK, RowsAgree, Agrees
\* The same checkpoint, candidate and challenge.
<1>a. ASSUME art'.contribution = art.contribution, art'.challenge = art.challenge,
             ws'.checkpoint = ws.checkpoint, ChallengedAt(art)
      PROVE  ChallengedAt(art)'
  BY <1>a DEF ChallengedAt, CheckpointOf
<1>1. CASE Plain(e)
  <2>1. CASE ws' = ws /\ SameEvidence(art', art)
    BY <1>0, <1>1, <1>a, <2>1 DEF Plain, PlainSteps, SameEvidence, RowKept, LateStates
  <2>2. CASE run.state \in BeforeCandidate
    BY <1>0, <1>1, <2>2 DEF Plain, PlainSteps, BeforeCandidate, CanTransition, ForwardEdges,
       FailClosedStates
  <2> QED
    BY <1>1, <2>1, <2>2 DEF Plain
<1>2. CASE Opens(e) \/ Keeps(e)
  BY <1>0, <1>2, <1>a DEF Opens, Opened, Keeps, KeptEdges, RowKept, LateStates, files
<1>3. CASE Standing(e)
  BY <1>0, <1>3, <1>a DEF Standing
<1>4. ASSUME NEW c \in SolverOutputs, SolveCandidate(e, c)
      PROVE  /\ run'.state # "ready_for_review"
             /\ pc'[e] \notin {"challenge.bind", "challenge.decide"}
  BY <1>0, <1>4, SolveCandidateDoes DEF InState, record
<1>5. ASSUME NEW p \in Paths, WriteOne(e, p)
      PROVE  /\ run'.state # "ready_for_review"
             /\ pc'[e] \notin {"challenge.bind", "challenge.decide"}
  BY <1>0, <1>5, WriteOneDoes DEF InState, record, WriteEdges, WritingSteps
<1>6. CASE SolveCheckpoint(e) \/ ValidateCheckpoint(e) \/ RepairCheckpoint(e)
  BY <1>0, <1>6, CheckpointsDo DEF InState, record
<1>7. CASE SolveSave(e) \/ ValidateSave(e) \/ RepairSave(e) \/ ChallengeNotRun(e)
  BY <1>0, <1>7, SolveSaveDoes, ValidateSaveDoes, RepairSaveDoes, ChallengeNotRunDoes
  DEF InState, record
<1>8. ASSUME NEW result \in CheckResults, ValidateRun(e, result)
      PROVE  /\ run'.state # "ready_for_review"
             /\ pc'[e] \notin {"challenge.bind", "challenge.decide"}
  BY <1>0, <1>8, ValidateRunDoes DEF InState, record
<1>9. ASSUME NEW blocking \in BOOLEAN, ChallengeReported(e, blocking)
      PROVE  ChallengedAt(art)'
  <2> DEFINE c == local[e].art.contribution
  <2>1. /\ art'.challenge = Completed(blocking, CandidateDiff(ws, c))
        /\ art'.contribution = c /\ ws' = ws /\ ~HasUnexpectedChanges(ws)
    BY <1>9, ChallengeReportedDoes
  <2>2. c # None => Touched(c) \subseteq ws.written
    BY DEF WrittenInv, HeldWritten, IsWritten
  <2>3. c # None => CandidateDiff(ws, c) = CheckpointOf(c)
    BY <2>1, <2>2, ExpectedFiles
  <2>4. Completed(blocking, CandidateDiff(ws, c)).diff = CandidateDiff(ws, c)
    BY DEF Completed
  <2> HIDE DEF c
  <2> QED
    BY <2>1, <2>3, <2>4 DEF ChallengedAt, CheckpointOf
<1>10. ASSUME NEW patch \in RepairOutputs, RepairCandidate(e, patch)
       PROVE  /\ run'.state # "ready_for_review"
              /\ pc'[e] \notin {"challenge.bind", "challenge.decide"}
  BY <1>0, <1>10, RepairCandidateDoes DEF InState, record
<1>11. CASE PackageCapsule(e) \/ ReviewSave(e)
  <2>1. /\ pc[e] \in {"package.check", "review.save"} /\ run' = run
        /\ pc'[e] \in {"reload", "review.done"} /\ ws' = ws
        /\ art'.contribution = local[e].art.contribution
        /\ art'.challenge = local[e].art.challenge
    BY <1>11, PackageCapsuleDoes, ReviewSaveDoes DEF record
  <2>2. local[e].art = art
    BY <1>0, <2>1 DEF FreshSteps
  <2> QED
    BY <1>0, <1>a, <2>1, <2>2
<1> QED
  BY <1>1, <1>2, <1>3, <1>4, <1>5, <1>6, <1>7, <1>8, <1>9, <1>10, <1>11, StandingSteps
  DEF Shape, Telling

\* Every shape keeps the surface the one that was challenged.
LEMMA SurfaceShape ==
  ASSUME RecordInv, WrittenInv, ArtIsFresh, Challenged, Surfaces, NEW e \in Executors, Shape(e)
  PROVE  SurfaceIsDiff(art') /\ SurfaceIsDiff(local'[e].art)
<1>0. /\ SurfaceIsDiff(art) /\ SurfaceIsDiff(local[e].art) /\ SurfaceIsDiff(NoArtifacts)
      /\ pc[e] \in FreshSteps => local[e].art = art
      /\ InState(pc[e], run.state) /\ Held(pc[e], local[e])
  BY DEF Surfaces, ArtIsFresh, RecordInv, TypeInv, HeldOK, RowsAgree, Agrees, SurfaceIsDiff,
         NoArtifacts
<1>a. \A a, b : SameEvidence(a, b) /\ SurfaceIsDiff(b) => SurfaceIsDiff(a)
  BY DEF SameEvidence, SurfaceIsDiff
<1>1. CASE Plain(e)
  BY <1>0, <1>1, <1>a DEF Plain
<1>2. CASE Opens(e) \/ Keeps(e) \/ Standing(e)
  BY <1>0, <1>2 DEF Opens, Keeps, Standing, files
<1>3. ASSUME NEW c \in SolverOutputs, SolveCandidate(e, c)
      PROVE  SurfaceIsDiff(art') /\ SurfaceIsDiff(local'[e].art)
  BY <1>0, <1>3, SolveCandidateDoes DEF files
<1>4. ASSUME NEW p \in Paths, WriteOne(e, p)
      PROVE  SurfaceIsDiff(art') /\ SurfaceIsDiff(local'[e].art)
  BY <1>0, <1>4, WriteOneDoes
<1>5. CASE SolveCheckpoint(e) \/ ValidateCheckpoint(e) \/ RepairCheckpoint(e)
  BY <1>0, <1>5, CheckpointsDo
<1>6. CASE SolveSave(e) \/ ValidateSave(e) \/ ChallengeNotRun(e) \/ RepairSave(e)
  BY <1>0, <1>6, SolveSaveDoes, ValidateSaveDoes, ChallengeNotRunDoes, RepairSaveDoes
  DEF SurfaceIsDiff
<1>7. ASSUME NEW result \in CheckResults, ValidateRun(e, result)
      PROVE  SurfaceIsDiff(art') /\ SurfaceIsDiff(local'[e].art)
  BY <1>0, <1>7, ValidateRunDoes DEF SurfaceIsDiff, files
<1>8. ASSUME NEW blocking \in BOOLEAN, ChallengeReported(e, blocking)
      PROVE  SurfaceIsDiff(art') /\ SurfaceIsDiff(local'[e].art)
  BY <1>0, <1>8, ChallengeReportedDoes DEF SurfaceIsDiff
<1>9. ASSUME NEW patch \in RepairOutputs, RepairCandidate(e, patch)
      PROVE  SurfaceIsDiff(art') /\ SurfaceIsDiff(local'[e].art)
  BY <1>0, <1>9, RepairCandidateDoes DEF files
<1>10. CASE PackageCapsule(e)
  <2> DEFINE a == local[e].art
             k == Capsule(a.contribution, CandidateDiff(ws, a.contribution),
                          IF a.validation = None THEN EmptyGraph ELSE a.validation,
                          a.challenge, a.reproduction, local[e].row.review)
  <2>1. /\ pc[e] = "package.check" /\ a.contribution \in Contributions /\ ~HasUnexpectedChanges(ws)
        /\ art'.capsule = k /\ local'[e].art = a
    BY <1>0, <1>10, PackageCapsuleDoes DEF Held
  <2>2. k.surface = CandidateDiff(ws, a.contribution) /\ k.report = a.challenge
    BY DEF Capsule
  <2>3. a = art /\ run.state = "ready_for_review"
    BY <1>0, <2>1 DEF FreshSteps, InState
  <2>4. a.challenge # None => a.challenge.diff = CheckpointOf(a.contribution)
    BY <2>1, <2>3, NoneAssumption DEF Challenged, ChallengedAt
  <2>5. CandidateDiff(ws, a.contribution) = CheckpointOf(a.contribution)
    BY <2>1, NoneAssumption, ExpectedFiles DEF WrittenInv, HeldWritten, IsWritten
  <2> HIDE DEF a, k
  <2> QED
    BY <1>0, <2>1, <2>2, <2>4, <2>5 DEF SurfaceIsDiff, a
<1>11. CASE ReviewSave(e)
  <2> DEFINE a == local[e].art
             k == BindReviewTo(a.capsule, local[e].row.review)
  <2>1. a.capsule \in CapsuleRecord /\ art'.capsule = k /\ local'[e].art = a
    BY <1>0, <1>11, ReviewSaveDoes DEF Held, CapsuleSteps
  <2>2. k.surface = a.capsule.surface /\ k.report = a.capsule.report
    BY <2>1 DEF BindReviewTo, CapsuleRecord
  <2> HIDE DEF a, k
  <2> QED
    BY <1>0, <2>1, <2>2, NoneAssumption DEF SurfaceIsDiff, a
<1> QED
  BY <1>1, <1>2, <1>3, <1>4, <1>5, <1>6, <1>7, <1>8, <1>9, <1>10, <1>11, StandingSteps
  DEF Shape, Telling

\* The inductive invariant of the review surface.
DiffInv == WrittenInv /\ ArtIsFresh /\ Challenged /\ Surfaces

\* Every step keeps it, a crash in a write and a foreign edit included.
LEMMA NextKeepsDiff ==
  ASSUME OneProcess, RecordInv, ArtsAreSound, DiffInv, [Next]_vars
  PROVE  DiffInv'
<1> USE DEF DiffInv
<1>0. FollowsLifecycle
  BY NextRecord DEF RecordStep
<1>1. ASSUME NEW e \in Executors, Shape(e)
      PROVE  DiffInv'
  <2>0. \A f \in Executors : f = e
    BY DEF OneProcess
  <2>1. WrittenInv'
    BY <1>1, <2>0, WrittenShape DEF WrittenInv
  <2>2. ArtIsFresh'
    BY <1>1, <2>0, FreshShape DEF ArtIsFresh
  <2>3. Challenged'
    BY <1>0, <1>1, <2>0, ChallengedShape DEF Challenged
  <2>4. Surfaces'
    BY <1>1, <2>0, SurfaceShape DEF Surfaces
  <2> QED
    BY <2>1, <2>2, <2>3, <2>4
<1>2. ASSUME NEW e \in Executors, NEW p \in Paths,
             CrashInWrite(e, p)
      PROVE  DiffInv'
  <2>0. /\ \A f \in Executors : f = e
        /\ ws \in WorkspaceRecord
        /\ SameEvidence(NoLocal.art, NoArtifacts)
    BY EvidenceOfNoLocal DEF OneProcess, RecordInv, TypeInv, FilesOK
  <2>1. /\ run' = run /\ art' = art /\ pc'[e] = "returned" /\ local'[e] = NoLocal
        /\ pc[e] \in WritingSteps
    BY <1>2, CrashInWriteDoes DEF record
  <2>2. ws'.written = ws.written /\ ws'.checkpoint = ws.checkpoint
    <3> DEFINE c == PostImage(local[e].out, p)
    <3> HIDE DEF c
    <3>1. PutFile(ws, p, c).written = ws.written /\ PutFile(ws, p, c).checkpoint = ws.checkpoint
      BY <2>0, PutFileFields, Zenon
    <3> QED
      BY <1>2, <3>1, CrashInWriteDoes DEF c
  <2>3. WrittenInv'
    BY <2>0, <2>1, <2>2
    DEF WrittenInv, IsWritten, HeldWritten, SameEvidence, NoArtifacts, WritingSteps, WrittenSteps
  <2>4. ArtIsFresh'
    BY <2>0, <2>1 DEF ArtIsFresh, FreshSteps
  <2>5. Challenged'
    BY <2>0, <2>1, <2>2 DEF Challenged, ChallengedAt, CheckpointOf
  <2>6. Surfaces'
    BY <2>0, <2>1 DEF Surfaces, SurfaceIsDiff, SameEvidence, NoArtifacts
  <2> QED
    BY <2>3, <2>4, <2>5, <2>6
<1>3. ASSUME NEW p \in Paths, NEW content \in Contents, SomebodyWrites(p, content)
      PROVE  DiffInv'
  <2>1. UNCHANGED <<record, art, world, pc, local>> /\ ws' = ForeignWrite(ws, p, content)
        /\ ws \in WorkspaceRecord
    BY <1>3 DEF SomebodyWrites, RecordInv, TypeInv, FilesOK
  <2>2. ws'.written = ws.written /\ ws'.checkpoint = ws.checkpoint
    BY <2>1, ForeignWriteFields, Zenon
  <2> QED
    BY <2>1, <2>2
    DEF WrittenInv, IsWritten, HeldWritten, ArtIsFresh, Challenged, ChallengedAt, CheckpointOf,
        Surfaces, record
<1>4. CASE UNCHANGED <<record, files, fork, receipts, approved, pc, local>>
  BY <1>4
  DEF WrittenInv, IsWritten, HeldWritten, ArtIsFresh, Challenged, ChallengedAt, CheckpointOf,
      Surfaces, record, files
<1> QED
  BY <1>1, <1>2, <1>3, <1>4, StepShape

\* It always holds.
LEMMA DiffInvariance ==
  ASSUME OneProcess
  PROVE  Spec => [](RecordInv /\ ArtsAreSound /\ DiffInv)
<1>1. Init => DiffInv
  BY EvidenceOfNoLocal
  DEF Init, DiffInv, WrittenInv, IsWritten, HeldWritten, ArtIsFresh, Challenged, Surfaces,
      SurfaceIsDiff, WritingSteps, WrittenSteps, FreshSteps, NewRow, NoArtifacts, SameEvidence
<1>2. RecordInv /\ ArtsAreSound /\ DiffInv /\ [Next]_vars => DiffInv'
  BY NextKeepsDiff
<1> QED
  BY <1>1, <1>2, RecordInvariance, EvidenceInvariance, PTL DEF Spec

\* The review surface that package_evidence computes describes the files that
\* the challenger read: HasUnexpectedChanges stops the run when a tool, a
\* person or a process that died changed one of them in between.
THEOREM ReviewsAreOfTheChallenged ==
  ASSUME OneProcess
  PROVE  Spec => []ReviewedIsChallenged
<1>1. DiffInv => ReviewedIsChallenged
  BY DEF DiffInv, Surfaces, SurfaceIsDiff, ReviewedIsChallenged
<1> QED
  BY <1>1, DiffInvariance, PTL

-----------------------------------------------------------------------------
(* Without crashes a candidate is written and bound in one go. *)

\* Steps of a stage between its output and the row that names it.
Busy == WritingSteps \cup WrittenSteps

\* The steps taken there.
Writes(e) ==
  \/ \E p \in Paths : WriteOne(e, p)
  \/ SolveCheckpoint(e) \/ SolveSave(e) \/ SolveBind(e)
  \/ RepairCheckpoint(e) \/ RepairSave(e) \/ RepairBind(e)

\* A process that is busy writes, when nothing else can happen to it.
LEMMA BusyWork ==
  ASSUME NEW e \in Executors, pc[e] \in Busy, Work(e)
  PROVE  Writes(e)
<1> USE DEF Busy, WritingSteps, WrittenSteps, At, Calls
<1>1. ~Reload(e) /\ ~DriveReturns(e) /\ ~EnvironmentFails(e)
  BY DEF Reload, DriveReturns, EnvironmentFails, AwaitingSteps
<1>2. ~Authorize(e)
  BY DEF Authorize, AuthorizeOpen, AuthorizeDenied, AuthorizeIssue, AuthorizeBind, AuthorizeDone
<1>3. ~Prepare(e)
  BY DEF Prepare, PrepareOpen, PrepareMaterialize, PrepareSave, PrepareDone
<1>4. ~UnderstandAndPlan(e)
  BY DEF UnderstandAndPlan, UnderstandOpen, UnderstandSave, UnderstandBind, PlanOpen,
     PlanNoSurface, PlanReproduce, PlanRun, PlanSave, PlanBind, PlanDone
<1>5. ~Validate(e)
  BY DEF Validate, ValidateOpen, ValidateStart, ValidateRun, ValidateCheckpoint, ValidateSave,
     TakeCheckpoint
<1>6. ~Challenge(e)
  BY DEF Challenge, ChallengeOpen, ChallengeGate, ChallengeUnfit, ChallengeNotRun,
     ChallengeBlocked, ChallengeReported, ChallengeBind, ChallengeDecide, FitForChallenge
<1>7. ~PackageAndReview(e)
  BY DEF PackageAndReview, PackageOpen, PackageRejected, PackageCapsule, ReviewOpen,
     ReviewRejected, ReviewApproved, ReviewBind, ReviewSave, ReviewDone
<1>8. ~Submit(e)
  BY DEF Submit, SubmitOpen, SubmitBoundary, SubmitBranch, SubmitDraft, SubmitAudit, SubmitBind,
     SubmitDone
<1>9. Solve(e) => Writes(e)
  BY DEF Solve, SolveOpen, SolveStart, SolveRejected, SolveCandidate, Writes
<1>10. Repair(e) => Writes(e)
  BY DEF Repair, RepairRejected, RepairCandidate, Writes
<1> QED
  BY <1>1, <1>2, <1>3, <1>4, <1>5, <1>6, <1>7, <1>8, <1>9, <1>10 DEF Work, Writes

\* Without crashes a busy process goes on to the end.
LEMMA UncrashedStep ==
  ASSUME OneProcess, ~MayCrash, RecordInv, [Next]_vars
  PROVE  \/ \E e \in Executors : Shape(e) /\ (pc[e] \in Busy => Writes(e))
         \/ \E p \in Paths, content \in Contents : SomebodyWrites(p, content)
         \/ UNCHANGED <<record, files, fork, receipts, approved, pc, local>>
<1>1. ASSUME NEW e \in Executors, (\E review \in BOOLEAN : StartDrive(e, review)) \/ Work(e)
      PROVE  pc[e] \in Busy => Writes(e)
  BY <1>1, BusyWork DEF StartDrive, At, Busy, WritingSteps, WrittenSteps
<1>2. \A e \in Executors : ~Crash(e) /\ \A p \in Paths : ~CrashInWrite(e, p)
  BY DEF Crash, CrashInWrite
<1>3. CASE Lapse \/ UNCHANGED vars
  BY <1>3 DEF Lapse, vars, world, files
<1> QED
  BY <1>1, <1>2, <1>3, StepShape, StepCases DEF OneProcess

\* Steps between the artifacts and the row.
Binding == {"solve.bind", "repair.bind"}

\* The row names the candidate in the artifacts, but for the moment between
\* the two writes; an approved fingerprint is that of the candidate.
CandidateIsBound ==
  /\ \A e \in Executors :
       /\ pc[e] \notin Binding => run.cand = art.contribution
       /\ pc[e] \in Binding => local[e].out = art.contribution
       /\ pc[e] \in {"review.save", "review.done"} => run.review = run.cand
       /\ pc[e] \in {"validate.checkpoint", "validate.save"} =>
            local[e].art.contribution = art.contribution
  /\ ApprovedIsCandidate

\* Every shape keeps row and artifacts on one candidate.
LEMMA BoundShape ==
  ASSUME OneProcess, RecordInv, ArtsAreSound, ArtIsFresh, CandidateIsBound, NEW e \in Executors,
         Shape(e), pc[e] \in Busy => Writes(e)
  PROVE  CandidateIsBound'
<1>0. /\ \A f \in Executors : f = e
      /\ pc[e] \notin Binding => run.cand = art.contribution
      /\ pc[e] \in Binding => local[e].out = art.contribution
      /\ pc[e] \in {"review.save", "review.done"} => run.review = run.cand
      /\ pc[e] \in {"validate.checkpoint", "validate.save"} =>
           local[e].art.contribution = art.contribution
      /\ ApprovedIsCandidate
      /\ pc[e] \in FreshSteps => local[e].art = art
      /\ InState(pc[e], run.state) /\ Held(pc[e], local[e])
      /\ Sound(run.state, art) /\ Sound(run.state, local[e].art)
  BY DEF OneProcess, CandidateIsBound, ArtIsFresh, RecordInv, TypeInv, HeldOK, RowsAgree, Agrees,
     ArtsAreSound
<1>a. ASSUME pc'[e] \notin Binding => run'.cand = art'.contribution,
             pc'[e] \in Binding => local'[e].out = art'.contribution,
             pc'[e] \in {"review.save", "review.done"} => run'.review = run'.cand,
             pc'[e] \in {"validate.checkpoint", "validate.save"} =>
               local'[e].art.contribution = art'.contribution,
             run'.state \in {"approved", "submitted"} => run'.review = run'.cand
      PROVE  CandidateIsBound'
  BY <1>0, <1>a DEF CandidateIsBound, ApprovedIsCandidate
<1> USE DEF Binding, Busy, WritingSteps, WrittenSteps, ApprovedIsCandidate
<1>1. CASE Plain(e) /\ ~Writes(e)
  <2>1. run'.cand = run.cand /\ art'.contribution = art.contribution /\ pc[e] \notin Binding
    BY <1>0, <1>1 DEF Plain, SameEvidence, RowKept, Sound, ArtOfPhase
  <2> QED
    BY <1>0, <1>1, <1>a, <2>1 DEF Plain, PlainSteps, RowKept, LateStates
<1>2. CASE Opens(e) /\ ~Writes(e)
  BY <1>0, <1>2, <1>a DEF Opens, Opened, files
<1>3. CASE Keeps(e) /\ ~Writes(e)
  BY <1>0, <1>3, <1>a DEF Keeps, KeptEdges, files, RowKept, LateStates
<1>4. CASE SolveBind(e) \/ RepairBind(e)
  <2>1. run.state \in {"executing", "repairing"}
    BY <1>0, <1>4, SolveBindDoes, RepairBindDoes DEF InState
  <2> QED
    BY <1>0, <1>4, <1>a, <2>1, SolveBindDoes, RepairBindDoes DEF files
<1>5. CASE SolveSave(e) \/ RepairSave(e)
  <2>1. run.state \in {"executing", "repairing"}
    BY <1>0, <1>5, SolveSaveDoes, RepairSaveDoes DEF InState
  <2> QED
    BY <1>0, <1>5, <1>a, <2>1, SolveSaveDoes, RepairSaveDoes DEF record
<1>6. ASSUME NEW p \in Paths, WriteOne(e, p)
      PROVE  CandidateIsBound'
  BY <1>0, <1>6, <1>a, WriteOneDoes DEF WriteEdges, record
<1>7. CASE SolveCheckpoint(e) \/ ValidateCheckpoint(e) \/ RepairCheckpoint(e)
  BY <1>0, <1>7, <1>a, CheckpointsDo DEF record
<1>8. ASSUME NEW c \in SolverOutputs, SolveCandidate(e, c)
      PROVE  CandidateIsBound'
  BY <1>0, <1>8, <1>a, SolveCandidateDoes DEF files, record
<1>9. ASSUME NEW result \in CheckResults, ValidateRun(e, result)
      PROVE  CandidateIsBound'
  BY <1>0, <1>9, <1>a, ValidateRunDoes DEF files, record, FreshSteps
<1>10. CASE ValidateSave(e)
  <2>1. /\ pc[e] = "validate.save" /\ pc'[e] = "reload" /\ UNCHANGED record
        /\ art'.contribution = local[e].art.contribution
    BY <1>10, ValidateSaveDoes
  <2>2. run' = run /\ art'.contribution = art.contribution
    BY <1>0, <2>1 DEF record
  <2> QED
    BY <1>0, <1>a, <2>1, <2>2
<1>11. CASE ChallengeNotRun(e) \/ PackageCapsule(e)
  BY <1>0, <1>11, <1>a, ChallengeNotRunDoes, PackageCapsuleDoes DEF record, FreshSteps
<1>12. ASSUME NEW blocking \in BOOLEAN, ChallengeReported(e, blocking)
       PROVE  CandidateIsBound'
  BY <1>0, <1>12, <1>a, ChallengeReportedDoes DEF record, FreshSteps
<1>13. ASSUME NEW patch \in RepairOutputs, RepairCandidate(e, patch)
       PROVE  CandidateIsBound'
  BY <1>0, <1>13, <1>a, RepairCandidateDoes DEF files, record
<1>14. CASE ReviewSave(e)
  BY <1>0, <1>14, <1>a, ReviewSaveDoes DEF record, FreshSteps
<1>15. CASE ReviewBind(e)
  <2>1. /\ pc[e] = "review.bind" /\ pc'[e] = "review.save" /\ UNCHANGED files
        /\ run'.state = run.state /\ run'.cand = run.cand
        /\ run'.review = local[e].art.capsule.candidate
    BY <1>15, ReviewBindDoes
  <2>2. local[e].art.capsule.candidate = art.contribution
    BY <1>0, <2>1, NoneAssumption DEF Sound, GoodArt, Held, CapsuleSteps, FreshSteps
  <2> QED
    BY <1>0, <1>a, <2>1, <2>2 DEF files
<1>16. CASE Standing(e) /\ ~Writes(e) /\ ~ReviewBind(e)
  <2>1. /\ run'.cand = run.cand /\ run'.review = run.review /\ art' = art
        /\ pc'[e] \notin Binding
        /\ pc'[e] \notin {"review.save", "review.done", "validate.checkpoint", "validate.save"}
        /\ pc[e] \notin Busy
        /\ run'.state \in {"approved", "submitted"} =>
             run.state \in {"approved", "submitted"} \/ pc[e] = "review.done"
    BY <1>16 DEF Standing, Writes
  <2> QED
    BY <1>0, <1>a, <2>1
<1> QED
  BY <1>1, <1>2, <1>3, <1>4, <1>5, <1>6, <1>7, <1>8, <1>9, <1>10, <1>11, <1>12, <1>13, <1>14,
     <1>15, <1>16, StandingSteps
  DEF Shape, Telling, Writes

\* So does every step; an edit of the workspace concerns neither.
LEMMA NextKeepsBound ==
  ASSUME OneProcess, ~MayCrash, RecordInv, ArtsAreSound, ArtIsFresh, CandidateIsBound, [Next]_vars
  PROVE  CandidateIsBound'
<1>1. ASSUME NEW e \in Executors, Shape(e), pc[e] \in Busy => Writes(e)
      PROVE  CandidateIsBound'
  BY <1>1, BoundShape
<1>2. CASE UNCHANGED <<run, art, pc, local>>
  BY <1>2 DEF CandidateIsBound, ApprovedIsCandidate
<1>3. ASSUME NEW p \in Paths, NEW content \in Contents, SomebodyWrites(p, content)
      PROVE  UNCHANGED <<run, art, pc, local>>
  BY <1>3 DEF SomebodyWrites, record
<1>4. UNCHANGED <<record, files, fork, receipts, approved, pc, local>> =>
        UNCHANGED <<run, art, pc, local>>
  BY DEF record, files
<1> QED
  BY <1>1, <1>2, <1>3, <1>4, UncrashedStep

\* Row and artifacts are always on one candidate.
LEMMA BoundInvariance ==
  ASSUME OneProcess, ~MayCrash
  PROVE  Spec => []CandidateIsBound
<1>1. Init => CandidateIsBound
  BY DEF Init, CandidateIsBound, ApprovedIsCandidate, Binding, NewRow, NoArtifacts
<1>2. RecordInv /\ ArtsAreSound /\ DiffInv /\ CandidateIsBound /\ [Next]_vars => CandidateIsBound'
  BY NextKeepsBound DEF DiffInv
<1> QED
  BY <1>1, <1>2, DiffInvariance, PTL DEF Spec

\* An approved run has its approved fingerprint as its candidate
\* (ReviewBind writes the capsule's fingerprint), unless a process died between
\* the artifacts and the row that names the candidate.
THEOREM ApprovalsAreOfTheCandidate ==
  ASSUME OneProcess, ~MayCrash
  PROVE  Spec => []ApprovedIsCandidate
<1>1. CandidateIsBound => ApprovedIsCandidate
  BY DEF CandidateIsBound
<1> QED
  BY <1>1, BoundInvariance, PTL

-----------------------------------------------------------------------------
(* Without crashes the workspace has the files of the candidate, but for   *)
(* those that somebody else was the last to write.                         *)

\* The files at these paths have the contents of the contribution, unless they
\* were written by somebody else since.
FilesMatch(c, done) == \A p \in done \ ws.theirs : ws.files[p] = PostImage(c, p)

\* What a stage wrote of its output is in the workspace; but while an output
\* is being written, so is the candidate of the artifacts.
CandidateIsOnDisk ==
  \A e \in Executors :
    /\ pc[e] \in WritingSteps => FilesMatch(local[e].out, Touched(local[e].out) \ local[e].todo)
    /\ pc[e] \in WrittenSteps => FilesMatch(local[e].out, Touched(local[e].out))
    /\ pc[e] \notin Busy \ Binding /\ art.contribution # None =>
         FilesMatch(art.contribution, Touched(art.contribution))

\* The checks of a graph ran on the files of the contribution beside it, those
\* of a passing capsule on the files of its candidate.
GraphIsOf(g, c) == \A p \in Touched(c) \ g.theirs : g.on[p] = PostImage(c, p)

\* The graphs are about the files of the contribution.
Validated(a) ==
  /\ a.validation # None /\ a.contribution # None => GraphIsOf(a.validation, a.contribution)
  /\ a.capsule # None /\ GraphPasses(a.capsule.graph) =>
       GraphIsOf(a.capsule.graph, a.capsule.candidate)

\* They are on disk, and in what the processes hold.
ArtsAreValidated == Validated(art) /\ \A e \in Executors : Validated(local[e].art)

\* That is about the candidate and its evidence alone.
LEMMA ValidatedEvidence ==
  ASSUME NEW a, NEW b, Validated(b), SameEvidence(a, b)
  PROVE  Validated(a)
BY DEF Validated, SameEvidence

\* No artifacts have no graph.
LEMMA NoArtifactsValidated == Validated(NoArtifacts)
BY DEF Validated, NoArtifacts

\* Every shape keeps the candidate on disk.
LEMMA OnDiskShape ==
  ASSUME OneProcess, RecordInv, ArtsAreSound, ArtIsFresh, CandidateIsBound, CandidateIsOnDisk,
         NEW e \in Executors, Shape(e), pc[e] \in Busy => Writes(e)
  PROVE  CandidateIsOnDisk'
<1>0. /\ \A f \in Executors : f = e
      /\ pc[e] \in WritingSteps =>
           FilesMatch(local[e].out, Touched(local[e].out) \ local[e].todo)
      /\ pc[e] \in WrittenSteps => FilesMatch(local[e].out, Touched(local[e].out))
      /\ pc[e] \notin Busy \ Binding /\ art.contribution # None =>
           FilesMatch(art.contribution, Touched(art.contribution))
      /\ pc[e] \in Binding => local[e].out = art.contribution
      /\ pc[e] \in {"validate.checkpoint", "validate.save"} =>
           local[e].art.contribution = art.contribution
      /\ pc[e] \in FreshSteps => local[e].art = art
      /\ Held(pc[e], local[e]) /\ ws \in WorkspaceRecord
      /\ Sound(run.state, art) /\ Sound(run.state, local[e].art)
  BY DEF OneProcess, CandidateIsBound, CandidateIsOnDisk, ArtIsFresh, RecordInv, TypeInv, HeldOK,
     FilesOK, RowsAgree, Agrees, ArtsAreSound
<1>a. ASSUME pc'[e] \notin Busy, pc[e] \notin Busy \ Binding,
             art'.contribution \in {art.contribution, None},
             ws'.files = ws.files, ws'.theirs = ws.theirs
      PROVE  CandidateIsOnDisk'
  BY <1>0, <1>a DEF CandidateIsOnDisk, FilesMatch, Busy, Binding
<1> USE DEF Binding, Busy, WritingSteps, WrittenSteps
<1>1. CASE Plain(e) /\ ~Writes(e)
  <2>1. pc'[e] \notin Busy /\ pc[e] \notin Busy
    BY <1>1 DEF Plain, PlainSteps
  <2>2. CASE ws' = ws /\ SameEvidence(art', art)
    BY <1>a, <2>1, <2>2 DEF SameEvidence
  <2>3. CASE run.state \in BeforeCandidate
    <3>1. art'.contribution = None
      BY <1>0, <1>1, <2>3 DEF Plain, SameEvidence, Sound, ArtOfPhase
    <3> QED
      BY <1>0, <2>1, <3>1 DEF CandidateIsOnDisk
  <2> QED
    BY <1>1, <2>2, <2>3 DEF Plain
<1>2. CASE Opens(e) /\ ~Writes(e)
  BY <1>2, <1>a DEF Opens, Opened, files
<1>3. CASE Keeps(e) /\ ~Writes(e)
  BY <1>3, <1>a DEF Keeps, KeptEdges, files
<1>4. CASE SolveBind(e) \/ RepairBind(e)
  BY <1>4, <1>a, SolveBindDoes, RepairBindDoes DEF files
<1>5. CASE SolveSave(e) \/ RepairSave(e)
  BY <1>0, <1>5, SolveSaveDoes, RepairSaveDoes DEF CandidateIsOnDisk, FilesMatch
<1>6. ASSUME NEW p \in Paths, WriteOne(e, p)
      PROVE  CandidateIsOnDisk'
  <2> DEFINE c == PostImage(local[e].out, p)
  <2>1. /\ pc[e] \in WritingSteps /\ local'[e].out = local[e].out
        /\ local'[e].todo = local[e].todo \ {p}
        /\ \/ pc'[e] = pc[e]
           \/ local'[e].todo = {} /\ pc'[e] \in {"solve.checkpoint", "repair.checkpoint"}
    BY <1>6, WriteOneDoes DEF WriteEdges
  <2> HIDE DEF c
  <2>2. ws'.files = [ws.files EXCEPT ![p] = c] /\ ws'.theirs = ws.theirs \ {p}
    <3>1. /\ WriteFile(ws, p, c).files = [ws.files EXCEPT ![p] = c]
          /\ WriteFile(ws, p, c).theirs = ws.theirs \ {p}
      BY <1>0, WriteFileFields
    <3> QED
      BY <1>6, <3>1, WriteOneDoes DEF c
  <2>3. Touched(local[e].out) \subseteq Paths
    BY <1>0, <2>1, ContributionsAreRecords DEF Held, Touched, ContributionRecord, Patches
  <2>4. DOMAIN ws.files = Paths
    BY <1>0 DEF WorkspaceRecord
  <2>5. \A q \in (Touched(local[e].out) \ (local[e].todo \ {p})) \ ws'.theirs :
          ws'.files[q] = PostImage(local[e].out, q)
    BY <1>0, <2>1, <2>2, <2>3, <2>4 DEF FilesMatch, c
  <2> QED
    BY <1>0, <2>1, <2>5 DEF CandidateIsOnDisk, FilesMatch
<1>7. CASE SolveCheckpoint(e) \/ ValidateCheckpoint(e) \/ RepairCheckpoint(e)
  BY <1>0, <1>7, CheckpointsDo DEF CandidateIsOnDisk, FilesMatch
<1>8. ASSUME NEW c \in SolverOutputs, SolveCandidate(e, c)
      PROVE  CandidateIsOnDisk'
  BY <1>0, <1>8, SolveCandidateDoes DEF CandidateIsOnDisk, FilesMatch
<1>9. ASSUME NEW result \in CheckResults, ValidateRun(e, result)
      PROVE  CandidateIsOnDisk'
  BY <1>9, <1>a, ValidateRunDoes DEF files
<1>10. CASE ValidateSave(e)
  BY <1>0, <1>10, <1>a, ValidateSaveDoes
<1>11. CASE ChallengeNotRun(e) \/ PackageCapsule(e)
  BY <1>0, <1>11, <1>a, ChallengeNotRunDoes, PackageCapsuleDoes DEF FreshSteps
<1>12. ASSUME NEW blocking \in BOOLEAN, ChallengeReported(e, blocking)
       PROVE  CandidateIsOnDisk'
  BY <1>0, <1>12, <1>a, ChallengeReportedDoes DEF FreshSteps
<1>13. ASSUME NEW patch \in RepairOutputs, RepairCandidate(e, patch)
       PROVE  CandidateIsOnDisk'
  <2> DEFINE c == local[e].art.contribution
  <2>1. /\ pc[e] = "repair.model" /\ pc'[e] = "repair.write" /\ UNCHANGED <<art, ws>>
        /\ local'[e].out = Revised(c, patch) /\ local'[e].todo = DOMAIN patch /\ c # None
    BY <1>13, RepairCandidateDoes DEF files
  <2>2. c \in Contributions
    BY <2>1 DEF RecordInv, TypeInv, HeldOK, LocalRecord, ArtifactsRecord, OrNone
  <2>3. c = art.contribution
    BY <1>0, <2>1 DEF FreshSteps
  <2> HIDE DEF c
  <2>4. FilesMatch(c, Touched(c))
    BY <1>0, <2>1, <2>3
  <2>5. \A p \in Touched(Revised(c, patch)) \ DOMAIN patch :
          p \in Touched(c) /\ PostImage(Revised(c, patch), p) = PostImage(c, p)
    BY <2>2, ContributionsAreRecords DEF Revised, Touched, PostImage, ContributionRecord
  <2> QED
    BY <1>0, <2>1, <2>4, <2>5 DEF CandidateIsOnDisk, FilesMatch
<1>14. CASE ReviewSave(e)
  BY <1>0, <1>14, <1>a, ReviewSaveDoes DEF FreshSteps
<1>15. CASE Standing(e) /\ ~Writes(e)
  <2>1. pc'[e] \notin Busy /\ pc[e] \notin Busy /\ UNCHANGED <<art, ws>>
    BY <1>15 DEF Standing
  <2> QED
    BY <1>a, <2>1
<1> QED
  BY <1>1, <1>2, <1>3, <1>4, <1>5, <1>6, <1>7, <1>8, <1>9, <1>10, <1>11, <1>12, <1>13, <1>14,
     <1>15, StandingSteps
  DEF Shape, Telling, Writes

\* Every shape keeps the graphs about the files.
LEMMA ValidatedShape ==
  ASSUME OneProcess, RecordInv, ArtsAreSound, ArtIsFresh, CandidateIsOnDisk, ArtsAreValidated,
         NEW e \in Executors, Shape(e)
  PROVE  Validated(art') /\ Validated(local'[e].art)
<1>0. /\ Validated(art) /\ Validated(local[e].art)
      /\ pc[e] \in FreshSteps => local[e].art = art
      /\ pc[e] \notin Busy \ Binding /\ art.contribution # None =>
           FilesMatch(art.contribution, Touched(art.contribution))
      /\ InState(pc[e], run.state) /\ Sound(run.state, local[e].art)
  BY DEF ArtsAreValidated, ArtIsFresh, CandidateIsOnDisk, RecordInv, RowsAgree, Agrees,
         ArtsAreSound
<1>a. ASSUME NEW a, NEW b \in {art, local[e].art, NoArtifacts}, SameEvidence(a, b)
      PROVE  Validated(a)
  BY <1>0, <1>a, ValidatedEvidence, NoArtifactsValidated
<1>1. CASE Plain(e)
  <2>1. \E a \in {art, local[e].art, NoArtifacts} : SameEvidence(art', a)
    BY <1>1 DEF Plain
  <2>2. \E a \in {art, local[e].art, NoArtifacts} : SameEvidence(local'[e].art, a)
    BY <1>1 DEF Plain
  <2> QED
    BY <2>1, <2>2, <1>a
<1>2. CASE Opens(e) \/ Keeps(e) \/ Standing(e)
  BY <1>0, <1>2 DEF Opens, Keeps, Standing, files
<1>3. ASSUME NEW c \in SolverOutputs, SolveCandidate(e, c)
      PROVE  Validated(art') /\ Validated(local'[e].art)
  BY <1>0, <1>3, SolveCandidateDoes DEF files
<1>4. ASSUME NEW p \in Paths, WriteOne(e, p)
      PROVE  Validated(art') /\ Validated(local'[e].art)
  BY <1>0, <1>4, WriteOneDoes
<1>5. CASE SolveCheckpoint(e) \/ ValidateCheckpoint(e) \/ RepairCheckpoint(e)
  BY <1>0, <1>5, CheckpointsDo
<1>6. CASE SolveSave(e)
  <2>1. run.state = "executing"
    BY <1>0, <1>6, SolveSaveDoes DEF InState
  <2>2. local[e].art.validation = None /\ local[e].art.capsule = None
    BY <1>0, <2>1 DEF Sound, ArtOfPhase, BeforeCandidate, Unreviewed
  <2> QED
    BY <1>0, <1>6, <2>2, SolveSaveDoes DEF Validated
<1>7. CASE RepairSave(e)
  BY <1>0, <1>7, RepairSaveDoes DEF Validated
<1>8. ASSUME NEW result \in CheckResults, ValidateRun(e, result)
      PROVE  Validated(art') /\ Validated(local'[e].art)
  <2>1. /\ pc[e] = "validate.run" /\ art' = art
        /\ local'[e].art.contribution = local[e].art.contribution
        /\ local'[e].art.capsule = local[e].art.capsule
        /\ local'[e].art.validation =
             [verdict |-> result.verdict, clean |-> result.clean,
              scoped |-> local[e].art.contribution # None, on |-> ws.files,
              theirs |-> ws.theirs]
    BY <1>8, ValidateRunDoes DEF files
  <2>2. art.contribution # None => GraphIsOf(local'[e].art.validation, art.contribution)
    BY <1>0, <2>1 DEF GraphIsOf, FilesMatch, Busy, WritingSteps, WrittenSteps
  <2>3. local[e].art = art
    BY <1>0, <2>1 DEF FreshSteps
  <2> QED
    BY <1>0, <2>1, <2>2, <2>3 DEF Validated
<1>9. CASE ValidateSave(e)
  BY <1>0, <1>9, ValidateSaveDoes DEF Validated
<1>10. CASE ChallengeNotRun(e)
  BY <1>0, <1>10, ChallengeNotRunDoes DEF Validated
<1>11. ASSUME NEW blocking \in BOOLEAN, ChallengeReported(e, blocking)
       PROVE  Validated(art') /\ Validated(local'[e].art)
  <2>1. Validated(art')
    BY <1>0, <1>11, ChallengeReportedDoes DEF Validated
  <2> QED
    BY <1>11, <2>1, ChallengeReportedDoes
<1>12. ASSUME NEW patch \in RepairOutputs, RepairCandidate(e, patch)
       PROVE  Validated(art') /\ Validated(local'[e].art)
  BY <1>0, <1>12, RepairCandidateDoes DEF files
<1>13. CASE PackageCapsule(e)
  <2> DEFINE a == local[e].art
             g == IF a.validation = None THEN EmptyGraph ELSE a.validation
  <2>1. /\ pc[e] = "package.check" /\ local'[e].art = a
        /\ art'.contribution = a.contribution /\ art'.validation = a.validation
        /\ art'.capsule = Capsule(a.contribution, CandidateDiff(ws, a.contribution), g,
                                  a.challenge, a.reproduction, local[e].row.review)
    BY <1>13, PackageCapsuleDoes
  <2>2. a.contribution # None
    BY <2>1, NoneAssumption DEF RecordInv, TypeInv, HeldOK, Held
  <2>3. ~GraphPasses(EmptyGraph)
    BY DEF GraphPasses, EmptyGraph
  <2>4. GraphPasses(g) => GraphIsOf(g, a.contribution)
    BY <1>0, <2>2, <2>3 DEF Validated
  <2> HIDE DEF a, g
  <2>5. Validated(a)
    BY <1>0 DEF a
  <2> QED
    BY <2>1, <2>4, <2>5 DEF Validated, Capsule
<1>14. CASE ReviewSave(e)
  <2> DEFINE a == local[e].art
  <2>1. /\ pc[e] = "review.save" /\ local'[e].art = a
        /\ art'.contribution = a.contribution /\ art'.validation = a.validation
        /\ art'.capsule = BindReviewTo(a.capsule, local[e].row.review)
    BY <1>14, ReviewSaveDoes
  <2>2. a.capsule \in CapsuleRecord
    BY <2>1, NoneAssumption DEF RecordInv, TypeInv, HeldOK, Held, CapsuleSteps
  <2> HIDE DEF a
  <2>3. art'.capsule.candidate = a.capsule.candidate /\ art'.capsule.graph = a.capsule.graph
    BY <2>1, <2>2 DEF BindReviewTo, CapsuleRecord
  <2>4. Validated(a) /\ a.capsule # None
    BY <1>0, <2>2, NoneAssumption DEF a
  <2> QED
    BY <2>1, <2>3, <2>4 DEF Validated
<1> QED
  BY <1>1, <1>2, <1>3, <1>4, <1>5, <1>6, <1>7, <1>8, <1>9, <1>10, <1>11, <1>12, <1>13, <1>14,
     StandingSteps
  DEF Shape, Telling

\* A draft is opened by submit alone.
LEMMA DraftsGrow ==
  ASSUME RecordInv, NEW e \in Executors, Shape(e)
  PROVE  \/ Drafts' = Drafts
         \/ /\ pc[e] = "submit.draft"
            /\ Drafts' = Drafts \cup {[contribution |-> local[e].art.contribution,
                                       capsule |-> local[e].art.capsule]}
<1>1. CASE SubmitDraft(e)
  BY <1>1, SubmitDraftDoes
<1>2. CASE Calm(e)
  BY <1>2 DEF Calm, world, Drafts
<1>3. CASE Plain(e)
  BY <1>2, <1>3, PlainIsCalm
<1>4. CASE (ReviewApproved(e) \/ ReviewBind(e) \/ SubmitAudit(e)) /\ ~Plain(e)
  <2>1. fork' = fork
    BY <1>4, ReviewApprovedDoes, ReviewBindDoes, SubmitAuditDoes DEF world
  <2> QED
    BY <2>1 DEF Drafts
<1>5. CASE /\ SubmitBoundary(e) \/ SubmitBranch(e) \/ SubmitBind(e) \/ SubmitDone(e)
           /\ ~Plain(e)
  <2>1. fork'.drafts = fork.drafts
    BY <1>5, SubmitBoundaryDoes, SubmitBranchDoes, SubmitBindDoes, SubmitDoneDoes DEF world
  <2> QED
    BY <2>1 DEF Drafts
<1> QED
  BY <1>1, <1>2, <1>3, <1>4, <1>5, ShapeIsCalm DEF Decisive

\* The inductive invariant of the files.
DiskInv == CandidateIsOnDisk /\ ArtsAreValidated /\ DraftFilesWereValidated

\* Every step keeps it.
LEMMA NextKeepsDisk ==
  ASSUME OneProcess, ~MayCrash, RecordInv, ArtsAreSound, WorldInv, ArtIsFresh,
         CandidateIsBound, DiskInv, [Next]_vars
  PROVE  DiskInv'
<1> USE DEF DiskInv
<1>1. ASSUME NEW e \in Executors, Shape(e), pc[e] \in Busy => Writes(e)
      PROVE  DiskInv'
  <2>1. CandidateIsOnDisk'
    BY <1>1, OnDiskShape
  <2>2. ArtsAreValidated'
    <3>1. Validated(art') /\ Validated(local'[e].art)
      BY <1>1, ValidatedShape
    <3> QED
      BY <3>1 DEF ArtsAreValidated, OneProcess, Validated, GraphIsOf
  <2>3. CASE Drafts' = Drafts
    BY <2>1, <2>2, <2>3 DEF DraftFilesWereValidated
  <2>4. CASE /\ pc[e] = "submit.draft"
             /\ Drafts' = Drafts \cup {[contribution |-> local[e].art.contribution,
                                        capsule |-> local[e].art.capsule]}
    <3> DEFINE d == [contribution |-> local[e].art.contribution,
                     capsule |-> local[e].art.capsule]
    <3>1. /\ BindingsHold(d.capsule, d.contribution, run)
          /\ EvidenceHolds(d.capsule, local[e].art.permit)
          /\ d.capsule \in CapsuleRecord
          /\ d.capsule = local[e].art.capsule
          /\ Drafts' = Drafts \cup {d}
      BY <2>4 DEF WorldInv, PassedBoundary, RecordInv, TypeInv, HeldOK, Held, CapsuleSteps
    <3>2. Validated(local[e].art)
      BY DEF ArtsAreValidated
    <3> HIDE DEF d
    <3>3. GraphIsOf(d.capsule.graph, d.contribution)
      BY <3>1, <3>2, NoneAssumption DEF Validated, BindingsHold, EvidenceHolds
    <3>4. DraftFilesWereValidated'
      BY <3>1, <3>3 DEF DraftFilesWereValidated, GraphIsOf
    <3> QED
      BY <2>1, <2>2, <3>4
  <2> QED
    BY <1>1, <2>3, <2>4, DraftsGrow
<1>2. CASE UNCHANGED <<record, files, fork, receipts, approved, pc, local>>
  <2>1. Drafts' = Drafts /\ art' = art /\ ws' = ws
    BY <1>2 DEF Drafts, files
  <2> QED
    BY <1>2, <2>1
    DEF CandidateIsOnDisk, FilesMatch, ArtsAreValidated, Validated, GraphIsOf,
        DraftFilesWereValidated
<1>3. ASSUME NEW p \in Paths, NEW content \in Contents, SomebodyWrites(p, content)
      PROVE  DiskInv'
  <2>1. /\ UNCHANGED <<art, pc, local>> /\ ws' = ForeignWrite(ws, p, content)
        /\ Drafts' = Drafts /\ ws \in WorkspaceRecord
    BY <1>3 DEF SomebodyWrites, world, Drafts, RecordInv, TypeInv, FilesOK
  <2>2. ws'.files = [ws.files EXCEPT ![p] = content] /\ ws'.theirs = ws.theirs \cup {p}
    BY <2>1, ForeignWriteFields, Zenon
  <2>3. \A q : q \notin ws'.theirs => q \notin ws.theirs /\ ws'.files[q] = ws.files[q]
    BY <2>1, <2>2 DEF WorkspaceRecord
  <2>4. CandidateIsOnDisk'
    BY <2>1, <2>3 DEF CandidateIsOnDisk, FilesMatch
  <2> QED
    BY <2>1, <2>4 DEF ArtsAreValidated, Validated, GraphIsOf, DraftFilesWereValidated
<1> QED
  BY <1>1, <1>2, <1>3, UncrashedStep

\* It always holds.
LEMMA DiskInvariance ==
  ASSUME OneProcess, ~MayCrash
  PROVE  Spec => []DiskInv
<1>1. Init => DiskInv
  <2> SUFFICES ASSUME Init PROVE DiskInv
    OBVIOUS
  <2>1. /\ Drafts = {} /\ art = NoArtifacts
        /\ \A e \in Executors : pc[e] = "idle" /\ local[e] = NoLocal
    BY DEF Init, Drafts
  <2>2. ArtsAreValidated
    BY <2>1, NoArtifactsValidated, EvidenceOfNoLocal, ValidatedEvidence DEF ArtsAreValidated
  <2> QED
    BY <2>1, <2>2
    DEF DiskInv, CandidateIsOnDisk, DraftFilesWereValidated, WritingSteps, WrittenSteps,
        NoArtifacts
<1>2. RecordInv /\ ArtsAreSound /\ WorldInv /\ DiffInv /\ CandidateIsBound /\ DiskInv /\ [Next]_vars
        => DiskInv'
  BY NextKeepsDisk DEF DiffInv
<1> QED
  BY <1>1, <1>2, DiffInvariance, EvidenceInvariance, BoundInvariance, PTL DEF Spec

\* When no process dies in a write, the checks of validate ran on the files of a
\* draft as the draft publishes them, but for files that a check, another
\* command of the project or a person rewrote after the run had written them.
THEOREM DraftsWereValidated ==
  ASSUME OneProcess, ~MayCrash
  PROVE  Spec => []DraftFilesWereValidated
<1>1. DiskInv => DraftFilesWereValidated
  BY DEF DiskInv
<1> QED
  BY <1>1, DiskInvariance, PTL

-----------------------------------------------------------------------------
(* 6. One draft, however many processes drive the run                      *)
(*                                                                         *)
(* AtMostOneDraft says nothing of a process that is about to open a draft. *)
(* OneWriter adds what keeps a second one from getting there: the branch   *)
(* exists as soon as a process is on its way to a draft, whoever created   *)
(* it, and GitHub creates it once.                                         *)

\* Whoever is about to open a draft created the branch, is alone in doing so
\* and finds no draft; without a branch there is neither.
OneWriter ==
  /\ ~fork.branch => fork.drafts = <<>>
  /\ \A e \in Executors : pc[e] = "submit.draft" =>
       /\ fork.branch
       /\ fork.drafts = <<>>
       /\ \A f \in Executors : pc[f] = "submit.draft" => f = e

\* The inductive invariant.
IInv ==
  /\ pc \in [Executors -> Steps]
  /\ fork = [branch |-> fork.branch, drafts |-> fork.drafts]
  /\ OneWriter
  /\ AtMostOneDraft

\* What every step but the two that write to GitHub does: one process goes on
\* to a step that opens no draft.
Moves(e) ==
  \E step \in Steps \ {"submit.draft"} : pc' = [pc EXCEPT ![e] = step]

Elsewhere(e) == Moves(e) /\ UNCHANGED fork

-----------------------------------------------------------------------------
(* The building blocks of the stages move their process elsewhere. *)

LEMMA LeaveMoves ==
  ASSUME NEW e \in Executors, Leave(e)
  PROVE  Moves(e)
BY DEF Leave, Continue, Goto, Moves, Steps

LEMMA CloseMoves ==
  ASSUME NEW e \in Executors, NEW to, Close(e, to)
  PROVE  Moves(e)
BY LeaveMoves DEF Close

LEMMA AdvanceMoves ==
  ASSUME NEW e \in Executors, NEW to, NEW step \in Steps \ {"submit.draft"},
         Advance(e, to, step)
  PROVE  Moves(e)
BY LeaveMoves DEF Advance, Continue, Goto, Moves

LEMMA UpdateRunMoves ==
  ASSUME NEW e \in Executors, NEW step \in Steps \ {"submit.draft"}, UpdateRun(e, step)
  PROVE  Moves(e)
BY DEF UpdateRun, Goto, Moves

LEMMA OpenMoves ==
  ASSUME NEW e \in Executors, NEW expected, NEW pos, NEW step \in Steps \ {"submit.draft"}
  PROVE  \A ready \in BOOLEAN : Open(e, expected, pos, ready, step) => Elsewhere(e)
BY LeaveMoves DEF Open, Continue, Goto, Moves, Elsewhere, world

LEMMA CheckpointMoves ==
  ASSUME NEW e \in Executors, NEW step, NEW next \in Steps \ {"submit.draft"},
         TakeCheckpoint(e, step, next)
  PROVE  Elsewhere(e)
BY DEF TakeCheckpoint, Goto, Moves, Elsewhere, world

-----------------------------------------------------------------------------
(* No stage but the submission writes to GitHub. *)

LEMMA AuthorizeElsewhere ==
  ASSUME NEW e \in Executors, Authorize(e)
  PROVE  Elsewhere(e)
<1>1. CASE AuthorizeOpen(e)
  BY <1>1, OpenMoves
  DEF AuthorizeOpen, Continue, Goto, Moves, Elsewhere, world, Steps, AwaitingSteps
<1>2. CASE AuthorizeDenied(e)
  BY <1>2, CloseMoves
  DEF AuthorizeDenied, Elsewhere, world
<1>3. CASE \E permit \in PermitRecord : AuthorizeIssue(e, permit)
  BY <1>3
  DEF AuthorizeIssue, Continue, Goto, Moves, Elsewhere, world, Steps, AwaitingSteps
<1>4. CASE AuthorizeBind(e)
  BY <1>4, UpdateRunMoves
  DEF AuthorizeBind, Elsewhere, world, Steps
<1>5. CASE AuthorizeDone(e)
  BY <1>5, AdvanceMoves
  DEF AuthorizeDone, Elsewhere, world, Steps, AwaitingSteps
<1> QED
  BY <1>1, <1>2, <1>3, <1>4, <1>5 DEF Authorize

LEMMA PrepareElsewhere ==
  ASSUME NEW e \in Executors, Prepare(e)
  PROVE  Elsewhere(e)
<1>1. CASE PrepareOpen(e)
  BY <1>1, OpenMoves
  DEF PrepareOpen, Steps, AwaitingSteps
<1>2. CASE PrepareMaterialize(e)
  BY <1>2, LeaveMoves
  DEF PrepareMaterialize, Continue, Goto, Moves, Elsewhere, world, Steps, AwaitingSteps
<1>3. CASE \E complete \in BOOLEAN : PrepareSave(e, complete)
  BY <1>3
  DEF PrepareSave, Continue, Goto, Moves, Elsewhere, world, Steps, AwaitingSteps
<1>4. CASE PrepareDone(e)
  BY <1>4, AdvanceMoves, CloseMoves
  DEF PrepareDone, Elsewhere, world, Steps, AwaitingSteps
<1> QED
  BY <1>1, <1>2, <1>3, <1>4 DEF Prepare

LEMMA UnderstandAndPlanElsewhere ==
  ASSUME NEW e \in Executors, UnderstandAndPlan(e)
  PROVE  Elsewhere(e)
<1>1. CASE UnderstandOpen(e)
  BY <1>1, OpenMoves
  DEF UnderstandOpen, Steps, AwaitingSteps
<1>2. CASE UnderstandSave(e)
  BY <1>2
  DEF UnderstandSave, Continue, Goto, Moves, Elsewhere, world, Steps, AwaitingSteps
<1>3. CASE UnderstandBind(e)
  BY <1>3, UpdateRunMoves
  DEF UnderstandBind, Elsewhere, world, Steps
<1>4. CASE PlanOpen(e)
  BY <1>4, OpenMoves
  DEF PlanOpen, Steps, AwaitingSteps
<1>5. CASE PlanNoSurface(e)
  BY <1>5
  DEF PlanNoSurface, Continue, Goto, Moves, Elsewhere, world, Steps, AwaitingSteps
<1>6. CASE PlanReproduce(e)
  BY <1>6, AdvanceMoves
  DEF PlanReproduce, Elsewhere, world, Steps, AwaitingSteps
<1>7. CASE \E status \in {"reproduced", "not_reproduced"} : PlanRun(e, status)
  BY <1>7
  DEF PlanRun, Continue, Goto, Moves, Elsewhere, world, Steps, AwaitingSteps
<1>8. CASE PlanSave(e)
  BY <1>8
  DEF PlanSave, Continue, Goto, Moves, Elsewhere, world, Steps, AwaitingSteps
<1>9. CASE PlanBind(e)
  BY <1>9, UpdateRunMoves
  DEF PlanBind, Elsewhere, world, Steps
<1>10. CASE PlanDone(e)
  BY <1>10, AdvanceMoves, CloseMoves
  DEF PlanDone, Elsewhere, world, Steps, AwaitingSteps
<1> QED
  BY <1>1, <1>2, <1>3, <1>4, <1>5, <1>6, <1>7, <1>8, <1>9, <1>10 DEF
     UnderstandAndPlan

LEMMA SolveElsewhere ==
  ASSUME NEW e \in Executors, Solve(e)
  PROVE  Elsewhere(e)
<1>1. CASE SolveOpen(e)
  BY <1>1, OpenMoves
  DEF SolveOpen, Steps, AwaitingSteps
<1>2. CASE SolveStart(e)
  BY <1>2, AdvanceMoves, CloseMoves
  DEF SolveStart, Elsewhere, world, Steps, AwaitingSteps
<1>3. CASE SolveRejected(e)
  BY <1>3, CloseMoves
  DEF SolveRejected, Elsewhere, world
<1>4. CASE \E c \in SolverOutputs : SolveCandidate(e, c)
  BY <1>4
  DEF SolveCandidate, Continue, Goto, Moves, Elsewhere, world, Steps, AwaitingSteps
<1>5. CASE SolveCheckpoint(e)
  BY <1>5, CheckpointMoves
  DEF SolveCheckpoint, Steps, AwaitingSteps
<1>6. CASE SolveSave(e)
  BY <1>6
  DEF SolveSave, Continue, Goto, Moves, Elsewhere, world, Steps, AwaitingSteps
<1>7. CASE SolveBind(e)
  BY <1>7, UpdateRunMoves
  DEF SolveBind, Elsewhere, world, Steps
<1> QED
  BY <1>1, <1>2, <1>3, <1>4, <1>5, <1>6, <1>7 DEF Solve

LEMMA ValidateElsewhere ==
  ASSUME NEW e \in Executors, Validate(e)
  PROVE  Elsewhere(e)
<1>1. CASE ValidateOpen(e)
  BY <1>1, OpenMoves
  DEF ValidateOpen, Steps, AwaitingSteps
<1>2. CASE ValidateStart(e)
  BY <1>2, AdvanceMoves, CloseMoves
  DEF ValidateStart, Elsewhere, world, Steps, AwaitingSteps
<1>3. CASE \E result \in CheckResults : ValidateRun(e, result)
  BY <1>3
  DEF ValidateRun, Continue, Goto, Moves, Elsewhere, world, Steps, AwaitingSteps
<1>4. CASE ValidateCheckpoint(e)
  BY <1>4, CheckpointMoves
  DEF ValidateCheckpoint, Steps, AwaitingSteps
<1>5. CASE ValidateSave(e)
  BY <1>5
  DEF ValidateSave, Continue, Goto, Moves, Elsewhere, world, Steps, AwaitingSteps
<1> QED
  BY <1>1, <1>2, <1>3, <1>4, <1>5 DEF Validate

LEMMA ChallengeElsewhere ==
  ASSUME NEW e \in Executors, Challenge(e)
  PROVE  Elsewhere(e)
<1>1. CASE ChallengeOpen(e)
  BY <1>1, OpenMoves
  DEF ChallengeOpen, Steps, AwaitingSteps
<1>2. CASE ChallengeGate(e)
  BY <1>2, AdvanceMoves, CloseMoves
  DEF ChallengeGate, Elsewhere, world, Steps, AwaitingSteps, RepairOrBlock
<1>3. CASE ChallengeUnfit(e)
  BY <1>3, CloseMoves, LeaveMoves
  DEF ChallengeUnfit, Elsewhere, world
<1>4. CASE ChallengeNotRun(e)
  BY <1>4
  DEF ChallengeNotRun, Continue, Goto, Moves, Elsewhere, world, Steps, AwaitingSteps
<1>5. CASE ChallengeBlocked(e)
  BY <1>5, CloseMoves
  DEF ChallengeBlocked, Elsewhere, world
<1>6. CASE \E blocking \in BOOLEAN : ChallengeReported(e, blocking)
  BY <1>6
  DEF ChallengeReported, Continue, Goto, Moves, Elsewhere, world, Steps, AwaitingSteps
<1>7. CASE ChallengeBind(e)
  BY <1>7, UpdateRunMoves
  DEF ChallengeBind, Elsewhere, world, Steps
<1>8. CASE ChallengeDecide(e)
  BY <1>8, AdvanceMoves, CloseMoves
  DEF ChallengeDecide, Elsewhere, world, Steps, AwaitingSteps, RepairOrBlock
<1> QED
  BY <1>1, <1>2, <1>3, <1>4, <1>5, <1>6, <1>7, <1>8 DEF Challenge

LEMMA RepairElsewhere ==
  ASSUME NEW e \in Executors, Repair(e)
  PROVE  Elsewhere(e)
<1>1. CASE RepairRejected(e)
  BY <1>1, CloseMoves, LeaveMoves
  DEF RepairRejected, Elsewhere, world
<1>2. CASE \E patch \in RepairOutputs : RepairCandidate(e, patch)
  BY <1>2
  DEF RepairCandidate, Continue, Goto, Moves, Elsewhere, world, Steps, AwaitingSteps
<1>3. CASE RepairCheckpoint(e)
  BY <1>3, CheckpointMoves
  DEF RepairCheckpoint, Steps, AwaitingSteps
<1>4. CASE RepairSave(e)
  BY <1>4
  DEF RepairSave, Continue, Goto, Moves, Elsewhere, world, Steps, AwaitingSteps
<1>5. CASE RepairBind(e)
  BY <1>5, UpdateRunMoves
  DEF RepairBind, Elsewhere, world, Steps
<1> QED
  BY <1>1, <1>2, <1>3, <1>4, <1>5 DEF Repair

LEMMA PackageAndReviewElsewhere ==
  ASSUME NEW e \in Executors, PackageAndReview(e)
  PROVE  Elsewhere(e)
<1>1. CASE PackageOpen(e)
  BY <1>1, OpenMoves
  DEF PackageOpen, Steps, AwaitingSteps
<1>2. CASE PackageRejected(e)
  BY <1>2, CloseMoves
  DEF PackageRejected, Elsewhere, world
<1>3. CASE PackageCapsule(e)
  BY <1>3
  DEF PackageCapsule, Continue, Goto, Moves, Elsewhere, world, Steps, AwaitingSteps
<1>4. CASE ReviewOpen(e)
  BY <1>4, OpenMoves
  DEF ReviewOpen, Steps, AwaitingSteps
<1>5. CASE ReviewRejected(e)
  BY <1>5, CloseMoves
  DEF ReviewRejected, Elsewhere, world
<1>6. CASE ReviewApproved(e)
  BY <1>6
  DEF ReviewApproved, Continue, Goto, Moves, Elsewhere, world, Steps, AwaitingSteps
<1>7. CASE ReviewBind(e)
  BY <1>7, UpdateRunMoves
  DEF ReviewBind, Elsewhere, world, Steps
<1>8. CASE ReviewSave(e)
  BY <1>8
  DEF ReviewSave, Continue, Goto, Moves, Elsewhere, world, Steps, AwaitingSteps
<1>9. CASE ReviewDone(e)
  BY <1>9, AdvanceMoves
  DEF ReviewDone, Elsewhere, world, Steps, AwaitingSteps
<1> QED
  BY <1>1, <1>2, <1>3, <1>4, <1>5, <1>6, <1>7, <1>8, <1>9 DEF
     PackageAndReview

-----------------------------------------------------------------------------
(* Every step keeps the invariant. *)

\* A process that moves elsewhere takes no draft with it and opens the way to
\* none.
LEMMA ElsewhereKeepsIInv ==
  ASSUME IInv, NEW e \in Executors, Elsewhere(e)
  PROVE  IInv'
<1>1. PICK step \in Steps \ {"submit.draft"} : pc' = [pc EXCEPT ![e] = step]
  BY DEF Elsewhere, Moves
<1>2. pc \in [Executors -> Steps] /\ fork' = fork
  BY DEF IInv, Elsewhere
<1>3. pc' \in [Executors -> Steps]
  BY <1>1, <1>2
<1>4. \A f \in Executors : pc'[f] = "submit.draft" => pc[f] = "submit.draft"
  BY <1>1, <1>2
<1> QED
  BY <1>2, <1>3, <1>4 DEF IInv, OneWriter, AtMostOneDraft

\* The branch is created once: whoever creates it is the only writer.
LEMMA SubmitBranchKeepsIInv ==
  ASSUME IInv, NEW e \in Executors, SubmitBranch(e)
  PROVE  IInv'
<1>1. CASE fork.branch
  <2>1. Elsewhere(e)
    BY <1>1, LeaveMoves DEF SubmitBranch, Elsewhere
  <2> QED
    BY <2>1, ElsewhereKeepsIInv
<1>2. CASE ~fork.branch
  <2>1. /\ pc' = [pc EXCEPT ![e] = "submit.draft"]
        /\ fork' = [fork EXCEPT !.branch = TRUE]
    BY <1>2 DEF SubmitBranch, Goto
  <2>2. /\ pc \in [Executors -> Steps]
        /\ fork = [branch |-> fork.branch, drafts |-> fork.drafts]
        /\ fork.drafts = <<>>
        /\ \A f \in Executors : pc[f] # "submit.draft"
    BY <1>2 DEF IInv, OneWriter
  <2>3. fork'.branch = TRUE /\ fork'.drafts = <<>>
    BY <2>1, <2>2
  <2>4. fork' = [branch |-> fork'.branch, drafts |-> fork'.drafts]
    BY <2>1, <2>2
  <2>5. pc' \in [Executors -> Steps]
    BY <2>1, <2>2 DEF Steps, AwaitingSteps
  <2>6. OneWriter'
    BY <2>1, <2>2, <2>3 DEF OneWriter
  <2>7. AtMostOneDraft'
    BY <2>3 DEF AtMostOneDraft
  <2> QED
    BY <2>4, <2>5, <2>6, <2>7 DEF IInv
<1> QED
  BY <1>1, <1>2

\* The only writer opens the only draft, and is a writer no more.
LEMMA SubmitDraftKeepsIInv ==
  ASSUME IInv, NEW e \in Executors, SubmitDraft(e)
  PROVE  IInv'
<1> DEFINE draft == [contribution |-> local[e].art.contribution,
                     capsule |-> local[e].art.capsule]
<1>1. /\ pc[e] = "submit.draft"
      /\ pc' = [pc EXCEPT ![e] = "submit.audit"]
      /\ fork' = [fork EXCEPT !.drafts = Append(@, draft)]
  BY DEF SubmitDraft, At, Goto
<1>2. /\ pc \in [Executors -> Steps]
      /\ fork = [branch |-> fork.branch, drafts |-> fork.drafts]
      /\ fork.branch
      /\ fork.drafts = <<>>
      /\ \A f \in Executors : pc[f] = "submit.draft" => f = e
  BY <1>1 DEF IInv, OneWriter
<1> HIDE DEF draft
<1>3. fork'.branch /\ fork'.drafts = Append(<<>>, draft)
  BY <1>1, <1>2
<1>4. fork' = [branch |-> fork'.branch, drafts |-> fork'.drafts]
  BY <1>1, <1>2
<1>5. Len(Append(<<>>, draft)) = 1
  <2>1. <<>> \in Seq({draft})
    OBVIOUS
  <2> QED
    BY <2>1
<1>6. AtMostOneDraft'
  BY <1>3, <1>5 DEF AtMostOneDraft
<1>7. pc' \in [Executors -> Steps]
  BY <1>1, <1>2 DEF Steps, AwaitingSteps
<1>8. \A f \in Executors : pc'[f] # "submit.draft"
  BY <1>1, <1>2
<1>9. OneWriter'
  BY <1>3, <1>8 DEF OneWriter
<1> QED
  BY <1>4, <1>6, <1>7, <1>9 DEF IInv

LEMMA SubmitKeepsIInv ==
  ASSUME IInv, NEW e \in Executors, Submit(e)
  PROVE  IInv'
<1>1. CASE SubmitOpen(e)
  BY <1>1, OpenMoves, ElsewhereKeepsIInv DEF SubmitOpen, Steps, AwaitingSteps
<1>2. CASE SubmitBoundary(e)
  <2>1. Elsewhere(e)
    BY <1>2, LeaveMoves
    DEF SubmitBoundary, Goto, Moves, Elsewhere, world, Steps, AwaitingSteps
  <2> QED
    BY <2>1, ElsewhereKeepsIInv
<1>3. CASE SubmitBranch(e)
  BY <1>3, SubmitBranchKeepsIInv
<1>4. CASE SubmitDraft(e)
  BY <1>4, SubmitDraftKeepsIInv
<1>5. CASE SubmitAudit(e)
  <2>1. Elsewhere(e)
    BY <1>5, LeaveMoves
    DEF SubmitAudit, Continue, Goto, Moves, Elsewhere, Steps, AwaitingSteps
  <2> QED
    BY <2>1, ElsewhereKeepsIInv
<1>6. CASE SubmitBind(e)
  <2>1. Elsewhere(e)
    BY <1>6, UpdateRunMoves DEF SubmitBind, Elsewhere, world, Steps
  <2> QED
    BY <2>1, ElsewhereKeepsIInv
<1>7. CASE SubmitDone(e)
  <2>1. Elsewhere(e)
    BY <1>7, AdvanceMoves DEF SubmitDone, Elsewhere, world, Steps
  <2> QED
    BY <2>1, ElsewhereKeepsIInv
<1> QED
  BY <1>1, <1>2, <1>3, <1>4, <1>5, <1>6, <1>7 DEF Submit

LEMMA WorkKeepsIInv ==
  ASSUME IInv, NEW e \in Executors, Work(e)
  PROVE  IInv'
<1>1. CASE Reload(e) \/ DriveReturns(e) \/ EnvironmentFails(e)
  <2>1. Elsewhere(e)
    BY <1>1, LeaveMoves
    DEF Reload, DriveReturns, EnvironmentFails, Continue, Goto, Moves, Elsewhere,
        world, Steps
  <2> QED
    BY <2>1, ElsewhereKeepsIInv
<1>2. CASE Authorize(e) \/ Prepare(e) \/ UnderstandAndPlan(e) \/ Solve(e)
  BY <1>2, AuthorizeElsewhere, PrepareElsewhere, UnderstandAndPlanElsewhere,
     SolveElsewhere, ElsewhereKeepsIInv
<1>3. CASE \E p \in Paths : WriteOne(e, p)
  <2>1. PICK p \in Paths : WriteOne(e, p)
    BY <1>3
  <2>2. Elsewhere(e)
    BY <2>1
    DEF WriteOne, At, Continue, Goto, Moves, Elsewhere, world, Steps
  <2> QED
    BY <2>2, ElsewhereKeepsIInv
<1>4. CASE Validate(e) \/ Challenge(e) \/ Repair(e) \/ PackageAndReview(e)
  BY <1>4, ValidateElsewhere, ChallengeElsewhere, RepairElsewhere,
     PackageAndReviewElsewhere, ElsewhereKeepsIInv
<1>5. CASE Submit(e)
  BY <1>5, SubmitKeepsIInv
<1> QED
  BY <1>1, <1>2, <1>3, <1>4, <1>5 DEF Work

LEMMA StepKeepsIInv == IInv /\ [Next]_vars => IInv'
<1> SUFFICES ASSUME IInv, [Next]_vars PROVE IInv'
  OBVIOUS
<1>1. ASSUME NEW e \in Executors, NEW review \in BOOLEAN, StartDrive(e, review)
      PROVE  IInv'
  <2>1. Elsewhere(e)
    BY <1>1 DEF StartDrive, Continue, Goto, Moves, Elsewhere, world, Steps
  <2> QED
    BY <2>1, ElsewhereKeepsIInv
<1>2. ASSUME NEW e \in Executors, Work(e)
      PROVE  IInv'
  BY <1>2, WorkKeepsIInv
<1>3. ASSUME NEW e \in Executors, Crash(e) \/ \E p \in Paths : CrashInWrite(e, p)
      PROVE  IInv'
  <2>1. Elsewhere(e)
    BY <1>3, LeaveMoves DEF Crash, CrashInWrite, Elsewhere, world
  <2> QED
    BY <2>1, ElsewhereKeepsIInv
<1>4. CASE \/ \E p \in Paths, content \in Contents : SomebodyWrites(p, content)
           \/ Lapse \/ UNCHANGED vars
  <2>1. UNCHANGED <<fork, pc>>
    BY <1>4 DEF SomebodyWrites, Lapse, vars, world
  <2> QED
    BY <2>1 DEF IInv, OneWriter, AtMostOneDraft
<1> QED
  BY <1>1, <1>2, <1>3, <1>4, StepCases

LEMMA InitEstablishesIInv == Init => IInv
BY DEF Init, IInv, OneWriter, AtMostOneDraft, Steps

-----------------------------------------------------------------------------
\* However many processes drive a run, wherever they die and however often
\* they are started again, they open at most one draft pull request for it.
THEOREM AtMostOneDraftOpened == Spec => []AtMostOneDraft
<1>1. IInv => AtMostOneDraft
  BY DEF IInv
<1> QED
  BY <1>1, InitEstablishesIInv, StepKeepsIInv, PTL DEF Spec

=============================================================================
