--------------------------- MODULE PipelineProofs ---------------------------
(***************************************************************************)
(* For any number of processes, commands and repositories: the state of    *)
(* the pipeline keeps its type, every pull request has an approved         *)
(* decision of its own in the audit ledger, a run stops at the breaker's   *)
(* threshold, and a repository gets at most one pull request from the      *)
(* analysis of each process.                                               *)
(*                                                                         *)
(* PullsHaveReceipts is not inductive by itself: a process that is about   *)
(* to open a pull request carries the number of its receipt in memory.     *)
(* The strengthening says what those numbers are: positions of the ledger, *)
(* of the right repository, used by no pull request yet and by no other    *)
(* process that is about to open one.                                      *)
(***************************************************************************)
EXTENDS Pipeline, FiniteSetTheorems, SequenceTheorems, TLAPS

\* Steps at which a process works on a repository.
InHandSteps == {"analyze", "generate", "admit", "create", "record", "issues", "issue"}

\* A process at one of these steps has a repository in hand.
RepoInHand ==
  \A p \in Processes : pc[p] \in InHandSteps => local[p].repo \in Repos

ReceiptHeld ==
  \A p \in Processes :
    pc[p] = "create" =>
      /\ local[p].receipt \in DOMAIN receipts
      /\ receipts[local[p].receipt] = local[p].repo
      /\ \A i \in DOMAIN pulls : pulls[i].receipt # local[p].receipt

ReceiptsDistinct ==
  \A p, q \in Processes :
    pc[p] = "create" /\ pc[q] = "create" /\ p # q =>
      local[p].receipt # local[q].receipt

IInv == TypeOK /\ RepoInHand /\ ReceiptHeld /\ ReceiptsDistinct /\ PullsHaveReceipts

\* What every step of a process has in common that does not end at "create".
Moves(p) ==
  \E step \in Steps \ {"create"}, held \in LocalRecord :
    /\ step \in InHandSteps => held.repo \in Repos
    /\ pc' = [pc EXCEPT ![p] = step]
    /\ local' = [local EXCEPT ![p] = held]

BreakersTyped == breaker' \in [Processes -> BreakerRecord]

\* The pull requests stay; only their rows may change.
SamePulls ==
  /\ pulls' \in Seq(PullRecord)
  /\ DOMAIN pulls' = DOMAIN pulls
  /\ \A i \in DOMAIN pulls :
       pulls'[i].receipt = pulls[i].receipt /\ pulls'[i].repo = pulls[i].repo

-----------------------------------------------------------------------------
(* The breaker *)

LEMMA BreakerTypes ==
  ASSUME NEW b \in BreakerRecord
  PROVE  /\ NewBreaker \in BreakerRecord
         /\ AfterAllow(b) \in BreakerRecord
         /\ RecordSuccess(b) \in BreakerRecord
         /\ RecordFailure(b) \in BreakerRecord
         /\ CoolDown(b) \in BreakerRecord
<1>1. NewBreaker \in BreakerRecord
  BY DEF BreakerRecord, NewBreaker
<1>2. AfterAllow(b) \in BreakerRecord
  BY DEF BreakerRecord, AfterAllow
<1>3. RecordSuccess(b) \in BreakerRecord
  <2> DEFINE cleared == [b EXCEPT !.failures = 0]
             closed == [cleared EXCEPT !.mode = "closed", !.successes = 0]
             counted == [cleared EXCEPT !.successes = @ + 1]
  <2>1. cleared \in BreakerRecord
    BY DEF BreakerRecord
  <2>2. closed \in BreakerRecord /\ counted \in BreakerRecord
    <3> HIDE DEF cleared
    <3>1. \A d \in BreakerRecord :
            /\ [d EXCEPT !.mode = "closed"] \in BreakerRecord
            /\ [d EXCEPT !.successes = 0] \in BreakerRecord
      BY DEF BreakerRecord
    <3>2. closed \in BreakerRecord
      BY <2>1, <3>1, Zenon
    <3>3. counted \in BreakerRecord
      BY <2>1 DEF BreakerRecord
    <3>4. QED BY <3>2, <3>3
  <2>3. RecordSuccess(b) = IF b.mode # "half_open" THEN cleared
                           ELSE IF b.successes + 1 >= SuccessThreshold THEN closed ELSE counted
    BY Zenon DEF RecordSuccess
  <2> HIDE DEF cleared, closed, counted
  <2>4. QED BY <2>1, <2>2, <2>3
<1>4. RecordFailure(b) \in BreakerRecord
  <2> DEFINE counted == [b EXCEPT !.failures = @ + 1]
             opened == [counted EXCEPT !.mode = "open", !.cooled = FALSE]
             reopened == [opened EXCEPT !.successes = 0]
  <2>1. counted \in BreakerRecord
    BY DEF BreakerRecord
  <2>2. \A d \in BreakerRecord :
          /\ [d EXCEPT !.mode = "open"] \in BreakerRecord
          /\ [d EXCEPT !.cooled = FALSE] \in BreakerRecord
          /\ [d EXCEPT !.successes = 0] \in BreakerRecord
    BY DEF BreakerRecord
  <2>3. opened \in BreakerRecord /\ reopened \in BreakerRecord
    <3> HIDE DEF counted
    <3>1. QED BY <2>1, <2>2, Zenon
  <2>4. RecordFailure(b) = CASE b.mode = "closed" /\ counted.failures >= FailureThreshold -> opened
                             [] b.mode = "half_open" -> reopened
                             [] OTHER -> counted
    BY Zenon DEF RecordFailure
  <2> HIDE DEF counted, opened, reopened
  <2>5. QED BY <2>1, <2>3, <2>4
<1>5. CoolDown(b) \in BreakerRecord
  BY DEF BreakerRecord, CoolDown
<1>6. QED BY <1>1, <1>2, <1>3, <1>4, <1>5

-----------------------------------------------------------------------------
(* How calls return *)

LEMMA NoLocalType == NoLocal \in LocalRecord
BY DEF NoLocal, LocalRecord

\* Any field but the command may be given any value of its type.
LEMMA LocalUpdates ==
  ASSUME NEW l \in LocalRecord
  PROVE  /\ \A s \in SUBSET Repos : [l EXCEPT !.todo = s] \in LocalRecord
         /\ \A r \in Repos \cup {None} : [l EXCEPT !.repo = r] \in LocalRecord
         /\ \A f \in {"repo", "issues"} : [l EXCEPT !.phase = f] \in LocalRecord
         /\ \A b \in BOOLEAN : /\ [l EXCEPT !.globally = b] \in LocalRecord
                              /\ [l EXCEPT !.failed = b] \in LocalRecord
         /\ \A n \in Nat : /\ [l EXCEPT !.remaining = n] \in LocalRecord
                          /\ [l EXCEPT !.made = n] \in LocalRecord
                          /\ [l EXCEPT !.before = n] \in LocalRecord
                          /\ [l EXCEPT !.found = n] \in LocalRecord
                          /\ [l EXCEPT !.issues = n] \in LocalRecord
                          /\ [l EXCEPT !.searched = n] \in LocalRecord
                          /\ [l EXCEPT !.receipt = n] \in LocalRecord
                          /\ [l EXCEPT !.round = n] \in LocalRecord
                          /\ [l EXCEPT !.streak = n] \in LocalRecord
BY DEF LocalRecord

LEMMA FinishMoves ==
  ASSUME TypeOK, NEW p \in Processes, Finish(p)
  PROVE  Moves(p) /\ BreakersTyped
<1>1. Moves(p)
  BY NoLocalType DEF Finish, Goto, Moves, Steps, AwaitingSteps, InHandSteps
<1>2. BreakersTyped
  BY BreakerTypes DEF Finish, BreakersTyped, TypeOK
<1>3. QED BY <1>1, <1>2

LEMMA RepoReturnsMoves ==
  ASSUME TypeOK, NEW p \in Processes, NEW held \in LocalRecord, held.repo \in Repos,
         NEW ok \in BOOLEAN, RepoReturns(p, held, ok)
  PROVE  Moves(p) /\ BreakersTyped
<1> DEFINE told == IF ok THEN RecordSuccess(breaker[p]) ELSE RecordFailure(breaker[p])
<1>1. told \in BreakerRecord
  BY BreakerTypes DEF TypeOK
<1>2. CASE held.command = "target"
  BY <1>2, FinishMoves DEF RepoReturns
<1>3. CASE held.command = "run"
  <2> DEFINE l == [held EXCEPT !.repo = None, !.made = 0, !.failed = FALSE,
                               !.streak = IF ok THEN 0 ELSE @ + 1]
  <2>1. l \in LocalRecord
    <3>1. (IF ok THEN 0 ELSE held.streak + 1) \in Nat
      BY DEF LocalRecord
    <3>2. QED BY <3>1, LocalUpdates
  <2>2. Goto(p, "next", l) /\ breaker' = [breaker EXCEPT ![p] = told]
    BY <1>3 DEF RepoReturns
  <2>3. QED BY <2>1, <2>2, <1>1 DEF Goto, Moves, BreakersTyped, TypeOK, Steps, AwaitingSteps, InHandSteps
<1>4. CASE held.command \notin {"target", "run"}
  <2> DEFINE l == [held EXCEPT !.phase = "issues", !.failed = FALSE,
                               !.before = held.made, !.made = 0]
  <2>1. l \in LocalRecord /\ l.repo \in Repos
    BY DEF LocalRecord
  <2>2. Goto(p, "issues", l) /\ breaker' = [breaker EXCEPT ![p] = told]
    BY <1>4 DEF RepoReturns
  <2>3. QED BY <2>1, <2>2, <1>1 DEF Goto, Moves, BreakersTyped, TypeOK, Steps, AwaitingSteps, InHandSteps
<1>5. QED BY <1>2, <1>3, <1>4

LEMMA IssuesReturnMoves ==
  ASSUME TypeOK, NEW p \in Processes, NEW held \in LocalRecord, IssuesReturn(p, held)
  PROVE  Moves(p) /\ BreakersTyped
<1> DEFINE got == held.before + held.made
           l == [held EXCEPT !.repo = None, !.phase = "repo", !.before = 0, !.made = 0,
                             !.issues = 0, !.failed = FALSE, !.receipt = 0]
           selecting == [l EXCEPT !.remaining = Minus(@, got)]
           sleeping == [l EXCEPT !.globally = FALSE, !.found = 0, !.searched = 0]
           searching == [l EXCEPT !.found = @ + got]
<1>1. l \in LocalRecord /\ got \in Nat
  <2>1. l \in LocalRecord
    BY LocalUpdates
  <2>2. got \in Nat
    BY DEF LocalRecord
  <2>3. QED BY <2>1, <2>2
<1>2. selecting \in LocalRecord /\ sleeping \in LocalRecord /\ searching \in LocalRecord
  <2> HIDE DEF l, got
  <2>1. Minus(l.remaining, got) \in Nat /\ l.found + got \in Nat
    BY <1>1 DEF Minus, LocalRecord
  <2>2. QED BY <1>1, <2>1, LocalUpdates
<1>3. CASE held.command = "solve"
  BY <1>3, FinishMoves DEF IssuesReturn
<1>4. CASE held.command # "solve"
  <2>1. /\ breaker' = breaker
        /\ \/ Goto(p, "select", selecting)
           \/ Goto(p, "sleep", sleeping)
           \/ Goto(p, "search", searching)
    BY <1>4 DEF IssuesReturn
  <2> HIDE DEF selecting, sleeping, searching
  <2>2. QED BY <2>1, <1>2 DEF Goto, Moves, BreakersTyped, TypeOK, Steps, AwaitingSteps, InHandSteps
<1>5. QED BY <1>3, <1>4

LEMMA AttemptOverMoves ==
  ASSUME TypeOK, NEW p \in Processes, NEW held \in LocalRecord, held.repo \in Repos,
         AttemptOver(p, held)
  PROVE  Moves(p) /\ BreakersTyped
<1> DEFINE l == [held EXCEPT !.receipt = 0]
<1>1. l \in LocalRecord /\ l.repo \in Repos /\ (~l.failed) \in BOOLEAN
  BY DEF LocalRecord
<1>2. CASE RepoReturns(p, l, ~l.failed)
  <2> HIDE DEF l
  <2>1. QED BY <1>1, <1>2, RepoReturnsMoves
<1>3. CASE IssuesReturn(p, l)
  BY <1>1, <1>3, IssuesReturnMoves
<1>4. CASE Goto(p, "issue", [l EXCEPT !.issues = @ - 1]) /\ l.issues > 1 /\ UNCHANGED breaker
  <2>1. [l EXCEPT !.issues = @ - 1] \in LocalRecord /\ [l EXCEPT !.issues = @ - 1].repo \in Repos
    <3> HIDE DEF l
    <3>1. QED BY <1>1, <1>4 DEF LocalRecord
  <2>2. QED BY <2>1, <1>4 DEF Goto, Moves, BreakersTyped, TypeOK, Steps, AwaitingSteps, InHandSteps
<1>5. l.issues \in Nat
  BY <1>1 DEF LocalRecord
<1>6. QED BY <1>2, <1>3, <1>4, <1>5 DEF AttemptOver

LEMMA CallFailsMoves ==
  ASSUME TypeOK, NEW p \in Processes, local[p].repo \in Repos, CallFails(p)
  PROVE  Moves(p) /\ BreakersTyped
<1> DEFINE l == [local[p] EXCEPT !.made = 0, !.receipt = 0]
<1>1. l \in LocalRecord /\ l.repo \in Repos
  BY DEF TypeOK, LocalRecord
<1>2. RepoReturns(p, l, FALSE) \/ IssuesReturn(p, l)
  BY DEF CallFails
<1> HIDE DEF l
<1>3. QED BY <1>1, <1>2, RepoReturnsMoves, IssuesReturnMoves

-----------------------------------------------------------------------------
(* What a step does to the invariant *)

\* A step that opens nothing and approves nothing.
LEMMA MovePreserves ==
  ASSUME IInv, NEW p \in Processes, Moves(p), BreakersTyped, SamePulls,
         receipts' = receipts, analyzed' \in [Repos -> Ages], started' \in Nat
  PROVE  IInv'
<1> PICK step \in Steps \ {"create"}, held \in LocalRecord :
      /\ step \in InHandSteps => held.repo \in Repos
      /\ pc' = [pc EXCEPT ![p] = step]
      /\ local' = [local EXCEPT ![p] = held]
  BY DEF Moves
<1>1. TypeOK'
  BY DEF IInv, TypeOK, BreakersTyped, SamePulls
<1>2. RepoInHand'
  BY DEF IInv, TypeOK, RepoInHand
<1>3. \A q \in Processes : pc'[q] = "create" => q # p /\ pc[q] = "create" /\ local'[q] = local[q]
  BY DEF IInv, TypeOK
<1>4. ReceiptHeld'
  BY <1>3 DEF IInv, ReceiptHeld, SamePulls
<1>5. ReceiptsDistinct'
  BY <1>3 DEF IInv, ReceiptsDistinct
<1>6. PullsHaveReceipts'
  BY DEF IInv, PullsHaveReceipts, SamePulls
<1>7. QED BY <1>1, <1>2, <1>4, <1>5, <1>6 DEF IInv

\* A step that opens the pull request its process holds a receipt for.
LEMMA OpeningPreserves ==
  ASSUME IInv, NEW p \in Processes, pc[p] = "create", Moves(p), BreakersTyped,
         pulls' = Opened(p), receipts' = receipts, analyzed' = analyzed, started' = started
  PROVE  IInv'
<1> PICK step \in Steps \ {"create"}, held \in LocalRecord :
      /\ step \in InHandSteps => held.repo \in Repos
      /\ pc' = [pc EXCEPT ![p] = step]
      /\ local' = [local EXCEPT ![p] = held]
  BY DEF Moves
<1> DEFINE new == [repo |-> local[p].repo, phase |-> local[p].phase,
                   receipt |-> local[p].receipt, row |-> "none"]
<1>1. new \in PullRecord
  <2>1. local[p].repo \in Repos /\ local[p].phase \in {"repo", "issues"}
    BY DEF IInv, TypeOK, RepoInHand, InHandSteps, LocalRecord
  <2>2. local[p].receipt \in Nat \ {0}
    BY DEF IInv, TypeOK, ReceiptHeld
  <2>3. QED BY <2>1, <2>2 DEF PullRecord
<1>2. /\ pulls' = Append(pulls, new)
      /\ pulls' \in Seq(PullRecord)
      /\ DOMAIN pulls' = DOMAIN pulls \cup {Len(pulls) + 1}
      /\ \A i \in DOMAIN pulls : pulls'[i] = pulls[i]
      /\ pulls'[Len(pulls) + 1] = new
      /\ Len(pulls) + 1 \notin DOMAIN pulls
  <2> HIDE DEF new
  <2>1. pulls' = Append(pulls, new)
    BY DEF Opened, new
  <2>2. QED BY <2>1, <1>1 DEF IInv, TypeOK
<1>3. TypeOK'
  BY <1>2 DEF IInv, TypeOK, BreakersTyped
<1>4. RepoInHand'
  BY DEF IInv, TypeOK, RepoInHand
<1>5. \A q \in Processes : pc'[q] = "create" => q # p /\ pc[q] = "create" /\ local'[q] = local[q]
  BY DEF IInv, TypeOK
<1>6. ReceiptHeld'
  <2> SUFFICES ASSUME NEW q \in Processes, pc'[q] = "create"
               PROVE  /\ local'[q].receipt \in DOMAIN receipts'
                      /\ receipts'[local'[q].receipt] = local'[q].repo
                      /\ \A i \in DOMAIN pulls' : pulls'[i].receipt # local'[q].receipt
    BY DEF ReceiptHeld
  <2>1. new.receipt # local[q].receipt
    BY <1>5 DEF IInv, ReceiptsDistinct
  <2> HIDE DEF new
  <2>2. QED BY <1>2, <1>5, <2>1 DEF IInv, ReceiptHeld
<1>7. ReceiptsDistinct'
  BY <1>5 DEF IInv, ReceiptsDistinct
<1>8. PullsHaveReceipts'
  <2>1. /\ new.receipt \in DOMAIN receipts /\ receipts[new.receipt] = new.repo
        /\ \A i \in DOMAIN pulls : pulls[i].receipt # new.receipt
    BY DEF IInv, ReceiptHeld
  <2> HIDE DEF new
  <2>2. QED BY <1>2, <2>1 DEF IInv, PullsHaveReceipts
<1>9. QED BY <1>3, <1>4, <1>6, <1>7, <1>8 DEF IInv

-----------------------------------------------------------------------------
(* Every step preserves the invariant *)

LEMMA InitInvariant == Init => IInv
<1> SUFFICES ASSUME Init PROVE IInv
  OBVIOUS
<1>1. TypeOK
  <2>1. \A p \in Processes : NewBreaker \in BreakerRecord
    BY DEF NewBreaker, BreakerRecord
  <2>2. QED BY <2>1, NoLocalType DEF Init, TypeOK, Ages, Steps
<1>2. RepoInHand /\ ReceiptHeld /\ ReceiptsDistinct
  BY DEF Init, RepoInHand, ReceiptHeld, ReceiptsDistinct, InHandSteps
<1>3. PullsHaveReceipts
  BY DEF Init, PullsHaveReceipts
<1>4. QED BY <1>1, <1>2, <1>3 DEF IInv

\* Goto to any step but "create" is a move, whatever the breaker does.
LEMMA GotoMoves ==
  ASSUME NEW p \in Processes, NEW step \in Steps \ {"create"}, NEW held \in LocalRecord,
         step \in InHandSteps => held.repo \in Repos, Goto(p, step, held)
  PROVE  Moves(p)
BY DEF Goto, Moves

LEMMA SameStays ==
  ASSUME IInv, UNCHANGED <<pulls, receipts>>
  PROVE  SamePulls /\ receipts' = receipts
BY DEF IInv, TypeOK, SamePulls

LEMMA RowUpdates ==
  ASSUME NEW pull \in PullRecord, NEW row \in Ages \cup {"none"}
  PROVE  /\ [pull EXCEPT !.row = row] \in PullRecord
         /\ [pull EXCEPT !.row = row].receipt = pull.receipt
         /\ [pull EXCEPT !.row = row].repo = pull.repo
<1>1. [pull EXCEPT !.row = row] \in PullRecord
  BY DEF PullRecord
<1>2. QED BY <1>1 DEF PullRecord

\* A step that only changes rows.
LEMMA RowsChange ==
  ASSUME TypeOK, NEW rows \in [DOMAIN pulls -> Ages \cup {"none"}],
         pulls' = [i \in DOMAIN pulls |-> [pulls[i] EXCEPT !.row = rows[i]]]
  PROVE  SamePulls
<1>1. \A i \in DOMAIN pulls : pulls[i] \in PullRecord
  BY DEF TypeOK
<1>2. \A i \in DOMAIN pulls :
        /\ pulls'[i] \in PullRecord
        /\ pulls'[i].receipt = pulls[i].receipt
        /\ pulls'[i].repo = pulls[i].repo
  BY <1>1, RowUpdates
<1>3. DOMAIN pulls' = DOMAIN pulls
  OBVIOUS
<1>4. pulls' \in Seq(PullRecord)
  <2>1. DOMAIN pulls = 1..Len(pulls) /\ Len(pulls) \in Nat
    BY DEF TypeOK
  <2>2. pulls' \in [1..Len(pulls) -> PullRecord]
    BY <1>2, <2>1
  <2>3. QED BY <2>1, <2>2, SeqDef
<1>5. QED BY <1>2, <1>3, <1>4 DEF SamePulls

LEMMA TodayCountType ==
  ASSUME TypeOK
  PROVE  TodayCount \in Nat
<1>1. DOMAIN pulls = 1..Len(pulls) /\ Len(pulls) \in Nat
  BY DEF TypeOK
<1>2. IsFiniteSet(DOMAIN pulls)
  BY <1>1, FS_Interval
<1>3. IsFiniteSet({i \in DOMAIN pulls : pulls[i].row = "today"})
  BY <1>2, FS_Subset
<1>4. QED BY <1>3, FS_CardinalityType DEF TodayCount

LEMMA StartPreserves ==
  ASSUME IInv, NEW p \in Processes, Start(p)
  PROVE  IInv'
<1>1. started' \in Nat /\ UNCHANGED <<memory, breaker>>
  <2>1. PICK command \in CommandNames : StartCommand(p, command)
    BY DEF Start, StartRun, StartTarget, StartSolve, StartHunt, CommandNames
  <2>2. QED BY <2>1 DEF StartCommand, IInv, TypeOK
<1>2. Moves(p)
  <2>1. ASSUME NEW repos \in SUBSET Repos, StartRun(p, repos)
        PROVE  Moves(p)
    <3> DEFINE l == [NoLocal EXCEPT !.command = "run", !.todo = repos,
                                    !.remaining = DailyLimit - TodayCount]
    <3>1. DailyLimit - TodayCount \in Nat
      BY <2>1, TodayCountType, PipelineAssumption DEF StartRun, IInv
    <3>2. [NoLocal EXCEPT !.command = "run"] \in LocalRecord
      BY NoLocalType DEF LocalRecord, CommandNames
    <3>3. l \in LocalRecord
      BY <3>1, <3>2, LocalUpdates, Zenon
    <3>4. Goto(p, "next", l)
      BY <2>1 DEF StartRun
    <3> HIDE DEF l
    <3>5. QED BY <3>3, <3>4, GotoMoves DEF Steps, InHandSteps
  <2>2. ASSUME NEW r \in Repos, StartTarget(p, r)
        PROVE  Moves(p)
    <3> DEFINE l == [NoLocal EXCEPT !.command = "target", !.repo = r]
    <3>1. l \in LocalRecord /\ l.repo = r
      BY NoLocalType DEF LocalRecord, CommandNames
    <3>2. Goto(p, "analyze", l)
      BY <2>2 DEF StartTarget
    <3> HIDE DEF l
    <3>3. QED BY <3>1, <3>2, GotoMoves DEF Steps, AwaitingSteps
  <2>3. ASSUME NEW r \in Repos, StartSolve(p, r)
        PROVE  Moves(p)
    <3> DEFINE l == [NoLocal EXCEPT !.command = "solve", !.repo = r,
                                    !.phase = "issues", !.remaining = DailyLimit]
    <3>1. [NoLocal EXCEPT !.command = "solve"] \in LocalRecord
      BY NoLocalType DEF LocalRecord, CommandNames
    <3>2. l \in LocalRecord
      BY <3>1, LocalUpdates, PipelineAssumption
    <3>3. l.repo = r
      BY NoLocalType DEF LocalRecord
    <3>4. Goto(p, "issues", l)
      BY <2>3 DEF StartSolve
    <3> HIDE DEF l
    <3>5. QED BY <3>2, <3>3, <3>4, GotoMoves DEF Steps, AwaitingSteps
  <2>4. ASSUME StartHunt(p)
        PROVE  Moves(p)
    <3> DEFINE l == [NoLocal EXCEPT !.command = "hunt", !.round = 1]
    <3>1. l \in LocalRecord
      BY NoLocalType DEF LocalRecord, CommandNames
    <3>2. Goto(p, "round", l)
      BY <2>4 DEF StartHunt
    <3> HIDE DEF l
    <3>3. QED BY <3>1, <3>2, GotoMoves DEF Steps, InHandSteps
  <2>5. QED BY <2>1, <2>2, <2>3, <2>4 DEF Start
<1>3. SamePulls /\ receipts' = receipts /\ analyzed' \in [Repos -> Ages] /\ BreakersTyped
  BY <1>1, SameStays DEF memory, IInv, TypeOK, BreakersTyped
<1>4. QED BY <1>1, <1>2, <1>3, MovePreserves

LEMMA ProcessRepoPreserves ==
  ASSUME IInv, NEW p \in Processes, ProcessRepo(p)
  PROVE  IInv'
<1>1. TypeOK /\ local[p] \in LocalRecord
  BY DEF IInv, TypeOK
<1>2. local[p].repo \in Repos
  BY DEF ProcessRepo, RepoOptsOut, AnalysisFails, Analyze, Generate, At, IInv, RepoInHand, InHandSteps
<1>3. ASSUME RepoOptsOut(p)
      PROVE  Moves(p) /\ BreakersTyped /\ UNCHANGED <<memory, started>>
  BY <1>1, <1>2, <1>3, RepoReturnsMoves DEF RepoOptsOut
<1>4. ASSUME AnalysisFails(p)
      PROVE  Moves(p) /\ BreakersTyped /\ UNCHANGED <<memory, started>>
  BY <1>1, <1>2, <1>4, CallFailsMoves DEF AnalysisFails
<1>5. ASSUME NEW findings \in BOOLEAN, Analyze(p, findings)
      PROVE  /\ Moves(p) /\ BreakersTyped /\ UNCHANGED <<pulls, receipts, started>>
             /\ analyzed' \in [Repos -> Ages]
  <2>1. UNCHANGED <<pulls, receipts, started>> /\ analyzed' \in [Repos -> Ages]
    BY <1>1, <1>5 DEF Analyze, TypeOK, Ages
  <2>2. CASE findings
    <3>1. Goto(p, "generate", local[p]) /\ breaker' = breaker
      BY <1>5, <2>2 DEF Analyze
    <3>2. QED BY <1>1, <1>2, <2>1, <3>1, GotoMoves DEF Steps, AwaitingSteps, BreakersTyped, TypeOK
  <2>3. CASE ~findings
    <3>1. RepoReturns(p, local[p], TRUE)
      BY <1>5, <2>3 DEF Analyze
    <3>2. QED BY <1>1, <1>2, <2>1, <3>1, RepoReturnsMoves
  <2>4. QED BY <2>2, <2>3
<1>6. ASSUME NEW failed \in BOOLEAN, NEW valid \in BOOLEAN, Generate(p, failed, valid)
      PROVE  Moves(p) /\ BreakersTyped /\ UNCHANGED <<memory, started>>
  <2> DEFINE l == [local[p] EXCEPT !.failed = failed]
  <2>1. l \in LocalRecord /\ l.repo \in Repos
    BY <1>1, <1>2 DEF LocalRecord
  <2>2. CASE valid /\ ~HasOpenRow(l.repo)
    <3>1. Goto(p, "admit", l) /\ breaker' = breaker /\ UNCHANGED <<memory, started>>
      BY <1>6, <2>2 DEF Generate
    <3> HIDE DEF l
    <3>2. QED BY <1>1, <2>1, <3>1, GotoMoves DEF Steps, AwaitingSteps, BreakersTyped, TypeOK
  <2>3. CASE ~(valid /\ ~HasOpenRow(l.repo))
    <3>1. RepoReturns(p, l, ~failed) /\ UNCHANGED <<memory, started>>
      BY <1>6, <2>3 DEF Generate
    <3> HIDE DEF l
    <3>2. QED BY <1>1, <2>1, <3>1, RepoReturnsMoves
  <2>4. QED BY <2>2, <2>3
<1>7. /\ Moves(p) /\ BreakersTyped /\ UNCHANGED <<pulls, receipts, started>>
      /\ analyzed' \in [Repos -> Ages]
  BY <1>1, <1>3, <1>4, <1>5, <1>6 DEF ProcessRepo, memory, TypeOK
<1>8. QED BY <1>1, <1>7, SameStays, MovePreserves DEF TypeOK

LEMMA ProcessIssuesPreserves ==
  ASSUME IInv, NEW p \in Processes, ProcessIssues(p)
  PROVE  IInv'
<1>1. TypeOK /\ local[p] \in LocalRecord
  BY DEF IInv, TypeOK
<1>2. local[p].repo \in Repos
  BY DEF ProcessIssues, FetchIssues, SolveIssue, At, IInv, RepoInHand, InHandSteps
<1>3. ASSUME NEW n \in Nat, FetchIssues(p, n)
      PROVE  Moves(p) /\ BreakersTyped /\ UNCHANGED <<memory, started>>
  <2> DEFINE l == [local[p] EXCEPT !.issues = n]
  <2>1. l \in LocalRecord /\ l.repo \in Repos
    BY <1>1, <1>2 DEF LocalRecord
  <2>2. CASE n = 0
    <3>1. IssuesReturn(p, l) /\ UNCHANGED <<memory, started>>
      BY <1>3, <2>2 DEF FetchIssues
    <3> HIDE DEF l
    <3>2. QED BY <1>1, <2>1, <3>1, IssuesReturnMoves
  <2>3. CASE n # 0
    <3>1. Goto(p, "issue", l) /\ breaker' = breaker /\ UNCHANGED <<memory, started>>
      BY <1>3, <2>3 DEF FetchIssues
    <3> HIDE DEF l
    <3>2. QED BY <1>1, <2>1, <3>1, GotoMoves DEF Steps, AwaitingSteps, BreakersTyped, TypeOK
  <2>4. QED BY <2>2, <2>3
<1>4. ASSUME NEW valid \in BOOLEAN, SolveIssue(p, valid)
      PROVE  Moves(p) /\ BreakersTyped /\ UNCHANGED <<memory, started>>
  <2>1. CASE valid
    <3>1. Goto(p, "admit", local[p]) /\ breaker' = breaker /\ UNCHANGED <<memory, started>>
      BY <1>4, <2>1 DEF SolveIssue
    <3>2. QED BY <1>1, <1>2, <3>1, GotoMoves DEF Steps, AwaitingSteps, BreakersTyped, TypeOK
  <2>2. CASE ~valid
    BY <1>1, <1>2, <1>4, <2>2, AttemptOverMoves DEF SolveIssue
  <2>3. QED BY <2>1, <2>2
<1>5. Moves(p) /\ BreakersTyped /\ UNCHANGED <<memory, started>>
  <2>1. 0..(DailyLimit + MaxGlobalIssues) \subseteq Nat
    BY PipelineAssumption
  <2>2. QED BY <1>3, <1>4, <2>1 DEF ProcessIssues
<1>6. QED BY <1>1, <1>5, SameStays, MovePreserves DEF TypeOK, memory

\* The receipt is new, so no pull request and no other process has it.
LEMMA ApprovalPreserves ==
  ASSUME IInv, NEW p \in Processes, AdmissionApproved(p)
  PROVE  IInv'
<1> DEFINE r == local[p].repo
           new == Len(receipts) + 1
           held == [local[p] EXCEPT !.receipt = new]
<1>1. TypeOK /\ local[p] \in LocalRecord /\ r \in Repos
  BY DEF AdmissionApproved, At, IInv, TypeOK, RepoInHand, InHandSteps
<1>2. /\ receipts' = Append(receipts, r)
      /\ receipts' \in Seq(Repos)
      /\ Len(receipts') = new
      /\ DOMAIN receipts' = DOMAIN receipts \cup {new}
      /\ \A i \in DOMAIN receipts : receipts'[i] = receipts[i]
      /\ receipts'[new] = r
      /\ new \notin DOMAIN receipts
      /\ new \in Nat
  <2>1. receipts' = Append(receipts, r)
    BY DEF AdmissionApproved
  <2> HIDE DEF r
  <2>2. QED BY <1>1, <2>1 DEF TypeOK
<1>3. /\ pc' = [pc EXCEPT ![p] = "create"]
      /\ local' = [local EXCEPT ![p] = held]
      /\ UNCHANGED <<analyzed, pulls, breaker, started>>
  BY <1>2 DEF AdmissionApproved, Goto
<1>4. held \in LocalRecord /\ held.repo = r /\ held.receipt = new
  <2> HIDE DEF new
  <2>1. QED BY <1>1, <1>2 DEF LocalRecord
<1> HIDE DEF r, new, held
<1>5. TypeOK'
  BY <1>1, <1>2, <1>3, <1>4 DEF TypeOK, Steps, AwaitingSteps
<1>6. RepoInHand'
  BY <1>1, <1>3, <1>4 DEF IInv, TypeOK, RepoInHand
<1>7. PullsHaveReceipts'
  BY <1>2, <1>3 DEF IInv, PullsHaveReceipts
<1>8. /\ local'[p].receipt = new /\ local'[p].repo = r
      /\ \A q \in Processes \ {p} : pc'[q] = pc[q] /\ local'[q] = local[q]
  BY <1>1, <1>3, <1>4 DEF TypeOK
<1>9. ReceiptHeld'
  <2> SUFFICES ASSUME NEW q \in Processes, pc'[q] = "create"
               PROVE  /\ local'[q].receipt \in DOMAIN receipts'
                      /\ receipts'[local'[q].receipt] = local'[q].repo
                      /\ \A i \in DOMAIN pulls' : pulls'[i].receipt # local'[q].receipt
    BY DEF ReceiptHeld
  <2>1. CASE q = p
    BY <1>2, <1>3, <1>8, <2>1 DEF IInv, PullsHaveReceipts
  <2>2. CASE q # p
    BY <1>2, <1>3, <1>8, <2>2 DEF IInv, ReceiptHeld
  <2>3. QED BY <2>1, <2>2
<1>10. ReceiptsDistinct'
  BY <1>2, <1>8 DEF IInv, ReceiptHeld, ReceiptsDistinct
<1>11. QED BY <1>5, <1>6, <1>7, <1>9, <1>10 DEF IInv

LEMMA AttemptPreserves ==
  ASSUME IInv, NEW p \in Processes, Attempt(p)
  PROVE  IInv'
<1>1. TypeOK /\ local[p] \in LocalRecord
  BY DEF IInv, TypeOK
<1>2. local[p].repo \in Repos
  BY DEF Attempt, AdmissionBlocked, AdmissionApproved, CreatePull, CreateFails, RecordPull,
         RecordFails, At, IInv, RepoInHand, InHandSteps
<1>3. CASE AdmissionBlocked(p)
  <2>1. Moves(p) /\ BreakersTyped /\ UNCHANGED <<memory, started>>
    BY <1>1, <1>2, <1>3, AttemptOverMoves DEF AdmissionBlocked
  <2>2. QED BY <1>1, <2>1, SameStays, MovePreserves DEF TypeOK, memory
<1>4. CASE AdmissionApproved(p)
  BY <1>4, ApprovalPreserves
<1>5. CASE CreatePull(p)
  <2>1. Moves(p)
    BY <1>1, <1>2, <1>5, GotoMoves DEF CreatePull, Steps
  <2>2. BreakersTyped
    BY <1>1, <1>5 DEF CreatePull, BreakersTyped, TypeOK
  <2>3. QED BY <1>5, <2>1, <2>2, OpeningPreserves DEF CreatePull, At
<1>6. CASE CreateFails(p)
  <2> DEFINE held == [local[p] EXCEPT !.failed = TRUE]
  <2>1. held \in LocalRecord /\ held.repo \in Repos
    BY <1>1, <1>2 DEF LocalRecord
  <2>2. AttemptOver(p, held)
    BY <1>6 DEF CreateFails
  <2> HIDE DEF held
  <2>3. Moves(p) /\ BreakersTyped
    BY <1>1, <2>1, <2>2, AttemptOverMoves
  <2>4. CASE pulls' = pulls
    BY <1>1, <1>6, <2>3, <2>4, SameStays, MovePreserves DEF CreateFails, TypeOK
  <2>5. CASE pulls' = Opened(p)
    BY <1>6, <2>3, <2>5, OpeningPreserves DEF CreateFails, At
  <2>6. QED BY <1>6, <2>4, <2>5 DEF CreateFails
<1>7. CASE RecordPull(p)
  <2> DEFINE held == [local[p] EXCEPT !.made = @ + 1]
  <2>1. held \in LocalRecord /\ held.repo \in Repos
    BY <1>1, <1>2 DEF LocalRecord
  <2>2. AttemptOver(p, held)
    BY <1>7 DEF RecordPull
  <2> HIDE DEF held
  <2>3. Moves(p) /\ BreakersTyped
    BY <1>1, <2>1, <2>2, AttemptOverMoves
  <2>4. SamePulls
    <3> DEFINE rows == [i \in DOMAIN pulls |-> IF pulls[i].receipt = local[p].receipt
                                                THEN "today" ELSE pulls[i].row]
    <3>1. \A i \in DOMAIN pulls : pulls[i] \in PullRecord
      BY <1>1 DEF TypeOK
    <3>2. rows \in [DOMAIN pulls -> Ages \cup {"none"}]
      BY <3>1 DEF PullRecord, Ages
    <3>3. \A i \in DOMAIN pulls : [pulls[i] EXCEPT !.row = pulls[i].row] = pulls[i]
      BY <3>1 DEF PullRecord
    <3>4. pulls' = [i \in DOMAIN pulls |-> [pulls[i] EXCEPT !.row = rows[i]]]
      BY <1>7, <3>3 DEF RecordPull
    <3> HIDE DEF rows
    <3>5. QED BY <1>1, <3>2, <3>4, RowsChange
  <2>5. QED BY <1>1, <1>7, <2>3, <2>4, MovePreserves DEF RecordPull, TypeOK
<1>8. CASE RecordFails(p)
  <2>1. Moves(p) /\ BreakersTyped /\ UNCHANGED <<memory, started>>
    BY <1>1, <1>2, <1>8, CallFailsMoves DEF RecordFails
  <2>2. QED BY <1>1, <2>1, SameStays, MovePreserves DEF TypeOK, memory
<1>9. QED BY <1>3, <1>4, <1>5, <1>6, <1>7, <1>8 DEF Attempt

LEMMA NextRepoPreserves ==
  ASSUME IInv, NEW p \in Processes, NextRepo(p)
  PROVE  IInv'
<1>1. TypeOK /\ local[p] \in LocalRecord /\ breaker[p] \in BreakerRecord
  BY DEF IInv, TypeOK
<1>2. UNCHANGED <<memory, started>>
  BY DEF NextRepo
<1>3. CASE Finish(p)
  BY <1>1, <1>2, <1>3, FinishMoves, SameStays, MovePreserves DEF TypeOK, memory
<1>4. CASE ~Finish(p)
  <2>1. PICK r \in local[p].todo :
          LET rest == [local[p] EXCEPT !.todo = @ \ {r}] IN
            Goto(p, "next", rest) \/ Goto(p, "analyze", [rest EXCEPT !.repo = r])
    BY <1>4 DEF NextRepo
  <2> DEFINE rest == [local[p] EXCEPT !.todo = @ \ {r}]
             chosen == [rest EXCEPT !.repo = r]
  <2>2. r \in Repos /\ local[p].todo \ {r} \in SUBSET Repos
    BY <1>1, <2>1 DEF LocalRecord
  <2>3. rest \in LocalRecord
    BY <1>1, <2>2, LocalUpdates, Zenon
  <2>4. chosen \in LocalRecord /\ chosen.repo = r
    <3> HIDE DEF rest
    <3>1. QED BY <2>2, <2>3 DEF LocalRecord
  <2>5. Goto(p, "next", rest) \/ Goto(p, "analyze", chosen)
    BY <2>1
  <2> HIDE DEF rest, chosen
  <2>6. Moves(p)
    BY <2>2, <2>3, <2>4, <2>5, GotoMoves DEF Steps, AwaitingSteps, InHandSteps
  <2>7. BreakersTyped
    BY <1>1, <1>4, BreakerTypes DEF NextRepo, BreakersTyped, TypeOK
  <2>8. QED BY <1>1, <1>2, <2>6, <2>7, SameStays, MovePreserves DEF TypeOK, memory
<1>5. QED BY <1>3, <1>4

LEMMA HuntPreserves ==
  ASSUME IInv, NEW p \in Processes, Hunt(p)
  PROVE  IInv'
<1>1. TypeOK /\ local[p] \in LocalRecord /\ breaker[p] \in BreakerRecord
  BY DEF IInv, TypeOK
<1>2. UNCHANGED <<memory, started>>
  BY DEF Hunt, BeginRound, SelectTarget, SearchEnds, EndRound, Discover, SearchFinds
<1>3. ASSUME BeginRound(p)
      PROVE  Moves(p) /\ BreakersTyped
  <2> DEFINE l == [local[p] EXCEPT !.remaining = DailyLimit - TodayCount]
  <2>1. CASE Finish(p)
    BY <1>1, <2>1, FinishMoves
  <2>2. CASE ~Finish(p)
    <3>1. /\ DailyLimit > TodayCount
          /\ breaker' = [breaker EXCEPT ![p] = AfterAllow(@)]
          /\ Goto(p, "discover", l)
      BY <1>1, <1>3, <2>2, PipelineAssumption, TodayCountType DEF BeginRound
    <3>2. DailyLimit - TodayCount \in Nat
      BY <1>1, <3>1, TodayCountType, PipelineAssumption
    <3>3. l \in LocalRecord
      BY <1>1, <3>2, LocalUpdates, Zenon
    <3> HIDE DEF l
    <3>4. Moves(p)
      BY <3>1, <3>3, GotoMoves DEF Steps, AwaitingSteps, InHandSteps
    <3>5. BreakersTyped
      BY <1>1, <3>1, BreakerTypes DEF BreakersTyped, TypeOK
    <3>6. QED BY <3>4, <3>5
  <2>3. QED BY <2>1, <2>2
<1>4. ASSUME NEW targets \in SUBSET Repos, Discover(p, targets)
      PROVE  Moves(p) /\ BreakersTyped
  <2> DEFINE l == [local[p] EXCEPT !.todo = targets]
  <2>1. l \in LocalRecord
    BY <1>1, LocalUpdates, Zenon
  <2>2. breaker' = breaker /\ (Goto(p, "sleep", local[p]) \/ Goto(p, "select", l))
    BY <1>4 DEF Discover
  <2> HIDE DEF l
  <2>3. QED BY <1>1, <2>1, <2>2, GotoMoves DEF Steps, AwaitingSteps, InHandSteps, BreakersTyped, TypeOK
<1>5. ASSUME SelectTarget(p)
      PROVE  Moves(p) /\ BreakersTyped
  <2> DEFINE cleared == [local[p] EXCEPT !.todo = {}]
             search == [local[p] EXCEPT !.todo = {}, !.globally = TRUE]
  <2>1. cleared \in LocalRecord
    BY <1>1, LocalUpdates
  <2>2. search \in LocalRecord
    BY <1>1, LocalUpdates
  <2>3. breaker' = breaker
    BY <1>5 DEF SelectTarget
  <2>4. CASE Goto(p, "search", search) \/ Goto(p, "sleep", cleared)
    <3> HIDE DEF cleared, search
    <3>1. QED BY <1>1, <2>1, <2>2, <2>3, <2>4, GotoMoves
              DEF Steps, AwaitingSteps, InHandSteps, BreakersTyped, TypeOK
  <2>5. CASE ~(Goto(p, "search", search) \/ Goto(p, "sleep", cleared))
    <3>1. PICK r \in local[p].todo :
            Goto(p, "analyze", [local[p] EXCEPT !.todo = @ \ {r}, !.repo = r])
      BY <1>5, <2>5 DEF SelectTarget
    <3> DEFINE rest == [local[p] EXCEPT !.todo = @ \ {r}]
               chosen == [rest EXCEPT !.repo = r]
    <3>2. r \in Repos /\ local[p].todo \ {r} \in SUBSET Repos
      BY <1>1, <3>1 DEF LocalRecord
    <3>3. rest \in LocalRecord
      BY <1>1, <3>2, LocalUpdates, Zenon
    <3>4. chosen \in LocalRecord /\ chosen.repo = r
      <4> HIDE DEF rest
      <4>1. QED BY <3>2, <3>3 DEF LocalRecord
    <3>5. Goto(p, "analyze", chosen)
      BY <3>1
    <3> HIDE DEF rest, chosen
    <3>6. QED BY <1>1, <2>3, <3>2, <3>4, <3>5, GotoMoves DEF Steps, AwaitingSteps, BreakersTyped, TypeOK
  <2>6. QED BY <2>4, <2>5
<1>6. ASSUME NEW r \in Repos, SearchFinds(p, r)
      PROVE  Moves(p) /\ BreakersTyped
  <2> DEFINE chosen == [local[p] EXCEPT !.repo = r, !.phase = "issues",
                                        !.searched = @ + 1, !.remaining = MaxGlobalIssues]
  <2>1. local[p].searched + 1 \in Nat
    BY <1>1 DEF LocalRecord
  <2>2. chosen \in LocalRecord
    BY <1>1, <2>1, LocalUpdates, PipelineAssumption
  <2>3. chosen.repo = r
    BY <1>1 DEF LocalRecord
  <2>4. Goto(p, "issues", chosen) /\ breaker' = breaker
    BY <1>6 DEF SearchFinds
  <2> HIDE DEF chosen
  <2>5. QED BY <1>1, <2>2, <2>3, <2>4, GotoMoves DEF Steps, AwaitingSteps, BreakersTyped, TypeOK
<1>7. ASSUME SearchEnds(p)
      PROVE  Moves(p) /\ BreakersTyped
  <2> DEFINE l == [local[p] EXCEPT !.globally = FALSE, !.found = 0, !.searched = 0]
  <2>1. l \in LocalRecord
    BY <1>1, LocalUpdates
  <2>2. Goto(p, "sleep", l) /\ breaker' = breaker
    BY <1>7 DEF SearchEnds
  <2> HIDE DEF l
  <2>3. QED BY <1>1, <2>1, <2>2, GotoMoves DEF Steps, AwaitingSteps, InHandSteps, BreakersTyped, TypeOK
<1>8. ASSUME EndRound(p)
      PROVE  Moves(p) /\ BreakersTyped
  <2> DEFINE l == [local[p] EXCEPT !.round = @ + 1]
  <2>1. l \in LocalRecord
    BY <1>1 DEF LocalRecord
  <2>2. Finish(p) \/ (Goto(p, "round", l) /\ breaker' = breaker)
    BY <1>8 DEF EndRound
  <2> HIDE DEF l
  <2>3. QED BY <1>1, <2>1, <2>2, FinishMoves, GotoMoves DEF Steps, InHandSteps, BreakersTyped, TypeOK
<1>9. Moves(p) /\ BreakersTyped
  BY <1>3, <1>4, <1>5, <1>6, <1>7, <1>8 DEF Hunt
<1>10. QED BY <1>1, <1>2, <1>9, SameStays, MovePreserves DEF TypeOK, memory

\* No process takes this step.
LEMMA TimePreserves ==
  ASSUME IInv, UNCHANGED <<receipts, pc, local, started>>, SamePulls, BreakersTyped,
         analyzed' \in [Repos -> Ages]
  PROVE  IInv'
<1>1. TypeOK'
  BY DEF IInv, TypeOK, SamePulls, BreakersTyped
<1>2. RepoInHand' /\ ReceiptHeld' /\ ReceiptsDistinct' /\ PullsHaveReceipts'
  BY DEF IInv, RepoInHand, ReceiptHeld, ReceiptsDistinct, PullsHaveReceipts, SamePulls
<1>3. QED BY <1>1, <1>2 DEF IInv

LEMMA NextPreserves == IInv /\ [Next]_vars => IInv'
<1> SUFFICES ASSUME IInv, [Next]_vars
             PROVE  IInv'
  OBVIOUS
<1>1. TypeOK
  BY DEF IInv
<1>2. ASSUME NEW p \in Processes, Work(p)
      PROVE  IInv'
  BY <1>2, NextRepoPreserves, ProcessRepoPreserves, ProcessIssuesPreserves,
     AttemptPreserves, HuntPreserves DEF Work
<1>3. ASSUME NEW p \in Processes, Crash(p)
      PROVE  IInv'
  BY <1>1, <1>3, FinishMoves, SameStays, MovePreserves DEF Crash, TypeOK, memory
<1>4. ASSUME NEW p \in Processes, Cool(p)
      PROVE  IInv'
  BY <1>1, <1>4, BreakerTypes, SameStays, TimePreserves DEF Cool, BreakersTyped, TypeOK, memory
<1>5. ASSUME NEW r \in Repos, WeekPasses(r)
      PROVE  IInv'
  BY <1>1, <1>5, SameStays, TimePreserves DEF WeekPasses, BreakersTyped, TypeOK, Ages
<1>6. CASE NewDay
  <2> DEFINE rows == [i \in DOMAIN pulls |-> Older(pulls[i].row)]
  <2>1. rows \in [DOMAIN pulls -> Ages \cup {"none"}]
    <3>1. \A i \in DOMAIN pulls : pulls[i].row \in Ages \cup {"none"}
      <4>1. \A i \in DOMAIN pulls : pulls[i] \in PullRecord
        BY <1>1 DEF TypeOK
      <4>2. QED BY <4>1 DEF PullRecord
    <3>2. \A age \in Ages \cup {"none"} : Older(age) \in Ages \cup {"none"}
      BY DEF Older, Ages
    <3>3. \A i \in DOMAIN pulls : Older(pulls[i].row) \in Ages \cup {"none"}
      BY <3>1, <3>2, Zenon
    <3>4. QED BY <3>3, Zenon
  <2>2. pulls' = [i \in DOMAIN pulls |-> [pulls[i] EXCEPT !.row = rows[i]]]
    BY <1>6 DEF NewDay
  <2>3. SamePulls
    <3> HIDE DEF rows
    <3>1. QED BY <1>1, <2>1, <2>2, RowsChange
  <2>4. analyzed' \in [Repos -> Ages]
    BY <1>1, <1>6 DEF NewDay, Older, Ages, TypeOK
  <2>5. QED BY <1>1, <1>6, <2>3, <2>4, TimePreserves DEF NewDay, BreakersTyped, TypeOK
<1>7. CASE UNCHANGED vars
  BY <1>1, <1>7, SameStays, TimePreserves DEF vars, memory, BreakersTyped, TypeOK
<1>8. QED BY <1>2, <1>3, <1>4, <1>5, <1>6, <1>7, StartPreserves DEF Next

-----------------------------------------------------------------------------
(* The theorems *)

THEOREM Invariance == Spec => []IInv
BY InitInvariant, NextPreserves, PTL DEF Spec

\* Whatever the processes do, the memory database, the ledger and what every
\* command holds in memory keep their types; in particular the number of pull
\* requests still allowed never goes below zero.
THEOREM PipelineTypeCorrect == Spec => []TypeOK
<1>1. IInv => TypeOK
  BY DEF IInv
<1>2. QED BY <1>1, Invariance, PTL

\* No pull request of the pipeline without an approved decision of its own in
\* the audit ledger, for any number of processes, commands, crashes and lost
\* answers.
THEOREM PullsAlwaysHaveReceipts == Spec => []PullsHaveReceipts
<1>1. IInv => PullsHaveReceipts
  BY DEF IInv
<1>2. QED BY <1>1, Invariance, PTL

-----------------------------------------------------------------------------
(***************************************************************************)
(* The circuit breaker.  For every threshold and any number of processes a *)
(* run stops at the breaker's threshold: the breaker of a run is closed    *)
(* while the run works on a repository, and its count of failures is the   *)
(* number of repositories that failed in a row.  It opens on the way back  *)
(* to the head of the loop, and has no time to cool down before the loop   *)
(* asks it.                                                                *)
(***************************************************************************)

\* Where a process is between the start and the end of a run.
RunSteps == {"next", "analyze", "generate", "admit", "create", "record"}

Healthy(step, l, b) ==
  /\ step = "idle" => l.command = "none" /\ b = NewBreaker
  /\ l.command = "run" =>
       /\ step \in RunSteps
       /\ l.phase = "repo"
       /\ b.failures = l.streak
       /\ \/ b.mode = "closed" /\ (l.streak = 0 \/ l.streak < FailureThreshold)
          \/ /\ b.mode = "open" /\ ~b.cooled /\ step = "next"
             /\ l.streak = 1 \/ l.streak <= FailureThreshold

AllHealthy == \A p \in Processes : Healthy(pc[p], local[p], breaker[p])

\* A step of one process after which it is healthy.
HealthyMove(p) ==
  \E step \in Steps, held \in LocalRecord, b \in BreakerRecord :
    /\ Healthy(step, held, b)
    /\ pc' = [pc EXCEPT ![p] = step]
    /\ local' = [local EXCEPT ![p] = held]
    /\ breaker' = [breaker EXCEPT ![p] = b]

\* What a process holds when a call returns is still the same command.
SameCommand(held, l) ==
  held.command = l.command /\ held.phase = l.phase /\ held.streak = l.streak

LEMMA HealthyMovePreserves ==
  ASSUME TypeOK, AllHealthy, NEW p \in Processes, HealthyMove(p)
  PROVE  AllHealthy'
BY DEF HealthyMove, AllHealthy, TypeOK

LEMMA FinishHealthy ==
  ASSUME TypeOK, NEW p \in Processes, Finish(p)
  PROVE  HealthyMove(p)
<1>1. NewBreaker \in BreakerRecord
  BY BreakerTypes DEF TypeOK
<1>2. "idle" \in Steps
  BY DEF Steps
<1>3. Healthy("idle", NoLocal, NewBreaker)
  BY DEF Healthy, NoLocal
<1>4. QED BY <1>1, <1>2, <1>3, NoLocalType DEF Finish, Goto, HealthyMove

\* The breaker is not told: a run stays where its breaker is closed.
LEMMA GotoHealthy ==
  ASSUME TypeOK, AllHealthy, NEW p \in Processes, pc[p] \notin {"idle", "next"},
         NEW step \in Steps \ {"idle"}, NEW held \in LocalRecord,
         SameCommand(held, local[p]), held.command = "run" => step \in RunSteps,
         Goto(p, step, held), UNCHANGED breaker
  PROVE  HealthyMove(p)
<1>1. Healthy(step, held, breaker[p])
  BY DEF AllHealthy, Healthy, SameCommand
<1>2. breaker[p] \in BreakerRecord /\ breaker' = [breaker EXCEPT ![p] = breaker[p]]
  BY DEF TypeOK
<1>3. QED BY <1>1, <1>2 DEF Goto, HealthyMove

\* Nothing is asked of a process that is not in a run.
LEMMA OtherHealthy ==
  ASSUME TypeOK, NEW p \in Processes, NEW step \in Steps \ {"idle"}, NEW held \in LocalRecord,
         NEW b \in BreakerRecord, held.command # "run",
         Goto(p, step, held), breaker' = [breaker EXCEPT ![p] = b]
  PROVE  HealthyMove(p)
<1>1. Healthy(step, held, b)
  BY DEF Healthy
<1>2. QED BY <1>1 DEF Goto, HealthyMove

LEMMA RepoReturnsHealthy ==
  ASSUME TypeOK, AllHealthy, NEW p \in Processes, pc[p] \notin {"idle", "next"},
         NEW held \in LocalRecord, SameCommand(held, local[p]),
         NEW ok \in BOOLEAN, RepoReturns(p, held, ok)
  PROVE  HealthyMove(p)
<1> DEFINE b == breaker[p]
           told == IF ok THEN RecordSuccess(b) ELSE RecordFailure(b)
<1>1. b \in BreakerRecord /\ told \in BreakerRecord
  BY BreakerTypes DEF TypeOK
<1>2. CASE held.command = "target"
  BY <1>2, FinishHealthy DEF RepoReturns
<1>3. CASE held.command = "run"
  <2> DEFINE l == [held EXCEPT !.repo = None, !.made = 0, !.failed = FALSE,
                               !.streak = IF ok THEN 0 ELSE @ + 1]
  <2>1. Goto(p, "next", l) /\ breaker' = [breaker EXCEPT ![p] = told]
    BY <1>3 DEF RepoReturns
  <2>2. l \in LocalRecord
    <3>1. (IF ok THEN 0 ELSE held.streak + 1) \in Nat
      BY DEF LocalRecord
    <3>2. QED BY <3>1, LocalUpdates
  <2>3. /\ l.phase = held.phase
        /\ l.streak = IF ok THEN 0 ELSE held.streak + 1
    BY DEF LocalRecord
  <2>4. /\ b.mode = "closed" /\ b.failures = held.streak /\ held.phase = "repo"
        /\ held.streak = 0 \/ held.streak < FailureThreshold
        /\ held.streak \in Nat
    BY <1>3 DEF AllHealthy, Healthy, SameCommand, LocalRecord
  <2>5. CASE ok
    <3>1. told.failures = 0 /\ told.mode = "closed"
      BY <1>1, <2>4, <2>5 DEF RecordSuccess, BreakerRecord
    <3> HIDE DEF told, l
    <3>2. Healthy("next", l, told)
      BY <2>3, <2>4, <2>5, <3>1 DEF Healthy, RunSteps
    <3>3. QED BY <1>1, <2>1, <2>2, <3>2 DEF Goto, HealthyMove, Steps
  <2>6. CASE ~ok
    <3>1. /\ told.failures = held.streak + 1
          /\ held.streak + 1 < FailureThreshold => told.mode = "closed"
          /\ held.streak + 1 >= FailureThreshold => told.mode = "open" /\ ~told.cooled
      <4> DEFINE counted == [b EXCEPT !.failures = @ + 1]
                 opened == [counted EXCEPT !.mode = "open", !.cooled = FALSE]
      <4>1. counted.failures = held.streak + 1 /\ counted.mode = "closed"
        BY <1>1, <2>4 DEF BreakerRecord
      <4>2. opened.failures = held.streak + 1 /\ opened.mode = "open" /\ opened.cooled = FALSE
        BY <1>1, <2>4 DEF BreakerRecord
      <4>3. told = IF counted.failures >= FailureThreshold THEN opened ELSE counted
        BY <2>4, <2>6 DEF RecordFailure
      <4> HIDE DEF told, counted, opened
      <4>4. QED BY <2>4, <4>1, <4>2, <4>3, ThresholdAssumption
    <3> HIDE DEF told, l
    <3>2. Healthy("next", l, told)
      BY <2>3, <2>4, <2>6, <3>1, ThresholdAssumption DEF Healthy, RunSteps
    <3>3. QED BY <1>1, <2>1, <2>2, <3>2 DEF Goto, HealthyMove, Steps
  <2>7. QED BY <2>5, <2>6
<1>4. CASE held.command \notin {"target", "run"}
  <2> DEFINE l == [held EXCEPT !.phase = "issues", !.failed = FALSE,
                               !.before = held.made, !.made = 0]
  <2>1. l \in LocalRecord /\ l.command = held.command
    BY DEF LocalRecord
  <2>2. Goto(p, "issues", l) /\ breaker' = [breaker EXCEPT ![p] = told]
    BY <1>4 DEF RepoReturns
  <2> HIDE DEF l, told
  <2>3. QED BY <1>1, <1>4, <2>1, <2>2, OtherHealthy DEF Steps, AwaitingSteps
<1>5. QED BY <1>2, <1>3, <1>4

LEMMA IssuesReturnHealthy ==
  ASSUME TypeOK, NEW p \in Processes, NEW held \in LocalRecord, held.command # "run",
         IssuesReturn(p, held)
  PROVE  HealthyMove(p)
<1> DEFINE got == held.before + held.made
           l == [held EXCEPT !.repo = None, !.phase = "repo", !.before = 0, !.made = 0,
                             !.issues = 0, !.failed = FALSE, !.receipt = 0]
           selecting == [l EXCEPT !.remaining = Minus(@, got)]
           sleeping == [l EXCEPT !.globally = FALSE, !.found = 0, !.searched = 0]
           searching == [l EXCEPT !.found = @ + got]
<1>1. l \in LocalRecord /\ got \in Nat /\ l.command = held.command
  <2>1. l \in LocalRecord
    BY LocalUpdates
  <2>2. got \in Nat /\ l.command = held.command
    BY DEF LocalRecord
  <2>3. QED BY <2>1, <2>2
<1>2. /\ selecting \in LocalRecord /\ sleeping \in LocalRecord /\ searching \in LocalRecord
      /\ selecting.command # "run" /\ sleeping.command # "run" /\ searching.command # "run"
  <2> HIDE DEF l, got
  <2>1. Minus(l.remaining, got) \in Nat /\ l.found + got \in Nat
    BY <1>1 DEF Minus, LocalRecord
  <2>2. selecting \in LocalRecord /\ sleeping \in LocalRecord /\ searching \in LocalRecord
    BY <1>1, <2>1, LocalUpdates
  <2>3. selecting.command # "run" /\ sleeping.command # "run" /\ searching.command # "run"
    BY <1>1 DEF LocalRecord
  <2>4. QED BY <2>2, <2>3
<1>3. CASE held.command = "solve"
  BY <1>3, FinishHealthy DEF IssuesReturn
<1>4. CASE held.command # "solve"
  <2>1. /\ breaker' = breaker
        /\ \/ Goto(p, "select", selecting)
           \/ Goto(p, "sleep", sleeping)
           \/ Goto(p, "search", searching)
    BY <1>4 DEF IssuesReturn
  <2> HIDE DEF selecting, sleeping, searching
  <2>2. breaker' = [breaker EXCEPT ![p] = breaker[p]] /\ breaker[p] \in BreakerRecord
    BY <2>1 DEF TypeOK
  <2>3. QED BY <2>1, <2>2, <1>2, OtherHealthy DEF Steps, AwaitingSteps
<1>5. QED BY <1>3, <1>4

LEMMA AttemptOverHealthy ==
  ASSUME TypeOK, AllHealthy, NEW p \in Processes, pc[p] \notin {"idle", "next"},
         NEW held \in LocalRecord, SameCommand(held, local[p]), AttemptOver(p, held)
  PROVE  HealthyMove(p)
<1> DEFINE l == [held EXCEPT !.receipt = 0]
<1>1. l \in LocalRecord /\ SameCommand(l, local[p]) /\ (~l.failed) \in BOOLEAN /\ l.issues \in Nat
  BY DEF LocalRecord, SameCommand
<1>2. l.command = "run" => l.phase = "repo"
  BY <1>1 DEF AllHealthy, Healthy, SameCommand
<1>3. CASE l.phase = "repo"
  <2>1. RepoReturns(p, l, ~l.failed)
    BY <1>3 DEF AttemptOver
  <2> HIDE DEF l
  <2>2. QED BY <1>1, <2>1, RepoReturnsHealthy
<1>4. CASE l.phase # "repo" /\ l.issues <= 1
  <2>1. IssuesReturn(p, l)
    BY <1>4 DEF AttemptOver
  <2> HIDE DEF l
  <2>2. QED BY <1>1, <1>2, <1>4, <2>1, IssuesReturnHealthy
<1>5. CASE l.phase # "repo" /\ l.issues > 1
  <2> DEFINE rest == [l EXCEPT !.issues = @ - 1]
  <2>1. Goto(p, "issue", rest) /\ breaker' = breaker
    BY <1>1, <1>5 DEF AttemptOver
  <2>2. rest \in LocalRecord /\ rest.command # "run"
    <3> HIDE DEF l
    <3>1. QED BY <1>1, <1>2, <1>5 DEF LocalRecord
  <2>3. breaker' = [breaker EXCEPT ![p] = breaker[p]] /\ breaker[p] \in BreakerRecord
    BY <2>1 DEF TypeOK
  <2> HIDE DEF rest
  <2>4. QED BY <2>1, <2>2, <2>3, OtherHealthy DEF Steps, AwaitingSteps
<1>6. QED BY <1>1, <1>3, <1>4, <1>5

LEMMA CallFailsHealthy ==
  ASSUME TypeOK, AllHealthy, NEW p \in Processes, pc[p] \notin {"idle", "next"}, CallFails(p)
  PROVE  HealthyMove(p)
<1> DEFINE l == [local[p] EXCEPT !.made = 0, !.receipt = 0]
<1>1. l \in LocalRecord /\ SameCommand(l, local[p])
  <2>1. local[p] \in LocalRecord
    BY DEF TypeOK
  <2>2. l \in LocalRecord
    BY <2>1, LocalUpdates
  <2>3. SameCommand(l, local[p])
    BY <2>1 DEF LocalRecord, SameCommand
  <2>4. QED BY <2>2, <2>3
<1>2. l.command = "run" => l.phase = "repo"
  BY <1>1 DEF AllHealthy, Healthy, SameCommand
<1>3. IF l.phase = "repo" THEN RepoReturns(p, l, FALSE) ELSE IssuesReturn(p, l)
  BY DEF CallFails
<1> HIDE DEF l
<1>4. QED BY <1>1, <1>2, <1>3, RepoReturnsHealthy, IssuesReturnHealthy

-----------------------------------------------------------------------------
(* Every step keeps every process healthy *)

LEMMA StartHealthy ==
  ASSUME TypeOK, AllHealthy, NEW p \in Processes, Start(p)
  PROVE  HealthyMove(p)
<1>1. breaker[p] = NewBreaker /\ breaker' = [breaker EXCEPT ![p] = breaker[p]]
      /\ breaker[p] \in BreakerRecord
  BY DEF Start, StartRun, StartTarget, StartSolve, StartHunt, StartCommand, At,
         AllHealthy, Healthy, TypeOK
<1>2. ASSUME NEW repos \in SUBSET Repos, StartRun(p, repos)
      PROVE  HealthyMove(p)
  <2> DEFINE l == [NoLocal EXCEPT !.command = "run", !.todo = repos,
                                  !.remaining = DailyLimit - TodayCount]
  <2>1. DailyLimit - TodayCount \in Nat
    BY <1>2, TodayCountType, PipelineAssumption DEF StartRun
  <2>2. [NoLocal EXCEPT !.command = "run"] \in LocalRecord
    BY NoLocalType DEF LocalRecord, CommandNames
  <2>3. l \in LocalRecord
    BY <2>1, <2>2, LocalUpdates, Zenon
  <2>4. l.phase = "repo" /\ l.streak = 0
    BY DEF NoLocal
  <2>5. Goto(p, "next", l)
    BY <1>2 DEF StartRun
  <2> HIDE DEF l
  <2>6. Healthy("next", l, NewBreaker)
    BY <2>4 DEF Healthy, RunSteps, NewBreaker
  <2>7. QED BY <1>1, <2>3, <2>5, <2>6 DEF Goto, HealthyMove, Steps
<1>3. ASSUME NEW r \in Repos, StartTarget(p, r)
      PROVE  HealthyMove(p)
  <2> DEFINE l == [NoLocal EXCEPT !.command = "target", !.repo = r]
  <2>1. l \in LocalRecord /\ l.command # "run"
    BY NoLocalType DEF LocalRecord, CommandNames
  <2>2. Goto(p, "analyze", l)
    BY <1>3 DEF StartTarget
  <2> HIDE DEF l
  <2>3. QED BY <1>1, <2>1, <2>2, OtherHealthy DEF Steps, AwaitingSteps
<1>4. ASSUME NEW r \in Repos, StartSolve(p, r)
      PROVE  HealthyMove(p)
  <2> DEFINE l == [NoLocal EXCEPT !.command = "solve", !.repo = r,
                                  !.phase = "issues", !.remaining = DailyLimit]
  <2>1. [NoLocal EXCEPT !.command = "solve"] \in LocalRecord
    BY NoLocalType DEF LocalRecord, CommandNames
  <2>2. l \in LocalRecord
    BY <2>1, LocalUpdates, PipelineAssumption
  <2>3. l.command # "run"
    BY NoLocalType DEF LocalRecord
  <2>4. Goto(p, "issues", l)
    BY <1>4 DEF StartSolve
  <2> HIDE DEF l
  <2>5. QED BY <1>1, <2>2, <2>3, <2>4, OtherHealthy DEF Steps, AwaitingSteps
<1>5. ASSUME StartHunt(p)
      PROVE  HealthyMove(p)
  <2> DEFINE l == [NoLocal EXCEPT !.command = "hunt", !.round = 1]
  <2>1. l \in LocalRecord /\ l.command # "run"
    BY NoLocalType DEF LocalRecord, CommandNames
  <2>2. Goto(p, "round", l)
    BY <1>5 DEF StartHunt
  <2> HIDE DEF l
  <2>3. QED BY <1>1, <2>1, <2>2, OtherHealthy DEF Steps
<1>6. QED BY <1>2, <1>3, <1>4, <1>5 DEF Start

LEMMA NextRepoHealthy ==
  ASSUME TypeOK, AllHealthy, NEW p \in Processes, NextRepo(p)
  PROVE  HealthyMove(p)
<1> DEFINE b == AfterAllow(breaker[p])
<1>1. local[p] \in LocalRecord /\ breaker[p] \in BreakerRecord /\ b \in BreakerRecord
  BY BreakerTypes DEF TypeOK
<1>2. CASE Finish(p)
  BY <1>2, FinishHealthy
<1>3. CASE ~Finish(p)
  <2>1. AllowsRequest(breaker[p]) /\ breaker' = [breaker EXCEPT ![p] = b]
    BY <1>3 DEF NextRepo
  <2>2. PICK r \in local[p].todo :
          LET rest == [local[p] EXCEPT !.todo = @ \ {r}] IN
            Goto(p, "next", rest) \/ Goto(p, "analyze", [rest EXCEPT !.repo = r])
    BY <1>3 DEF NextRepo
  <2> DEFINE rest == [local[p] EXCEPT !.todo = @ \ {r}]
             chosen == [rest EXCEPT !.repo = r]
  <2>3. r \in Repos /\ local[p].todo \ {r} \in SUBSET Repos
    BY <1>1, <2>2 DEF LocalRecord
  <2>4. rest \in LocalRecord /\ SameCommand(rest, local[p])
    <3>1. rest \in LocalRecord
      BY <1>1, <2>3, LocalUpdates, Zenon
    <3>2. SameCommand(rest, local[p])
      BY <1>1 DEF LocalRecord, SameCommand
    <3>3. QED BY <3>1, <3>2
  <2>5. chosen \in LocalRecord /\ SameCommand(chosen, local[p])
    <3> HIDE DEF rest
    <3>1. chosen \in LocalRecord
      BY <2>3, <2>4, LocalUpdates, Zenon
    <3>2. SameCommand(chosen, local[p])
      BY <2>4 DEF LocalRecord, SameCommand
    <3>3. QED BY <3>1, <3>2
  <2>6. Goto(p, "next", rest) \/ Goto(p, "analyze", chosen)
    BY <2>2
  <2>7. local[p].command = "run" => /\ b = breaker[p] /\ breaker[p].mode = "closed"
                                    /\ Healthy(pc[p], local[p], breaker[p])
    BY <2>1 DEF AllHealthy, Healthy, AllowsRequest, AfterAllow
  <2> HIDE DEF b, rest, chosen
  <2>8. Healthy("next", rest, b) /\ Healthy("analyze", chosen, b)
    BY <2>4, <2>5, <2>7 DEF Healthy, SameCommand, RunSteps
  <2>9. QED BY <1>1, <2>1, <2>4, <2>5, <2>6, <2>8 DEF Goto, HealthyMove, Steps, AwaitingSteps
<1>4. QED BY <1>2, <1>3

LEMMA ProcessRepoHealthy ==
  ASSUME TypeOK, AllHealthy, NEW p \in Processes, ProcessRepo(p)
  PROVE  HealthyMove(p)
<1>1. local[p] \in LocalRecord /\ pc[p] \notin {"idle", "next"}
  BY DEF ProcessRepo, RepoOptsOut, AnalysisFails, Analyze, Generate, At, TypeOK
<1>2. SameCommand(local[p], local[p])
  BY DEF SameCommand
<1>3. ASSUME RepoOptsOut(p)
      PROVE  HealthyMove(p)
  BY <1>1, <1>2, <1>3, RepoReturnsHealthy DEF RepoOptsOut
<1>4. ASSUME AnalysisFails(p)
      PROVE  HealthyMove(p)
  BY <1>1, <1>4, CallFailsHealthy DEF AnalysisFails
<1>5. ASSUME NEW findings \in BOOLEAN, Analyze(p, findings)
      PROVE  HealthyMove(p)
  <2>1. CASE Goto(p, "generate", local[p]) /\ UNCHANGED breaker
    BY <1>1, <1>2, <2>1, GotoHealthy DEF Steps, AwaitingSteps, RunSteps
  <2>2. CASE RepoReturns(p, local[p], TRUE)
    BY <1>1, <1>2, <2>2, RepoReturnsHealthy
  <2>3. QED BY <1>5, <2>1, <2>2 DEF Analyze
<1>6. ASSUME NEW failed \in BOOLEAN, NEW valid \in BOOLEAN, Generate(p, failed, valid)
      PROVE  HealthyMove(p)
  <2> DEFINE l == [local[p] EXCEPT !.failed = failed]
  <2>1. l \in LocalRecord /\ SameCommand(l, local[p])
    BY <1>1 DEF LocalRecord, SameCommand
  <2>2. (Goto(p, "admit", l) /\ UNCHANGED breaker) \/ RepoReturns(p, l, ~failed)
    BY <1>6 DEF Generate
  <2> HIDE DEF l
  <2>3. CASE Goto(p, "admit", l) /\ UNCHANGED breaker
    BY <1>1, <2>1, <2>3, GotoHealthy DEF Steps, AwaitingSteps, RunSteps
  <2>4. CASE RepoReturns(p, l, ~failed)
    BY <1>1, <2>1, <2>4, RepoReturnsHealthy
  <2>5. QED BY <2>2, <2>3, <2>4
<1>7. QED BY <1>3, <1>4, <1>5, <1>6 DEF ProcessRepo

LEMMA ProcessIssuesHealthy ==
  ASSUME TypeOK, AllHealthy, NEW p \in Processes, ProcessIssues(p)
  PROVE  HealthyMove(p)
<1>1. local[p] \in LocalRecord /\ pc[p] \in {"issues", "issue"}
  BY DEF ProcessIssues, FetchIssues, SolveIssue, At, TypeOK
<1>2. local[p].command # "run"
  BY <1>1 DEF AllHealthy, Healthy, RunSteps
<1>3. ASSUME NEW n \in Nat, FetchIssues(p, n)
      PROVE  HealthyMove(p)
  <2> DEFINE l == [local[p] EXCEPT !.issues = n]
  <2>1. l \in LocalRecord /\ SameCommand(l, local[p])
    BY <1>1 DEF LocalRecord, SameCommand
  <2>2. IssuesReturn(p, l) \/ (Goto(p, "issue", l) /\ UNCHANGED breaker)
    BY <1>3 DEF FetchIssues
  <2>3. l.command # "run"
    BY <1>2, <2>1 DEF SameCommand
  <2> HIDE DEF l
  <2>4. CASE IssuesReturn(p, l)
    BY <2>1, <2>3, <2>4, IssuesReturnHealthy
  <2>5. CASE Goto(p, "issue", l) /\ UNCHANGED breaker
    BY <1>1, <2>1, <2>3, <2>5, GotoHealthy DEF Steps, AwaitingSteps
  <2>6. QED BY <2>2, <2>4, <2>5
<1>4. ASSUME NEW valid \in BOOLEAN, SolveIssue(p, valid)
      PROVE  HealthyMove(p)
  <2>1. SameCommand(local[p], local[p])
    BY DEF SameCommand
  <2>2. CASE Goto(p, "admit", local[p]) /\ UNCHANGED breaker
    BY <1>1, <1>2, <2>1, <2>2, GotoHealthy DEF Steps, AwaitingSteps
  <2>3. CASE AttemptOver(p, local[p])
    BY <1>1, <2>1, <2>3, AttemptOverHealthy
  <2>4. QED BY <1>4, <2>2, <2>3 DEF SolveIssue
<1>5. 0..(DailyLimit + MaxGlobalIssues) \subseteq Nat
  BY PipelineAssumption
<1>6. QED BY <1>3, <1>4, <1>5 DEF ProcessIssues

LEMMA AttemptHealthy ==
  ASSUME TypeOK, AllHealthy, NEW p \in Processes, Attempt(p)
  PROVE  HealthyMove(p)
<1>1. local[p] \in LocalRecord /\ pc[p] \notin {"idle", "next"}
  BY DEF Attempt, AdmissionBlocked, AdmissionApproved, CreatePull, CreateFails, RecordPull,
         RecordFails, At, TypeOK
<1>2. SameCommand(local[p], local[p])
  BY DEF SameCommand
<1>3. CASE AdmissionBlocked(p)
  BY <1>1, <1>2, <1>3, AttemptOverHealthy DEF AdmissionBlocked
<1>4. CASE AdmissionApproved(p)
  <2> DEFINE l == [local[p] EXCEPT !.receipt = Len(receipts')]
  <2>1. Len(receipts') \in Nat
    <3>1. local[p].repo \in Repos \cup {None} /\ receipts \in Seq(Repos \cup {None})
      BY <1>1 DEF TypeOK, LocalRecord
    <3>2. receipts' = Append(receipts, local[p].repo)
      BY <1>4 DEF AdmissionApproved
    <3>3. QED BY <3>1, <3>2
  <2>2. l \in LocalRecord /\ SameCommand(l, local[p])
    BY <1>1, <2>1 DEF LocalRecord, SameCommand
  <2>3. Goto(p, "create", l) /\ UNCHANGED breaker
    BY <1>4 DEF AdmissionApproved
  <2> HIDE DEF l
  <2>4. QED BY <1>1, <2>2, <2>3, GotoHealthy DEF Steps, AwaitingSteps, RunSteps
<1>5. CASE CreatePull(p)
  BY <1>1, <1>2, <1>5, GotoHealthy DEF CreatePull, Steps, RunSteps
<1>6. CASE CreateFails(p)
  <2> DEFINE l == [local[p] EXCEPT !.failed = TRUE]
  <2>1. l \in LocalRecord /\ SameCommand(l, local[p])
    BY <1>1 DEF LocalRecord, SameCommand
  <2>2. AttemptOver(p, l)
    BY <1>6 DEF CreateFails
  <2> HIDE DEF l
  <2>3. QED BY <1>1, <2>1, <2>2, AttemptOverHealthy
<1>7. CASE RecordPull(p)
  <2> DEFINE l == [local[p] EXCEPT !.made = @ + 1]
  <2>1. l \in LocalRecord /\ SameCommand(l, local[p])
    BY <1>1 DEF LocalRecord, SameCommand
  <2>2. AttemptOver(p, l)
    BY <1>7 DEF RecordPull
  <2> HIDE DEF l
  <2>3. QED BY <1>1, <2>1, <2>2, AttemptOverHealthy
<1>8. CASE RecordFails(p)
  BY <1>1, <1>8, CallFailsHealthy DEF RecordFails
<1>9. QED BY <1>3, <1>4, <1>5, <1>6, <1>7, <1>8 DEF Attempt

LEMMA HuntHealthy ==
  ASSUME TypeOK, AllHealthy, NEW p \in Processes, Hunt(p)
  PROVE  HealthyMove(p)
<1>1. local[p] \in LocalRecord /\ breaker[p] \in BreakerRecord
      /\ pc[p] \in {"round", "discover", "select", "search", "sleep"}
  BY DEF Hunt, BeginRound, SelectTarget, SearchEnds, EndRound, Discover, SearchFinds, At, TypeOK
<1>2. local[p].command # "run"
  BY <1>1 DEF AllHealthy, Healthy, RunSteps
<1>3. ASSUME BeginRound(p)
      PROVE  HealthyMove(p)
  <2> DEFINE l == [local[p] EXCEPT !.remaining = DailyLimit - TodayCount]
  <2>1. CASE Finish(p)
    BY <2>1, FinishHealthy
  <2>2. CASE ~Finish(p)
    <3>1. /\ DailyLimit > TodayCount
          /\ breaker' = [breaker EXCEPT ![p] = AfterAllow(breaker[p])]
          /\ Goto(p, "discover", l)
      BY <1>3, <2>2, PipelineAssumption, TodayCountType DEF BeginRound
    <3>2. DailyLimit - TodayCount \in Nat
      BY <3>1, TodayCountType, PipelineAssumption
    <3>3. l \in LocalRecord /\ l.command # "run"
      BY <1>1, <1>2, <3>2 DEF LocalRecord
    <3>4. AfterAllow(breaker[p]) \in BreakerRecord
      BY <1>1, BreakerTypes
    <3> HIDE DEF l
    <3>5. QED BY <3>1, <3>3, <3>4, OtherHealthy DEF Steps, AwaitingSteps
  <2>3. QED BY <2>1, <2>2
<1>4. ASSUME UNCHANGED breaker, NEW step \in Steps \ {"idle"}, NEW held \in LocalRecord,
             held.command = local[p].command, Goto(p, step, held)
      PROVE  HealthyMove(p)
  <2>1. breaker' = [breaker EXCEPT ![p] = breaker[p]]
    BY <1>4 DEF TypeOK
  <2>2. QED BY <1>1, <1>2, <1>4, <2>1, OtherHealthy
<1>5. ASSUME NEW targets \in SUBSET Repos, Discover(p, targets)
      PROVE  HealthyMove(p)
  <2> DEFINE l == [local[p] EXCEPT !.todo = targets]
  <2>1. l \in LocalRecord /\ l.command = local[p].command
    BY <1>1 DEF LocalRecord
  <2>2. breaker' = breaker /\ (Goto(p, "sleep", local[p]) \/ Goto(p, "select", l))
    BY <1>5 DEF Discover
  <2> HIDE DEF l
  <2>3. QED BY <1>1, <1>4, <2>1, <2>2 DEF Steps, AwaitingSteps
<1>6. ASSUME SelectTarget(p)
      PROVE  HealthyMove(p)
  <2> DEFINE cleared == [local[p] EXCEPT !.todo = {}]
             search == [local[p] EXCEPT !.todo = {}, !.globally = TRUE]
  <2>1. cleared \in LocalRecord /\ search \in LocalRecord
    BY <1>1, LocalUpdates
  <2>2. cleared.command = local[p].command /\ search.command = local[p].command
    BY <1>1 DEF LocalRecord
  <2>3. breaker' = breaker
    BY <1>6 DEF SelectTarget
  <2>4. CASE Goto(p, "search", search) \/ Goto(p, "sleep", cleared)
    <3> HIDE DEF cleared, search
    <3>1. QED BY <1>4, <2>1, <2>2, <2>3, <2>4 DEF Steps, AwaitingSteps
  <2>5. CASE ~(Goto(p, "search", search) \/ Goto(p, "sleep", cleared))
    <3>1. PICK r \in local[p].todo :
            Goto(p, "analyze", [local[p] EXCEPT !.todo = @ \ {r}, !.repo = r])
      BY <1>6, <2>5 DEF SelectTarget
    <3> DEFINE chosen == [local[p] EXCEPT !.todo = @ \ {r}, !.repo = r]
    <3>2. r \in Repos /\ local[p].todo \ {r} \in SUBSET Repos
      BY <1>1, <3>1 DEF LocalRecord
    <3>3. chosen \in LocalRecord
      BY <1>1, <3>2, LocalUpdates, Zenon
    <3>4. chosen.command = local[p].command
      BY <1>1 DEF LocalRecord
    <3>5. Goto(p, "analyze", chosen)
      BY <3>1
    <3> HIDE DEF chosen
    <3>6. QED BY <1>4, <2>3, <3>3, <3>4, <3>5 DEF Steps, AwaitingSteps
  <2>6. QED BY <2>4, <2>5
<1>7. ASSUME NEW r \in Repos, SearchFinds(p, r)
      PROVE  HealthyMove(p)
  <2> DEFINE chosen == [local[p] EXCEPT !.repo = r, !.phase = "issues",
                                        !.searched = @ + 1, !.remaining = MaxGlobalIssues]
  <2>1. local[p].searched + 1 \in Nat
    BY <1>1 DEF LocalRecord
  <2>2. chosen \in LocalRecord
    BY <1>1, <2>1, LocalUpdates, PipelineAssumption
  <2>3. chosen.command = local[p].command
    BY <1>1 DEF LocalRecord
  <2>4. Goto(p, "issues", chosen) /\ breaker' = breaker
    BY <1>7 DEF SearchFinds
  <2> HIDE DEF chosen
  <2>5. QED BY <1>4, <2>2, <2>3, <2>4 DEF Steps, AwaitingSteps
<1>8. ASSUME SearchEnds(p)
      PROVE  HealthyMove(p)
  <2> DEFINE l == [local[p] EXCEPT !.globally = FALSE, !.found = 0, !.searched = 0]
  <2>1. l \in LocalRecord
    BY <1>1, LocalUpdates
  <2>2. l.command = local[p].command
    BY <1>1 DEF LocalRecord
  <2>3. Goto(p, "sleep", l) /\ breaker' = breaker
    BY <1>8 DEF SearchEnds
  <2> HIDE DEF l
  <2>4. QED BY <1>4, <2>1, <2>2, <2>3 DEF Steps, AwaitingSteps
<1>9. ASSUME EndRound(p)
      PROVE  HealthyMove(p)
  <2> DEFINE l == [local[p] EXCEPT !.round = @ + 1]
  <2>1. l \in LocalRecord /\ l.command = local[p].command
    BY <1>1 DEF LocalRecord
  <2>2. Finish(p) \/ (Goto(p, "round", l) /\ breaker' = breaker)
    BY <1>9 DEF EndRound
  <2> HIDE DEF l
  <2>3. QED BY <1>4, <2>1, <2>2, FinishHealthy DEF Steps
<1>10. QED BY <1>3, <1>5, <1>6, <1>7, <1>8, <1>9 DEF Hunt

LEMMA InitHealthy == Init => AllHealthy
<1> SUFFICES ASSUME Init, NEW p \in Processes
             PROVE  Healthy(pc[p], local[p], breaker[p])
  BY DEF AllHealthy
<1>1. NoLocal.command = "none"
  BY DEF NoLocal
<1>2. QED BY <1>1 DEF Init, Healthy

LEMMA NextHealthy == TypeOK /\ AllHealthy /\ [Next]_vars => AllHealthy'
<1> SUFFICES ASSUME TypeOK, AllHealthy, [Next]_vars
             PROVE  AllHealthy'
  OBVIOUS
<1>1. ASSUME NEW p \in Processes, Start(p) \/ Work(p) \/ Crash(p)
      PROVE  AllHealthy'
  <2>1. HealthyMove(p)
    BY <1>1, StartHealthy, NextRepoHealthy, ProcessRepoHealthy, ProcessIssuesHealthy,
       AttemptHealthy, HuntHealthy, FinishHealthy DEF Work, Crash
  <2>2. QED BY <2>1, HealthyMovePreserves
<1>2. ASSUME NEW p \in Processes, Cool(p)
      PROVE  AllHealthy'
  <2>1. pc[p] \in AwaitingSteps /\ breaker[p].mode = "open" /\ UNCHANGED <<pc, local>>
        /\ breaker' = [breaker EXCEPT ![p] = CoolDown(breaker[p])]
    BY <1>2 DEF Cool
  <2>2. pc[p] \notin {"idle", "next"}
    BY <2>1 DEF AwaitingSteps
  <2>3. local[p].command # "run"
    BY <2>1, <2>2 DEF AllHealthy, Healthy
  <2>4. \A q \in Processes : q # p => breaker'[q] = breaker[q]
    BY <2>1 DEF TypeOK
  <2>5. QED BY <2>1, <2>2, <2>3, <2>4 DEF AllHealthy, Healthy
<1>3. CASE UNCHANGED <<pc, local, breaker>>
  BY <1>3 DEF AllHealthy
<1>4. QED BY <1>1, <1>2, <1>3 DEF Next, WeekPasses, NewDay, vars

-----------------------------------------------------------------------------
(* The theorem *)

\* A run is never asked about another repository after the configured number
\* of repositories failed in a row, whatever the thresholds, the processes and
\* the commands they mix.
THEOREM RunsStopAtThreshold == Spec => []RunStopsAtThreshold
<1>1. TypeOK /\ AllHealthy => RunStopsAtThreshold
  <2> SUFFICES ASSUME TypeOK, AllHealthy, NEW p \in Processes, local[p].command = "run"
               PROVE  local[p].streak \in 0..FailureThreshold \cup {0, 1}
    BY DEF RunStopsAtThreshold
  <2>1. local[p].streak \in Nat
    BY DEF TypeOK, LocalRecord
  <2>2. QED BY <2>1, ThresholdAssumption DEF AllHealthy, Healthy
<1>2. Spec => []AllHealthy
  BY InitHealthy, NextHealthy, PipelineTypeCorrect, PTL DEF Spec
<1>3. QED BY <1>1, <1>2, PipelineTypeCorrect, PTL

(***************************************************************************)
(* OnePullPerProcess compares a set of pull requests with the set of       *)
(* processes, and is inductive once the processes that passed the check    *)
(* and have recorded nothing yet are counted like the rows they may add:   *)
(* the check is passed only while there is no row, and a row takes the     *)
(* place of its process, because no two pull requests have one receipt.    *)
(***************************************************************************)

\* Steps behind the check for an open pull request.
PassedSteps == {"admit", "create", "record"}

\* A process has passed the check for a repository and its pull request is not
\* recorded yet.
Passing(step, l, r) == step \in PassedSteps /\ l.phase = "repo" /\ l.repo = r

Past(r) == {p \in Processes : Passing(pc[p], local[p], r)}

\* The processes behind the check count as if their pull requests were there.
PastCounted ==
  \A r \in Repos :
    Cardinality(AnalysisPulls(r)) + Cardinality(Past(r)) <= Cardinality(Processes)

IssueSteps == {"issues", "issue"}

\* Issues are fetched and solved in their phase only.
IssuesPhase == \A p \in Processes : pc[p] \in IssueSteps => local[p].phase = "issues"

\* A process records the pull request that it opened.
RecordHeld ==
  \A p \in Processes :
    pc[p] = "record" =>
      \E i \in DOMAIN pulls :
        /\ pulls[i].receipt = local[p].receipt
        /\ pulls[i].repo = local[p].repo /\ pulls[i].phase = local[p].phase

PullBound == PastCounted /\ IssuesPhase /\ RecordHeld

\* Pull requests stay what they are, except for their rows.
PullsStay ==
  \A i \in DOMAIN pulls :
    /\ i \in DOMAIN pulls'
    /\ pulls'[i].receipt = pulls[i].receipt
    /\ pulls'[i].repo = pulls[i].repo /\ pulls'[i].phase = pulls[i].phase

\* A process goes to a step before the check, or back to it.
Leaves(p) ==
  \E step \in Steps \ PassedSteps : \E held :
    /\ step \in IssueSteps => held.phase = "issues"
    /\ pc' = [pc EXCEPT ![p] = step]
    /\ local' = [local EXCEPT ![p] = held]

\* A process goes on, and passes the check only where there is no row.
Proceeds(p) ==
  \E step \in Steps \ {"record"} : \E held :
    /\ step \in IssueSteps => held.phase = "issues"
    /\ \A r \in Repos :
         Passing(step, held, r) => Passing(pc[p], local[p], r) \/ ~HasOpenRow(r)
    /\ pc' = [pc EXCEPT ![p] = step]
    /\ local' = [local EXCEPT ![p] = held]

\* Both sets are finite.
LEMMA Cardinalities ==
  ASSUME TypeOK, IsFiniteSet(Processes), NEW r
  PROVE  /\ IsFiniteSet(AnalysisPulls(r)) /\ Cardinality(AnalysisPulls(r)) \in Nat
         /\ IsFiniteSet(Past(r)) /\ Cardinality(Past(r)) \in Nat
         /\ Cardinality(Processes) \in Nat
<1>1. DOMAIN pulls = 1..Len(pulls) /\ Len(pulls) \in Nat
  BY DEF TypeOK
<1>2. IsFiniteSet(DOMAIN pulls)
  BY <1>1, FS_Interval
<1>3. IsFiniteSet(AnalysisPulls(r))
  BY <1>2, FS_Subset DEF AnalysisPulls
<1>4. IsFiniteSet(Past(r))
  BY FS_Subset DEF Past
<1> QED BY <1>3, <1>4, FS_CardinalityType

\* What remains behind the check after a step of one process.
LEMMA PastAfter ==
  ASSUME TypeOK, NEW p \in Processes, NEW step, NEW held,
         pc' = [pc EXCEPT ![p] = step], local' = [local EXCEPT ![p] = held]
  PROVE  /\ pc'[p] = step /\ local'[p] = held
         /\ \A q \in Processes : q # p => pc'[q] = pc[q] /\ local'[q] = local[q]
BY DEF TypeOK

\* A set of processes and a set of pull requests that only lose members.
LEMMA CountsShrink ==
  ASSUME TypeOK, IsFiniteSet(Processes), PastCounted, NEW r \in Repos,
         NEW A, NEW B, A \subseteq AnalysisPulls(r), B \subseteq Past(r)
  PROVE  Cardinality(A) + Cardinality(B) <= Cardinality(Processes)
<1>1. /\ IsFiniteSet(AnalysisPulls(r)) /\ Cardinality(AnalysisPulls(r)) \in Nat
      /\ IsFiniteSet(Past(r)) /\ Cardinality(Past(r)) \in Nat /\ Cardinality(Processes) \in Nat
  BY Cardinalities
<1>2. /\ Cardinality(A) \in Nat /\ Cardinality(A) <= Cardinality(AnalysisPulls(r))
      /\ Cardinality(B) \in Nat /\ Cardinality(B) <= Cardinality(Past(r))
  BY <1>1, FS_Subset, FS_CardinalityType
<1>3. Cardinality(AnalysisPulls(r)) + Cardinality(Past(r)) <= Cardinality(Processes)
  BY DEF PastCounted
<1> QED BY <1>1, <1>2, <1>3

\* The first row of a repository finds at most all processes behind the check.
LEMMA ProceedsKeeps ==
  ASSUME TypeOK, IsFiniteSet(Processes), PullBound, NEW p \in Processes, Proceeds(p),
         PullsStay, \A r \in Repos : AnalysisPulls(r)' \subseteq AnalysisPulls(r)
  PROVE  PullBound'
<1>1. PICK step \in Steps \ {"record"} : \E held :
        /\ step \in IssueSteps => held.phase = "issues"
        /\ \A r \in Repos :
             Passing(step, held, r) => Passing(pc[p], local[p], r) \/ ~HasOpenRow(r)
        /\ pc' = [pc EXCEPT ![p] = step]
        /\ local' = [local EXCEPT ![p] = held]
  BY DEF Proceeds
<1>2. PICK held :
        /\ step \in IssueSteps => held.phase = "issues"
        /\ \A r \in Repos :
             Passing(step, held, r) => Passing(pc[p], local[p], r) \/ ~HasOpenRow(r)
        /\ pc' = [pc EXCEPT ![p] = step]
        /\ local' = [local EXCEPT ![p] = held]
  BY <1>1
<1>3. /\ pc'[p] = step /\ local'[p] = held
      /\ \A q \in Processes : q # p => pc'[q] = pc[q] /\ local'[q] = local[q]
  BY <1>2, PastAfter
<1>4. IssuesPhase'
  BY <1>2, <1>3 DEF IssuesPhase, PullBound
<1>5. RecordHeld'
  <2> SUFFICES ASSUME NEW q \in Processes, pc'[q] = "record"
               PROVE  \E i \in DOMAIN pulls' :
                        /\ pulls'[i].receipt = local'[q].receipt
                        /\ pulls'[i].repo = local'[q].repo
                        /\ pulls'[i].phase = local'[q].phase
    BY DEF RecordHeld
  <2>1. q # p /\ pc[q] = "record" /\ local'[q] = local[q]
    BY <1>3
  <2> QED BY <2>1 DEF RecordHeld, PullBound, PullsStay
<1>6. PastCounted'
  <2> SUFFICES ASSUME NEW r \in Repos
               PROVE  Cardinality(AnalysisPulls(r)') + Cardinality(Past(r)')
                        <= Cardinality(Processes)
    BY DEF PastCounted
  <2>1. CASE HasOpenRow(r)
    <3>1. Past(r)' \subseteq Past(r)
      BY <1>2, <1>3, <2>1 DEF Past
    <3> QED BY <3>1, CountsShrink DEF PullBound
  <2>2. CASE ~HasOpenRow(r)
    <3>1. AnalysisPulls(r) = {}
      BY <2>2 DEF AnalysisPulls, HasOpenRow
    <3>2. AnalysisPulls(r)' = {} /\ Cardinality(AnalysisPulls(r)') = 0
      BY <3>1, FS_EmptySet
    <3>3. Past(r)' \subseteq Processes
      BY DEF Past
    <3>4. Cardinality(Past(r)') \in Nat /\ Cardinality(Past(r)') <= Cardinality(Processes)
      BY <3>3, FS_Subset, FS_CardinalityType
    <3>5. Cardinality(Processes) \in Nat
      BY FS_CardinalityType
    <3> QED BY <3>2, <3>4, <3>5
  <2> QED BY <2>1, <2>2
<1> QED BY <1>4, <1>5, <1>6 DEF PullBound

\* Who goes back passes no check.
LEMMA LeavesProceeds ==
  ASSUME NEW p, Leaves(p)
  PROVE  Proceeds(p)
BY DEF Leaves, Proceeds, Passing, PassedSteps

\* A step to a place before the check.
LEMMA GotoLeaves ==
  ASSUME NEW p, NEW step \in Steps \ PassedSteps, NEW held,
         step \in IssueSteps => held.phase = "issues", Goto(p, step, held)
  PROVE  Leaves(p)
BY DEF Goto, Leaves

\* The command ends.
LEMMA FinishLeaves ==
  ASSUME NEW p, Finish(p)
  PROVE  Leaves(p)
BY GotoLeaves DEF Finish, Steps, PassedSteps, IssueSteps

\* process_repo returns.
LEMMA RepoReturnsLeaves ==
  ASSUME NEW p, NEW held \in LocalRecord, NEW ok, RepoReturns(p, held, ok)
  PROVE  Leaves(p)
<1> DEFINE next == [held EXCEPT !.repo = None, !.made = 0, !.failed = FALSE,
                                !.streak = IF ok THEN 0 ELSE @ + 1]
           issues == [held EXCEPT !.phase = "issues", !.failed = FALSE,
                                  !.before = held.made, !.made = 0]
<1>1. Finish(p) \/ Goto(p, "next", next) \/ Goto(p, "issues", issues)
  BY DEF RepoReturns
<1>2. issues.phase = "issues"
  BY DEF LocalRecord
<1> HIDE DEF next, issues
<1> QED BY <1>1, <1>2, FinishLeaves, GotoLeaves
        DEF Steps, AwaitingSteps, PassedSteps, IssueSteps

\* process_repo_issues returns.
LEMMA IssuesReturnLeaves ==
  ASSUME NEW p, NEW held, IssuesReturn(p, held)
  PROVE  Leaves(p)
<1>1. \/ Finish(p)
      \/ \E step \in {"select", "sleep", "search"} : \E l : Goto(p, step, l)
  BY Zenon DEF IssuesReturn
<1> QED BY <1>1, FinishLeaves, GotoLeaves
        DEF Steps, AwaitingSteps, PassedSteps, IssueSteps

\* An attempt is over.
LEMMA AttemptOverLeaves ==
  ASSUME NEW p, NEW held \in LocalRecord, AttemptOver(p, held)
  PROVE  Leaves(p)
<1> DEFINE l == [held EXCEPT !.receipt = 0]
           rest == [l EXCEPT !.issues = @ - 1]
<1>1. l \in LocalRecord
  BY LocalUpdates
<1>2. rest.phase = l.phase
  BY <1>1 DEF LocalRecord
<1>3. \/ RepoReturns(p, l, ~l.failed) \/ IssuesReturn(p, l)
      \/ l.phase # "repo" /\ Goto(p, "issue", rest)
  BY DEF AttemptOver
<1> HIDE DEF l, rest
<1>4. l.phase # "repo" => rest.phase = "issues"
  BY <1>1, <1>2 DEF LocalRecord
<1> QED BY <1>1, <1>3, <1>4, RepoReturnsLeaves, IssuesReturnLeaves, GotoLeaves
        DEF Steps, AwaitingSteps, PassedSteps, IssueSteps

\* A call fails.
LEMMA CallFailsLeaves ==
  ASSUME TypeOK, NEW p \in Processes, CallFails(p)
  PROVE  Leaves(p)
<1> DEFINE l == [local[p] EXCEPT !.made = 0, !.receipt = 0]
<1>1. l \in LocalRecord
  BY LocalUpdates DEF TypeOK
<1>2. RepoReturns(p, l, FALSE) \/ IssuesReturn(p, l)
  BY DEF CallFails
<1> HIDE DEF l
<1> QED BY <1>1, <1>2, RepoReturnsLeaves, IssuesReturnLeaves

\* A command starts before the check.
LEMMA StartLeaves ==
  ASSUME NEW p \in Processes, Start(p)
  PROVE  Leaves(p)
<1>1. \/ \E step \in {"next", "analyze", "round"} : \E l : Goto(p, step, l)
      \/ \E r \in Repos :
           Goto(p, "issues", [NoLocal EXCEPT !.command = "solve", !.repo = r,
                                             !.phase = "issues", !.remaining = DailyLimit])
  BY Zenon DEF Start, StartRun, StartTarget, StartSolve, StartHunt
<1>2. ASSUME NEW r \in Repos
      PROVE  [NoLocal EXCEPT !.command = "solve", !.repo = r,
                             !.phase = "issues", !.remaining = DailyLimit].phase = "issues"
  BY DEF NoLocal
<1> QED BY <1>1, <1>2, GotoLeaves DEF Steps, AwaitingSteps, PassedSteps, IssueSteps

\* The loop of a run is before it.
LEMMA NextRepoLeaves ==
  ASSUME NEW p \in Processes, NextRepo(p)
  PROVE  Leaves(p)
<1>1. Finish(p) \/ \E step \in {"next", "analyze"} : \E l : Goto(p, step, l)
  BY Zenon DEF NextRepo
<1> QED BY <1>1, FinishLeaves, GotoLeaves
        DEF Steps, AwaitingSteps, PassedSteps, IssueSteps

\* So are the rounds of a hunt.
LEMMA HuntLeaves ==
  ASSUME TypeOK, NEW p \in Processes, Hunt(p)
  PROVE  Leaves(p)
<1>1. CASE \E r \in Repos : SearchFinds(p, r)
  <2>1. PICK r \in Repos :
          Goto(p, "issues", [local[p] EXCEPT !.repo = r, !.phase = "issues",
                               !.searched = @ + 1, !.remaining = MaxGlobalIssues])
    BY <1>1 DEF SearchFinds
  <2> DEFINE l == [local[p] EXCEPT !.repo = r, !.phase = "issues",
                     !.searched = @ + 1, !.remaining = MaxGlobalIssues]
  <2>2. l.phase = "issues"
    BY DEF TypeOK, LocalRecord
  <2> HIDE DEF l
  <2>3. Goto(p, "issues", l)
    BY <2>1 DEF l
  <2> QED BY <2>2, <2>3, GotoLeaves DEF Steps, AwaitingSteps, PassedSteps
<1>2. CASE ~\E r \in Repos : SearchFinds(p, r)
  <2>1. \/ Finish(p)
        \/ \E step \in {"discover", "select", "search", "sleep", "analyze", "round"} :
             \E l : Goto(p, step, l)
    BY <1>2, Zenon DEF Hunt, BeginRound, SelectTarget, SearchEnds, EndRound, Discover
  <2> QED BY <2>1, FinishLeaves, GotoLeaves
          DEF Steps, AwaitingSteps, PassedSteps, IssueSteps
<1> QED BY <1>1, <1>2

\* Generation passes the check where there is no row.
LEMMA ProcessRepoProceeds ==
  ASSUME TypeOK, NEW p \in Processes, ProcessRepo(p)
  PROVE  Proceeds(p)
<1>0. local[p] \in LocalRecord
  BY DEF TypeOK
<1>1. CASE RepoOptsOut(p) \/ AnalysisFails(p)
  BY <1>0, <1>1, RepoReturnsLeaves, CallFailsLeaves, LeavesProceeds
  DEF RepoOptsOut, AnalysisFails
<1>2. ASSUME NEW findings \in BOOLEAN, Analyze(p, findings)
      PROVE  Proceeds(p)
  <2>1. Goto(p, "generate", local[p]) \/ RepoReturns(p, local[p], TRUE)
    BY <1>2 DEF Analyze
  <2> QED BY <1>0, <2>1, RepoReturnsLeaves, GotoLeaves, LeavesProceeds
          DEF Steps, AwaitingSteps, PassedSteps, IssueSteps
<1>3. ASSUME NEW failed \in BOOLEAN, NEW valid \in BOOLEAN, Generate(p, failed, valid)
      PROVE  Proceeds(p)
  <2> DEFINE l == [local[p] EXCEPT !.failed = failed]
  <2>1. l \in LocalRecord
    BY <1>0, LocalUpdates
  <2>2. (~HasOpenRow(l.repo) /\ Goto(p, "admit", l)) \/ RepoReturns(p, l, ~failed)
    BY <1>3 DEF Generate
  <2> HIDE DEF l
  <2>3. CASE ~HasOpenRow(l.repo) /\ Goto(p, "admit", l)
    <3>1. \A r \in Repos : Passing("admit", l, r) => ~HasOpenRow(r)
      BY <2>3 DEF Passing
    <3> QED BY <2>3, <3>1 DEF Proceeds, Goto, Steps, AwaitingSteps, IssueSteps
  <2> QED BY <2>1, <2>2, <2>3, RepoReturnsLeaves, LeavesProceeds
<1> QED BY <1>1, <1>2, <1>3 DEF ProcessRepo

\* Issues are no concern of the check.
LEMMA ProcessIssuesProceeds ==
  ASSUME TypeOK, PullBound, NEW p \in Processes, ProcessIssues(p)
  PROVE  Proceeds(p)
<1>0. local[p] \in LocalRecord
  BY DEF TypeOK
<1>1. local[p].phase = "issues"
  BY DEF ProcessIssues, FetchIssues, SolveIssue, At, PullBound, IssuesPhase, IssueSteps
<1>2. ASSUME NEW n, FetchIssues(p, n)
      PROVE  Proceeds(p)
  <2> DEFINE l == [local[p] EXCEPT !.issues = n]
  <2>1. l.phase = "issues"
    BY <1>0, <1>1 DEF LocalRecord
  <2>2. IssuesReturn(p, l) \/ Goto(p, "issue", l)
    BY <1>2 DEF FetchIssues
  <2> HIDE DEF l
  <2> QED BY <2>1, <2>2, IssuesReturnLeaves, GotoLeaves, LeavesProceeds
          DEF Steps, AwaitingSteps, PassedSteps
<1>3. ASSUME NEW valid \in BOOLEAN, SolveIssue(p, valid)
      PROVE  Proceeds(p)
  <2>1. Goto(p, "admit", local[p]) \/ AttemptOver(p, local[p])
    BY <1>3 DEF SolveIssue
  <2>2. CASE Goto(p, "admit", local[p])
    <3>1. \A r \in Repos : ~Passing("admit", local[p], r)
      BY <1>1 DEF Passing
    <3> QED BY <2>2, <3>1 DEF Proceeds, Goto, Steps, AwaitingSteps, IssueSteps
  <2> QED BY <1>0, <2>1, <2>2, AttemptOverLeaves, LeavesProceeds
<1> QED BY <1>2, <1>3 DEF ProcessIssues

\* A pull request that is opened has no row yet.
LEMMA OpenedStays ==
  ASSUME TypeOK, NEW p \in Processes, pulls' = Opened(p)
  PROVE  /\ PullsStay /\ \A r \in Repos : AnalysisPulls(r)' = AnalysisPulls(r)
         /\ \E i \in DOMAIN pulls' :
              /\ pulls'[i].receipt = local[p].receipt
              /\ pulls'[i].repo = local[p].repo /\ pulls'[i].phase = local[p].phase
<1> DEFINE new == [repo |-> local[p].repo, phase |-> local[p].phase,
                   receipt |-> local[p].receipt, row |-> "none"]
           S == PullRecord \cup {new}
<1>1. pulls \in Seq(S) /\ new \in S
  BY DEF TypeOK
<1>2. pulls' = Append(pulls, new)
  BY DEF Opened
<1>3. /\ new.row = "none" /\ new.receipt = local[p].receipt
      /\ new.repo = local[p].repo /\ new.phase = local[p].phase
  OBVIOUS
<1> HIDE DEF new, S
<1>4. /\ DOMAIN pulls' = DOMAIN pulls \cup {Len(pulls) + 1}
      /\ \A i \in DOMAIN pulls : pulls'[i] = pulls[i]
      /\ pulls'[Len(pulls) + 1] = new
  BY <1>1, <1>2
<1>5. PullsStay
  BY <1>4 DEF PullsStay
<1>6. \A r \in Repos : AnalysisPulls(r)' = AnalysisPulls(r)
  BY <1>3, <1>4 DEF AnalysisPulls
<1> QED BY <1>3, <1>4, <1>5, <1>6

\* A step that leaves the pull requests.
LEMMA SamePullsStay ==
  ASSUME UNCHANGED pulls
  PROVE  PullsStay /\ \A r \in Repos : AnalysisPulls(r)' = AnalysisPulls(r)
BY DEF PullsStay, AnalysisPulls

\* A process that opened its pull request is still behind the check.
LEMMA CreatePullKeeps ==
  ASSUME TypeOK, IsFiniteSet(Processes), PullBound, NEW p \in Processes, CreatePull(p)
  PROVE  PullBound'
<1>1. /\ PullsStay /\ \A r \in Repos : AnalysisPulls(r)' = AnalysisPulls(r)
      /\ \E i \in DOMAIN pulls' :
           /\ pulls'[i].receipt = local[p].receipt
           /\ pulls'[i].repo = local[p].repo /\ pulls'[i].phase = local[p].phase
  BY OpenedStays DEF CreatePull
<1>2. /\ pc[p] = "create" /\ pc'[p] = "record" /\ local'[p] = local[p]
      /\ \A q \in Processes : q # p => pc'[q] = pc[q] /\ local'[q] = local[q]
  BY PastAfter DEF CreatePull, Goto, At
<1>3. IssuesPhase'
  BY <1>2 DEF IssuesPhase, PullBound, IssueSteps
<1>4. RecordHeld'
  <2> SUFFICES ASSUME NEW q \in Processes, pc'[q] = "record"
               PROVE  \E i \in DOMAIN pulls' :
                        /\ pulls'[i].receipt = local'[q].receipt
                        /\ pulls'[i].repo = local'[q].repo
                        /\ pulls'[i].phase = local'[q].phase
    BY DEF RecordHeld
  <2>1. CASE q = p
    BY <1>1, <1>2, <2>1
  <2>2. CASE q # p
    BY <1>1, <1>2, <2>2 DEF RecordHeld, PullBound, PullsStay
  <2> QED BY <2>1, <2>2
<1>5. \A r \in Repos : Past(r)' \subseteq Past(r)
  BY <1>2 DEF Past, Passing, PassedSteps
<1>6. PastCounted'
  <2> SUFFICES ASSUME NEW r \in Repos
               PROVE  Cardinality(AnalysisPulls(r)') + Cardinality(Past(r)')
                        <= Cardinality(Processes)
    BY DEF PastCounted
  <2> QED BY <1>1, <1>5, CountsShrink DEF PullBound
<1> QED BY <1>3, <1>4, <1>6 DEF PullBound

\* The row takes the place of its process.
LEMMA RecordPullKeeps ==
  ASSUME TypeOK, PullsHaveReceipts, IsFiniteSet(Processes), PullBound,
         NEW p \in Processes, RecordPull(p)
  PROVE  PullBound'
<1>1. pc[p] = "record" /\ local[p] \in LocalRecord
  BY DEF RecordPull, At, TypeOK
<1>2. Leaves(p)
  <2> DEFINE l == [local[p] EXCEPT !.made = @ + 1]
  <2>1. l \in LocalRecord
    BY <1>1 DEF LocalRecord
  <2>2. AttemptOver(p, l)
    BY DEF RecordPull
  <2> HIDE DEF l
  <2> QED BY <2>1, <2>2, AttemptOverLeaves
<1>3. PICK k \in DOMAIN pulls :
        /\ pulls[k].receipt = local[p].receipt
        /\ pulls[k].repo = local[p].repo /\ pulls[k].phase = local[p].phase
  BY <1>1 DEF PullBound, RecordHeld
<1>4. \A i \in DOMAIN pulls : pulls[i].receipt = local[p].receipt => i = k
  BY <1>3 DEF PullsHaveReceipts
<1>5. /\ DOMAIN pulls' = DOMAIN pulls
      /\ \A i \in DOMAIN pulls : i # k => pulls'[i] = pulls[i]
      /\ pulls'[k] = [pulls[k] EXCEPT !.row = "today"]
  BY <1>3, <1>4 DEF RecordPull
<1>6. pulls[k] \in PullRecord
  BY DEF TypeOK
<1>7. /\ pulls'[k].receipt = pulls[k].receipt /\ pulls'[k].repo = pulls[k].repo
      /\ pulls'[k].phase = pulls[k].phase
  BY <1>5, <1>6 DEF PullRecord
<1>8. PullsStay
  BY <1>5, <1>7 DEF PullsStay
<1>9. PICK step \in Steps \ PassedSteps : \E held :
        /\ step \in IssueSteps => held.phase = "issues"
        /\ pc' = [pc EXCEPT ![p] = step]
        /\ local' = [local EXCEPT ![p] = held]
  BY <1>2 DEF Leaves
<1>10. /\ pc'[p] = step
       /\ step \in IssueSteps => local'[p].phase = "issues"
       /\ \A q \in Processes : q # p => pc'[q] = pc[q] /\ local'[q] = local[q]
  <2>1. PICK held :
          /\ step \in IssueSteps => held.phase = "issues"
          /\ pc' = [pc EXCEPT ![p] = step]
          /\ local' = [local EXCEPT ![p] = held]
    BY <1>9
  <2> QED BY <2>1, PastAfter
<1>11. IssuesPhase'
  BY <1>10 DEF IssuesPhase, PullBound
<1>12. RecordHeld'
  <2> SUFFICES ASSUME NEW q \in Processes, pc'[q] = "record"
               PROVE  \E i \in DOMAIN pulls' :
                        /\ pulls'[i].receipt = local'[q].receipt
                        /\ pulls'[i].repo = local'[q].repo
                        /\ pulls'[i].phase = local'[q].phase
    BY DEF RecordHeld
  <2>1. q # p /\ pc[q] = "record" /\ local'[q] = local[q]
    BY <1>10 DEF PassedSteps
  <2> QED BY <1>8, <2>1 DEF RecordHeld, PullBound, PullsStay
<1>13. \A r \in Repos : Past(r)' \subseteq Past(r) \ {p}
  BY <1>10 DEF Past, Passing
<1>14. PastCounted'
  <2> SUFFICES ASSUME NEW r \in Repos
               PROVE  Cardinality(AnalysisPulls(r)') + Cardinality(Past(r)')
                        <= Cardinality(Processes)
    BY DEF PastCounted
  <2>1. CASE p \notin Past(r)
    <3>1. ~(pulls[k].repo = r /\ pulls[k].phase = "repo")
      BY <1>1, <1>3, <2>1 DEF Past, Passing, PassedSteps
    <3>2. AnalysisPulls(r)' \subseteq AnalysisPulls(r)
      BY <1>5, <1>7, <3>1 DEF AnalysisPulls
    <3> QED BY <1>13, <3>2, CountsShrink DEF PullBound
  <2>2. CASE p \in Past(r)
    <3> DEFINE A == AnalysisPulls(r)
               B == Past(r)
               C == AnalysisPulls(r)'
               D == Past(r)'
    <3>1. C \subseteq A \cup {k}
      BY <1>5, <1>7 DEF AnalysisPulls
    <3>2. D \subseteq B \ {p} /\ p \in B
      BY <1>13, <2>2
    <3>3. /\ IsFiniteSet(A) /\ Cardinality(A) \in Nat /\ IsFiniteSet(B) /\ Cardinality(B) \in Nat
          /\ Cardinality(Processes) \in Nat
      BY Cardinalities
    <3>4. Cardinality(A) + Cardinality(B) <= Cardinality(Processes)
      BY DEF PullBound, PastCounted
    <3> HIDE DEF A, B, C, D
    <3>5. IsFiniteSet(A \cup {k}) /\ Cardinality(A \cup {k}) <= Cardinality(A) + 1
      <4>1. /\ IsFiniteSet(A \cup {k})
            /\ Cardinality(A \cup {k}) = IF k \in A THEN Cardinality(A) ELSE Cardinality(A) + 1
        BY <3>3, FS_AddElement
      <4> QED BY <3>3, <4>1
    <3>6. IsFiniteSet(B \ {p}) /\ Cardinality(B \ {p}) = Cardinality(B) - 1
      BY <3>2, <3>3, FS_RemoveElement
    <3>7. Cardinality(C) \in Nat /\ Cardinality(C) <= Cardinality(A \cup {k})
      BY <3>1, <3>5, FS_Subset, FS_CardinalityType
    <3>8. Cardinality(D) \in Nat /\ Cardinality(D) <= Cardinality(B \ {p})
      BY <3>2, <3>6, FS_Subset, FS_CardinalityType
    <3>9. Cardinality(A \cup {k}) \in Nat
      BY <3>5, FS_CardinalityType
    <3>10. Cardinality(C) + Cardinality(D) <= Cardinality(Processes)
      BY <3>3, <3>4, <3>5, <3>6, <3>7, <3>8, <3>9
    <3> QED BY <3>10 DEF C, D
  <2> QED BY <2>1, <2>2
<1> QED BY <1>11, <1>12, <1>14 DEF PullBound

\* The steps behind the check.
LEMMA AttemptKeeps ==
  ASSUME TypeOK, PullsHaveReceipts, IsFiniteSet(Processes), PullBound,
         NEW p \in Processes, Attempt(p)
  PROVE  PullBound'
<1>0. local[p] \in LocalRecord
  BY DEF TypeOK
<1>1. CASE AdmissionBlocked(p) \/ RecordFails(p)
  <2>1. Leaves(p) /\ UNCHANGED pulls
    BY <1>0, <1>1, AttemptOverLeaves, CallFailsLeaves DEF AdmissionBlocked, RecordFails, memory
  <2> QED BY <2>1, LeavesProceeds, SamePullsStay, ProceedsKeeps
<1>2. CASE AdmissionApproved(p)
  <2> DEFINE l == [local[p] EXCEPT !.receipt = Len(receipts')]
  <2>1. l.phase = local[p].phase /\ l.repo = local[p].repo
    BY <1>0 DEF LocalRecord
  <2>2. pc[p] = "admit" /\ Goto(p, "create", l) /\ UNCHANGED pulls
    BY <1>2 DEF AdmissionApproved, At
  <2> HIDE DEF l
  <2>3. \A r \in Repos : Passing("create", l, r) => Passing(pc[p], local[p], r)
    BY <2>1, <2>2 DEF Passing, PassedSteps
  <2>4. Proceeds(p)
    BY <2>2, <2>3 DEF Proceeds, Goto, Steps, AwaitingSteps, IssueSteps
  <2> QED BY <2>2, <2>4, SamePullsStay, ProceedsKeeps
<1>3. CASE CreateFails(p)
  <2> DEFINE l == [local[p] EXCEPT !.failed = TRUE]
  <2>1. l \in LocalRecord
    BY <1>0, LocalUpdates
  <2>2. AttemptOver(p, l)
    BY <1>3 DEF CreateFails
  <2> HIDE DEF l
  <2>3. Proceeds(p)
    BY <2>1, <2>2, AttemptOverLeaves, LeavesProceeds
  <2>4. PullsStay /\ \A r \in Repos : AnalysisPulls(r)' = AnalysisPulls(r)
    BY <1>3, OpenedStays, SamePullsStay DEF CreateFails
  <2> QED BY <2>3, <2>4, ProceedsKeeps
<1> QED BY <1>1, <1>2, <1>3, CreatePullKeeps, RecordPullKeeps DEF Attempt

\* Midnight makes rows older and takes none away.
LEMMA NewDayKeeps ==
  ASSUME TypeOK, IsFiniteSet(Processes), PullBound, NewDay
  PROVE  PullBound'
<1>1. /\ DOMAIN pulls' = DOMAIN pulls /\ UNCHANGED <<pc, local>>
      /\ \A i \in DOMAIN pulls : pulls'[i] = [pulls[i] EXCEPT !.row = Older(@)]
  BY DEF NewDay
<1>2. \A i \in DOMAIN pulls :
        /\ pulls'[i].receipt = pulls[i].receipt /\ pulls'[i].repo = pulls[i].repo
        /\ pulls'[i].phase = pulls[i].phase
        /\ pulls'[i].row = "none" <=> pulls[i].row = "none"
  <2> SUFFICES ASSUME NEW i \in DOMAIN pulls
               PROVE  /\ pulls'[i].receipt = pulls[i].receipt /\ pulls'[i].repo = pulls[i].repo
                      /\ pulls'[i].phase = pulls[i].phase
                      /\ pulls'[i].row = "none" <=> pulls[i].row = "none"
    OBVIOUS
  <2>1. pulls[i] \in PullRecord
    BY DEF TypeOK
  <2> QED BY <1>1, <2>1 DEF PullRecord, Older
<1>3. \A r \in Repos : AnalysisPulls(r)' = AnalysisPulls(r) /\ Past(r)' = Past(r)
  BY <1>1, <1>2 DEF AnalysisPulls, Past
<1>4. PastCounted'
  BY <1>3 DEF PullBound, PastCounted
<1>5. IssuesPhase' /\ RecordHeld'
  BY <1>1, <1>2 DEF PullBound, IssuesPhase, RecordHeld
<1> QED BY <1>4, <1>5 DEF PullBound

\* Nobody is behind the check at the start.
LEMMA InitBound ==
  ASSUME IsFiniteSet(Processes), Init
  PROVE  PullBound
<1>1. \A r \in Repos : AnalysisPulls(r) = {} /\ Past(r) = {}
  BY DEF Init, AnalysisPulls, Past, Passing, PassedSteps
<1>2. PastCounted
  <2>1. Cardinality(Processes) \in Nat
    BY FS_CardinalityType
  <2>2. \A r \in Repos :
          Cardinality(AnalysisPulls(r)) = 0 /\ Cardinality(Past(r)) = 0
    BY <1>1, FS_EmptySet
  <2> QED BY <2>1, <2>2 DEF PastCounted
<1>3. IssuesPhase /\ RecordHeld
  BY DEF Init, IssuesPhase, RecordHeld, IssueSteps
<1> QED BY <1>2, <1>3 DEF PullBound

\* Every step keeps the bound.
LEMMA NextBound ==
  ASSUME IsFiniteSet(Processes), TypeOK, PullsHaveReceipts, PullBound, [Next]_vars
  PROVE  PullBound'
<1>1. CASE UNCHANGED <<pulls, pc, local>>
  BY <1>1 DEF PullBound, PastCounted, AnalysisPulls, Past, IssuesPhase, RecordHeld
<1>2. ASSUME NEW p \in Processes,
             Start(p) \/ NextRepo(p) \/ ProcessRepo(p) \/ ProcessIssues(p) \/ Hunt(p) \/ Crash(p)
      PROVE  PullBound'
  <2>1. Proceeds(p)
    BY <1>2, StartLeaves, NextRepoLeaves, ProcessRepoProceeds, ProcessIssuesProceeds,
       HuntLeaves, FinishLeaves, LeavesProceeds DEF Crash
  <2>2. UNCHANGED pulls
    BY <1>2
    DEF Start, StartRun, StartTarget, StartSolve, StartHunt, StartCommand, NextRepo,
        ProcessRepo, RepoOptsOut, AnalysisFails, Analyze, Generate, ProcessIssues, FetchIssues,
        SolveIssue, Hunt, BeginRound, Discover, SelectTarget, SearchFinds, SearchEnds, EndRound,
        Crash, memory
  <2> QED BY <2>1, <2>2, SamePullsStay, ProceedsKeeps
<1>3. ASSUME NEW p \in Processes, Cool(p)
      PROVE  PullBound'
  BY <1>1, <1>3 DEF Cool, memory
<1>4. ASSUME NEW r \in Repos, WeekPasses(r)
      PROVE  PullBound'
  BY <1>1, <1>4 DEF WeekPasses
<1> QED BY <1>1, <1>2, <1>3, <1>4, AttemptKeeps, NewDayKeeps DEF Next, Work, vars, memory

-----------------------------------------------------------------------------
(* The theorem *)

\* However many processes look for an open pull request at the same time, the
\* repository gets at most one from the analysis of each, in spite of crashes,
\* lost answers and commands that start again (skip_repos_with_open_pr).
THEOREM PullsPerProcessAreBounded ==
  ASSUME IsFiniteSet(Processes)
  PROVE  Spec => []OnePullPerProcess
<1>1. Init => PullBound
  BY InitBound
<1>2. TypeOK /\ PullsHaveReceipts /\ PullBound /\ [Next]_vars => PullBound'
  BY NextBound
<1>3. TypeOK /\ PullBound => OnePullPerProcess
  <2> SUFFICES ASSUME TypeOK, PullBound, NEW r \in Repos
               PROVE  Cardinality(AnalysisPulls(r)) <= Cardinality(Processes)
    BY DEF OnePullPerProcess
  <2>1. Cardinality(AnalysisPulls(r)) + Cardinality(Past(r)) <= Cardinality(Processes)
    BY DEF PullBound, PastCounted
  <2> QED BY <2>1, Cardinalities
<1> QED BY <1>1, <1>2, <1>3, PipelineTypeCorrect, PullsAlwaysHaveReceipts, PTL DEF Spec

=============================================================================
