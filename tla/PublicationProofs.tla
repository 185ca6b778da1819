------------------------- MODULE PublicationProofs -------------------------
(***************************************************************************)
(* Proofs about the publication of draft pull requests, for any set of     *)
(* processes, any contributions and manifests, any number of sessions and  *)
(* any damage to the database file: a draft was approved by a human whose  *)
(* decision is on record, its evidence had not expired when its write      *)
(* began, it lies within the consent then in force, its branch holds the   *)
(* reviewed contribution and nothing else, and a ledger that verifies was  *)
(* issued.                                                                 *)
(*                                                                         *)
(* Inv carries the approval and the expiry from the human's answer to the  *)
(* pull request.  The receipts of the ledger are those of its records, row *)
(* after row, and each was issued.  The line count of the policy is shown  *)
(* to bound the shortest diff: the table of the longest common subsequence *)
(* exists, is monotonic, and counts a common front and a common back one   *)
(* each.  WritesInv follows a branch from its creation, change after       *)
(* change; a branch that exists cannot be created again, so each is        *)
(* written by one process.                                                 *)
(*                                                                         *)
(* Induction over a number is by a set of numbers (Induction), which needs *)
(* no operator as a parameter.                                             *)
(***************************************************************************)
EXTENDS Publication, InductionLemmas, SequenceTheorems, TLAPS

Fields == DOMAIN NoLocal

Approved(candidate, receipts) ==
  \E r \in receipts :
    r # NoReceipt /\ r[Len(r)].content = [decision |-> "approved", candidate |-> candidate]

\* What a process holds at a step.
Held(step, l, receipts) ==
  /\ DOMAIN l = Fields
  /\ step \in Writing \cup {"validate", "revalidate"} => Approved(l.candidate, receipts)
  /\ step \in Writing \cup {"review", "validate", "revalidate"} =>
       l.capsule.expiresAt = l.capsule.generatedAt + PermitTtl
  /\ step \in Writing \cup {"revalidate"} => l.at <= l.capsule.expiresAt

ProcessesInv ==
  /\ pc = [p \in Processes |-> pc[p]]
  /\ local = [p \in Processes |-> local[p]]
  /\ \A p \in Processes : Held(pc[p], local[p], issued)

DraftsInv ==
  \A d \in drafts :
    /\ Approved(d.candidate, issued)
    /\ d.at <= d.capsule.generatedAt + PermitTtl

RowInv(row) ==
  /\ DOMAIN row = {"previous", "body", "receipt", "columns"}
  /\ \E S : row.receipt \in Seq(S)

\* The rows of a ledger are rows, whatever was done to them.
IsLedger(l) == \E R : l \in Seq(R) /\ \A row \in R : RowInv(row)

Inv == IsLedger(ledger) /\ ProcessesInv /\ DraftsInv

(***************************************************************************)
(* The ledger                                                              *)
(***************************************************************************)
LEMMA LastReceiptIsSequence ==
  ASSUME NEW l, IsLedger(l)
  PROVE  \E S : LastReceipt(l) \in Seq(S)
<1>1. CASE l = <<>>
  <2>1. LastReceipt(l) \in Seq({})
    BY <1>1 DEF LastReceipt, NoReceipt
  <2> QED BY <2>1
<1>2. CASE l # <<>>
  <2>1. PICK R : l \in Seq(R) /\ \A row \in R : RowInv(row)
    BY DEF IsLedger
  <2>2. l[Len(l)] \in R
    BY <1>2, <2>1
  <2>3. LastReceipt(l) = l[Len(l)].receipt
    BY <1>2 DEF LastReceipt
  <2> QED BY <2>1, <2>2, <2>3 DEF RowInv
<1> QED BY <1>1, <1>2

\* A new row's receipt is the last one with the material of the record.
LEMMA RecordedReceipt ==
  ASSUME NEW l, IsLedger(l), ChainIsValid(l), NEW body
  PROVE  /\ IsLedger(Recorded(l, body))
         /\ LastReceipt(Recorded(l, body)) # NoReceipt
         /\ LET r == LastReceipt(Recorded(l, body)) IN r[Len(r)] = Material(body)
<1> DEFINE row == Row(LastReceipt(l), body)
<1>1. PICK R : l \in Seq(R) /\ \A x \in R : RowInv(x)
  BY DEF IsLedger
<1>2. PICK S : LastReceipt(l) \in Seq(S)
  BY LastReceiptIsSequence
<1>3. row.receipt = Append(LastReceipt(l), Material(body))
  BY DEF Row, Receipt
<1>4. DOMAIN row = {"previous", "body", "receipt", "columns"}
  BY DEF Row
<1> HIDE DEF row
<1> DEFINE m == Material(body)
           T == S \cup {m}
           r == Append(LastReceipt(l), m)
<1>5. LastReceipt(l) \in Seq(T) /\ m \in T
  BY <1>2
<1> HIDE DEF m, T
<1>6. r \in Seq(T) /\ Len(r) = Len(LastReceipt(l)) + 1 /\ r[Len(r)] = m /\ Len(r) > 0
  BY <1>5
<1>7. RowInv(row)
  BY <1>3, <1>4, <1>6 DEF RowInv, m
<1> DEFINE U == R \cup {row}
<1>8. l \in Seq(U) /\ row \in U /\ \A x \in U : RowInv(x)
  BY <1>1, <1>7
<1> HIDE DEF U
<1> DEFINE longer == Append(l, row)
<1>9. longer \in Seq(U) /\ longer[Len(longer)] = row /\ Len(longer) > 0
  BY <1>8
<1>10. Recorded(l, body) = longer
  BY DEF Recorded, row
<1>11. IsLedger(longer)
  BY <1>8, <1>9 DEF IsLedger
<1>12. LastReceipt(longer) = r
  BY <1>3, <1>9 DEF LastReceipt, m
<1>13. r # NoReceipt
  BY <1>6 DEF NoReceipt
<1> QED BY <1>6, <1>10, <1>11, <1>12, <1>13 DEF m

LEMMA TamperedRow ==
  ASSUME NEW l, IsLedger(l), NEW i \in DOMAIN l, NEW row, RowInv(row)
  PROVE  IsLedger([l EXCEPT ![i] = row])
<1>1. PICK R : l \in Seq(R) /\ \A x \in R : RowInv(x)
  BY DEF IsLedger
<1> DEFINE U == R \cup {row}
<1>2. l \in Seq(U) /\ row \in U /\ \A x \in U : RowInv(x)
  BY <1>1
<1> HIDE DEF U
<1>3. [l EXCEPT ![i] = row] \in Seq(U)
  BY <1>2, ExceptSeq
<1> QED BY <1>2, <1>3 DEF IsLedger

\* Whatever is done to the database file, its rows are rows.
LEMMA TamperKeepsLedger ==
  ASSUME IsLedger(ledger), Tamper
  PROVE  IsLedger(ledger')
<1>1. PICK R : ledger \in Seq(R) /\ \A row \in R : RowInv(row)
  BY DEF IsLedger
<1>2. PICK i \in DOMAIN ledger :
        \/ ledger' = WithoutRow(ledger, i)
        \/ i < Len(ledger) /\ ledger' = Exchanged(ledger, i)
        \/ \E body : ledger' = EditedRecord(ledger, i, body)
        \/ \E columns : ledger' = EditedColumn(ledger, i, columns)
  BY Zenon DEF Tamper
<1>3. i \in 1..Len(ledger) /\ Len(ledger) \in Nat /\ RowInv(ledger[i])
  BY <1>1
<1>4. CASE ledger' = WithoutRow(ledger, i)
  <2>1. SubSeq(ledger, 1, i - 1) \in Seq(R)
    BY <1>1, <1>3, SubSeqProperties
  <2>2. SubSeq(ledger, i + 1, Len(ledger)) \in Seq(R)
    BY <1>1, <1>3, SubSeqProperties
  <2>3. ledger' \in Seq(R)
    BY <1>4, <2>1, <2>2, ConcatProperties DEF WithoutRow
  <2> QED BY <1>1, <2>3 DEF IsLedger
<1>5. CASE i < Len(ledger) /\ ledger' = Exchanged(ledger, i)
  <2> DEFINE once == [ledger EXCEPT ![i] = ledger[i + 1]]
  <2>1. ledger[i] \in R /\ ledger[i + 1] \in R /\ i + 1 \in 1..Len(ledger)
    BY <1>1, <1>3, <1>5
  <2>2. once \in Seq(R) /\ DOMAIN once = DOMAIN ledger
    BY <1>1, <2>1, ExceptSeq
  <2>3. ledger' = [once EXCEPT ![i + 1] = ledger[i]]
    BY <1>5 DEF Exchanged
  <2> HIDE DEF once
  <2>4. i + 1 \in DOMAIN once
    BY <1>1, <2>1, <2>2
  <2>5. ledger' \in Seq(R)
    BY <2>1, <2>2, <2>3, <2>4, ExceptSeq
  <2> QED BY <1>1, <2>5 DEF IsLedger
<1>6. CASE \E body : ledger' = EditedRecord(ledger, i, body)
  <2>1. PICK body : ledger' = EditedRecord(ledger, i, body)
    BY <1>6
  <2> DEFINE row == [ledger[i] EXCEPT !.body = body]
  <2>2. ledger' = [ledger EXCEPT ![i] = row]
    BY <1>1, <2>1 DEF EditedRecord
  <2>3. DOMAIN row = DOMAIN ledger[i] /\ row.receipt = ledger[i].receipt
    BY <1>3 DEF RowInv
  <2> HIDE DEF row
  <2>4. RowInv(row)
    BY <1>3, <2>3 DEF RowInv
  <2> QED BY <2>2, <2>4, TamperedRow
<1>7. CASE \E columns : ledger' = EditedColumn(ledger, i, columns)
  <2>1. PICK columns : ledger' = EditedColumn(ledger, i, columns)
    BY <1>7
  <2> DEFINE row == [ledger[i] EXCEPT !.columns = columns]
  <2>2. ledger' = [ledger EXCEPT ![i] = row]
    BY <1>1, <2>1 DEF EditedColumn
  <2>3. DOMAIN row = DOMAIN ledger[i] /\ row.receipt = ledger[i].receipt
    BY <1>3 DEF RowInv
  <2> HIDE DEF row
  <2>4. RowInv(row)
    BY <1>3, <2>3 DEF RowInv
  <2> QED BY <2>2, <2>4, TamperedRow
<1> QED BY <1>2, <1>4, <1>5, <1>6, <1>7

(***************************************************************************)
(* The processes                                                           *)
(***************************************************************************)
LEMMA ApprovalsStay ==
  ASSUME NEW c, NEW receipts, NEW more, receipts \subseteq more, Approved(c, receipts)
  PROVE  Approved(c, more)
BY DEF Approved

LEMMA HeldStays ==
  ASSUME NEW step, NEW l, NEW receipts, NEW more, receipts \subseteq more,
         Held(step, l, receipts)
  PROVE  Held(step, l, more)
BY ApprovalsStay DEF Held

\* A process that returned holds nothing.
LEMMA NothingHeld ==
  ASSUME NEW receipts
  PROVE  Held("idle", NoLocal, receipts)
BY DEF Held, Writing, Fields

\* One process goes to a step and takes what it holds along.
LEMMA ProcessMoves ==
  ASSUME ProcessesInv, issued \subseteq issued',
         NEW p \in Processes, NEW step, NEW l, Held(step, l, issued'),
         pc' = [pc EXCEPT ![p] = step],
         local' = [local EXCEPT ![p] = l]
  PROVE  ProcessesInv'
<1>1. pc' = [q \in Processes |-> pc'[q]] /\ local' = [q \in Processes |-> local'[q]]
  BY DEF ProcessesInv
<1>2. ASSUME NEW q \in Processes
      PROVE  Held(pc'[q], local'[q], issued')
  <2>1. CASE q = p
    BY <2>1 DEF ProcessesInv
  <2>2. CASE q # p
    <3>1. Held(pc[q], local[q], issued')
      BY HeldStays DEF ProcessesInv
    <3>2. pc'[q] = pc[q] /\ local'[q] = local[q]
      BY <2>2 DEF ProcessesInv
    <3> QED BY <3>1, <3>2
  <2> QED BY <2>1, <2>2
<1> QED BY <1>1, <1>2 DEF ProcessesInv

LEMMA ProcessReturns ==
  ASSUME ProcessesInv, issued \subseteq issued', NEW p \in Processes, Return(p)
  PROVE  ProcessesInv'
BY ProcessMoves, NothingHeld DEF Return, Goto

\* What the process keeps when only its step changes.
LEMMA ProcessGoes ==
  ASSUME ProcessesInv, issued \subseteq issued', NEW p \in Processes, NEW step,
         Held(step, local[p], issued'), Goto(p, step), UNCHANGED local
  PROVE  ProcessesInv'
<1>1. local' = [local EXCEPT ![p] = local[p]]
  BY DEF ProcessesInv
<1> QED BY <1>1, ProcessMoves DEF Goto

LEMMA DraftsStay ==
  ASSUME DraftsInv, issued \subseteq issued', UNCHANGED drafts
  PROVE  DraftsInv'
BY ApprovalsStay DEF DraftsInv

LEMMA HeldAt ==
  ASSUME ProcessesInv, NEW p \in Processes
  PROVE  Held(pc[p], local[p], issued) /\ DOMAIN local[p] = Fields
BY DEF ProcessesInv, Held

LEMMA FieldNames ==
  Fields = {"consent", "candidate", "issue", "capsule", "at", "live", "next", "blob", "attempt"}
BY DEF Fields, NoLocal

\* Recording a decision keeps the ledger, and the receipts that were issued.
LEMMA RecordKeeps ==
  ASSUME IsLedger(ledger), NEW body, Record(body)
  PROVE  /\ IsLedger(ledger')
         /\ issued \subseteq issued'
<1>1. ChainIsValid(ledger) => IsLedger(ledger')
  BY RecordedReceipt DEF Record
<1>2. ~ChainIsValid(ledger) => ledger' = ledger
  BY DEF Record, Recorded
<1>3. issued \subseteq issued'
  BY DEF Record
<1> QED BY <1>1, <1>2, <1>3

\* An approval that was recorded is on record.
LEMMA ApprovalRecorded ==
  ASSUME IsLedger(ledger), ChainIsValid(ledger), NEW p, Record(Decision(p, "approved"))
  PROVE  Approved(local[p].candidate, issued')
<1> DEFINE body == Decision(p, "approved")
           r == LastReceipt(ledger')
<1>1. ledger' = Recorded(ledger, body) /\ r \in issued'
  BY DEF Record
<1>2. r # NoReceipt /\ r[Len(r)] = Material(body)
  BY <1>1, RecordedReceipt
<1>3. Material(body).content =
        [decision |-> "approved", candidate |-> local[p].candidate]
  BY DEF Material, Decision
<1> QED BY <1>1, <1>2, <1>3 DEF Approved

(***************************************************************************)
(* The steps                                                               *)
(***************************************************************************)
LEMMA ProcessStep ==
  ASSUME Inv, ProcessesInv', UNCHANGED <<ledger, issued, drafts>>
  PROVE  Inv'
BY DraftsStay DEF Inv

\* The steps before the human.
LEMMA DiscoverKeeps ==
  ASSUME Inv, NEW p \in Processes, Discover(p)
  PROVE  Inv'
<1> DEFINE consents == {DiscoverRepositoryConsent(files, readable) :
                          readable \in {DOMAIN ConsentPaths, {}}}
<1>1. PICK found \in consents : local' = [local EXCEPT ![p].consent = found]
  BY DEF Discover
<1> DEFINE l == [local[p] EXCEPT !.consent = found]
<1>2. local' = [local EXCEPT ![p] = l]
  BY <1>1, HeldAt, FieldNames DEF Inv
<1>3. DOMAIN l = Fields
  BY HeldAt DEF Inv
<1> HIDE DEF l, consents
<1>4. Held("generate", l, issued)
  BY <1>3 DEF Held, Writing
<1>5. ProcessesInv'
  BY <1>2, <1>4, ProcessMoves DEF Inv, Discover, Goto, database
<1> QED BY <1>5, ProcessStep DEF Discover, database, github

LEMMA GenerateKeeps ==
  ASSUME Inv, NEW p \in Processes, Generate(p)
  PROVE  Inv'
<1>1. \E l : local' = [local EXCEPT ![p] = l] /\ DOMAIN l = Fields
  <2>1. PICK c \in Candidates :
          \/ local' = [local EXCEPT ![p].candidate = c]
          \/ local' = [local EXCEPT ![p].candidate = c, ![p].issue = issue.number,
                         ![p].consent = Default(FromIssue(issue), local[p].consent)]
    BY DEF Generate
  <2>2. CASE local' = [local EXCEPT ![p].candidate = c]
    <3> DEFINE l == [local[p] EXCEPT !.candidate = c]
    <3>1. local' = [local EXCEPT ![p] = l] /\ DOMAIN l = Fields
      BY <2>2, HeldAt DEF Inv
    <3> QED BY <3>1
  <2>3. CASE local' = [local EXCEPT ![p].candidate = c, ![p].issue = issue.number,
                         ![p].consent = Default(FromIssue(issue), local[p].consent)]
    <3> DEFINE consent == Default(FromIssue(issue), local[p].consent)
               l == [local[p] EXCEPT !.candidate = c, !.issue = issue.number,
                                     !.consent = consent]
    <3> HIDE DEF consent
    <3>1. local' = [local EXCEPT ![p].candidate = c, ![p].issue = issue.number,
                                 ![p].consent = consent]
      BY <2>3 DEF consent
    <3>2. DOMAIN l = Fields
      BY HeldAt DEF Inv
    <3>3. p \in DOMAIN local
      BY DEF Inv, ProcessesInv
    <3>4. local' = [local EXCEPT ![p] = l]
      BY <3>1, <3>3
    <3> QED BY <3>2, <3>4
  <2> QED BY <2>1, <2>2, <2>3
<1>2. PICK l : local' = [local EXCEPT ![p] = l] /\ DOMAIN l = Fields
  BY <1>1
<1>3. Held("admit", l, issued)
  BY <1>2 DEF Held, Writing
<1>4. ProcessesInv'
  BY <1>2, <1>3, ProcessMoves DEF Inv, Generate, Goto, database
<1> QED BY <1>4, ProcessStep DEF Generate, database, github

LEMMA DecisionKeeps ==
  ASSUME Inv, NEW body, Record(body), ProcessesInv', UNCHANGED drafts
  PROVE  Inv'
BY RecordKeeps, DraftsStay DEF Inv

\* A capsule expires with the permit it was built from.
LEMMA CapsuleExpiry ==
  ASSUME NEW candidate, NEW base, NEW consent, NEW number, NEW report, NEW checks
  PROVE  LET capsule == BuildCapsule(candidate,
                          IssuePermit(Repository, base, consent, number, now), report, checks, now)
         IN capsule.expiresAt = capsule.generatedAt + PermitTtl
BY DEF BuildCapsule, IssuePermit

LEMMA AdmitKeeps ==
  ASSUME Inv, NEW p \in Processes, NEW failing, Admit(p, failing)
  PROVE  Inv'
<1>1. \/ /\ Record(Decision(p, "blocked")) /\ Return(p)
         /\ UNCHANGED drafts
      \/ /\ \E report, checks :
              local' = [local EXCEPT ![p].capsule =
                BuildCapsule(local[p].candidate,
                  IssuePermit(Repository, head, local[p].consent, local[p].issue, now),
                  report, checks, now)]
         /\ Goto(p, "review")
         /\ UNCHANGED <<ledger, issued, drafts>>
  BY Zenon DEF Admit, database, github
<1>2. CASE Record(Decision(p, "blocked")) /\ Return(p) /\ UNCHANGED drafts
  <2>1. issued \subseteq issued'
    BY <1>2, RecordKeeps DEF Inv
  <2>2. ProcessesInv'
    BY <1>2, <2>1, ProcessReturns DEF Inv
  <2> QED BY <1>2, <2>2, DecisionKeeps
<1>3. CASE /\ \E report, checks :
                local' = [local EXCEPT ![p].capsule =
                  BuildCapsule(local[p].candidate,
                    IssuePermit(Repository, head, local[p].consent, local[p].issue, now),
                    report, checks, now)]
           /\ Goto(p, "review")
           /\ UNCHANGED <<ledger, issued, drafts>>
  <2>1. PICK report, checks :
          local' = [local EXCEPT ![p].capsule =
                BuildCapsule(local[p].candidate,
                  IssuePermit(Repository, head, local[p].consent, local[p].issue, now),
                  report, checks, now)]
    BY <1>3
  <2> DEFINE capsule == BuildCapsule(local[p].candidate,
               IssuePermit(Repository, head, local[p].consent, local[p].issue, now),
               report, checks, now)
  <2>2. capsule.expiresAt = capsule.generatedAt + PermitTtl
    BY CapsuleExpiry
  <2>3. local' = [local EXCEPT ![p].capsule = capsule]
    BY <2>1
  <2> HIDE DEF capsule
  <2> DEFINE l == [local[p] EXCEPT !.capsule = capsule]
  <2>4. local' = [local EXCEPT ![p] = l] /\ DOMAIN l = Fields /\ l.capsule = capsule
    BY <2>3, HeldAt, FieldNames DEF Inv
  <2> HIDE DEF l
  <2>5. Held("review", l, issued)
    BY <2>2, <2>4 DEF Held, Writing
  <2>6. ProcessesInv'
    BY <1>3, <2>4, <2>5, ProcessMoves DEF Inv, Goto
  <2> QED BY <1>3, <2>6, ProcessStep
<1> QED BY <1>1, <1>2, <1>3

\* The human.
LEMMA ApproveKeeps ==
  ASSUME Inv, NEW p \in Processes, Approve(p)
  PROVE  Inv'
<1> USE DEF Inv
<1>1. issued \subseteq issued'
  BY RecordKeeps DEF Approve
<1>2. CASE ChainIsValid(ledger)
  <2>1. Approved(local[p].candidate, issued')
    BY <1>2, ApprovalRecorded DEF Approve
  <2>2. Held("review", local[p], issued)
    BY HeldAt DEF Approve
  <2>3. Held("validate", local[p], issued')
    BY <2>1, <2>2 DEF Held, Writing
  <2>4. ProcessesInv'
    BY <1>1, <1>2, <2>3, ProcessGoes DEF Approve
  <2> QED BY <2>4, DecisionKeeps DEF Approve, github
<1>3. CASE ~ChainIsValid(ledger)
  <2>1. ProcessesInv'
    BY <1>1, <1>3, ProcessReturns DEF Approve
  <2> QED BY <2>1, DecisionKeeps DEF Approve, github
<1> QED BY <1>2, <1>3

LEMMA DeclineKeeps ==
  ASSUME Inv, NEW p \in Processes, Decline(p)
  PROVE  Inv'
<1>1. issued \subseteq issued'
  BY RecordKeeps DEF Decline, Inv
<1>2. ProcessesInv'
  BY <1>1, ProcessReturns DEF Decline, Inv
<1> QED BY <1>2, DecisionKeeps DEF Decline, github

\* The write boundary.
LEMMA ReturnKeeps ==
  ASSUME Inv, NEW p \in Processes, Return(p), UNCHANGED <<ledger, issued, drafts>>
  PROVE  Inv'
<1>1. ProcessesInv'
  BY ProcessReturns DEF Inv
<1> QED BY <1>1, ProcessStep

LEMMA ValidateKeeps ==
  ASSUME Inv, NEW p \in Processes, Validate(p)
  PROVE  Inv'
<1>1. UNCHANGED <<ledger, issued, drafts>>
  BY DEF Validate, github, database
<1>2. CASE Return(p)
  BY <1>1, <1>2, ReturnKeeps
<1>3. CASE /\ ValidForSubmission(local[p].capsule, local[p].candidate, Repository, now)
           /\ Goto(p, "revalidate")
           /\ local' = [local EXCEPT ![p].at = now]
  <2> DEFINE l == [local[p] EXCEPT !.at = now]
  <2>1. /\ local' = [local EXCEPT ![p] = l] /\ DOMAIN l = Fields
        /\ l.at = now /\ l.capsule = local[p].capsule /\ l.candidate = local[p].candidate
    BY <1>3, HeldAt, FieldNames DEF Inv
  <2> HIDE DEF l
  <2>2. now <= l.capsule.expiresAt
    BY <1>3, <2>1 DEF ValidForSubmission
  <2>3. Held("validate", local[p], issued)
    BY HeldAt DEF Validate, Inv
  <2>4. Held("revalidate", l, issued)
    BY <2>1, <2>2, <2>3 DEF Held, Writing
  <2>5. ProcessesInv'
    BY <1>1, <1>3, <2>1, <2>4, ProcessMoves DEF Inv, Goto
  <2> QED BY <1>1, <2>5, ProcessStep
<1> QED BY <1>2, <1>3 DEF Validate

\* What a step of the write boundary may change of the memory of its process.
LEMMA WriteGoesOn ==
  ASSUME Inv, NEW p \in Processes, pc[p] \in Writing \cup {"revalidate"},
         NEW step \in Writing, NEW l,
         DOMAIN l = Fields, l.candidate = local[p].candidate,
         l.capsule = local[p].capsule, l.at = local[p].at,
         Goto(p, step), local' = [local EXCEPT ![p] = l],
         UNCHANGED <<ledger, issued, drafts>>
  PROVE  Inv'
<1>1. Held(pc[p], local[p], issued)
  BY HeldAt DEF Inv
<1>2. Held(step, l, issued)
  BY <1>1 DEF Held, Writing
<1>3. ProcessesInv'
  BY <1>2, ProcessMoves DEF Inv, Goto
<1> QED BY <1>3, ProcessStep

LEMMA WriteGoesOnAsItIs ==
  ASSUME Inv, NEW p \in Processes, pc[p] \in Writing \cup {"revalidate"},
         NEW step \in Writing, Goto(p, step), UNCHANGED <<local, ledger, issued, drafts>>
  PROVE  Inv'
<1>1. local' = [local EXCEPT ![p] = local[p]] /\ DOMAIN local[p] = Fields
  BY HeldAt DEF Inv, ProcessesInv
<1> QED BY <1>1, WriteGoesOn

LEMMA RevalidateKeeps ==
  ASSUME Inv, NEW p \in Processes, Revalidate(p)
  PROVE  Inv'
<1>1. UNCHANGED <<ledger, issued, drafts>>
  BY DEF Revalidate, github, database
<1>2. \/ Return(p)
      \/ Goto(p, "fork") /\ \E live : local' = [local EXCEPT ![p].live = live]
  BY Zenon DEF Revalidate
<1>3. CASE Return(p)
  BY <1>1, <1>3, ReturnKeeps
<1>4. CASE Goto(p, "fork") /\ \E live : local' = [local EXCEPT ![p].live = live]
  <2>1. PICK live : local' = [local EXCEPT ![p].live = live]
    BY <1>4
  <2> DEFINE l == [local[p] EXCEPT !.live = live]
  <2>2. /\ local' = [local EXCEPT ![p] = l] /\ DOMAIN l = Fields
        /\ l.at = local[p].at /\ l.capsule = local[p].capsule
        /\ l.candidate = local[p].candidate
    BY <2>1, HeldAt, FieldNames DEF Inv
  <2> HIDE DEF l
  <2>3. pc[p] \in Writing \cup {"revalidate"}
    BY DEF Revalidate
  <2> QED BY <1>1, <1>4, <2>2, <2>3, WriteGoesOn DEF Writing
<1> QED BY <1>2, <1>3, <1>4

LEMMA ForkKeeps ==
  ASSUME Inv, NEW p \in Processes, Fork(p)
  PROVE  Inv'
BY WriteGoesOnAsItIs DEF Fork, Writing, database

LEMMA CreateBranchKeeps ==
  ASSUME Inv, NEW p \in Processes, NEW answered, CreateBranch(p, answered)
  PROVE  Inv'
<1>1. UNCHANGED <<ledger, issued, drafts>> /\ pc[p] \in Writing
  BY DEF CreateBranch, database, Writing
<1>2. \/ Return(p)
      \/ Goto(p, "sha") /\ local' = [local EXCEPT ![p].next = 1]
  BY DEF CreateBranch
<1>3. CASE Goto(p, "sha") /\ local' = [local EXCEPT ![p].next = 1]
  <2> DEFINE l == [local[p] EXCEPT !.next = 1]
  <2>1. /\ local' = [local EXCEPT ![p] = l] /\ DOMAIN l = Fields
        /\ l.at = local[p].at /\ l.capsule = local[p].capsule
        /\ l.candidate = local[p].candidate
    BY <1>3, HeldAt, FieldNames DEF Inv
  <2> HIDE DEF l
  <2> QED BY <1>1, <1>3, <2>1, WriteGoesOn DEF Writing
<1> QED BY <1>1, <1>2, <1>3, ReturnKeeps

LEMMA AskShaKeeps ==
  ASSUME Inv, NEW p \in Processes, NEW answers, AskSha(p, answers)
  PROVE  Inv'
<1>1. UNCHANGED <<ledger, issued, drafts>> /\ pc[p] \in Writing /\ Goto(p, "put")
  BY DEF AskSha, database, github, Writing
<1>2. \E blob : local' = [local EXCEPT ![p].blob = blob, ![p].attempt = 1]
  BY Zenon DEF AskSha
<1>3. PICK blob : local' = [local EXCEPT ![p].blob = blob, ![p].attempt = 1]
  BY <1>2
<1> DEFINE l == [local[p] EXCEPT !.blob = blob, !.attempt = 1]
<1>4. p \in DOMAIN local
  BY DEF Inv, ProcessesInv
<1>5. local' = [local EXCEPT ![p] = l]
  BY <1>3, <1>4
<1>6. /\ DOMAIN l = Fields
      /\ l.at = local[p].at /\ l.capsule = local[p].capsule
      /\ l.candidate = local[p].candidate
  BY HeldAt, FieldNames DEF Inv
<1> HIDE DEF l
<1> QED BY <1>1, <1>5, <1>6, WriteGoesOn DEF Writing

LEMMA PutAnsweredKeeps ==
  ASSUME Inv, NEW p \in Processes, PutAnswered(p)
  PROVE  Inv'
<1>1. UNCHANGED <<ledger, issued, drafts>> /\ pc[p] \in Writing
  BY DEF PutAnswered, database, Writing
<1>2. \/ Goto(p, "sha") /\ local' = [local EXCEPT ![p].next = @ + 1]
      \/ Goto(p, "pull") /\ UNCHANGED local
  BY DEF PutAnswered
<1>3. CASE Goto(p, "sha") /\ local' = [local EXCEPT ![p].next = @ + 1]
  <2> DEFINE l == [local[p] EXCEPT !.next = @ + 1]
  <2>1. /\ local' = [local EXCEPT ![p] = l] /\ DOMAIN l = Fields
        /\ l.at = local[p].at /\ l.capsule = local[p].capsule
        /\ l.candidate = local[p].candidate
    BY <1>3, HeldAt, FieldNames DEF Inv
  <2> HIDE DEF l
  <2> QED BY <1>1, <1>3, <2>1, WriteGoesOn DEF Writing
<1>4. CASE Goto(p, "pull") /\ UNCHANGED local
  BY <1>1, <1>4, WriteGoesOnAsItIs DEF Writing
<1> QED BY <1>2, <1>3, <1>4

LEMMA PutFailsKeeps ==
  ASSUME Inv, NEW p \in Processes, NEW written, PutFails(p, written)
  PROVE  Inv'
<1>1. UNCHANGED <<ledger, issued, drafts>> /\ pc[p] = "put"
  BY DEF PutFails, database
<1>2. \/ local' = [local EXCEPT ![p].attempt = @ + 1] /\ UNCHANGED pc
      \/ Return(p)
  BY DEF PutFails
<1>3. CASE local' = [local EXCEPT ![p].attempt = @ + 1] /\ UNCHANGED pc
  <2> DEFINE l == [local[p] EXCEPT !.attempt = @ + 1]
  <2>1. /\ local' = [local EXCEPT ![p] = l] /\ DOMAIN l = Fields
        /\ l.at = local[p].at /\ l.capsule = local[p].capsule
        /\ l.candidate = local[p].candidate
    BY <1>3, HeldAt, FieldNames DEF Inv
  <2> HIDE DEF l
  <2>2. Goto(p, "put")
    BY <1>1, <1>3 DEF Goto, Inv, ProcessesInv
  <2> QED BY <1>1, <2>1, <2>2, WriteGoesOn DEF Writing
<1> QED BY <1>1, <1>2, <1>3, ReturnKeeps

\* A draft is what its process held.
LEMMA OpenDraftKeeps ==
  ASSUME Inv, NEW p \in Processes, OpenDraft(p)
  PROVE  Inv'
<1> DEFINE l == local[p]
           draft == [branch |-> l.candidate.branch, candidate |-> l.candidate,
                     capsule |-> l.capsule, at |-> l.at, live |-> l.live]
<1>1. /\ pc[p] = "pull" /\ drafts' = drafts \cup {draft}
      /\ UNCHANGED <<ledger, issued>> /\ Return(p)
  BY DEF OpenDraft, database
<1>2. Held("pull", l, issued)
  BY <1>1, HeldAt DEF Inv
<1>3. /\ Approved(l.candidate, issued)
      /\ l.at <= l.capsule.generatedAt + PermitTtl
  BY <1>2 DEF Held, Writing
<1>4. draft.candidate = l.candidate /\ draft.at = l.at /\ draft.capsule = l.capsule
  OBVIOUS
<1> HIDE DEF draft
<1>5. DraftsInv'
  BY <1>1, <1>3, <1>4 DEF DraftsInv, Inv
<1>6. ProcessesInv'
  BY <1>1, ProcessReturns DEF Inv
<1> QED BY <1>1, <1>5, <1>6 DEF Inv

(***************************************************************************)
(* Every step                                                              *)
(***************************************************************************)
LEMMA InitInv == Init => Inv
<1> SUFFICES ASSUME Init PROVE Inv
  OBVIOUS
<1>1. IsLedger(ledger)
  <2>1. <<>> \in Seq({})
    OBVIOUS
  <2> QED BY <2>1 DEF IsLedger, Init
<1>2. ProcessesInv
  BY NothingHeld DEF Init, ProcessesInv
<1>3. DraftsInv
  BY DEF Init, DraftsInv
<1> QED BY <1>1, <1>2, <1>3 DEF Inv

LEMMA NextInv == Inv /\ [Next]_vars => Inv'
<1> SUFFICES ASSUME Inv, [Next]_vars PROVE Inv'
  OBVIOUS
<1>1. ASSUME NEW p \in Processes, Admission(p) PROVE Inv'
  BY <1>1, DiscoverKeeps, GenerateKeeps, AdmitKeeps DEF Admission
<1>2. ASSUME NEW p \in Processes, Human(p) PROVE Inv'
  BY <1>2, ApproveKeeps, DeclineKeeps DEF Human
<1>3. ASSUME NEW p \in Processes, Write(p) PROVE Inv'
  <2>1. CASE PutRefused(p) \/ RequestFails(p)
    BY <2>1, ReturnKeeps DEF PutRefused, RequestFails, github, database
  <2>2. CASE ~(PutRefused(p) \/ RequestFails(p))
    BY <1>3, <2>2, ValidateKeeps, RevalidateKeeps, ForkKeeps, CreateBranchKeeps, AskShaKeeps,
       PutAnsweredKeeps, PutFailsKeeps, OpenDraftKeeps DEF Write
  <2> QED BY <2>1, <2>2
<1>4. CASE UNCHANGED <<github, database, pc, local>>
  BY <1>4 DEF Inv, ProcessesInv, DraftsInv, github, database
<1>5. CASE Tamper
  <2>1. IsLedger(ledger')
    BY <1>5, TamperKeepsLedger DEF Inv
  <2>2. UNCHANGED <<issued, drafts, pc, local>>
    BY <1>5 DEF Tamper, github
  <2> QED BY <2>1, <2>2 DEF Inv, ProcessesInv, DraftsInv
<1>6. CASE UNCHANGED vars
  BY <1>4, <1>6 DEF vars
<1> QED BY <1>1, <1>2, <1>3, <1>4, <1>5, <1>6 DEF Next, MaintainersAct, Tick

LEMMA SpecInv == Spec => []Inv
BY InitInv, NextInv, PTL DEF Spec

(***************************************************************************)
(* The receipts of a ledger that verifies                                  *)
(***************************************************************************)
\* The materials of the first n records.
Materials(l, n) == [i \in 1..n |-> Material(l[i].body)]

\* In a ledger that verifies every receipt is that of the records up to its row.
LEMMA ChainedReceipts ==
  ASSUME NEW l, IsLedger(l), ChainIsValid(l)
  PROVE  \A n \in 1..Len(l) : l[n].receipt = Materials(l, n)
<1> DEFINE S == {n \in Nat : n \in 1..Len(l) => l[n].receipt = Materials(l, n)}
<1>1. Len(l) \in Nat /\ DOMAIN l = 1..Len(l)
  BY DEF IsLedger
<1>2. 0 \in S
  BY <1>1
<1>3. ASSUME NEW n \in Nat, n \in S, n + 1 \in 1..Len(l)
      PROVE  l[n + 1].receipt = Materials(l, n + 1)
  <2> DEFINE m == Material(l[n + 1].body)
  <2>1. l[n + 1].receipt = Append(l[n + 1].previous, m)
    BY <1>1, <1>3 DEF ChainIsValid, ReceiptIsRight, Receipt
  <2>2. l[n + 1].previous = Materials(l, n)
    <3>1. l[n + 1].previous = ExpectedPrevious(l, n + 1)
      BY <1>1, <1>3 DEF ChainIsValid
    <3>2. CASE n = 0
      BY <3>1, <3>2 DEF ExpectedPrevious, NoReceipt, Materials
    <3>3. CASE n # 0
      <4>1. n \in 1..Len(l) /\ n + 1 # 1 /\ (n + 1) - 1 = n
        BY <1>1, <1>3, <3>3
      <4> QED
        BY <1>3, <3>1, <4>1 DEF ExpectedPrevious
    <3> QED
      BY <3>2, <3>3
  <2> DEFINE all == {Material(l[i].body) : i \in 1..(n + 1)}
             f == Materials(l, n)
             g == Materials(l, n + 1)
  <2>3. /\ f \in Seq(all) /\ Len(f) = n /\ m \in all
        /\ \A i \in 1..n : f[i] = g[i]
    BY DEF Materials
  <2>4. /\ g \in Seq(all) /\ Len(g) = n + 1 /\ g[n + 1] = m
    BY DEF Materials
  <2> HIDE DEF all, f, g, m
  <2>5. Append(f, m) = g
    <3>1. /\ Append(f, m) \in Seq(all) /\ Len(Append(f, m)) = n + 1
          /\ \A i \in 1..n : Append(f, m)[i] = f[i]
          /\ Append(f, m)[n + 1] = m
      BY <2>3, AppendProperties
    <3>2. \A i \in 1..(n + 1) : i \in 1..n \/ i = n + 1
      OBVIOUS
    <3> QED
      BY <2>3, <2>4, <3>1, <3>2, SeqEqual
  <2> QED
    BY <2>1, <2>2, <2>5 DEF f, g
<1> HIDE DEF S
<1>4. Nat \subseteq S
  <2>1. \A n \in Nat : n \in S => n + 1 \in S
    BY <1>3 DEF S
  <2> QED
    BY <1>2, <2>1, Induction
<1> QED
  BY <1>1, <1>4 DEF S

\* The receipts in the ledger were issued, whatever was done to their rows.
RowsIssued == \A i \in DOMAIN ledger : ledger[i].receipt \in issued

\* A decision that is recorded adds a row and issues its receipt.
LEMMA RecordIssues ==
  ASSUME Inv, RowsIssued, NEW body, Record(body)
  PROVE  RowsIssued'
<1>1. CASE ~ChainIsValid(ledger)
  BY <1>1 DEF Record, Recorded, RowsIssued
<1>2. CASE ChainIsValid(ledger)
  <2> DEFINE row == Row(LastReceipt(ledger), body)
  <2>1. PICK R : ledger \in Seq(R)
    BY DEF Inv, IsLedger
  <2>2. ledger' = Append(ledger, row)
    BY <1>2 DEF Record, Recorded
  <2> HIDE DEF row
  <2>3. ledger \in Seq(R \cup {row}) /\ row \in R \cup {row}
    BY <2>1
  <2>4. /\ Len(ledger') = Len(ledger) + 1 /\ DOMAIN ledger' = 1..(Len(ledger) + 1)
        /\ \A i \in 1..Len(ledger) : ledger'[i] = ledger[i]
        /\ ledger'[Len(ledger) + 1] = row /\ ledger' # <<>>
        /\ Len(ledger) \in Nat /\ DOMAIN ledger = 1..Len(ledger)
    BY <2>2, <2>3
  <2>5. issued' = issued \cup {row.receipt}
    BY <1>2, <2>4 DEF Record, LastReceipt
  <2> QED
    BY <2>4, <2>5 DEF RowsIssued
<1> QED
  BY <1>1, <1>2

\* No edit of the database file makes up a receipt.
LEMMA TamperIssues ==
  ASSUME Inv, RowsIssued, Tamper
  PROVE  RowsIssued'
<1>1. PICK R : ledger \in Seq(R) /\ \A row \in R : RowInv(row)
  BY DEF IsLedger, Inv
<1>2. PICK i \in DOMAIN ledger :
        \/ ledger' = WithoutRow(ledger, i)
        \/ i < Len(ledger) /\ ledger' = Exchanged(ledger, i)
        \/ \E body : ledger' = EditedRecord(ledger, i, body)
        \/ \E columns : ledger' = EditedColumn(ledger, i, columns)
  BY Zenon DEF Tamper
<1>3. /\ i \in 1..Len(ledger) /\ Len(ledger) \in Nat /\ RowInv(ledger[i])
      /\ DOMAIN ledger = 1..Len(ledger) /\ UNCHANGED issued
  BY <1>1 DEF Tamper
<1>4. \A j \in DOMAIN ledger' : \E k \in DOMAIN ledger : ledger'[j].receipt = ledger[k].receipt
  <2>1. CASE ledger' = WithoutRow(ledger, i)
    <3> DEFINE front == SubSeq(ledger, 1, i - 1)
               back == SubSeq(ledger, i + 1, Len(ledger))
    <3>1. /\ front \in Seq(R) /\ Len(front) = i - 1
          /\ \A j \in 1..(i - 1) : front[j] = ledger[j]
      BY <1>1, <1>3, SubSeqProperties
    <3>2. /\ back \in Seq(R) /\ Len(back) = Len(ledger) - i
          /\ \A j \in 1..(Len(ledger) - i) : back[j] = ledger[i + j]
      <4>1. back \in Seq(R)
        BY <1>1, <1>3, SubSeqProperties
      <4> QED
        BY <1>1, <1>3, <4>1
    <3> HIDE DEF front, back
    <3>3. ledger' = front \o back
      BY <2>1 DEF WithoutRow, front, back
    <3>4. /\ DOMAIN ledger' = 1..(Len(ledger) - 1)
          /\ \A j \in 1..(i - 1) : ledger'[j] = ledger[j]
          /\ \A j \in i..(Len(ledger) - 1) : ledger'[j] = ledger[j + 1]
      <4> DEFINE m == i - 1
                 n == Len(ledger) - i
      <4>1. m \in Nat /\ n \in Nat /\ m + n = Len(ledger) - 1
        BY <1>3
      <4>2. /\ ledger' \in Seq(R) /\ Len(ledger') = m + n /\ DOMAIN ledger' = 1..(m + n)
            /\ \A j \in 1..m : ledger'[j] = front[j]
            /\ \A j \in (m + 1)..(m + n) : ledger'[j] = back[j - m]
        BY <3>1, <3>2, <3>3
      <4>3. \A j \in 1..m : ledger'[j] = ledger[j]
        BY <3>1, <4>2
      <4>4. ASSUME NEW j \in i..(Len(ledger) - 1) PROVE ledger'[j] = ledger[j + 1]
        <5>1. j \in (m + 1)..(m + n) /\ j - m \in 1..n /\ i + (j - m) = j + 1
          BY <1>3, <4>4
        <5> QED
          BY <3>2, <4>2, <5>1
      <4> QED
        BY <4>1, <4>2, <4>3, <4>4
    <3>5. ASSUME NEW j \in DOMAIN ledger'
          PROVE  \E k \in DOMAIN ledger : ledger'[j].receipt = ledger[k].receipt
      <4>1. CASE j \in 1..(i - 1)
        BY <1>3, <3>4, <4>1
      <4>2. CASE j \notin 1..(i - 1)
        <5>1. j \in i..(Len(ledger) - 1) /\ j + 1 \in DOMAIN ledger
          BY <1>3, <3>4, <3>5, <4>2
        <5> QED
          BY <3>4, <5>1
      <4> QED
        BY <4>1, <4>2
    <3> QED
      BY <3>5
  <2>2. CASE i < Len(ledger) /\ ledger' = Exchanged(ledger, i)
    <3>1. i + 1 \in DOMAIN ledger
      BY <1>3, <2>2
    <3>2. ledger' = [ledger EXCEPT ![i] = ledger[i + 1], ![i + 1] = ledger[i]]
      BY <2>2 DEF Exchanged
    <3>3. /\ DOMAIN ledger' = DOMAIN ledger
          /\ \A j \in DOMAIN ledger :
               ledger'[j] \in {ledger[j], ledger[i + 1], ledger[i]}
      BY <3>2
    <3> QED
      BY <3>1, <3>3
  <2>3. CASE \E body : ledger' = EditedRecord(ledger, i, body)
    <3>1. PICK body : ledger' = EditedRecord(ledger, i, body)
      BY <2>3
    <3> DEFINE row == [ledger[i] EXCEPT !.body = body]
    <3>2. ledger' = [ledger EXCEPT ![i] = row]
      BY <1>1, <3>1 DEF EditedRecord
    <3>3. row.receipt = ledger[i].receipt
      BY <1>3 DEF RowInv
    <3> HIDE DEF row
    <3> QED
      BY <1>3, <3>2, <3>3
  <2>4. CASE \E columns : ledger' = EditedColumn(ledger, i, columns)
    <3>1. PICK columns : ledger' = EditedColumn(ledger, i, columns)
      BY <2>4
    <3> DEFINE row == [ledger[i] EXCEPT !.columns = columns]
    <3>2. ledger' = [ledger EXCEPT ![i] = row]
      BY <1>1, <3>1 DEF EditedColumn
    <3>3. row.receipt = ledger[i].receipt
      BY <1>3 DEF RowInv
    <3> HIDE DEF row
    <3> QED
      BY <1>3, <3>2, <3>3
  <2> QED
    BY <1>2, <2>1, <2>2, <2>3, <2>4
<1> QED
  BY <1>3, <1>4 DEF RowsIssued

\* No step does.
LEMMA NextIssues == Inv /\ RowsIssued /\ [Next]_vars => RowsIssued'
<1> SUFFICES ASSUME Inv, RowsIssued, [Next]_vars PROVE RowsIssued'
  OBVIOUS
<1>1. CASE UNCHANGED database
  BY <1>1 DEF RowsIssued, database
<1>2. CASE \E body : Record(body)
  BY <1>2, RecordIssues
<1>3. CASE Tamper
  BY <1>3, TamperIssues
<1>4. ASSUME NEW p \in Processes, Admission(p) \/ Human(p) \/ Write(p)
      PROVE  UNCHANGED database \/ \E body : Record(body)
  <2>1. CASE Admission(p)
    BY <2>1, Zenon DEF Admission, Discover, Generate, Admit
  <2>2. CASE Human(p)
    BY <2>2, Zenon DEF Human, Approve, Decline
  <2>3. CASE Write(p)
    BY <2>3
    DEF Write, Validate, Revalidate, Fork, CreateBranch, AskSha, PutAnswered, PutRefused,
        PutFails, OpenDraft, RequestFails
  <2> QED
    BY <1>4, <2>1, <2>2, <2>3
<1> QED
  BY <1>1, <1>2, <1>3, <1>4 DEF Next, MaintainersAct, Tick, vars

(***************************************************************************)
(* The lines that two contents have in common                              *)
(***************************************************************************)
\* The positions of a table of common lines: one in each content.
Positions(old, new) == (0..Len(old)) \X (0..Len(new))

\* An entry of a table.
Entry(f, i, j) == f[<<i, j>>]

\* What a table of common lines says at a position.
BestAt(old, new, f, i, j) ==
  IF i = 0 \/ j = 0 THEN 0
  ELSE IF old[i] = new[j] THEN Entry(f, i - 1, j - 1) + 1
  ELSE IF Entry(f, i - 1, j) > Entry(f, i, j - 1)
    THEN Entry(f, i - 1, j) ELSE Entry(f, i, j - 1)

\* A table of common lines.
IsBest(old, new, f) ==
  f = [at \in Positions(old, new) |-> BestAt(old, new, f, at[1], at[2])]

\* A table of numbers that is right at the positions up to a distance.
RightUpTo(old, new, f, n) ==
  /\ f \in [Positions(old, new) -> Nat]
  /\ \A i \in 0..Len(old), j \in 0..Len(new) :
       i + j <= n => Entry(f, i, j) = BestAt(old, new, f, i, j)

\* A table that is right up to a distance can be made right one farther.
LEMMA TableGrows ==
  ASSUME NEW old, NEW new, IsSequence(old), IsSequence(new), NEW n \in Nat, NEW f,
         RightUpTo(old, new, f, n)
  PROVE  \E g : RightUpTo(old, new, g, n + 1)
<1> DEFINE g == [at \in Positions(old, new) |->
                   IF at[1] + at[2] <= n THEN f[at] ELSE BestAt(old, new, f, at[1], at[2])]
<1>0. Len(old) \in Nat /\ Len(new) \in Nat
  BY DEF IsSequence
<1>1. \A i \in 0..Len(old), j \in 0..Len(new) : BestAt(old, new, f, i, j) \in Nat
  <2> TAKE i \in 0..Len(old), j \in 0..Len(new)
  <2>1. CASE i = 0 \/ j = 0
    BY <2>1 DEF BestAt
  <2>2. CASE i # 0 /\ j # 0
    <3>1. i - 1 \in 0..Len(old) /\ j - 1 \in 0..Len(new)
      BY <1>0, <2>2
    <3>2. /\ Entry(f, i - 1, j - 1) \in Nat
          /\ Entry(f, i - 1, j) \in Nat /\ Entry(f, i, j - 1) \in Nat
      BY <3>1 DEF RightUpTo, Positions, Entry
    <3> QED
      BY <3>2 DEF BestAt
  <2> QED
    BY <2>1, <2>2
<1>2. \A i \in 0..Len(old), j \in 0..Len(new) :
        Entry(g, i, j) = IF i + j <= n THEN Entry(f, i, j) ELSE BestAt(old, new, f, i, j)
  BY DEF Positions, Entry
<1>3. g \in [Positions(old, new) -> Nat]
  <2>1. ASSUME NEW at \in Positions(old, new)
        PROVE  g[at] \in Nat
    <3>1. at[1] \in 0..Len(old) /\ at[2] \in 0..Len(new) /\ at = <<at[1], at[2]>>
      BY DEF Positions
    <3> QED
      BY <1>1, <1>2, <3>1 DEF RightUpTo
  <2> QED
    BY <2>1
<1> HIDE DEF g
<1>4. ASSUME NEW i \in 0..Len(old), NEW j \in 0..Len(new), i + j <= n + 1
      PROVE  Entry(g, i, j) = BestAt(old, new, g, i, j)
  <2>1. Entry(g, i, j) = BestAt(old, new, f, i, j)
    BY <1>2 DEF RightUpTo
  <2>2. CASE i = 0 \/ j = 0
    BY <2>1, <2>2 DEF BestAt
  <2>3. CASE i # 0 /\ j # 0
    <3>1. /\ i - 1 \in 0..Len(old) /\ j - 1 \in 0..Len(new)
          /\ (i - 1) + (j - 1) <= n /\ (i - 1) + j <= n /\ i + (j - 1) <= n
      BY <1>0, <1>4, <2>3
    <3>2. /\ Entry(g, i - 1, j - 1) = Entry(f, i - 1, j - 1)
          /\ Entry(g, i - 1, j) = Entry(f, i - 1, j)
          /\ Entry(g, i, j - 1) = Entry(f, i, j - 1)
      BY <1>2, <3>1
    <3> QED
      BY <2>1, <3>2 DEF BestAt
  <2> QED
    BY <2>2, <2>3
<1>5. RightUpTo(old, new, g, n + 1)
  BY <1>3, <1>4 DEF RightUpTo
<1> QED
  BY <1>5

\* There is a table of common lines.
LEMMA TableExists ==
  ASSUME NEW old, NEW new, IsSequence(old), IsSequence(new)
  PROVE  \E f \in [Positions(old, new) -> Nat] : IsBest(old, new, f)
<1> DEFINE S == {n \in Nat : \E f : RightUpTo(old, new, f, n)}
<1>0. Len(old) \in Nat /\ Len(new) \in Nat
  BY DEF IsSequence
<1>1. 0 \in S
  <2> DEFINE f == [at \in Positions(old, new) |-> 0]
  <2>1. RightUpTo(old, new, f, 0)
    BY <1>0 DEF RightUpTo, BestAt, Positions, Entry
  <2> QED
    BY <2>1
<1>2. \A n \in Nat : n \in S => n + 1 \in S
  BY TableGrows
<1> HIDE DEF S
<1>3. Len(old) + Len(new) \in S
  BY <1>0, <1>1, <1>2, Induction
<1>4. PICK f : RightUpTo(old, new, f, Len(old) + Len(new))
  BY <1>3 DEF S
<1>5. \A at \in Positions(old, new) : f[at] = BestAt(old, new, f, at[1], at[2])
  <2> TAKE at \in Positions(old, new)
  <2>1. at[1] \in 0..Len(old) /\ at[2] \in 0..Len(new) /\ at = <<at[1], at[2]>>
        /\ at[1] + at[2] <= Len(old) + Len(new)
    BY <1>0 DEF Positions
  <2> QED
    BY <1>4, <2>1 DEF RightUpTo, Entry
<1>6. f = [at \in Positions(old, new) |-> BestAt(old, new, f, at[1], at[2])]
  <2>1. f \in [Positions(old, new) -> Nat]
    BY <1>4 DEF RightUpTo
  <2> QED
    BY <1>5, <2>1
<1> QED
  BY <1>4, <1>6 DEF IsBest, RightUpTo

\* The number of common lines is the last entry of a table of common lines.
LEMMA CommonLinesTable ==
  ASSUME NEW old, NEW new, IsSequence(old), IsSequence(new)
  PROVE  \E f : /\ IsBest(old, new, f)
                /\ CommonLines(old, new) = Entry(f, Len(old), Len(new))
<1> DEFINE f == CHOOSE h : IsBest(old, new, h)
<1>1. IsBest(old, new, f)
  BY TableExists
<1>2. CommonLines(old, new) = Entry(f, Len(old), Len(new))
  BY DEF CommonLines, IsBest, BestAt, Positions, Entry
<1> QED
  BY <1>1, <1>2

\* A table of common lines, as far as a distance: its entries are numbers, and
\* the next line of one content adds at most one to them.
Smooth(old, new, f, n) ==
  \A i \in 0..Len(old), j \in 0..Len(new) :
    i + j <= n =>
      /\ Entry(f, i, j) \in Nat
      /\ i > 0 => Entry(f, i - 1, j) <= Entry(f, i, j) /\ Entry(f, i, j) <= Entry(f, i - 1, j) + 1
      /\ j > 0 => Entry(f, i, j - 1) <= Entry(f, i, j) /\ Entry(f, i, j) <= Entry(f, i, j - 1) + 1

\* What its entries are.
LEMMA BestEntry ==
  ASSUME NEW old, NEW new, NEW f, IsBest(old, new, f),
         NEW i \in 0..Len(old), NEW j \in 0..Len(new)
  PROVE  Entry(f, i, j) = BestAt(old, new, f, i, j)
BY DEF IsBest, Positions, Entry

\* Tables are smooth one distance farther than they are known to be.
LEMMA SmoothGrows ==
  ASSUME NEW old, NEW new, IsSequence(old), IsSequence(new), NEW f, IsBest(old, new, f),
         NEW n \in Nat, Smooth(old, new, f, n)
  PROVE  Smooth(old, new, f, n + 1)
<1>0. Len(old) \in Nat /\ Len(new) \in Nat
  BY DEF IsSequence
<1> SUFFICES ASSUME NEW i \in 0..Len(old), NEW j \in 0..Len(new), i + j <= n + 1
    PROVE  /\ Entry(f, i, j) \in Nat
           /\ i > 0 => /\ Entry(f, i - 1, j) <= Entry(f, i, j)
                       /\ Entry(f, i, j) <= Entry(f, i - 1, j) + 1
           /\ j > 0 => /\ Entry(f, i, j - 1) <= Entry(f, i, j)
                       /\ Entry(f, i, j) <= Entry(f, i, j - 1) + 1
  BY DEF Smooth
<1>1. Entry(f, i, j) = BestAt(old, new, f, i, j)
  BY BestEntry
<1>2. CASE i = 0 \/ j = 0
  <2>1. Entry(f, i, j) = 0
    BY <1>1, <1>2 DEF BestAt
  <2>2. CASE i > 0
    <3>1. i - 1 \in 0..Len(old) /\ j = 0
      BY <1>0, <1>2, <2>2
    <3>2. Entry(f, i - 1, j) = 0
      BY <3>1, BestEntry DEF BestAt
    <3> QED
      BY <2>1, <2>2, <3>1, <3>2
  <2>3. CASE j > 0
    <3>1. j - 1 \in 0..Len(new) /\ i = 0
      BY <1>0, <1>2, <2>3
    <3>2. Entry(f, i, j - 1) = 0
      BY <3>1, BestEntry DEF BestAt
    <3> QED
      BY <2>1, <2>3, <3>1, <3>2
  <2> QED
    BY <2>1, <2>2, <2>3
<1>3. CASE i # 0 /\ j # 0
  <2> DEFINE a == Entry(f, i - 1, j - 1)
             b == Entry(f, i - 1, j)
             c == Entry(f, i, j - 1)
             d == Entry(f, i, j)
  <2>1. /\ i - 1 \in 0..Len(old) /\ j - 1 \in 0..Len(new) /\ i > 0 /\ j > 0
        /\ (i - 1) + (j - 1) <= n /\ (i - 1) + j <= n /\ i + (j - 1) <= n
    BY <1>0, <1>3
  <2>2. /\ a \in Nat /\ b \in Nat /\ c \in Nat
        /\ a <= b /\ b <= a + 1 /\ a <= c /\ c <= a + 1
    <3>1. a \in Nat
      BY <2>1 DEF Smooth
    <3>2. b \in Nat /\ a <= b /\ b <= a + 1
      BY <2>1 DEF Smooth
    <3>3. c \in Nat /\ a <= c /\ c <= a + 1
      BY <2>1 DEF Smooth
    <3> QED
      BY <3>1, <3>2, <3>3
  <2>3. d = IF old[i] = new[j] THEN a + 1 ELSE IF b > c THEN b ELSE c
    BY <1>1, <1>3 DEF BestAt
  <2> HIDE DEF a, b, c, d
  <2>4. d \in Nat /\ b <= d /\ d <= b + 1 /\ c <= d /\ d <= c + 1
    BY <2>2, <2>3
  <2> QED
    BY <2>4 DEF b, c, d
<1> QED
  BY <1>2, <1>3

\* Tables are smooth, at every distance.
LEMMA TablesAreSmooth ==
  ASSUME NEW old, NEW new, IsSequence(old), IsSequence(new), NEW f, IsBest(old, new, f)
  PROVE  \A i \in 0..Len(old), j \in 0..Len(new) :
           /\ Entry(f, i, j) \in Nat
           /\ i > 0 => Entry(f, i - 1, j) <= Entry(f, i, j)
           /\ j > 0 => Entry(f, i, j - 1) <= Entry(f, i, j)
<1> DEFINE S == {n \in Nat : Smooth(old, new, f, n)}
<1>0. Len(old) \in Nat /\ Len(new) \in Nat
  BY DEF IsSequence
<1>1. 0 \in S
  <2>1. Entry(f, 0, 0) = 0
    BY <1>0, BestEntry DEF BestAt
  <2> QED
    BY <1>0, <2>1 DEF Smooth
<1>2. \A n \in Nat : n \in S => n + 1 \in S
  BY SmoothGrows
<1> HIDE DEF S
<1>3. Smooth(old, new, f, Len(old) + Len(new))
  <2>1. Len(old) + Len(new) \in S
    BY <1>0, <1>1, <1>2, Induction
  <2> QED
    BY <2>1 DEF S
<1> QED
  BY <1>0, <1>3 DEF Smooth

\* An entry is at least those before it.
LEMMA TablesAreMonotonic ==
  ASSUME NEW old, NEW new, IsSequence(old), IsSequence(new), NEW f, IsBest(old, new, f),
         NEW i \in 0..Len(old), NEW j \in 0..Len(new), NEW k \in 0..i, NEW l \in 0..j
  PROVE  Entry(f, k, l) <= Entry(f, i, j)
<1> DEFINE S == {d \in Nat : \A p \in 0..Len(old), q \in 0..Len(new) :
                   k <= p /\ l <= q /\ (p - k) + (q - l) <= d => Entry(f, k, l) <= Entry(f, p, q)}
<1>0. Len(old) \in Nat /\ Len(new) \in Nat /\ k \in 0..Len(old) /\ l \in 0..Len(new)
  BY DEF IsSequence
<1>1. 0 \in S
  <2> SUFFICES ASSUME NEW p \in 0..Len(old), NEW q \in 0..Len(new),
                      k <= p /\ l <= q /\ (p - k) + (q - l) <= 0
               PROVE  Entry(f, k, l) <= Entry(f, p, q)
    OBVIOUS
  <2>1. p = k /\ q = l
    BY <1>0
  <2>2. Entry(f, k, l) \in Nat
    BY <1>0, TablesAreSmooth
  <2> QED
    BY <2>1, <2>2
<1>2. ASSUME NEW d \in Nat, d \in S,
             NEW p \in 0..Len(old), NEW q \in 0..Len(new),
             k <= p, l <= q, (p - k) + (q - l) <= d + 1
      PROVE  Entry(f, k, l) <= Entry(f, p, q)
  <2>1. CASE p > k
    <3>1. p - 1 \in 0..Len(old) /\ k <= p - 1 /\ ((p - 1) - k) + (q - l) <= d
      BY <1>0, <1>2, <2>1
    <3>2. Entry(f, k, l) <= Entry(f, p - 1, q)
      BY <1>2, <3>1
    <3>3. Entry(f, p - 1, q) <= Entry(f, p, q)
      BY <1>0, <2>1, TablesAreSmooth
    <3>4. Entry(f, k, l) \in Nat /\ Entry(f, p - 1, q) \in Nat /\ Entry(f, p, q) \in Nat
      BY <1>0, <3>1, TablesAreSmooth
    <3> QED
      BY <3>2, <3>3, <3>4
  <2>2. CASE q > l
    <3>1. q - 1 \in 0..Len(new) /\ l <= q - 1 /\ (p - k) + ((q - 1) - l) <= d
      BY <1>0, <1>2, <2>2
    <3>2. Entry(f, k, l) <= Entry(f, p, q - 1)
      BY <1>2, <3>1
    <3>3. Entry(f, p, q - 1) <= Entry(f, p, q)
      BY <1>0, <2>2, TablesAreSmooth
    <3>4. Entry(f, k, l) \in Nat /\ Entry(f, p, q - 1) \in Nat /\ Entry(f, p, q) \in Nat
      BY <1>0, <3>1, TablesAreSmooth
    <3> QED
      BY <3>2, <3>3, <3>4
  <2>3. CASE p = k /\ q = l
    <3>1. Entry(f, k, l) \in Nat
      BY <1>0, TablesAreSmooth
    <3> QED
      BY <2>3, <3>1
  <2> QED
    BY <1>0, <1>2, <2>1, <2>2, <2>3
<1>3. \A d \in Nat : d \in S => d + 1 \in S
  BY <1>2
<1> HIDE DEF S
<1>4. (i - k) + (j - l) \in S
  BY <1>0, <1>1, <1>3, Induction
<1> QED
  BY <1>0, <1>4 DEF S

\* Lines that two contents share at their front count one each.
LEMMA FrontIsCommon ==
  ASSUME NEW old, NEW new, IsSequence(old), IsSequence(new), NEW f, IsBest(old, new, f),
         NEW p \in 0..Len(old), p <= Len(new), \A i \in 1..p : old[i] = new[i]
  PROVE  Entry(f, p, p) = p
<1> DEFINE S == {n \in Nat : n <= p => Entry(f, n, n) = n}
<1>0. Len(old) \in Nat /\ Len(new) \in Nat
  BY DEF IsSequence
<1>1. 0 \in S
  BY <1>0, BestEntry DEF BestAt
<1>2. ASSUME NEW n \in Nat, n \in S, n + 1 <= p
      PROVE  Entry(f, n + 1, n + 1) = n + 1
  <2>1. n + 1 \in 1..p /\ n + 1 \in 0..Len(old) /\ n + 1 \in 0..Len(new) /\ n <= p
    BY <1>0, <1>2
  <2>2. old[n + 1] = new[n + 1] /\ (n + 1) - 1 = n /\ n + 1 # 0
    BY <2>1
  <2>3. Entry(f, n + 1, n + 1) = Entry(f, n, n) + 1
    BY <2>1, <2>2, BestEntry DEF BestAt
  <2> QED
    BY <1>2, <2>1, <2>3
<1>3. \A n \in Nat : n \in S => n + 1 \in S
  BY <1>2
<1> HIDE DEF S
<1>4. p \in S
  BY <1>0, <1>1, <1>3, Induction
<1> QED
  BY <1>0, <1>4 DEF S

\* So do those at their back.
LEMMA BackIsCommon ==
  ASSUME NEW old, NEW new, IsSequence(old), IsSequence(new), NEW f, IsBest(old, new, f),
         NEW s \in 0..Len(old), s <= Len(new),
         \A i \in 0..(s - 1) : old[Len(old) - i] = new[Len(new) - i]
  PROVE  Entry(f, Len(old), Len(new)) = Entry(f, Len(old) - s, Len(new) - s) + s
<1> DEFINE a == Len(old)
           b == Len(new)
           S == {n \in Nat : n <= s => Entry(f, a, b) = Entry(f, a - n, b - n) + n}
<1>0. a \in Nat /\ b \in Nat
  BY DEF IsSequence
<1>1. 0 \in S
  <2>1. Len(old) \in 0..Len(old) /\ Len(new) \in 0..Len(new) /\ a - 0 = a /\ b - 0 = b
    BY <1>0
  <2>2. Entry(f, Len(old), Len(new)) \in Nat
    BY <2>1, TablesAreSmooth
  <2> QED
    BY <2>1, <2>2
<1>2. ASSUME NEW n \in Nat, n \in S, n + 1 <= s
      PROVE  Entry(f, a, b) = Entry(f, a - (n + 1), b - (n + 1)) + (n + 1)
  <2> DEFINE i == a - n
             j == b - n
  <2>1. /\ n \in 0..(s - 1) /\ i \in 0..a /\ j \in 0..b /\ i # 0 /\ j # 0
        /\ i - 1 = a - (n + 1) /\ j - 1 = b - (n + 1)
        /\ i - 1 \in 0..a /\ j - 1 \in 0..b /\ n <= s
    BY <1>0, <1>2
  <2>2. old[i] = new[j]
    BY <2>1
  <2>3. Entry(f, i, j) = Entry(f, i - 1, j - 1) + 1
    <3> HIDE DEF i, j
    <3> QED
      BY <2>1, <2>2, BestEntry DEF BestAt
  <2>4. Entry(f, a, b) = Entry(f, i, j) + n
    BY <1>2, <2>1
  <2>5. Entry(f, i - 1, j - 1) \in Nat
    <3> HIDE DEF i, j
    <3> QED
      BY <2>1, TablesAreSmooth
  <2>6. Entry(f, a, b) = Entry(f, i - 1, j - 1) + (n + 1)
    BY <2>3, <2>4, <2>5
  <2> HIDE DEF a, b
  <2> QED
    BY <2>1, <2>6
<1>3. \A n \in Nat : n \in S => n + 1 \in S
  BY <1>2
<1> HIDE DEF S
<1>4. s \in S
  BY <1>0, <1>1, <1>3, Induction
<1> QED
  BY <1>0, <1>4 DEF S

\* A front and a back that do not overlap are common lines together.
LEMMA FrontAndBackAreCommon ==
  ASSUME NEW old, NEW new, IsSequence(old), IsSequence(new),
         NEW p \in 0..Len(old), p <= Len(new), \A i \in 1..p : old[i] = new[i],
         NEW s \in Nat, p + s <= Len(old), p + s <= Len(new),
         \A i \in 0..(s - 1) : old[Len(old) - i] = new[Len(new) - i]
  PROVE  CommonLines(old, new) \in Nat /\ p + s <= CommonLines(old, new)
<1>0. Len(old) \in Nat /\ Len(new) \in Nat
  BY DEF IsSequence
<1>1. PICK f : IsBest(old, new, f) /\ CommonLines(old, new) = Entry(f, Len(old), Len(new))
  BY CommonLinesTable
<1> DEFINE i == Len(old) - s
           j == Len(new) - s
<1>2. /\ i \in 0..Len(old) /\ j \in 0..Len(new) /\ p \in 0..i /\ p \in 0..j
      /\ s \in 0..Len(old) /\ s <= Len(new)
  BY <1>0
<1>3. Entry(f, Len(old), Len(new)) = Entry(f, i, j) + s
  BY <1>1, <1>2, BackIsCommon
<1> HIDE DEF i, j
<1>4. Entry(f, p, p) = p
  BY <1>1, FrontIsCommon
<1>5. Entry(f, p, p) <= Entry(f, i, j)
  BY <1>1, <1>2, TablesAreMonotonic
<1>6. Entry(f, i, j) \in Nat /\ Entry(f, Len(old), Len(new)) \in Nat
  <2>1. Len(old) \in 0..Len(old) /\ Len(new) \in 0..Len(new)
    BY <1>0
  <2> QED
    BY <1>1, <1>2, <2>1, TablesAreSmooth
<1> QED
  BY <1>1, <1>3, <1>4, <1>5, <1>6

(***************************************************************************)
(* The count of changed lines                                              *)
(***************************************************************************)
\* The front that the policy counts is common to both contents.
LEMMA CommonPrefixIs ==
  ASSUME NEW old, NEW new, IsSequence(old), IsSequence(new)
  PROVE  LET n == CommonPrefix(old, new)
         IN n \in 0..Len(old) /\ n <= Len(new) /\ \A i \in 1..n : old[i] = new[i]
<1> DEFINE P(n) == /\ n <= Len(new)
                   /\ \A i \in 1..n : old[i] = new[i]
                   /\ n < Len(old) /\ n < Len(new) => old[n + 1] # new[n + 1]
           Ends == {n \in Nat : n >= Len(old) \/ n >= Len(new) \/ old[n + 1] # new[n + 1]}
<1>0. Len(old) \in Nat /\ Len(new) \in Nat
  BY DEF IsSequence
<1>1. Ends # {} /\ Ends \subseteq Nat
  <2>1. Len(old) \in Ends
    BY <1>0
  <2> QED
    BY <2>1
<1>2. PICK n \in Ends : \A k \in Ends : n <= k
  BY <1>1, Least
<1>3. n <= Len(old) /\ n <= Len(new)
  <2>1. Len(old) \in Ends /\ Len(new) \in Ends
    BY <1>0
  <2> QED
    BY <1>2, <2>1
<1>4. ASSUME NEW i \in 1..n PROVE old[i] = new[i]
  <2>1. i - 1 \in Nat /\ ~(n <= i - 1) /\ (i - 1) + 1 = i
    BY <1>0, <1>3
  <2>2. i - 1 \notin Ends
    BY <1>2, <2>1
  <2> QED
    BY <2>1, <2>2
<1>5. n \in 0..Len(old) /\ P(n)
  BY <1>0, <1>2, <1>3, <1>4
<1>6. CommonPrefix(old, new) = CHOOSE m \in 0..Len(old) : P(m)
  BY DEF CommonPrefix
<1> HIDE DEF P
<1>7. CommonPrefix(old, new) \in 0..Len(old) /\ P(CommonPrefix(old, new))
  BY <1>5, <1>6
<1> QED
  BY <1>7 DEF P

\* The back that the policy counts is common to both contents.
LEMMA CommonSuffixIs ==
  ASSUME NEW old, NEW new, IsSequence(old), IsSequence(new), NEW most \in Nat,
         most <= Len(old), most <= Len(new)
  PROVE  LET n == CommonSuffix(old, new, most)
         IN n \in 0..most /\ \A i \in 0..(n - 1) : old[Len(old) - i] = new[Len(new) - i]
<1> DEFINE P(n) == /\ \A i \in 0..(n - 1) : old[Len(old) - i] = new[Len(new) - i]
                   /\ n < most => old[Len(old) - n] # new[Len(new) - n]
           Ends == {n \in Nat : n >= most \/ old[Len(old) - n] # new[Len(new) - n]}
<1>1. Ends # {} /\ Ends \subseteq Nat
  <2>1. most \in Ends
    OBVIOUS
  <2> QED
    BY <2>1
<1>2. PICK n \in Ends : \A k \in Ends : n <= k
  BY <1>1, Least
<1>3. n <= most
  <2>1. most \in Ends
    OBVIOUS
  <2> QED
    BY <1>2, <2>1
<1>4. ASSUME NEW i \in 0..(n - 1) PROVE old[Len(old) - i] = new[Len(new) - i]
  <2>1. i \in Nat /\ ~(n <= i)
    BY <1>3
  <2>2. i \notin Ends
    BY <1>2, <2>1
  <2> QED
    BY <2>1, <2>2
<1>5. n \in 0..most /\ P(n)
  BY <1>2, <1>3, <1>4
<1>6. CommonSuffix(old, new, most) = CHOOSE m \in 0..most : P(m)
  BY DEF CommonSuffix
<1> HIDE DEF P
<1>7. CommonSuffix(old, new, most) \in 0..most /\ P(CommonSuffix(old, new, most))
  BY <1>5, <1>6
<1> QED
  BY <1>7 DEF P

\* A change whose contents are sequences of lines.
IsChange(change) ==
  IsSequence(change.new) /\ (change.old = None \/ IsSequence(change.old))

\* The count of the policy is at least the length of the shortest diff.
LEMMA CountCoversDiff ==
  ASSUME NEW change, IsChange(change)
  PROVE  /\ ChangedLineCount(change) \in Int
         /\ DiffLines(change) \in Int
         /\ DiffLines(change) <= ChangedLineCount(change)
<1> DEFINE old == change.old
           new == change.new
<1>0. IsSequence(new) /\ Len(new) \in Nat
  BY DEF IsChange, IsSequence
<1>1. CASE old = None
  BY <1>0, <1>1 DEF ChangedLineCount, DiffLines
<1>2. CASE old # None
  <2> DEFINE shorter == IF Len(old) <= Len(new) THEN Len(old) ELSE Len(new)
             prefix == CommonPrefix(old, new)
             suffix == CommonSuffix(old, new, shorter - prefix)
             common == CommonLines(old, new)
  <2>0. IsSequence(old) /\ Len(old) \in Nat
    BY <1>2 DEF IsChange, IsSequence
  <2>1. prefix \in 0..Len(old) /\ prefix <= Len(new) /\ \A i \in 1..prefix : old[i] = new[i]
    BY <1>0, <2>0, CommonPrefixIs
  <2>2. ChangedLineCount(change) =
          (Len(old) - (prefix + suffix)) + (Len(new) - (prefix + suffix))
    BY <1>2 DEF ChangedLineCount
  <2>3. DiffLines(change) = Len(old) + Len(new) - 2 * common
    BY <1>2 DEF DiffLines
  <2>4. /\ shorter - prefix \in Nat
        /\ shorter - prefix <= Len(old) /\ shorter - prefix <= Len(new)
    <3> HIDE DEF prefix, old, new
    <3> QED
      BY <1>0, <2>0, <2>1
  <2>5. /\ suffix \in 0..(shorter - prefix)
        /\ \A i \in 0..(suffix - 1) : old[Len(old) - i] = new[Len(new) - i]
    <3> DEFINE most == shorter - prefix
    <3>1. most \in Nat /\ most <= Len(old) /\ most <= Len(new)
      BY <2>4
    <3> HIDE DEF most, old, new
    <3>2. LET n == CommonSuffix(old, new, most)
          IN n \in 0..most /\ \A i \in 0..(n - 1) : old[Len(old) - i] = new[Len(new) - i]
      BY <1>0, <2>0, <3>1, CommonSuffixIs
    <3> QED
      BY <3>2 DEF most
  <2> HIDE DEF prefix, suffix, common, old, new
  <2>6. suffix \in Nat /\ prefix + suffix <= Len(old) /\ prefix + suffix <= Len(new)
    BY <1>0, <2>0, <2>1, <2>4, <2>5
  <2>7. common \in Nat /\ prefix + suffix <= common
    BY <1>0, <2>0, <2>1, <2>5, <2>6, FrontAndBackAreCommon DEF common
  <2> QED
    BY <1>0, <2>0, <2>1, <2>2, <2>3, <2>6, <2>7
<1> QED
  BY <1>1, <1>2

\* The running sums of the first n numbers of d.
IsSum(d, n, f) == f = [i \in 0..n |-> IF i = 0 THEN 0 ELSE f[i - 1] + d[i]]

\* There are running sums.
LEMMA SumExists ==
  ASSUME NEW n \in Nat, NEW d, \A i \in 1..n : d[i] \in Int
  PROVE  \E f : IsSum(d, n, f)
<1> DEFINE Sums(f, m) ==
             /\ f \in [0..n -> Int]
             /\ \A i \in 0..n : i <= m => f[i] = IF i = 0 THEN 0 ELSE f[i - 1] + d[i]
           S == {m \in Nat : \E f : Sums(f, m)}
<1>1. 0 \in S
  <2> DEFINE f == [i \in 0..n |-> 0]
  <2>1. Sums(f, 0)
    OBVIOUS
  <2> QED
    BY <2>1
<1>2. ASSUME NEW m \in Nat, NEW f, Sums(f, m)
      PROVE  \E g : Sums(g, m + 1)
  <2> DEFINE g == [i \in 0..n |-> IF i <= m THEN f[i] ELSE f[i - 1] + d[i]]
  <2>1. ASSUME NEW i \in 0..n PROVE g[i] \in Int
    BY <1>2
  <2>2. ASSUME NEW i \in 0..n, i <= m + 1
        PROVE  g[i] = IF i = 0 THEN 0 ELSE g[i - 1] + d[i]
    <3>1. CASE i = 0
      BY <1>2, <3>1
    <3>2. CASE i # 0
      <4>1. i - 1 \in 0..n /\ i - 1 <= m
        BY <2>2, <3>2
      <4>2. g[i - 1] = f[i - 1]
        BY <4>1
      <4>3. g[i] = f[i - 1] + d[i]
        BY <1>2, <3>2
      <4> QED
        BY <3>2, <4>2, <4>3
    <3> QED
      BY <3>1, <3>2
  <2>3. Sums(g, m + 1)
    BY <2>1, <2>2
  <2> QED
    BY <2>3
<1>3. \A m \in Nat : m \in S => m + 1 \in S
  <2> HIDE DEF Sums
  <2> QED
    BY <1>2
<1> HIDE DEF S
<1>4. n \in S
  BY <1>1, <1>3, Induction
<1>5. PICK f : Sums(f, n)
  BY <1>4 DEF S
<1>6. IsSum(d, n, f)
  BY <1>5 DEF IsSum
<1> QED
  BY <1>6

\* What the running sums are.
LEMMA SumEntries ==
  ASSUME NEW n \in Nat, NEW d, NEW f, IsSum(d, n, f)
  PROVE  f[0] = 0 /\ \A i \in 1..n : f[i] = f[i - 1] + d[i]
BY DEF IsSum

\* Of larger numbers the sum is larger.
LEMMA SumsCompare ==
  ASSUME NEW n \in Nat, NEW d, NEW e, NEW f, NEW g, IsSum(d, n, f), IsSum(e, n, g),
         \A i \in 1..n : d[i] \in Int /\ e[i] \in Int /\ d[i] <= e[i]
  PROVE  f[n] \in Int /\ g[n] \in Int /\ f[n] <= g[n]
<1> DEFINE Less(m) == f[m] \in Int /\ g[m] \in Int /\ f[m] <= g[m]
           S == {m \in Nat : m <= n => Less(m)}
<1>1. 0 \in S
  BY SumEntries
<1>2. ASSUME NEW m \in Nat, m \in S, m + 1 <= n
      PROVE  Less(m + 1)
  <2>1. m + 1 \in 1..n /\ (m + 1) - 1 = m /\ m <= n
    BY <1>2
  <2>2. f[m + 1] = f[m] + d[m + 1] /\ g[m + 1] = g[m] + e[m + 1]
    BY <2>1, SumEntries
  <2> QED
    BY <1>2, <2>1, <2>2
<1>3. \A m \in Nat : m \in S => m + 1 \in S
  <2> SUFFICES ASSUME NEW m \in Nat, m \in S, m + 1 <= n PROVE Less(m + 1)
    OBVIOUS
  <2> QED
    BY <1>2
<1> HIDE DEF S
<1>4. n \in S
  BY <1>1, <1>3, Induction
<1> QED
  BY <1>4 DEF S

\* The counts of the policy, and the lengths of the shortest diffs.
Counts(c) == [i \in 1..Len(Changes(c)) |-> ChangedLineCount(Changes(c)[i])]
Diffs(c) == [i \in 1..Len(Changes(c)) |-> DiffLines(Changes(c)[i])]

\* A well formed contribution has changes, all of them well formed.
LEMMA ChangesOf ==
  ASSUME NEW c, WellFormed(c)
  PROVE  /\ Len(Changes(c)) \in Nat \ {0} /\ DOMAIN Changes(c) = 1..Len(Changes(c))
         /\ \A i \in 1..Len(Changes(c)) : IsChange(Changes(c)[i])
<1> DEFINE T == Elements(c.changes) \cup Elements(c.tests)
<1>1. c.changes \in Seq(T) /\ c.tests \in Seq(T)
  BY SeqMonotonic DEF WellFormed, IsSequence
<1> HIDE DEF T
<1>2. Changes(c) \in Seq(T) /\ Len(Changes(c)) = Len(c.changes) + Len(c.tests)
  BY <1>1, ConcatProperties DEF Changes
<1>3. Len(c.changes) \in Nat \ {0} /\ Len(c.tests) \in Nat
  BY <1>1 DEF WellFormed
<1>4. Len(Changes(c)) \in Nat \ {0} /\ DOMAIN Changes(c) = 1..Len(Changes(c))
  <2> DEFINE s == Changes(c)
  <2>1. s \in Seq(T) /\ Len(s) = Len(c.changes) + Len(c.tests)
    BY <1>2
  <2> HIDE DEF s
  <2>2. Len(s) \in Nat /\ DOMAIN s = 1..Len(s)
    BY <2>1, LenProperties
  <2>3. Len(s) # 0
    <3>1. \A a \in Nat \ {0}, b \in Nat : a + b # 0
      OBVIOUS
    <3> QED
      BY <1>3, <2>1, <3>1
  <2> QED
    BY <2>2, <2>3 DEF s
<1>5. \A i \in 1..Len(Changes(c)) : Changes(c)[i] \in Elements(Changes(c))
  BY <1>4 DEF Elements
<1> QED
  BY <1>4, <1>5 DEF WellFormed, IsChange

\* The policy adds up the counts of the changes.
LEMMA ChangedLinesIsSum ==
  ASSUME NEW c, WellFormed(c)
  PROVE  \E f : IsSum(Counts(c), Len(Changes(c)), f) /\ ChangedLines(c) = f[Len(Changes(c))]
<1> DEFINE n == Len(Changes(c))
           IsCount(f) == f = [i \in 0..n |->
              IF i = 0 THEN 0 ELSE f[i - 1] + ChangedLineCount(Changes(c)[i])]
           f == CHOOSE h : IsCount(h)
<1>1. n \in Nat /\ \A i \in 1..n : Counts(c)[i] = ChangedLineCount(Changes(c)[i])
                                   /\ Counts(c)[i] \in Int
  BY ChangesOf, CountCoversDiff DEF Counts
<1>2. PICK g : IsSum(Counts(c), n, g)
  <2> HIDE DEF n
  <2> QED
    BY <1>1, SumExists
<1>3. IsCount(g)
  BY <1>1, <1>2 DEF IsSum
<1>4. IsCount(f)
  BY <1>3
<1>5. ChangedLines(c) = f[n]
  BY DEF ChangedLines
<1> HIDE DEF f
<1>6. IsSum(Counts(c), n, f)
  BY <1>1, <1>4 DEF IsSum
<1> QED
  BY <1>5, <1>6

\* A report without violations is within the consent of its permit.
LEMMA AllowedIsCovered ==
  ASSUME NEW c, WellFormed(c), NEW consent, consent.maxFiles \in Nat, consent.maxLines \in Nat,
         NEW base, NEW number, NEW time,
         Allowed(Evaluate(Repository, c, IssuePermit(Repository, base, consent, number, time), time))
  PROVE  ConsentCovers(consent, c)
<1> DEFINE permit == IssuePermit(Repository, base, consent, number, time)
           n == Len(Changes(c))
           lines == ChangedLines(c)
           violations == Evaluate(Repository, c, permit, time).violations
<1>0. n \in Nat /\ DOMAIN Changes(c) = 1..n /\ \A i \in 1..n : IsChange(Changes(c)[i])
  BY ChangesOf
<1>1. violations = {} /\ permit.consent = consent
  BY DEF Allowed, IssuePermit
<1>2. /\ ~(Len(PathsOf(c)) > consent.maxFiles) /\ ~(lines > consent.maxLines)
      /\ \A i \in 1..n : ChangeViolations(Changes(c)[i], consent) = {}
  <2> DEFINE toomany == IF Len(PathsOf(c)) > consent.maxFiles THEN {"too_many_files"} ELSE {}
             many == IF lines > consent.maxLines THEN {"too_many_lines"} ELSE {}
             each == UNION {ChangeViolations(Changes(c)[i], consent) : i \in DOMAIN Changes(c)}
  <2> DEFINE holds(kind, condition) == IF condition THEN {kind} ELSE {}
             paths == PathsOf(c)
             one == holds("repository_mismatch", permit.repository # Repository)
             two == holds("base_revision", permit.base \notin Shas)
             three == holds("permit_expired", time > permit.expiresAt)
             six == holds("duplicate_path",
                      \E i, j \in DOMAIN paths :
                        i # j /\ paths[i] = paths[j] /\ ~RepositoryPathError(paths[i]))
  <2>1. violations = UNION {one, two, three, toomany, many, six, each}
    <3> HIDE DEF permit
    <3> QED
      BY <1>1 DEF Evaluate
  <2> HIDE DEF one, two, three, toomany, many, six, each
  <2>2. toomany = {} /\ many = {} /\ each = {}
    BY <1>1, <2>1
  <2> QED
    BY <1>0, <2>2 DEF toomany, many, each
<1>3. Len(PathsOf(c)) = n
  BY <1>0 DEF PathsOf
<1>4. n <= consent.maxFiles
  BY <1>0, <1>2, <1>3
<1>5. ASSUME NEW i \in 1..n
      PROVE  /\ ~Changes(c)[i].deleted /\ ~IsProtectedPath(Changes(c)[i].path)
             /\ \/ consent.allowed = {}
                \/ \E g \in consent.allowed : PathMatches(g, Changes(c)[i].path)
             /\ ~\E g \in consent.denied : PathMatches(g, Changes(c)[i].path)
             /\ IsDependencyPath(Changes(c)[i].path) => consent.deps
             /\ Changes(c)[i].isNew => consent.newFiles
             /\ IsTestPath(Changes(c)[i].path) => consent.tests
  <2> DEFINE change == Changes(c)[i]
  <2>1. ChangeViolations(change, consent) = {}
    BY <1>2
  <2> HIDE DEF change
  <2>2. ~RepositoryPathError(change.path)
    BY <2>1 DEF ChangeViolations
  <2> QED
    BY <2>1, <2>2 DEF ChangeViolations, change
<1>6. PICK f : IsSum(Counts(c), n, f) /\ ChangedLines(c) = f[n]
  BY ChangedLinesIsSum
<1>7. PICK g : IsSum(Diffs(c), n, g)
  <2>1. \A i \in 1..n : Diffs(c)[i] \in Int
    BY <1>0, CountCoversDiff DEF Diffs
  <2> HIDE DEF n
  <2> QED
    BY <1>0, <2>1, SumExists
<1> DEFINE sum == CHOOSE h : IsSum(Diffs(c), n, h)
<1>8. IsSum(Diffs(c), n, sum)
  BY <1>7
<1> HIDE DEF sum
<1>9. sum[n] <= f[n] /\ sum[n] \in Int /\ f[n] \in Int
  <2>1. \A i \in 1..n : /\ Diffs(c)[i] \in Int /\ Counts(c)[i] \in Int
                        /\ Diffs(c)[i] <= Counts(c)[i]
    BY <1>0, CountCoversDiff DEF Diffs, Counts
  <2> HIDE DEF n
  <2> QED
    BY <1>0, <1>6, <1>8, <2>1, SumsCompare
<1>10. sum[n] <= consent.maxLines
  BY <1>2, <1>6, <1>9
<1>11. Len(Diffs(c)) = n
  BY <1>0 DEF Diffs
<1>12. ConsentCovers(consent, c) <=>
         /\ n <= consent.maxFiles
         /\ sum[Len(Diffs(c))] <= consent.maxLines
         /\ \A x \in Elements(Changes(c)) :
              /\ ~x.deleted /\ ~IsProtectedPath(x.path)
              /\ consent.allowed = {} \/ \E g2 \in consent.allowed : PathMatches(g2, x.path)
              /\ ~\E g2 \in consent.denied : PathMatches(g2, x.path)
              /\ IsDependencyPath(x.path) => consent.deps
              /\ x.isNew => consent.newFiles
              /\ IsTestPath(x.path) => consent.tests
  BY <1>11 DEF ConsentCovers, sum, IsSum, Diffs
<1> QED
  BY <1>0, <1>4, <1>5, <1>10, <1>11, <1>12 DEF Elements

(***************************************************************************)
(* The consent in force                                                    *)
(***************************************************************************)
\* The bounds of a consent are numbers.
HasBudgets(consent) == consent.maxFiles \in Nat /\ consent.maxLines \in Nat

\* A manifest that parses has bounds.
LEMMA ParsedBudgets ==
  ASSUME NEW path, NEW m, Budgeted(m), Parse(path, m) # None
  PROVE  HasBudgets(Parse(path, m))
<1> DEFINE b == Budgets(m)
<1>1. m # None
  BY DEF Parse
<1>2. b[1] \in Nat /\ b[2] \in Nat
  BY <1>1 DEF Budgeted, Budgets, Default, DefaultMaxFiles, DefaultMaxChangedLines
<1> HIDE DEF b
<1>3. ParseV1(path, m) = None \/ HasBudgets(ParseV1(path, m))
  BY <1>2 DEF ParseV1, SchemaOne, HasBudgets, b
<1>4. ParseV2(path, m) = None \/ HasBudgets(ParseV2(path, m))
  BY <1>2 DEF ParseV2, HasBudgets, b
<1>5. Parse(path, m) \in {ParseV1(path, m), ParseV2(path, m), None}
  BY <1>1 DEF Parse
<1> QED
  BY <1>3, <1>4, <1>5

\* What is at the consent paths has budgets, where it has them.
FilesInv ==
  /\ DOMAIN files = DOMAIN ConsentPaths
  /\ \A i \in DOMAIN files : Budgeted(files[i])

\* The consent in force has bounds.
LEMMA LiveBudgets ==
  ASSUME FilesInv, NEW source, LiveConsent(source) # None,
         source.kind = "manifest" => source.path \in Elements(ConsentPaths)
  PROVE  HasBudgets(LiveConsent(source))
<1>1. CASE source.kind = "manifest"
  <2> DEFINE i == CHOOSE i \in DOMAIN ConsentPaths : ConsentPaths[i] = source.path
  <2>1. i \in DOMAIN ConsentPaths
    BY <1>1 DEF Elements
  <2>2. LiveConsent(source) = Parse(source.path, files[i])
    BY <1>1 DEF LiveConsent
  <2> HIDE DEF i
  <2> QED
    BY <2>1, <2>2, ParsedBudgets DEF FilesInv
<1>2. CASE source.kind # "manifest"
  <2>1. LiveConsent(source) = FromIssue(issue)
    BY <1>2 DEF LiveConsent
  <2>2. \E label : FromIssue(issue) = FromLabel(issue.number, label)
    BY <2>1 DEF FromIssue
  <2> QED
    BY <2>1, <2>2
    DEF FromLabel, SchemaOne, HasBudgets, DefaultMaxFiles, DefaultMaxChangedLines
<1> QED
  BY <1>1, <1>2

(***************************************************************************)
(* The branches that are written                                           *)
(***************************************************************************)
\* The steps at which a process writes a branch that it created.
Owning == {"sha", "put", "pull"}

\* A branch has the first n changes and nothing else.
UpTo(written, changes, n) ==
  /\ DOMAIN written = {changes[i].path : i \in 1..n}
  /\ \A i \in 1..n : written[changes[i].path] = changes[i].new

\* How far a process that writes a branch is.
Progress(step, l, bs) ==
  LET name == l.candidate.branch
      changes == Changes(l.candidate)
      written == bs[name].files
  IN /\ name \in DOMAIN bs /\ bs[name].base = l.capsule.base
     /\ step \in {"sha", "put"} => l.next \in 1..Len(changes)
     /\ step = "sha" => UpTo(written, changes, l.next - 1)
     /\ step = "put" => \/ UpTo(written, changes, l.next - 1)
                        \/ changes[l.next].path \in DOMAIN written
     /\ step = "pull" => UpTo(written, changes, Len(changes))

\* What a process holds of consent, and what it has written.
HeldToWrite(step, l, bs) ==
  /\ step \notin {"idle", "generate"} => l.candidate \in Candidates
  /\ step \in Writing \cup {"revalidate"} => ConsentSourceIsValid(l.capsule)
  /\ step \in Writing => l.live # None /\ ConsentCovers(l.live, l.candidate)
  /\ step \in Owning => Progress(step, l, bs)

\* All processes do.
WritersInv == \A p \in Processes : HeldToWrite(pc[p], local[p], branches)

\* No two processes write the same branch.
OneOwner ==
  \A p, q \in Processes :
    p # q /\ pc[p] \in Owning /\ pc[q] \in Owning =>
      local[p].candidate.branch # local[q].candidate.branch

\* A branch has a base and files.
BranchesInv == \A b \in DOMAIN branches : DOMAIN branches[b] = {"base", "files"}

\* A draft is complete, on its base and within the consent it was checked by.
DraftIsWritten(d, bs) ==
  LET changes == Changes(d.candidate)
  IN /\ d.branch \in DOMAIN bs /\ bs[d.branch].base = d.capsule.base
     /\ UpTo(bs[d.branch].files, changes, Len(changes))
     /\ d.candidate \in Candidates
     /\ d.live # None /\ ConsentCovers(d.live, d.candidate)

\* All drafts are, and nobody writes their branches any more.
DraftsAreWritten ==
  \A d \in drafts :
    /\ DraftIsWritten(d, branches)
    /\ \A p \in Processes : pc[p] \in Owning => local[p].candidate.branch # d.branch

\* The invariant of the write boundary.
WritesInv == WritersInv /\ OneOwner /\ BranchesInv /\ DraftsAreWritten

\* No branch goes, and a step of p changes none but its own.
Kept(p) ==
  /\ DOMAIN branches \subseteq DOMAIN branches'
  /\ \A b \in DOMAIN branches :
       branches'[b] = branches[b] \/ (pc[p] \in Owning /\ b = local[p].candidate.branch)

\* Progress is a matter of the one branch.
LEMMA ProgressKept ==
  ASSUME NEW step, NEW l, NEW bs, NEW more, Progress(step, l, bs),
         DOMAIN bs \subseteq DOMAIN more, more[l.candidate.branch] = bs[l.candidate.branch]
  PROVE  Progress(step, l, more)
BY DEF Progress

\* A step of one process that leaves the drafts.
LEMMA StepKeeps ==
  ASSUME Inv, WritesInv, NEW p \in Processes, NEW step, NEW l,
         pc' = [pc EXCEPT ![p] = step], local' = [local EXCEPT ![p] = l],
         Kept(p), BranchesInv', UNCHANGED drafts, HeldToWrite(step, l, branches'),
         step \in Owning =>
           \/ pc[p] \in Owning /\ l.candidate.branch = local[p].candidate.branch
           \/ l.candidate.branch \notin DOMAIN branches
  PROVE  WritesInv'
<1>1. /\ pc'[p] = step /\ local'[p] = l
      /\ \A q \in Processes : q # p => pc'[q] = pc[q] /\ local'[q] = local[q]
  BY DEF Inv, ProcessesInv
<1>2. \A q \in Processes : q # p /\ pc[q] \in Owning =>
        /\ local[q].candidate.branch \in DOMAIN branches
        /\ branches'[local[q].candidate.branch] = branches[local[q].candidate.branch]
  BY DEF WritesInv, WritersInv, HeldToWrite, Progress, OneOwner, Kept
<1>3. WritersInv'
  <2> SUFFICES ASSUME NEW q \in Processes PROVE HeldToWrite(pc'[q], local'[q], branches')
    BY DEF WritersInv
  <2>1. CASE q = p
    BY <1>1, <2>1
  <2>2. CASE q # p
    <3>1. HeldToWrite(pc[q], local[q], branches)
      BY DEF WritesInv, WritersInv
    <3>2. pc[q] \in Owning => Progress(pc[q], local[q], branches')
      BY <1>2, <2>2, <3>1, ProgressKept DEF HeldToWrite, Kept
    <3>3. HeldToWrite(pc[q], local[q], branches')
      BY <3>1, <3>2 DEF HeldToWrite
    <3> QED
      BY <1>1, <2>2, <3>3
  <2> QED
    BY <2>1, <2>2
<1>4. OneOwner'
  BY <1>1, <1>2 DEF OneOwner, WritesInv
<1>5. DraftsAreWritten'
  <2> SUFFICES ASSUME NEW d \in drafts
               PROVE  /\ DraftIsWritten(d, branches')
                      /\ \A q \in Processes :
                           pc'[q] \in Owning => local'[q].candidate.branch # d.branch
    BY DEF DraftsAreWritten
  <2>1. /\ DraftIsWritten(d, branches) /\ d.branch \in DOMAIN branches
        /\ \A q \in Processes : pc[q] \in Owning => local[q].candidate.branch # d.branch
    BY DEF WritesInv, DraftsAreWritten, DraftIsWritten
  <2>2. d.branch \in DOMAIN branches' /\ branches'[d.branch] = branches[d.branch]
    BY <2>1 DEF Kept
  <2>3. DraftIsWritten(d, branches')
    BY <2>1, <2>2 DEF DraftIsWritten
  <2>4. ASSUME NEW q \in Processes, pc'[q] \in Owning
        PROVE  local'[q].candidate.branch # d.branch
    BY <1>1, <2>1, <2>4
  <2> QED
    BY <2>3, <2>4
<1> QED
  BY <1>3, <1>4, <1>5 DEF WritesInv

\* A step that leaves the branches keeps them.
LEMMA KeptSame ==
  ASSUME NEW p, UNCHANGED branches, WritesInv
  PROVE  Kept(p) /\ BranchesInv'
<1>1. DOMAIN branches' = DOMAIN branches /\ \A b \in DOMAIN branches : branches'[b] = branches[b]
  OBVIOUS
<1>2. Kept(p)
  BY <1>1 DEF Kept
<1>3. BranchesInv'
  BY DEF WritesInv, BranchesInv
<1> QED
  BY <1>2, <1>3

\* A process that returns leaves what it has written.
LEMMA ReturnKeepsWrites ==
  ASSUME Inv, WritesInv, NEW p \in Processes, Return(p), UNCHANGED drafts, Kept(p), BranchesInv'
  PROVE  WritesInv'
<1>1. HeldToWrite("idle", NoLocal, branches')
  BY DEF HeldToWrite, Writing, Owning
<1> QED
  BY <1>1, StepKeeps DEF Return, Goto, Owning

\* A step of one process that leaves GitHub as it is.
LEMMA MemoryStep ==
  ASSUME Inv, WritesInv, NEW p \in Processes, NEW step, NEW l,
         pc' = [pc EXCEPT ![p] = step], local' = [local EXCEPT ![p] = l],
         UNCHANGED <<branches, drafts>>, HeldToWrite(step, l, branches),
         step \in Owning => pc[p] \in Owning /\ l.candidate.branch = local[p].candidate.branch
  PROVE  WritesInv'
<1>1. Kept(p) /\ BranchesInv'
  BY KeptSame
<1>2. HeldToWrite(step, l, branches')
  OBVIOUS
<1> QED
  BY <1>1, <1>2, StepKeeps

\* What a process holds at its step.
LEMMA HeldToWriteAt ==
  ASSUME WritesInv, NEW p \in Processes
  PROVE  HeldToWrite(pc[p], local[p], branches)
BY DEF WritesInv, WritersInv

\* A return that writes nothing.
LEMMA QuietReturn ==
  ASSUME Inv, WritesInv, NEW p \in Processes, Return(p), UNCHANGED <<branches, drafts>>
  PROVE  WritesInv'
<1>1. Kept(p) /\ BranchesInv'
  BY KeptSame
<1> QED
  BY <1>1, ReturnKeepsWrites

\* The steps before the write.
LEMMA DiscoverKeepsWrites ==
  ASSUME Inv, WritesInv, NEW p \in Processes, Discover(p)
  PROVE  WritesInv'
<1> DEFINE consents == {DiscoverRepositoryConsent(files, readable) :
                          readable \in {DOMAIN ConsentPaths, {}}}
<1>1. PICK found \in consents : local' = [local EXCEPT ![p].consent = found]
  BY DEF Discover
<1> DEFINE l == [local[p] EXCEPT !.consent = found]
<1>2. local' = [local EXCEPT ![p] = l]
  BY <1>1, HeldAt, FieldNames DEF Inv
<1> HIDE DEF l, consents
<1>3. HeldToWrite("generate", l, branches)
  BY DEF HeldToWrite, Writing, Owning
<1>4. pc' = [pc EXCEPT ![p] = "generate"] /\ UNCHANGED <<branches, drafts>>
  BY DEF Discover, Goto, github
<1> QED
  BY <1>2, <1>3, <1>4, MemoryStep DEF Owning

\* A contribution is one of the candidates.
LEMMA GenerateKeepsWrites ==
  ASSUME Inv, WritesInv, NEW p \in Processes, Generate(p)
  PROVE  WritesInv'
<1>1. PICK c \in Candidates :
          \/ local' = [local EXCEPT ![p].candidate = c]
          \/ local' = [local EXCEPT ![p].candidate = c, ![p].issue = issue.number,
                         ![p].consent = Default(FromIssue(issue), local[p].consent)]
  BY DEF Generate
<1>2. \E l : local' = [local EXCEPT ![p] = l] /\ l.candidate = c
  <2>2. CASE local' = [local EXCEPT ![p].candidate = c]
    <3> DEFINE l == [local[p] EXCEPT !.candidate = c]
    <3>1. local' = [local EXCEPT ![p] = l] /\ l.candidate = c
      BY <2>2, HeldAt, FieldNames DEF Inv
    <3> QED BY <3>1
  <2>3. CASE local' = [local EXCEPT ![p].candidate = c, ![p].issue = issue.number,
                         ![p].consent = Default(FromIssue(issue), local[p].consent)]
    <3> DEFINE consent == Default(FromIssue(issue), local[p].consent)
               l == [local[p] EXCEPT !.candidate = c, !.issue = issue.number,
                                     !.consent = consent]
    <3> HIDE DEF consent
    <3>1. local' = [local EXCEPT ![p].candidate = c, ![p].issue = issue.number,
                                 ![p].consent = consent]
      BY <2>3 DEF consent
    <3>2. l.candidate = c
      BY HeldAt, FieldNames DEF Inv
    <3>3. p \in DOMAIN local
      BY DEF Inv, ProcessesInv
    <3>4. local' = [local EXCEPT ![p] = l]
      BY <3>1, <3>3
    <3> QED BY <3>2, <3>4
  <2> QED BY <1>1, <2>2, <2>3
<1>3. PICK l : local' = [local EXCEPT ![p] = l] /\ l.candidate = c
  BY <1>2
<1>4. HeldToWrite("admit", l, branches)
  BY <1>3 DEF HeldToWrite, Writing, Owning
<1>5. pc' = [pc EXCEPT ![p] = "admit"] /\ UNCHANGED <<branches, drafts>>
  BY DEF Generate, Goto, github
<1> QED
  BY <1>3, <1>4, <1>5, MemoryStep DEF Owning

\* Admission keeps the contribution.
LEMMA AdmitKeepsWrites ==
  ASSUME Inv, WritesInv, NEW p \in Processes, NEW failing, Admit(p, failing)
  PROVE  WritesInv'
<1>1. UNCHANGED <<branches, drafts>> /\ pc[p] = "admit"
  BY DEF Admit, github
<1>2. \/ Return(p)
      \/ Goto(p, "review") /\ \E capsule : local' = [local EXCEPT ![p].capsule = capsule]
  BY Zenon DEF Admit
<1>3. CASE Goto(p, "review") /\ \E capsule : local' = [local EXCEPT ![p].capsule = capsule]
  <2>1. PICK capsule : local' = [local EXCEPT ![p].capsule = capsule]
    BY <1>3
  <2> DEFINE l == [local[p] EXCEPT !.capsule = capsule]
  <2>2. local' = [local EXCEPT ![p] = l] /\ l.candidate = local[p].candidate
    BY <2>1, HeldAt, FieldNames DEF Inv
  <2> HIDE DEF l
  <2>3. local[p].candidate \in Candidates
    BY <1>1, HeldToWriteAt DEF HeldToWrite
  <2>4. HeldToWrite("review", l, branches)
    BY <2>2, <2>3 DEF HeldToWrite, Writing, Owning
  <2> QED
    BY <1>1, <1>3, <2>2, <2>4, MemoryStep DEF Goto, Owning
<1> QED
  BY <1>1, <1>2, <1>3, QuietReturn

\* So does the human.
LEMMA ApproveKeepsWrites ==
  ASSUME Inv, WritesInv, NEW p \in Processes, Approve(p)
  PROVE  WritesInv'
<1>1. UNCHANGED <<branches, drafts>> /\ pc[p] = "review"
  BY DEF Approve, github
<1>2. CASE Goto(p, "validate") /\ UNCHANGED local
  <2>1. local' = [local EXCEPT ![p] = local[p]]
    BY <1>2 DEF Inv, ProcessesInv
  <2>2. HeldToWrite("validate", local[p], branches)
    BY <1>1, HeldToWriteAt DEF HeldToWrite, Writing, Owning
  <2> QED
    BY <1>1, <1>2, <2>1, <2>2, MemoryStep DEF Goto, Owning
<1> QED
  BY <1>1, <1>2, QuietReturn DEF Approve

\* The capsule that is validated names a source of consent.
LEMMA ValidateKeepsWrites ==
  ASSUME Inv, WritesInv, NEW p \in Processes, Validate(p)
  PROVE  WritesInv'
<1>1. UNCHANGED <<branches, drafts>> /\ pc[p] = "validate"
  BY DEF Validate, github
<1>2. CASE Return(p)
  BY <1>1, <1>2, QuietReturn
<1>3. CASE /\ ValidForSubmission(local[p].capsule, local[p].candidate, Repository, now)
           /\ Goto(p, "revalidate")
           /\ local' = [local EXCEPT ![p].at = now]
  <2> DEFINE l == [local[p] EXCEPT !.at = now]
  <2>1. /\ local' = [local EXCEPT ![p] = l]
        /\ l.capsule = local[p].capsule /\ l.candidate = local[p].candidate
    BY <1>3, HeldAt, FieldNames DEF Inv
  <2> HIDE DEF l
  <2>2. ConsentSourceIsValid(l.capsule)
    BY <1>3, <2>1 DEF ValidForSubmission
  <2>3. HeldToWrite("revalidate", l, branches)
    BY <1>1, <2>1, <2>2, HeldToWriteAt DEF HeldToWrite, Writing, Owning
  <2> QED
    BY <1>1, <1>3, <2>1, <2>3, MemoryStep DEF Goto, Owning
<1> QED
  BY <1>2, <1>3 DEF Validate

\* What the policy allows under the consent in force lies within that consent.
LEMMA RevalidateKeepsWrites ==
  ASSUME Inv, WritesInv, FilesInv, NEW p \in Processes, Revalidate(p)
  PROVE  WritesInv'
<1> DEFINE live == LiveConsent(local[p].capsule.source)
<1>1. UNCHANGED <<branches, drafts>> /\ pc[p] = "revalidate"
  BY DEF Revalidate, github
<1>2. CASE Return(p)
  BY <1>1, <1>2, QuietReturn
<1>3. CASE /\ live # None
           /\ Allowed(Evaluate(Repository, local[p].candidate,
                IssuePermit(Repository, local[p].capsule.base, live, local[p].capsule.issue, now),
                now))
           /\ Goto(p, "fork") /\ local' = [local EXCEPT ![p].live = live]
  <2>1. local[p].candidate \in Candidates /\ ConsentSourceIsValid(local[p].capsule)
    BY <1>1, HeldToWriteAt DEF HeldToWrite
  <2>2. live # None /\ HasBudgets(live)
    BY <1>3, <2>1, LiveBudgets DEF ConsentSourceIsValid
  <2>3. WellFormed(local[p].candidate)
    BY <2>1, PublicationAssumption
  <2> HIDE DEF live
  <2>4. ConsentCovers(live, local[p].candidate)
    BY <1>3, <2>2, <2>3, AllowedIsCovered DEF HasBudgets
  <2> DEFINE l == [local[p] EXCEPT !.live = live]
  <2>5. /\ local' = [local EXCEPT ![p] = l] /\ l.live = live
        /\ l.capsule = local[p].capsule /\ l.candidate = local[p].candidate
    BY <1>3, HeldAt, FieldNames DEF Inv
  <2> HIDE DEF l
  <2>6. HeldToWrite("fork", l, branches)
    BY <2>1, <2>2, <2>4, <2>5 DEF HeldToWrite, Writing, Owning
  <2> QED
    BY <1>1, <1>3, <2>5, <2>6, MemoryStep DEF Goto, Owning
<1> QED
  BY <1>2, <1>3 DEF Revalidate

\* The fork changes no branch.
LEMMA ForkKeepsWrites ==
  ASSUME Inv, WritesInv, NEW p \in Processes, Fork(p)
  PROVE  WritesInv'
<1>1. UNCHANGED <<branches, drafts, local>> /\ pc[p] = "fork" /\ Goto(p, "branch")
  BY DEF Fork
<1>2. local' = [local EXCEPT ![p] = local[p]]
  BY <1>1 DEF Inv, ProcessesInv
<1>3. HeldToWrite("branch", local[p], branches)
  BY <1>1, HeldToWriteAt DEF HeldToWrite, Writing, Owning
<1> QED
  BY <1>1, <1>2, <1>3, MemoryStep DEF Goto, Owning

\* The next change is asked for and not yet written.
LEMMA AskShaKeepsWrites ==
  ASSUME Inv, WritesInv, NEW p \in Processes, NEW answers, AskSha(p, answers)
  PROVE  WritesInv'
<1>1. UNCHANGED <<branches, drafts>> /\ pc[p] = "sha" /\ Goto(p, "put")
  BY DEF AskSha, github
<1>2. \E blob : local' = [local EXCEPT ![p].blob = blob, ![p].attempt = 1]
  BY Zenon DEF AskSha
<1>3. PICK blob : local' = [local EXCEPT ![p].blob = blob, ![p].attempt = 1]
  BY <1>2
<1> DEFINE l == [local[p] EXCEPT !.blob = blob, !.attempt = 1]
<1>4. p \in DOMAIN local
  BY DEF Inv, ProcessesInv
<1>5. local' = [local EXCEPT ![p] = l]
  BY <1>3, <1>4
<1>6. /\ l.live = local[p].live /\ l.capsule = local[p].capsule
      /\ l.candidate = local[p].candidate /\ l.next = local[p].next
  BY HeldAt, FieldNames DEF Inv
<1> HIDE DEF l
<1>7. HeldToWrite("sha", local[p], branches)
  BY <1>1, HeldToWriteAt
<1>8. HeldToWrite("put", l, branches)
  BY <1>6, <1>7 DEF HeldToWrite, Writing, Owning, Progress
<1> QED
  BY <1>1, <1>5, <1>6, <1>8, MemoryStep DEF Goto, Owning

\* A branch that GitHub creates is new and has no files.
LEMMA BranchKeepsWrites ==
  ASSUME Inv, WritesInv, NEW p \in Processes, NEW answered, CreateBranch(p, answered)
  PROVE  WritesInv'
<1> DEFINE name == local[p].candidate.branch
           new == [base |-> local[p].capsule.base, files |-> [q \in {} |-> None]]
<1>1. /\ pc[p] = "branch" /\ name \notin DOMAIN branches /\ UNCHANGED drafts
      /\ branches' = [b \in DOMAIN branches \cup {name} |-> IF b = name THEN new ELSE branches[b]]
      /\ \/ Goto(p, "sha") /\ local' = [local EXCEPT ![p].next = 1]
         \/ Return(p)
  BY DEF CreateBranch
<1>2. /\ DOMAIN new = {"base", "files"} /\ new.base = local[p].capsule.base
      /\ DOMAIN new.files = {}
  OBVIOUS
<1> HIDE DEF new
<1>3. /\ DOMAIN branches' = DOMAIN branches \cup {name} /\ branches'[name] = new
      /\ \A b \in DOMAIN branches : branches'[b] = branches[b]
  BY <1>1
<1>4. Kept(p)
  BY <1>3 DEF Kept
<1>5. BranchesInv'
  BY <1>2, <1>3 DEF BranchesInv, WritesInv
<1>6. CASE Return(p)
  BY <1>1, <1>4, <1>5, <1>6, ReturnKeepsWrites
<1>7. CASE Goto(p, "sha") /\ local' = [local EXCEPT ![p].next = 1]
  <2> DEFINE l == [local[p] EXCEPT !.next = 1]
  <2>1. /\ local' = [local EXCEPT ![p] = l] /\ l.live = local[p].live /\ l.next = 1
        /\ l.capsule = local[p].capsule /\ l.candidate = local[p].candidate
    BY <1>7, HeldAt, FieldNames DEF Inv
  <2> HIDE DEF l
  <2>2. HeldToWrite("branch", local[p], branches)
    BY <1>1, HeldToWriteAt
  <2>3. Len(Changes(l.candidate)) \in Nat \ {0}
    BY <2>1, <2>2, PublicationAssumption, ChangesOf DEF HeldToWrite
  <2>4. UpTo(new.files, Changes(l.candidate), 0)
    BY <1>2 DEF UpTo
  <2>5. Progress("sha", l, branches')
    BY <1>2, <1>3, <2>1, <2>3, <2>4 DEF Progress
  <2>6. HeldToWrite("sha", l, branches')
    BY <2>1, <2>2, <2>5 DEF HeldToWrite, Writing, Owning
  <2> QED
    BY <1>1, <1>4, <1>5, <1>7, <2>1, <2>6, StepKeeps DEF Goto
<1> QED
  BY <1>1, <1>6, <1>7

\* A write adds the change of the process to its branch and touches no other.
LEMMA WriteAddsTheChange ==
  ASSUME WritesInv, NEW p \in Processes, pc[p] = "put", Accepts(p), Written(p)
  PROVE  /\ Kept(p) /\ BranchesInv'
         /\ LET l == local[p]
                changes == Changes(l.candidate)
                name == l.candidate.branch
            IN /\ name \in DOMAIN branches' /\ branches'[name].base = l.capsule.base
               /\ l.next \in 1..Len(changes) /\ Len(changes) \in Nat
               /\ UpTo(branches'[name].files, changes, l.next)
               /\ changes[l.next].path \in DOMAIN branches'[name].files
<1> DEFINE l == local[p]
           changes == Changes(l.candidate)
           name == l.candidate.branch
           change == changes[l.next]
           written == branches[name].files
           more == [q \in DOMAIN written \cup {change.path} |->
                      IF q = change.path THEN change.new ELSE written[q]]
<1>1. HeldToWrite("put", l, branches)
  BY HeldToWriteAt
<1>2. /\ name \in DOMAIN branches /\ branches[name].base = l.capsule.base
      /\ l.next \in 1..Len(changes)
      /\ UpTo(written, changes, l.next - 1) \/ change.path \in DOMAIN written
  BY <1>1 DEF HeldToWrite, Owning, Progress
<1>3. Len(changes) \in Nat
  BY <1>1, PublicationAssumption, ChangesOf DEF HeldToWrite
<1>4. change.path \notin DOMAIN written
  BY DEF Accepts
<1>5. branches' = [branches EXCEPT ![name].files = more]
  BY DEF Written
<1>6. /\ DOMAIN more = DOMAIN written \cup {change.path} /\ more[change.path] = change.new
      /\ \A q \in DOMAIN written : more[q] = written[q]
  BY <1>4
<1>7. DOMAIN branches[name] = {"base", "files"}
  BY <1>2 DEF WritesInv, BranchesInv
<1> HIDE DEF more
<1> DEFINE branch == [branches[name] EXCEPT !.files = more]
<1>8. /\ DOMAIN branch = {"base", "files"} /\ branch.files = more
      /\ branch.base = branches[name].base
  BY <1>7
<1>9. branches' = [branches EXCEPT ![name] = branch]
  BY <1>5
<1> HIDE DEF branch
<1>10. /\ DOMAIN branches' = DOMAIN branches /\ branches'[name] = branch
       /\ \A b \in DOMAIN branches : b # name => branches'[b] = branches[b]
  BY <1>2, <1>9
<1>11. UpTo(more, changes, l.next)
  <2> DEFINE n == l.next
  <2>1. n \in Nat /\ n - 1 \in Nat /\ 1..n = (1..(n - 1)) \cup {n}
    BY <1>2, <1>3
  <2>2. UpTo(written, changes, n - 1)
    BY <1>2, <1>4
  <2> HIDE DEF n, written, changes
  <2>3. DOMAIN more = {changes[i].path : i \in 1..n}
    BY <1>6, <2>1, <2>2 DEF UpTo, n
  <2>4. ASSUME NEW i \in 1..n PROVE more[changes[i].path] = changes[i].new
    <3>1. CASE i = n
      BY <1>6, <3>1 DEF n
    <3>2. CASE i # n
      BY <1>6, <2>1, <2>2, <2>4, <3>2 DEF UpTo
    <3> QED
      BY <3>1, <3>2
  <2> QED
    BY <2>3, <2>4 DEF UpTo, n
<1>12. Kept(p)
  BY <1>10 DEF Kept, Owning
<1>13. BranchesInv'
  BY <1>8, <1>10 DEF BranchesInv, WritesInv
<1> QED
  BY <1>2, <1>3, <1>6, <1>8, <1>10, <1>11, <1>12, <1>13

\* An answered write goes on to the next change, or to the pull request.
LEMMA PutAnsweredKeepsWrites ==
  ASSUME Inv, WritesInv, NEW p \in Processes, PutAnswered(p)
  PROVE  WritesInv'
<1> DEFINE changes == Changes(local[p].candidate)
           next == local[p].next
<1>1. /\ pc[p] = "put" /\ Accepts(p) /\ Written(p) /\ UNCHANGED drafts
      /\ IF next < Len(changes)
         THEN local' = [local EXCEPT ![p].next = @ + 1] /\ Goto(p, "sha")
         ELSE UNCHANGED local /\ Goto(p, "pull")
  BY DEF PutAnswered
<1>2. /\ Kept(p) /\ BranchesInv'
      /\ local[p].candidate.branch \in DOMAIN branches'
      /\ branches'[local[p].candidate.branch].base = local[p].capsule.base
      /\ next \in 1..Len(changes) /\ Len(changes) \in Nat
      /\ UpTo(branches'[local[p].candidate.branch].files, changes, next)
  BY <1>1, WriteAddsTheChange
<1>3. HeldToWrite("put", local[p], branches)
  BY <1>1, HeldToWriteAt
<1>4. CASE next < Len(changes)
  <2> DEFINE l == [local[p] EXCEPT !.next = @ + 1]
  <2>1. /\ local' = [local EXCEPT ![p] = l] /\ l.live = local[p].live /\ l.next = next + 1
        /\ l.capsule = local[p].capsule /\ l.candidate = local[p].candidate
    BY <1>1, <1>4, HeldAt, FieldNames DEF Inv
  <2> HIDE DEF l
  <2>2. l.next \in 1..Len(changes) /\ l.next - 1 = next
    BY <1>2, <1>4, <2>1
  <2>3. Progress("sha", l, branches')
    BY <1>2, <2>1, <2>2 DEF Progress
  <2>4. HeldToWrite("sha", l, branches')
    BY <1>3, <2>1, <2>3 DEF HeldToWrite, Writing, Owning
  <2> QED
    BY <1>1, <1>2, <1>4, <2>1, <2>4, StepKeeps DEF Goto, Owning
<1>5. CASE ~(next < Len(changes))
  <2>1. next = Len(changes)
    BY <1>2, <1>5
  <2>2. local' = [local EXCEPT ![p] = local[p]]
    BY <1>1, <1>5 DEF Inv, ProcessesInv
  <2>3. Progress("pull", local[p], branches')
    BY <1>2, <2>1 DEF Progress
  <2>4. HeldToWrite("pull", local[p], branches')
    BY <1>3, <2>3 DEF HeldToWrite, Writing, Owning
  <2> QED
    BY <1>1, <1>2, <1>5, <2>2, <2>4, StepKeeps DEF Goto, Owning
<1> QED
  BY <1>4, <1>5

\* After a failed write the change is on the branch or is not.
LEMMA PutFailsKeepsWrites ==
  ASSUME Inv, WritesInv, NEW p \in Processes, NEW written, PutFails(p, written)
  PROVE  WritesInv'
<1>1. /\ pc[p] = "put" /\ UNCHANGED drafts
      /\ (Accepts(p) /\ Written(p)) \/ UNCHANGED branches
      /\ \/ local' = [local EXCEPT ![p].attempt = @ + 1] /\ UNCHANGED pc
         \/ Return(p)
  BY DEF PutFails
<1>2. HeldToWrite("put", local[p], branches)
  BY <1>1, HeldToWriteAt
<1>3. Kept(p) /\ BranchesInv' /\ Progress("put", local[p], branches')
  <2>1. CASE Accepts(p) /\ Written(p)
    BY <1>1, <2>1, WriteAddsTheChange DEF Progress
  <2>2. CASE UNCHANGED branches
    BY <1>2, <2>2, KeptSame DEF HeldToWrite, Owning
  <2> QED
    BY <1>1, <2>1, <2>2
<1>4. CASE Return(p)
  BY <1>1, <1>3, <1>4, ReturnKeepsWrites
<1>5. CASE local' = [local EXCEPT ![p].attempt = @ + 1] /\ UNCHANGED pc
  <2> DEFINE l == [local[p] EXCEPT !.attempt = @ + 1]
  <2>1. /\ local' = [local EXCEPT ![p] = l] /\ l.live = local[p].live
        /\ l.capsule = local[p].capsule /\ l.candidate = local[p].candidate
        /\ l.next = local[p].next
    BY <1>5, HeldAt, FieldNames DEF Inv
  <2> HIDE DEF l
  <2>2. Progress("put", l, branches')
    BY <1>3, <2>1 DEF Progress
  <2>3. HeldToWrite("put", l, branches')
    BY <1>2, <2>1, <2>2 DEF HeldToWrite, Writing, Owning
  <2>4. pc' = [pc EXCEPT ![p] = "put"]
    BY <1>1, <1>5 DEF Inv, ProcessesInv
  <2> QED
    BY <1>1, <1>3, <2>1, <2>3, <2>4, StepKeeps DEF Owning
<1> QED
  BY <1>1, <1>4, <1>5

\* The branch of a pull request is complete, and nobody else writes it.
LEMMA OpenDraftKeepsWrites ==
  ASSUME Inv, WritesInv, NEW p \in Processes, OpenDraft(p)
  PROVE  WritesInv'
<1> DEFINE l == local[p]
           draft == [branch |-> l.candidate.branch, candidate |-> l.candidate,
                     capsule |-> l.capsule, at |-> l.at, live |-> l.live]
<1>1. /\ pc[p] = "pull" /\ drafts' = drafts \cup {draft}
      /\ UNCHANGED branches /\ Return(p)
  BY DEF OpenDraft
<1>2. HeldToWrite("pull", l, branches)
  BY <1>1, HeldToWriteAt
<1>3. /\ draft.candidate = l.candidate /\ draft.branch = l.candidate.branch
      /\ draft.capsule = l.capsule /\ draft.live = l.live
  OBVIOUS
<1> HIDE DEF draft
<1>4. DraftIsWritten(draft, branches)
  BY <1>2, <1>3 DEF DraftIsWritten, HeldToWrite, Progress, Owning, Writing
<1>5. /\ pc'[p] = "idle" /\ local'[p] = NoLocal
      /\ \A q \in Processes : q # p => pc'[q] = pc[q] /\ local'[q] = local[q]
  BY <1>1 DEF Return, Goto, Inv, ProcessesInv
<1>6. WritersInv'
  <2> SUFFICES ASSUME NEW q \in Processes PROVE HeldToWrite(pc'[q], local'[q], branches')
    BY DEF WritersInv
  <2>1. CASE q = p
    BY <1>5, <2>1 DEF HeldToWrite, Writing, Owning
  <2>2. CASE q # p
    BY <1>1, <1>5, <2>2, HeldToWriteAt
  <2> QED
    BY <2>1, <2>2
<1>7. OneOwner' /\ BranchesInv'
  BY <1>1, <1>5 DEF OneOwner, Owning, WritesInv, BranchesInv
<1>8. \A q \in Processes : pc'[q] \in Owning => local'[q].candidate.branch # draft.branch
  BY <1>1, <1>3, <1>5 DEF OneOwner, Owning, WritesInv
<1>9. \A q \in Processes : pc'[q] \in Owning => pc[q] \in Owning /\ local'[q] = local[q]
  BY <1>5 DEF Owning
<1>10. DraftsAreWritten'
  <2> SUFFICES ASSUME NEW d \in drafts'
               PROVE  /\ DraftIsWritten(d, branches')
                      /\ \A q \in Processes :
                           pc'[q] \in Owning => local'[q].candidate.branch # d.branch
    BY DEF DraftsAreWritten
  <2>1. CASE d = draft
    BY <1>1, <1>4, <1>8, <2>1
  <2>2. CASE d \in drafts
    BY <1>1, <1>9, <2>2 DEF WritesInv, DraftsAreWritten
  <2> QED
    BY <1>1, <2>1, <2>2
<1> QED
  BY <1>6, <1>7, <1>10 DEF WritesInv

\* A step of somebody else.
LEMMA QuietWrites ==
  ASSUME WritesInv, UNCHANGED <<branches, drafts, pc, local>>
  PROVE  WritesInv'
BY DEF WritesInv, WritersInv, HeldToWrite, Progress, OneOwner, BranchesInv, DraftsAreWritten,
       DraftIsWritten

\* The invariant holds at the start.
LEMMA InitWrites == Init => WritesInv /\ FilesInv
<1> SUFFICES ASSUME Init PROVE WritesInv /\ FilesInv
  OBVIOUS
<1>1. WritersInv /\ OneOwner
  BY DEF Init, WritersInv, HeldToWrite, OneOwner, Writing, Owning
<1>2. BranchesInv /\ DraftsAreWritten
  BY DEF Init, BranchesInv, DraftsAreWritten
<1>3. FilesInv
  BY PublicationAssumption DEF Init, FilesInv, Elements
<1> QED
  BY <1>1, <1>2, <1>3 DEF WritesInv

\* Maintainers write manifests.
LEMMA NextFiles == FilesInv /\ [Next]_vars => FilesInv'
<1> SUFFICES ASSUME FilesInv, [Next]_vars PROVE FilesInv'
  OBVIOUS
<1>1. \/ UNCHANGED files
      \/ \E i \in DOMAIN ConsentPaths, m \in Manifests : files' = [files EXCEPT ![i] = m]
  <2>1. ASSUME NEW p \in Processes, Admission(p) \/ Human(p) \/ Write(p)
        PROVE  UNCHANGED files
    BY <2>1
    DEF Admission, Human, Write, Discover, Generate, Admit, Approve, Decline, Validate,
        Revalidate, Fork, CreateBranch, AskSha, PutAnswered, PutRefused, PutFails, OpenDraft,
        RequestFails, repository
  <2> QED
    BY <2>1 DEF Next, MaintainersAct, Tick, Tamper, repository, vars
<1>2. CASE \E i \in DOMAIN ConsentPaths, m \in Manifests : files' = [files EXCEPT ![i] = m]
  BY <1>2, PublicationAssumption DEF FilesInv
<1> QED
  BY <1>1, <1>2 DEF FilesInv

\* Every step keeps the invariant.
LEMMA NextWrites == Inv /\ WritesInv /\ FilesInv /\ [Next]_vars => WritesInv'
<1> SUFFICES ASSUME Inv, WritesInv, FilesInv, [Next]_vars PROVE WritesInv'
  OBVIOUS
<1>1. ASSUME NEW p \in Processes, Admission(p) PROVE WritesInv'
  BY <1>1, DiscoverKeepsWrites, GenerateKeepsWrites, AdmitKeepsWrites DEF Admission
<1>2. ASSUME NEW p \in Processes, Human(p) PROVE WritesInv'
  <2>1. CASE Decline(p)
    BY <2>1, QuietReturn DEF Decline, github
  <2> QED
    BY <1>2, <2>1, ApproveKeepsWrites DEF Human
<1>3. ASSUME NEW p \in Processes, Write(p) PROVE WritesInv'
  <2>1. CASE PutRefused(p) \/ RequestFails(p)
    BY <2>1, QuietReturn DEF PutRefused, RequestFails, github
  <2>2. CASE ~(PutRefused(p) \/ RequestFails(p))
    BY <1>3, <2>2, ValidateKeepsWrites, RevalidateKeepsWrites, ForkKeepsWrites, BranchKeepsWrites,
       AskShaKeepsWrites, PutAnsweredKeepsWrites,
       PutFailsKeepsWrites, OpenDraftKeepsWrites DEF Write
  <2> QED
    BY <2>1, <2>2
<1>4. CASE UNCHANGED <<branches, drafts, pc, local>>
  BY <1>4, QuietWrites
<1> QED
  BY <1>1, <1>2, <1>3, <1>4 DEF Next, MaintainersAct, Tick, Tamper, vars, github

\* The invariants hold in every behaviour.
LEMMA SpecWrites == Spec => [](Inv /\ FilesInv /\ WritesInv)
<1>1. Init => Inv /\ FilesInv /\ WritesInv
  BY InitInv, InitWrites
<1>2. Inv /\ FilesInv /\ WritesInv /\ [Next]_vars => (Inv /\ FilesInv /\ WritesInv)'
  BY NextInv, NextFiles, NextWrites
<1> QED
  BY <1>1, <1>2, PTL DEF Spec

(***************************************************************************)
(* The theorems                                                            *)
(***************************************************************************)
\* Every draft pull request holds a contribution that a human approved, with a
\* receipt for the recorded approval, however the sessions interleave and
\* whatever is done to the database file (admit_contribution).
THEOREM DraftsAreApproved == Spec => []DraftHasApproval
<1>1. Inv => DraftHasApproval
  BY DEF Inv, DraftsInv, Approved, DraftHasApproval
<1> QED BY <1>1, SpecInv, PTL

\* No write begins on evidence older than the permit's lifetime, however long
\* the human took to answer (validate_for_submission).
THEOREM DraftsAreTimely == Spec => []DraftWithinPermit
<1>1. Inv => DraftWithinPermit
  BY DEF Inv, DraftsInv, DraftWithinPermit
<1> QED BY <1>1, SpecInv, PTL

\* However the maintainers change the manifest, the issue and the default branch
\* while a contribution is generated and reviewed, its draft lies within the
\* consent that was in force when the write began: paths, files and the lines of
\* its shortest diff, which the policy bounds by a simpler count
\* (revalidate_consent, changed_line_count).
THEOREM DraftsStayWithinConsent == Spec => []DraftWithinConsent
<1>1. WritesInv => DraftWithinConsent
  BY DEF WritesInv, DraftsAreWritten, DraftIsWritten, DraftWithinConsent
<1> QED
  BY <1>1, SpecWrites, PTL

\* The branch of a draft holds the reviewed contribution, complete and nothing
\* else, on the attested commit, whichever requests failed, were retried or lost
\* their answer and whatever other sessions wrote (execute_draft_write).
THEOREM DraftsAreTheCandidates == Spec => []DraftIsTheCandidate
<1>1. WritesInv => DraftIsTheCandidate
  <2> SUFFICES ASSUME WritesInv, NEW d \in drafts
               PROVE  LET changes == Elements(Changes(d.candidate))
                      IN /\ branches[d.branch].base = d.capsule.base
                         /\ DOMAIN branches[d.branch].files = {c.path : c \in changes}
                         /\ \A c \in changes : branches[d.branch].files[c.path] = c.new
    BY DEF DraftIsTheCandidate
  <2> DEFINE changes == Changes(d.candidate)
  <2>1. DraftIsWritten(d, branches)
    BY DEF WritesInv, DraftsAreWritten
  <2>2. DOMAIN changes = 1..Len(changes)
    BY <2>1, PublicationAssumption, ChangesOf DEF DraftIsWritten
  <2>3. UpTo(branches[d.branch].files, changes, Len(changes))
    BY <2>1 DEF DraftIsWritten
  <2>4. branches[d.branch].base = d.capsule.base
    BY <2>1 DEF DraftIsWritten
  <2> HIDE DEF changes
  <2>5. /\ DOMAIN branches[d.branch].files = {c.path : c \in Elements(changes)}
        /\ \A c \in Elements(changes) : branches[d.branch].files[c.path] = c.new
    BY <2>2, <2>3 DEF Elements, UpTo
  <2> QED
    BY <2>4, <2>5 DEF changes
<1> QED
  BY <1>1, SpecWrites, PTL

\* Nothing that is done to the rows of the audit table leaves a chain that
\* verifies and was never issued (verify_admission_audit_chain_in).
THEOREM ValidLedgersWereIssued == Spec => []ValidLedgerWasIssued
<1>1. Init => RowsIssued
  BY DEF Init, RowsIssued
<1>2. Inv /\ RowsIssued => ValidLedgerWasIssued
  <2> SUFFICES ASSUME Inv, RowsIssued, ChainIsValid(ledger)
               PROVE  [i \in DOMAIN ledger |-> Material(ledger[i].body)] \in issued \cup {NoReceipt}
    BY DEF ValidLedgerWasIssued
  <2>1. Len(ledger) \in Nat /\ DOMAIN ledger = 1..Len(ledger)
    BY DEF Inv, IsLedger
  <2> DEFINE n == Len(ledger)
             all == [i \in DOMAIN ledger |-> Material(ledger[i].body)]
  <2>2. all = Materials(ledger, n)
    BY <2>1 DEF Materials
  <2>3. CASE n = 0
    <3>1. all = <<>>
      BY <2>1, <2>3
    <3> QED
      BY <3>1 DEF NoReceipt
  <2>4. CASE n # 0
    <3>1. n \in 1..n /\ n \in DOMAIN ledger
      BY <2>1, <2>4
    <3>2. ledger[n].receipt = Materials(ledger, n)
      BY <3>1, ChainedReceipts DEF Inv
    <3> QED
      BY <2>2, <3>1, <3>2 DEF RowsIssued
  <2> QED
    BY <2>3, <2>4
<1> QED
  BY <1>1, <1>2, SpecInv, NextIssues, PTL DEF Spec
=============================================================================
